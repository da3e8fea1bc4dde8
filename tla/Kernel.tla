------------------------------- MODULE Kernel -------------------------------
(***************************************************************************)
(* The life of programs and terminals in student-distrib: execute and halt *)
(* (systemcall.c), terminal_switch (terminal.c), the run queue             *)
(* (scheduler.c) and the return path of the system call gate               *)
(* (idt_linkage.S), statement by statement.                                *)
(*                                                                         *)
(* One thread of control exists per opened terminal and only the one of    *)
(* the terminal on the screen runs: the scheduler's irq 0 is never enabled *)
(* (kernel.c 194).  System calls go through a trap gate and leave          *)
(* interrupts on, so the keyboard interrupt can switch terminals between   *)
(* any two statements of execute and halt; the interrupt itself runs with  *)
(* interrupts off and is one step.  The code is built without              *)
(* optimisation: at a label every local is in the stack frame of its       *)
(* thread.                                                                 *)
(*                                                                         *)
(* Two history variables, which no step reads, record where the switches   *)
(* landed: torn, that one caught execute or halt with half of their tables *)
(* updated, and clobbered, the threads whose result was overwritten by the *)
(* switch or by another thread.                                            *)
(***************************************************************************)
EXTENDS Integers, FiniteSets

CONSTANTS MaxTask,      \* usable slots of openTasks: 6
          MaxTerm,      \* MAXTERMS: 3
          Status        \* the values programs pass to halt, out of 0 .. 255

(* What the thread of a terminal does next.                                *)
UserLabels == {"user", "returned"}      \* in user mode; "returned" has a result in eax
ExecuteLabels == {"scan", "claim", "queue", "bind", "save", "page", "enter"}
HaltLabels == {"hqueue", "hbind", "hpage", "hfree", "hclose"}
ReturnLabels == {"ret", "sysret", "sysload"}
StuckLabels == {"hang", "trashed"}      \* while (1), or a kernel stack given away
Labels == UserLabels \cup {"call"} \cup ExecuteLabels \cup HaltLabels
            \cup ReturnLabels \cup StuckLabels

(* The labels at which execute and halt have half of their tables updated: *)
(* the slot found but not claimed, program_id set but not the page         *)
(* directory, the directory of the parent loaded but the slot not free, or *)
(* the slot free but its kernel stack still in use.                        *)
HalfUpdated == {"claim", "save", "page", "hpage", "hfree", "hclose"}

(* The labels at which a result waits in curr_status, in eax or in         *)
(* returnValue, of which there is one for all threads.                     *)
InStatus == HaltLabels \cup {"ret"}
InEax == {"sysret", "returned"}
InReturnValue == {"sysload"}

ASSUME MaxTaskAssumption == MaxTask \in Nat \ {0}
ASSUME MaxTermAssumption == MaxTerm \in Nat \ {0}
ASSUME StatusAssumption == Status # {} /\ Status \subseteq 0 .. 255

Tasks == 1 .. MaxTask
Terms == 0 .. MaxTerm - 1

FREE == -1          \* openTasks of an empty slot
VIDEO == -1         \* the video page of a program is mapped to the screen
NULL == -2          \* an empty slot of the run queue
NOTERM == -1        \* find_terminal's failure, and &terminals[-1] in the queue
FAIL == -1          \* what execute returns for a command it cannot run
JUNK == -2          \* a register nobody restored
Results == Status \cup {FAIL}

VARIABLES
    machine,            \* "boot", "up", "frozen" (spins with interrupts off), "lost"
    cr3,                \* find_programid(): the pid whose page directory is loaded
    esp0,               \* tss.esp0, as the pid whose kernel stack it points to
    eax,                \* the result register, where it is live
    openTasks,          \* [Tasks -> {FREE, 0} \cup Tasks]
    newterminal_flag,   \* 1 between terminal_switch and the execute it calls
    old_terminal,       \* the terminal on the screen
    active,             \* the terminals t with terminals[t].active = 1
    program_id,         \* terminals[t].program_id
    term_cr3,           \* terminals[t].cr3
    tasks,              \* the run queue: terminals, NOTERM or NULL
    frame,              \* who saved PCB(p)->esp: "none", "own" execute, or "irq"
    vmap,               \* the video page of p: VIDEO or the buffer of a terminal
    curr_status,        \* the global that halt leaves the status in
    returnValue,        \* the global of syscall_wrapper
    pc, cur, new,       \* per thread: label, cur_programid, new/parent_programid
    expected,           \* per thread: the result its system call has computed
    torn,               \* history: a switch has landed at a label of HalfUpdated
    clobbered           \* history: the threads whose result was overwritten

cpu == <<cr3, esp0, eax>>
terminals == <<active, program_id, term_cr3>>
globals == <<curr_status, returnValue>>
locals == <<cur, new, expected>>
history == <<torn, clobbered>>
vars == <<machine, cpu, openTasks, newterminal_flag, old_terminal, terminals,
          tasks, frame, vmap, globals, pc, locals, history>>

-----------------------------------------------------------------------------
(* Helpers of the code.                                                    *)

(* The lowest index of f that holds v, or none.                            *)
FirstWith(f, v, none) ==
    IF \E i \in Terms : f[i] = v
      THEN CHOOSE i \in Terms : f[i] = v /\ \A j \in Terms : f[j] = v => i <= j
      ELSE none

(* The lowest terminal whose program_id, as in pids, is p, or NOTERM.      *)
find_terminal(pids, p) == FirstWith(pids, p, NOTERM)

(* The queue after add_task_to_queue(&terminals[t]): current_task_idx stays *)
(* 0, so the first empty slot is taken, and nothing happens without one.    *)
add_task_to_queue(q, t) ==
    [i \in Terms |-> IF i = FirstWith(q, NULL, NULL) THEN t ELSE q[i]]

(* The queue after remove_task_from_queue(&terminals[t]): the first entry  *)
(* that points to t is emptied, and nothing happens without one.           *)
remove_task_from_queue(q, t) ==
    [i \in Terms |-> IF i = FirstWith(q, t, NULL) THEN NULL ELSE q[i]]

(* The SCHEDULING block that execute and halt share: the terminal of from  *)
(* leaves the queue unless keep, and the terminal of to enters it.         *)
Requeue(q, pids, from, to, keep) ==
    LET t == find_terminal(pids, from)
    IN  IF t = NOTERM THEN q
        ELSE add_task_to_queue(IF keep THEN q ELSE remove_task_from_queue(q, t),
                               find_terminal(pids, to))

(* The slot that the scan of an uninterrupted execute takes.               *)
FirstFree(n) == openTasks[n] = FREE /\ \A m \in Tasks : openTasks[m] = FREE => n <= m

(* The video page of every program leads to the screen at first            *)
(* (paging_initialize), and again once its terminal is shown.              *)
paging_initialize == [p \in Tasks |-> VIDEO]
video_mapping(m, p) == [m EXCEPT ![p] = VIDEO]

-----------------------------------------------------------------------------
(* Threads.                                                                *)

fg == old_terminal
ThreadCr3(t) == IF t = old_terminal THEN cr3 ELSE term_cr3[t]
ParentIn(t) == new[t]                   \* halt's parent_programid

(* The pid whose 8 KB kernel stack the thread of t stands on.              *)
StackOf(t) == IF pc[t] \in ExecuteLabels \cup HaltLabels THEN cur[t] ELSE ThreadCr3(t)

Running(l) == machine = "up" /\ pc[fg] = l
Goto(l) == pc' = [pc EXCEPT ![fg] = l]

(* tss.esp0 = MB_8 - KB_8 * (n - 1) - PREV: the top of kernel stack n.      *)
KernelStack_off(n) == n - 1             \* mutant: MB_8 - KB_8 * n
KernelStack(n) == n

(* The other threads whose result waits at one of the labels L.            *)
Waiting(L) == {t \in Terms \ {fg} : pc[t] \in L}

(* The thread on the screen has a result nobody has touched; the same step *)
(* overwrites what the others have waiting at one of the labels L.         *)
Spared(L) == (clobbered \cup Waiting(L)) \ {fg}

(* The first trap of a program that starts in slot n overwrites whatever   *)
(* another thread still had on kernel stack n.                             *)
EnterUser(t, n) ==
    pc' = [u \in Terms |-> IF u = t THEN "user"
                           ELSE IF u \in active /\ StackOf(u) = n THEN "trashed"
                           ELSE pc[u]]

Init ==
    /\ machine = "boot"
    /\ cr3 = 0 /\ esp0 = 1              \* tss.esp0 = 0x800000, on stack 1
    /\ eax = JUNK
    /\ openTasks = [n \in Tasks |-> FREE]
    /\ newterminal_flag = 0
    /\ old_terminal = 0
    /\ active = {0}
    /\ program_id = [t \in Terms |-> 0]
    /\ term_cr3 = [t \in Terms |-> 0]
    /\ tasks = [i \in Terms |-> IF i = 0 THEN 0 ELSE NULL]
    /\ frame = [p \in Tasks |-> "none"]
    /\ vmap = paging_initialize
    /\ curr_status = FAIL /\ returnValue = 0
    /\ pc = [t \in Terms |-> "user"]
    /\ cur = [t \in Terms |-> 0]
    /\ new = [t \in Terms |-> 0]
    /\ expected = [t \in Terms |-> FAIL]
    /\ torn = FALSE
    /\ clobbered = {}

-----------------------------------------------------------------------------
(* execute, called from user mode.                                         *)

(* The name is too long, is no file, or the file is no ELF executable.     *)
execute_fail ==
    /\ Running("user")
    /\ eax' = FAIL
    /\ expected' = [expected EXCEPT ![fg] = FAIL]
    /\ clobbered' = Spared({})
    /\ Goto("sysret")
    /\ UNCHANGED <<machine, cr3, esp0, openTasks, newterminal_flag, old_terminal,
                   terminals, tasks, frame, vmap, globals, cur, new, torn>>

(* A NULL command or an argument of more than 128 characters: while (1).   *)
execute_hang ==
    /\ Running("user")
    /\ Goto("hang")
    /\ UNCHANGED <<machine, cpu, openTasks, newterminal_flag, old_terminal,
                   terminals, tasks, frame, vmap, globals, locals, history>>

execute_begin ==
    /\ Running("user")
    /\ cur' = [cur EXCEPT ![fg] = cr3]
    /\ new' = [new EXCEPT ![fg] = 1]
    /\ Goto("scan")
    /\ UNCHANGED <<machine, cpu, openTasks, newterminal_flag, old_terminal,
                   terminals, tasks, frame, vmap, globals, expected, history>>

NextSlot_stuck(i) == i                  \* mutant: the loop forgets i++
NextSlot(i) == i + 1

(* One turn of the loop over openTasks.  Slot MaxTask + 1 is the word after *)
(* the array, which never holds -1: the caller spins in "open task error".  *)
execute_scan ==
    /\ Running("scan")
    /\ \/ /\ new[fg] > MaxTask
          /\ Goto("hang")
          /\ UNCHANGED new
       \/ /\ new[fg] \in Tasks
          /\ openTasks[new[fg]] = FREE
          /\ Goto("claim")
          /\ UNCHANGED new
       \/ /\ new[fg] \in Tasks
          /\ openTasks[new[fg]] # FREE
          /\ new' = [new EXCEPT ![fg] = NextSlot(@)]
          /\ UNCHANGED pc
    /\ UNCHANGED <<machine, cpu, openTasks, newterminal_flag, old_terminal,
                   terminals, tasks, frame, vmap, globals, cur, expected, history>>

Owner_root(t) == 0                      \* mutant: newterminal_flag never cleared
Owner(t) == IF newterminal_flag = 1 THEN 0 ELSE cur[t]

execute_claim ==
    /\ Running("claim")
    /\ openTasks' = [openTasks EXCEPT ![new[fg]] = Owner(fg)]
    /\ newterminal_flag' = 0
    /\ Goto("queue")
    /\ UNCHANGED <<machine, cpu, old_terminal, terminals, tasks, frame, vmap,
                   globals, locals, history>>

execute_queue ==
    /\ Running("queue")
    /\ tasks' = Requeue(tasks, program_id, cur[fg], new[fg], openTasks[new[fg]] = 0)
    /\ Goto("bind")
    /\ UNCHANGED <<machine, cpu, openTasks, newterminal_flag, old_terminal,
                   terminals, frame, vmap, globals, locals, history>>

execute_bind ==
    /\ Running("bind")
    /\ program_id' = [program_id EXCEPT ![fg] = new[fg]]
    /\ Goto("save")
    /\ UNCHANGED <<machine, cpu, openTasks, newterminal_flag, old_terminal, active,
                   term_cr3, tasks, frame, vmap, globals, locals, history>>

(* esp and ebp of the caller go to its PCB.                                *)
SavedFrame_none(p) == frame             \* mutant: the PCB is not written
SavedFrame(p) == [frame EXCEPT ![p] = "own"]

execute_save ==
    /\ Running("save")
    /\ frame' = SavedFrame(cur[fg])
    /\ Goto("page")
    /\ UNCHANGED <<machine, cpu, openTasks, newterminal_flag, old_terminal,
                   terminals, tasks, vmap, globals, locals, history>>

(* page_loader: the page directory of the new program, then its image.     *)
execute_page ==
    /\ Running("page")
    /\ cr3' = new[fg]
    /\ Goto("enter")
    /\ UNCHANGED <<machine, esp0, eax, openTasks, newterminal_flag, old_terminal,
                   terminals, tasks, frame, vmap, globals, locals, history>>

(* tss.esp0 and the iret to the entry point.                               *)
execute_enter ==
    /\ Running("enter")
    /\ esp0' = KernelStack(new[fg])
    /\ frame' = [frame EXCEPT ![new[fg]] = "none"]
    /\ EnterUser(fg, new[fg])
    /\ cur' = [cur EXCEPT ![fg] = 0]
    /\ new' = [new EXCEPT ![fg] = 0]
    /\ UNCHANGED <<machine, cr3, eax, openTasks, newterminal_flag, old_terminal,
                   terminals, tasks, vmap, globals, expected, history>>

-----------------------------------------------------------------------------
(* halt.                                                                   *)

halt_begin(status) ==
    /\ Running("user")
    /\ cur' = [cur EXCEPT ![fg] = cr3]
    /\ new' = [new EXCEPT ![fg] = openTasks[cr3]]
    /\ curr_status' = status
    /\ expected' = [expected EXCEPT ![fg] = status]
    /\ clobbered' = Spared(InStatus)
    /\ Goto("hqueue")
    /\ UNCHANGED <<machine, cpu, openTasks, newterminal_flag, old_terminal,
                   terminals, tasks, frame, vmap, returnValue, torn>>

(* The queue, and the restart of a shell that has no parent.               *)
halt_queue ==
    /\ Running("hqueue")
    /\ tasks' = Requeue(tasks, program_id, cur[fg], ParentIn(fg), openTasks[cur[fg]] = 0)
    /\ \/ /\ ParentIn(fg) = 0
          /\ cur' = [cur EXCEPT ![fg] = 0]
          /\ expected' = [expected EXCEPT ![fg] = FAIL]
          /\ Goto("user")
       \/ /\ ParentIn(fg) # 0
          /\ Goto("hbind")
          /\ UNCHANGED <<cur, expected>>
    /\ UNCHANGED <<machine, cpu, openTasks, newterminal_flag, old_terminal,
                   terminals, frame, vmap, globals, new, history>>

BackTo_kept(p) == program_id            \* mutant: halt leaves program_id alone
BackTo(p) == [program_id EXCEPT ![fg] = p]

halt_bind ==
    /\ Running("hbind")
    /\ program_id' = BackTo(ParentIn(fg))
    /\ Goto("hpage")
    /\ UNCHANGED <<machine, cpu, openTasks, newterminal_flag, old_terminal, active,
                   term_cr3, tasks, frame, vmap, globals, locals, history>>

(* set_programpage(parent_programid) spins on a pid that has no directory. *)
halt_page ==
    /\ Running("hpage")
    /\ \/ /\ ParentIn(fg) \in Tasks
          /\ cr3' = ParentIn(fg)
          /\ Goto("hfree")
       \/ /\ ParentIn(fg) \notin Tasks
          /\ Goto("hang")
          /\ UNCHANGED cr3
    /\ UNCHANGED <<machine, esp0, eax, openTasks, newterminal_flag, old_terminal,
                   terminals, tasks, frame, vmap, globals, locals, history>>

halt_free ==
    /\ Running("hfree")
    /\ openTasks' = [openTasks EXCEPT ![cur[fg]] = FREE]
    /\ Goto("hclose")
    /\ UNCHANGED <<machine, cpu, newterminal_flag, old_terminal, terminals, tasks,
                   frame, vmap, globals, locals, history>>

(* close the descriptors, load tss.esp0 and the parent's esp and ebp, jump *)
(* to halt_ret_label.  A frame that the parent's execute did not save      *)
(* leads nowhere: control is lost.                                         *)
halt_resume ==
    /\ Running("hclose")
    /\ esp0' = KernelStack(ParentIn(fg))
    /\ machine' = IF frame[ParentIn(fg)] = "own" THEN "up" ELSE "lost"
    /\ frame' = [frame EXCEPT ![ParentIn(fg)] = "none"]
    /\ cur' = [cur EXCEPT ![fg] = 0]
    /\ new' = [new EXCEPT ![fg] = 0]
    /\ Goto("ret")
    /\ UNCHANGED <<cr3, eax, openTasks, newterminal_flag, old_terminal, terminals,
                   tasks, vmap, globals, expected, history>>

-----------------------------------------------------------------------------
(* The way back to user mode.                                              *)

(* Another system call of the program; terminal_read and rtc_read wait     *)
(* here.  v stands for the result it computes.                             *)
call_begin ==
    /\ Running("user")
    /\ Goto("call")
    /\ UNCHANGED <<machine, cpu, openTasks, newterminal_flag, old_terminal,
                   terminals, tasks, frame, vmap, globals, locals, history>>

call_end(v) ==
    /\ Running("call")
    /\ eax' = v
    /\ expected' = [expected EXCEPT ![fg] = v]
    /\ clobbered' = Spared({})
    /\ Goto("sysret")
    /\ UNCHANGED <<machine, cr3, esp0, openTasks, newterminal_flag, old_terminal,
                   terminals, tasks, frame, vmap, globals, cur, new, torn>>

(* halt_ret_label: return curr_status.                                     *)
execute_return ==
    /\ Running("ret")
    /\ eax' = curr_status
    /\ Goto("sysret")
    /\ UNCHANGED <<machine, cr3, esp0, openTasks, newterminal_flag, old_terminal,
                   terminals, tasks, frame, vmap, globals, locals, history>>

(* movl %eax, returnValue                                                  *)
syscall_store ==
    /\ Running("sysret")
    /\ returnValue' = eax
    /\ clobbered' = clobbered \cup Waiting(InReturnValue)
    /\ eax' = JUNK
    /\ Goto("sysload")
    /\ UNCHANGED <<machine, cr3, esp0, openTasks, newterminal_flag, old_terminal,
                   terminals, tasks, frame, vmap, curr_status, locals, torn>>

Loaded_popped == JUNK                   \* mutant: popa has the last word on eax
Loaded == returnValue

(* popa; movl returnValue, %eax; iret                                      *)
syscall_iret ==
    /\ Running("sysload")
    /\ eax' = Loaded
    /\ Goto("returned")
    /\ UNCHANGED <<machine, cr3, esp0, openTasks, newterminal_flag, old_terminal,
                   terminals, tasks, frame, vmap, globals, locals, history>>

(* The program stores the result.                                          *)
user_result ==
    /\ Running("returned")
    /\ eax' = JUNK
    /\ expected' = [expected EXCEPT ![fg] = FAIL]
    /\ Goto("user")
    /\ UNCHANGED <<machine, cr3, esp0, openTasks, newterminal_flag, old_terminal,
                   terminals, tasks, frame, vmap, globals, cur, new, history>>

(* Every exception handler prints and spins behind an interrupt gate.      *)
exception ==
    /\ Running("user")
    /\ machine' = "frozen"
    /\ UNCHANGED <<cpu, openTasks, newterminal_flag, old_terminal, terminals,
                   tasks, frame, vmap, globals, pc, locals, history>>

-----------------------------------------------------------------------------
(* execute("shell") with interrupts off, for terminal t: the boot path and *)
(* the first switch to a terminal.  pid and q are the program_ids and the  *)
(* run queue it finds; the caller's esp and ebp, those of the interrupt    *)
(* handler, go to the PCB of the interrupted program.                      *)
StartShell(t, n, pid, q) ==
    /\ FirstFree(n)
    /\ openTasks' = [openTasks EXCEPT ![n] = 0]
    /\ tasks' = Requeue(q, pid, cr3, n, TRUE)
    /\ program_id' = [pid EXCEPT ![t] = n]
    /\ frame' = [p \in Tasks |-> IF p = n THEN "none"
                                 ELSE IF p = cr3 THEN "irq" ELSE frame[p]]
    /\ cr3' = n
    /\ esp0' = KernelStack(n)

boot(n) ==
    /\ machine = "boot"
    /\ StartShell(0, n, program_id, tasks)
    /\ machine' = "up"
    /\ UNCHANGED <<eax, newterminal_flag, old_terminal, active, term_cr3, vmap,
                   globals, pc, locals, history>>

(* save_terminal(old_terminal): registers, pid and the buffer mapping.     *)
SavedCr3 == [term_cr3 EXCEPT ![fg] = cr3]
SavedPid == [program_id EXCEPT ![fg] = cr3]
SavedMap_kept == vmap                   \* mutant: no non_video_mapping
SavedMap == [vmap EXCEPT ![cr3] = fg]

(* int 0x80 is a trap gate: Alt-Fn may come at every label.                *)
Interrupted == machine = "up"

(* What the switch has done to the thread it leaves.                       *)
SwitchRecorded ==
    /\ torn' = (torn \/ pc[fg] \in HalfUpdated)
    /\ clobbered' = IF pc[fg] \in InEax THEN clobbered \cup {fg} ELSE clobbered

(* Alt-Fn for a terminal that was never opened.  Without a free slot the   *)
(* nested execute spins with interrupts off.                               *)
terminal_switch_new(u) ==
    /\ Interrupted
    /\ u # fg
    /\ u \notin active
    /\ SwitchRecorded
    /\ old_terminal' = u
    /\ active' = active \cup {u}
    /\ term_cr3' = SavedCr3
    /\ vmap' = SavedMap
    /\ eax' = JUNK
    /\ \/ /\ \E n \in Tasks : /\ StartShell(u, n, SavedPid, add_task_to_queue(tasks, u))
                              /\ EnterUser(u, n)
          /\ newterminal_flag' = 0
          /\ UNCHANGED machine
       \/ /\ \A n \in Tasks : openTasks[n] # FREE
          /\ machine' = "frozen"
          /\ newterminal_flag' = 1
          /\ program_id' = SavedPid
          /\ tasks' = add_task_to_queue(tasks, u)
          /\ UNCHANGED <<openTasks, frame, cr3, esp0, pc>>
    /\ UNCHANGED <<globals, locals>>

(* tss.esp0 is computed from terminals[u].program_id, not from kernel_esp. *)
RestoredStack_kept(u) == esp0           \* mutant: tss.esp0 is not restored
RestoredStack(u) == KernelStack(program_id[u])

(* Alt-Fn back to an opened terminal: its page directory, kernel stack and *)
(* stack pointers come back, the other registers do not.  A thread whose   *)
(* kernel stack was reused does not survive that.                          *)
terminal_switch_back(u) ==
    /\ Interrupted
    /\ u # fg
    /\ u \in active
    /\ SwitchRecorded
    /\ old_terminal' = u
    /\ term_cr3' = SavedCr3
    /\ program_id' = SavedPid
    /\ vmap' = video_mapping(SavedMap, program_id[u])
    /\ cr3' = term_cr3[u]
    /\ esp0' = RestoredStack(u)
    /\ eax' = JUNK
    /\ machine' = IF pc[u] = "trashed" THEN "lost" ELSE "up"
    /\ UNCHANGED <<openTasks, newterminal_flag, active, tasks, frame, globals, pc,
                   locals>>

-----------------------------------------------------------------------------

(* The statements of execute, halt and the system call gate.               *)
KernelStep ==
    \/ execute_scan \/ execute_claim \/ execute_queue \/ execute_bind
    \/ execute_save \/ execute_page \/ execute_enter
    \/ halt_queue \/ halt_bind \/ halt_page \/ halt_free \/ halt_resume
    \/ execute_return \/ syscall_store \/ syscall_iret \/ user_result

UserStep ==
    \/ execute_begin \/ execute_fail \/ execute_hang
    \/ \E status \in Status : halt_begin(status)
    \/ call_begin \/ \E v \in Status : call_end(v)
    \/ exception

Next ==
    \/ \E n \in Tasks : boot(n)
    \/ KernelStep
    \/ UserStep
    \/ \E u \in Terms : terminal_switch_new(u) \/ terminal_switch_back(u)

Spec == Init /\ [][Next]_vars

(* Only the thread of the terminal on the screen runs.  The processor does *)
(* not stop between two statements, and key presses are far apart: a       *)
(* thread that is on the screen again and again makes its next statement.  *)
Fairness == \A t \in Terms : SF_vars(old_terminal = t /\ KernelStep)

FairSpec == Spec /\ Fairness

-----------------------------------------------------------------------------
(* Properties.                                                             *)

TypeOK ==
    /\ machine \in {"boot", "up", "frozen", "lost"}
    /\ cr3 \in 0 .. MaxTask
    /\ esp0 \in Tasks
    /\ eax \in Results \cup {0, JUNK}
    /\ openTasks \in [Tasks -> {FREE} \cup 0 .. MaxTask]
    /\ newterminal_flag \in {0, 1}
    /\ old_terminal \in Terms
    /\ active \subseteq Terms
    /\ program_id \in [Terms -> -1 .. MaxTask]
    /\ term_cr3 \in [Terms -> 0 .. MaxTask]
    /\ tasks \in [Terms -> Terms \cup {NOTERM, NULL}]
    /\ frame \in [Tasks -> {"none", "own", "irq"}]
    /\ vmap \in [Tasks -> Terms \cup {VIDEO}]
    /\ curr_status \in Results
    /\ returnValue \in Results \cup {0, JUNK}
    /\ pc \in [Terms -> Labels]
    /\ cur \in [Terms -> 0 .. MaxTask]
    /\ new \in [Terms -> -1 .. MaxTask + 1]
    /\ expected \in [Terms -> Results]
    /\ torn \in BOOLEAN
    /\ clobbered \subseteq Terms

(* The program of terminal t as openTasks sees it: the new one from the    *)
(* moment execute claims its slot, the old one until halt gives it back.   *)
LeafOf(t) ==
    IF t \notin active \/ (newterminal_flag = 1 /\ t = old_terminal) THEN 0
    ELSE IF pc[t] \in {"queue", "bind", "save", "page"} THEN new[t]
    ELSE IF pc[t] \in {"hqueue", "hbind", "hpage", "hfree"} THEN cur[t]
    ELSE ThreadCr3(t)

Table == INSTANCE TaskTable WITH parent <- openTasks,
                                 leaf <- [t \in Terms |-> LeafOf(t)],
                                 fg <- old_terminal

(* execute, halt and terminal_switch, interleaved statement by statement,  *)
(* act on openTasks as if each were one step: the claim of a slot is the   *)
(* whole of execute, the release of a slot is the whole of halt.  So it is *)
(* in every step up to the first switch that lands in HalfUpdated.  With   *)
(* the theorem ForestCorrect openTasks holds one chain of suspended        *)
(* programs per opened terminal up to there.                               *)
TableSpec == Table!Init /\ [][torn' \/ Table!Next]_(Table!vars)

(* No two terminals ever run the same pid, hence the same page directory,  *)
(* PCB and kernel stack.                                                   *)
PidUnique ==
    \A t, u \in Terms : t # u /\ LeafOf(t) # 0 => LeafOf(t) # LeafOf(u)

(* A program that is about to make a system call finds its own terminal:   *)
(* terminal_read indexes terminals[] with this value.                      *)
TerminalFound ==
    machine = "up" /\ pc[fg] \in UserLabels \cup {"call"}
        => find_terminal(program_id, cr3) = fg

(* So it does after any switches, as long as none landed in HalfUpdated.   *)
TerminalFoundUnlessTorn == torn \/ TerminalFound

(* The next trap from user mode lands on the kernel stack of the program   *)
(* that is running, never on that of another one.                          *)
KernelStackMatches ==
    machine = "up" /\ pc[fg] \in UserLabels \cup {"call"} => esp0 = cr3

(* halt always gets back into the execute call of its parent, and a        *)
(* terminal that is shown again finds its kernel stack as it left it.      *)
NeverLost == machine # "lost"

(* So it is, however deep the programs are nested and wherever switches    *)
(* landed outside HalfUpdated.                                             *)
NeverLostUnlessTorn == torn \/ NeverLost

(* The program on the screen writes to the screen, the program of every    *)
(* other terminal to the buffer of that terminal.                          *)
VideoVisible ==
    machine = "up" =>
        \A t \in Terms : t \in active =>
            vmap[ThreadCr3(t)] = IF t = old_terminal THEN VIDEO ELSE t

(* So it is at every label, as long as no switch landed in HalfUpdated.    *)
VideoVisibleUnlessTorn == torn \/ VideoVisible

(* The result that a program finds in eax is the one its own system call   *)
(* computed; for execute, the status its own child passed to halt.         *)
StatusDelivered == machine = "up" /\ pc[fg] = "returned" => eax = expected[fg]

(* A switch away and back does a result no harm while it is in curr_status *)
(* or returnValue; only a halt, respectively a system call of another      *)
(* terminal in the meantime does, or a switch while it is in eax.          *)
StatusUnlessClobbered ==
    machine = "up" /\ pc[fg] = "returned" /\ fg \notin clobbered => eax = expected[fg]

(* A thread inside execute, halt or the return path comes out of it, into  *)
(* user mode or into one of the while (1) loops, provided its terminal is  *)
(* shown again and again and the machine keeps running.                    *)
InKernel(t) == pc[t] \in ExecuteLabels \cup HaltLabels \cup ReturnLabels
CallsFinish ==
    \A t \in Terms :
        []<>(old_terminal = t /\ machine = "up") => (InKernel(t) ~> ~InKernel(t))
=============================================================================
