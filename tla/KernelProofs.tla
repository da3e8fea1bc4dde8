---------------------------- MODULE KernelProofs ----------------------------
(***************************************************************************)
(* What holds of Kernel wherever the keyboard interrupt strikes: the       *)
(* types, the kernel stack of the running program, and the delivery of     *)
(* every result that no switch and no other thread has overwritten; then   *)
(* what holds up to the first switch that tears execute or halt apart.     *)
(***************************************************************************)
EXTENDS Kernel, WellFoundedInduction, TLAPS

LEMMA ConstantFacts ==
    /\ Tasks \subseteq Nat \ {0}
    /\ \A n : n \in Tasks <=> n \in Nat /\ 1 <= n /\ n <= MaxTask
    /\ \A n : n \in Terms <=> n \in Nat /\ n < MaxTerm
    /\ 0 \in Terms /\ 1 \in Tasks
    /\ FAIL \in Results /\ Status \subseteq Results
  BY MaxTaskAssumption, MaxTermAssumption DEF Tasks, Terms, Results

(* find_terminal returns a terminal or NOTERM.                             *)
LEMMA FirstWithType ==
    ASSUME NEW f, NEW v, NEW none
    PROVE  FirstWith(f, v, none) \in Terms \cup {none}
  <1>. DEFINE T == {i \in Terms : f[i] = v}
              Lt == OpToRel(<, Nat)
  <1>1. CASE T = {}
    BY <1>1 DEF FirstWith
  <1>2. CASE T # {}
    <2>1. T \subseteq Nat
      BY ConstantFacts
    <2>2. IsWellFoundedOn(Lt, Nat)
      BY NatLessThanWellFounded
    <2>3. PICK i \in T : \A j \in T : <<j, i>> \notin Lt
      <3>. HIDE DEF T, Lt
      <3>. QED  BY <1>2, <2>1, <2>2, WFMin
    <2>4. \A j \in T : i <= j
      <3>. SUFFICES ASSUME NEW j \in T, j < i PROVE FALSE
        BY <2>1
      <3>1. <<j, i>> \in Lt
        BY <2>1 DEF OpToRel
      <3>. QED  BY <2>3, <3>1
    <2>. QED  BY <2>4 DEF FirstWith
  <1>. QED  BY <1>1, <1>2

QueueType == [Terms -> Terms \cup {NOTERM, NULL}]

LEMMA RequeueType ==
    ASSUME NEW q \in QueueType, NEW pids, NEW from, NEW to, NEW keep
    PROVE  Requeue(q, pids, from, to, keep) \in QueueType
  <1>1. find_terminal(pids, to) \in Terms \cup {NOTERM}
    BY FirstWithType DEF find_terminal
  <1>2. \A r \in QueueType, t \in Terms \cup {NOTERM} : add_task_to_queue(r, t) \in QueueType
    BY DEF QueueType, add_task_to_queue
  <1>3. \A t : remove_task_from_queue(q, t) \in QueueType
    BY DEF QueueType, remove_task_from_queue
  <1>. QED  BY <1>1, <1>2, <1>3 DEF Requeue

-----------------------------------------------------------------------------
(* The inductive invariant.                                                *)

(* The locals of a thread are in range where they are used as indices.     *)
LocalsInRange ==
    \A t \in Terms :
        /\ pc[t] \in ExecuteLabels \cup HaltLabels => cur[t] \in Tasks
        /\ pc[t] \in ExecuteLabels => new[t] \in 1 .. MaxTask + 1
        /\ pc[t] \in ExecuteLabels \ {"scan"} => new[t] \in Tasks
        /\ pc[t] \in HaltLabels => new[t] \in -1 .. MaxTask
        /\ pc[t] \in {"hfree", "hclose"} => new[t] \in Tasks

(* A thread that has loaded a page directory for the second half of        *)
(* execute or halt finds that directory loaded whenever it runs.           *)
DirectoryFollowsThread ==
    \A t \in Terms : pc[t] \in {"enter", "hfree", "hclose"} => ThreadCr3(t) = new[t]

(* What save_terminal leaves behind, terminal_switch finds.                *)
BackgroundSaved ==
    \A t \in Terms : t \in active /\ t # old_terminal =>
        term_cr3[t] \in Tasks /\ program_id[t] = term_cr3[t]

(* tss.esp0 is right from the way into user mode up to the restart of a    *)
(* shell that halts.                                                       *)
StackFollowsDirectory ==
    pc[old_terminal] \in UserLabels \cup {"call", "hqueue"} \cup ReturnLabels
        => esp0 = cr3

BootState == old_terminal = 0 /\ pc[0] = "user"

StackInv ==
    /\ LocalsInRange
    /\ machine = "boot" => BootState /\ DirectoryFollowsThread /\ BackgroundSaved
    /\ machine = "up" => /\ cr3 \in Tasks
                         /\ DirectoryFollowsThread
                         /\ BackgroundSaved
                         /\ StackFollowsDirectory

IInv == TypeOK /\ StackInv

LEMMA InitInv == Init => IInv
  <1>. SUFFICES ASSUME Init PROVE IInv
    OBVIOUS
  <1>3. torn \in BOOLEAN /\ clobbered \subseteq Terms
    BY DEF Init
  <1>1. TypeOK
    BY <1>3, ConstantFacts, MaxTaskAssumption, StatusAssumption
       DEF Init, paging_initialize, TypeOK, Results, Labels, UserLabels, FREE, VIDEO, NULL, NOTERM, FAIL, JUNK
  <1>2. StackInv
    BY ConstantFacts
       DEF Init, StackInv, LocalsInRange, DirectoryFollowsThread, BackgroundSaved,
           BootState, ExecuteLabels, HaltLabels
  <1>. QED  BY <1>1, <1>2 DEF IInv
(* The statements of execute.                                              *)
LEMMA ExecuteInv ==
    ASSUME IInv,
           \/ execute_fail \/ execute_hang \/ execute_begin \/ execute_scan
           \/ execute_claim \/ execute_queue \/ execute_bind \/ execute_save
           \/ execute_page \/ execute_enter
    PROVE  IInv'
  <1>. USE ConstantFacts, MaxTaskAssumption
       DEF IInv, TypeOK, StackInv, LocalsInRange, QueueType, Labels, UserLabels, ExecuteLabels, HaltLabels, ReturnLabels,
           StuckLabels, Running, Goto, fg, cpu, terminals, globals, locals, history
  <1>1. CASE execute_fail
    <2>1. TypeOK'
      BY <1>1 DEF execute_fail, Spared, Waiting
    <2>2. StackInv'
      BY <1>1 DEF execute_fail, Spared, Waiting,
           DirectoryFollowsThread, BackgroundSaved, StackFollowsDirectory,
           BootState, ThreadCr3
    <2>. QED  BY <2>1, <2>2
  <1>2. CASE execute_hang
    <2>1. TypeOK'
      BY <1>2 DEF execute_hang
    <2>2. StackInv'
      BY <1>2 DEF execute_hang,
           DirectoryFollowsThread, BackgroundSaved, StackFollowsDirectory,
           BootState, ThreadCr3
    <2>. QED  BY <2>1, <2>2
  <1>3. CASE execute_begin
    <2>1. TypeOK'
      BY <1>3 DEF execute_begin
    <2>2. StackInv'
      BY <1>3 DEF execute_begin,
           DirectoryFollowsThread, BackgroundSaved, StackFollowsDirectory,
           BootState, ThreadCr3
    <2>. QED  BY <2>1, <2>2
  <1>4. CASE execute_scan
    <2>1. TypeOK'
      BY <1>4 DEF execute_scan, NextSlot
    <2>2. StackInv'
      BY <1>4 DEF execute_scan, NextSlot,
           DirectoryFollowsThread, BackgroundSaved, StackFollowsDirectory,
           BootState, ThreadCr3
    <2>. QED  BY <2>1, <2>2
  <1>5. CASE execute_claim
    <2>1. TypeOK'
      BY <1>5 DEF execute_claim, Owner
    <2>2. StackInv'
      BY <1>5 DEF execute_claim, Owner,
           DirectoryFollowsThread, BackgroundSaved, StackFollowsDirectory,
           BootState, ThreadCr3
    <2>. QED  BY <2>1, <2>2
  <1>6. CASE execute_queue
    <2>1. TypeOK'
      BY <1>6, RequeueType DEF execute_queue
    <2>2. StackInv'
      BY <1>6, RequeueType DEF execute_queue,
           DirectoryFollowsThread, BackgroundSaved, StackFollowsDirectory,
           BootState, ThreadCr3
    <2>. QED  BY <2>1, <2>2
  <1>7. CASE execute_bind
    <2>1. TypeOK'
      BY <1>7 DEF execute_bind
    <2>2. StackInv'
      BY <1>7 DEF execute_bind,
           DirectoryFollowsThread, BackgroundSaved, StackFollowsDirectory,
           BootState, ThreadCr3
    <2>. QED  BY <2>1, <2>2
  <1>8. CASE execute_save
    <2>1. TypeOK'
      BY <1>8 DEF execute_save, SavedFrame
    <2>2. StackInv'
      BY <1>8 DEF execute_save, SavedFrame,
           DirectoryFollowsThread, BackgroundSaved, StackFollowsDirectory,
           BootState, ThreadCr3
    <2>. QED  BY <2>1, <2>2
  <1>9. CASE execute_page
    <2>1. TypeOK'
      BY <1>9 DEF execute_page
    <2>2. StackInv'
      BY <1>9 DEF execute_page,
           DirectoryFollowsThread, BackgroundSaved, StackFollowsDirectory,
           BootState, ThreadCr3
    <2>. QED  BY <2>1, <2>2
  <1>10. CASE execute_enter
    <2>1. TypeOK'
      BY <1>10 DEF execute_enter, KernelStack, EnterUser
    <2>2. StackInv'
      BY <1>10 DEF execute_enter, KernelStack, EnterUser,
           DirectoryFollowsThread, BackgroundSaved, StackFollowsDirectory,
           BootState, ThreadCr3
    <2>. QED  BY <2>1, <2>2
  <1>. QED  BY <1>1, <1>2, <1>3, <1>4, <1>5, <1>6, <1>7, <1>8, <1>9, <1>10
(* The statements of halt.                                                 *)
LEMMA HaltInv ==
    ASSUME IInv,
           \/ \E s \in Status : halt_begin(s)
           \/ halt_queue \/ halt_bind \/ halt_page \/ halt_free \/ halt_resume
    PROVE  IInv'
  <1>. USE ConstantFacts, MaxTaskAssumption
       DEF IInv, TypeOK, StackInv, LocalsInRange, QueueType, Labels, UserLabels, ExecuteLabels, HaltLabels, ReturnLabels,
           StuckLabels, Running, Goto, fg, cpu, terminals, globals, locals, history
  <1>1. ASSUME NEW s \in Status, halt_begin(s) PROVE IInv'
    <2>1. TypeOK'
      BY <1>1 DEF halt_begin, FREE, Spared, Waiting
    <2>2. StackInv'
      BY <1>1 DEF halt_begin, FREE, Spared, Waiting,
           DirectoryFollowsThread, BackgroundSaved, StackFollowsDirectory,
           BootState, ThreadCr3
    <2>. QED  BY <2>1, <2>2
  <1>2. CASE halt_queue
    <2>1. tasks' \in QueueType
      BY <1>2, RequeueType DEF halt_queue
    <2>2. TypeOK'
      BY <1>2, <2>1 DEF halt_queue, ParentIn
    <2>3. StackInv'
      BY <1>2 DEF halt_queue, ParentIn,
           DirectoryFollowsThread, BackgroundSaved, StackFollowsDirectory,
           BootState, ThreadCr3
    <2>. QED  BY <2>2, <2>3
  <1>3. CASE halt_bind
    <2>1. TypeOK'
      BY <1>3 DEF halt_bind, ParentIn, BackTo
    <2>2. StackInv'
      BY <1>3 DEF halt_bind, ParentIn, BackTo,
           DirectoryFollowsThread, BackgroundSaved, StackFollowsDirectory,
           BootState, ThreadCr3
    <2>. QED  BY <2>1, <2>2
  <1>4. CASE halt_page
    <2>1. TypeOK'
      BY <1>4 DEF halt_page, ParentIn
    <2>2. StackInv'
      BY <1>4 DEF halt_page, ParentIn,
           DirectoryFollowsThread, BackgroundSaved, StackFollowsDirectory,
           BootState, ThreadCr3
    <2>. QED  BY <2>1, <2>2
  <1>5. CASE halt_free
    <2>1. TypeOK'
      BY <1>5 DEF halt_free
    <2>2. StackInv'
      BY <1>5 DEF halt_free,
           DirectoryFollowsThread, BackgroundSaved, StackFollowsDirectory,
           BootState, ThreadCr3
    <2>. QED  BY <2>1, <2>2
  <1>6. CASE halt_resume
    <2>1. TypeOK'
      BY <1>6 DEF halt_resume, ParentIn, KernelStack
    <2>2. StackInv'
      BY <1>6 DEF halt_resume, ParentIn, KernelStack,
           DirectoryFollowsThread, BackgroundSaved, StackFollowsDirectory,
           BootState, ThreadCr3
    <2>. QED  BY <2>1, <2>2
  <1>. QED  BY <1>1, <1>2, <1>3, <1>4, <1>5, <1>6

(* The return path, the other system calls and the exceptions.             *)
LEMMA ReturnInv ==
    ASSUME IInv,
           \/ call_begin \/ \E v \in Status : call_end(v)
           \/ execute_return \/ syscall_store \/ syscall_iret \/ user_result
           \/ exception
    PROVE  IInv'
  <1>. USE ConstantFacts, MaxTaskAssumption
       DEF IInv, TypeOK, StackInv, LocalsInRange, QueueType, Labels, UserLabels, ExecuteLabels, HaltLabels, ReturnLabels,
           StuckLabels, Running, Goto, fg, cpu, terminals, globals, locals, history
  <1>1. CASE call_begin
    <2>1. TypeOK'
      BY <1>1 DEF call_begin
    <2>2. StackInv'
      BY <1>1 DEF call_begin,
           DirectoryFollowsThread, BackgroundSaved, StackFollowsDirectory,
           BootState, ThreadCr3
    <2>. QED  BY <2>1, <2>2
  <1>2. ASSUME NEW v \in Status, call_end(v) PROVE IInv'
    <2>1. TypeOK'
      BY <1>2 DEF call_end, Spared, Waiting
    <2>2. StackInv'
      BY <1>2 DEF call_end, Spared, Waiting,
           DirectoryFollowsThread, BackgroundSaved, StackFollowsDirectory,
           BootState, ThreadCr3
    <2>. QED  BY <2>1, <2>2
  <1>3. CASE execute_return
    <2>1. TypeOK'
      BY <1>3 DEF execute_return
    <2>2. StackInv'
      BY <1>3 DEF execute_return,
           DirectoryFollowsThread, BackgroundSaved, StackFollowsDirectory,
           BootState, ThreadCr3
    <2>. QED  BY <2>1, <2>2
  <1>4. CASE syscall_store
    <2>1. TypeOK'
      BY <1>4 DEF syscall_store, Waiting
    <2>2. StackInv'
      BY <1>4 DEF syscall_store, Waiting,
           DirectoryFollowsThread, BackgroundSaved, StackFollowsDirectory,
           BootState, ThreadCr3
    <2>. QED  BY <2>1, <2>2
  <1>5. CASE syscall_iret
    <2>1. TypeOK'
      BY <1>5 DEF syscall_iret, Loaded
    <2>2. StackInv'
      BY <1>5 DEF syscall_iret, Loaded,
           DirectoryFollowsThread, BackgroundSaved, StackFollowsDirectory,
           BootState, ThreadCr3
    <2>. QED  BY <2>1, <2>2
  <1>6. CASE user_result
    <2>1. TypeOK'
      BY <1>6 DEF user_result
    <2>2. StackInv'
      BY <1>6 DEF user_result,
           DirectoryFollowsThread, BackgroundSaved, StackFollowsDirectory,
           BootState, ThreadCr3
    <2>. QED  BY <2>1, <2>2
  <1>7. CASE exception
    <2>1. TypeOK'
      BY <1>7 DEF exception
    <2>2. StackInv'
      BY <1>7 DEF exception,
           DirectoryFollowsThread, BackgroundSaved, StackFollowsDirectory,
           BootState, ThreadCr3
    <2>. QED  BY <2>1, <2>2
  <1>. QED  BY <1>1, <1>2, <1>3, <1>4, <1>5, <1>6, <1>7

(* The boot path and the keyboard interrupt: the steps that change threads. *)
LEMMA SwitchInv ==
    ASSUME IInv,
           \/ \E n \in Tasks : boot(n)
           \/ \E u \in Terms : terminal_switch_new(u) \/ terminal_switch_back(u)
    PROVE  IInv'
  <1>. USE ConstantFacts, MaxTaskAssumption
       DEF IInv, TypeOK, StackInv, LocalsInRange, QueueType, Labels, UserLabels, ExecuteLabels, HaltLabels, ReturnLabels,
           StuckLabels, Running, Goto, fg, cpu, terminals, globals, locals, history
  <1>. USE DEF KernelStack, SavedCr3, SavedPid, SavedMap, video_mapping, Interrupted, SwitchRecorded
  <1>1. ASSUME NEW n \in Tasks, boot(n) PROVE IInv'
    <2>1. tasks' \in QueueType
      BY <1>1, RequeueType DEF boot, StartShell
    <2>2. frame' \in [Tasks -> {"none", "own", "irq"}]
      BY <1>1 DEF boot, StartShell
    <2>3. program_id' \in [Terms -> -1 .. MaxTask] /\ openTasks' \in [Tasks -> {FREE} \cup 0 .. MaxTask]
      BY <1>1 DEF boot, StartShell
    <2>4. cr3' \in Tasks /\ esp0' \in Tasks /\ machine' = "up"
      BY <1>1 DEF boot, StartShell
    <2>5. TypeOK'
      BY <1>1, <2>1, <2>2, <2>3, <2>4 DEF boot
    <2>6. StackInv'
      BY <1>1 DEF boot, StartShell,
           DirectoryFollowsThread, BackgroundSaved, StackFollowsDirectory,
           BootState, ThreadCr3
    <2>. QED  BY <2>5, <2>6
  <1>2. ASSUME NEW u \in Terms, terminal_switch_new(u) PROVE IInv'
    <2>1. add_task_to_queue(tasks, u) \in QueueType
      BY DEF add_task_to_queue
    <2>9. /\ term_cr3' \in [Terms -> 0 .. MaxTask]
          /\ SavedPid \in [Terms -> -1 .. MaxTask]
          /\ vmap' \in [Tasks -> Terms \cup {VIDEO}]
          /\ active' \subseteq Terms
          /\ eax' \in Results \cup {0, JUNK}
          /\ old_terminal' \in Terms
          /\ newterminal_flag' \in {0, 1}
          /\ torn' \in BOOLEAN /\ clobbered' \subseteq Terms
          /\ UNCHANGED <<curr_status, returnValue, cur, new, expected>>
      BY <1>2 DEF terminal_switch_new
    <2>2. CASE machine' = "frozen"
      <3>1. tasks' \in QueueType
        BY <1>2, <2>1, <2>2 DEF terminal_switch_new
      <3>2. UNCHANGED <<pc, openTasks, frame, cr3, esp0>> /\ program_id' = SavedPid
        BY <1>2, <2>2 DEF terminal_switch_new
      <3>3. TypeOK'
        BY <2>9, <2>2, <3>1, <3>2
      <3>4. StackInv'
        BY <1>2, <2>2, <3>2 DEF terminal_switch_new,
             DirectoryFollowsThread, BackgroundSaved, StackFollowsDirectory,
             BootState, ThreadCr3
      <3>. QED  BY <3>3, <3>4
    <2>3. CASE machine' # "frozen"
      <3>1. PICK n \in Tasks : /\ StartShell(u, n, SavedPid, add_task_to_queue(tasks, u))
                               /\ EnterUser(u, n)
        BY <1>2, <2>3 DEF terminal_switch_new
      <3>2. tasks' \in QueueType
        BY <2>1, <3>1, RequeueType DEF StartShell
      <3>3. /\ machine' = machine
            /\ \A t \in Terms : pc'[t] = (IF t = u THEN "user" ELSE pc[t]) \/ pc'[t] = "trashed"
            /\ pc'[u] = "user"
        BY <1>2, <2>3, <3>1 DEF terminal_switch_new, EnterUser
      <3>4. TypeOK'
        <4>1. frame' \in [Tasks -> {"none", "own", "irq"}]
          BY <3>1 DEF StartShell
        <4>2. pc' \in [Terms -> Labels]
          BY <3>1 DEF EnterUser
        <4>3. /\ program_id' \in [Terms -> -1 .. MaxTask]
              /\ openTasks' \in [Tasks -> {FREE} \cup 0 .. MaxTask]
              /\ cr3' \in Tasks /\ esp0' \in Tasks
          BY <3>1 DEF StartShell
        <4>. QED  BY <2>9, <3>2, <3>3, <4>1, <4>2, <4>3
      <3>5. StackInv'
        <4>1. /\ old_terminal' = u /\ old_terminal # u /\ active' = active \cup {u}
              /\ term_cr3' = SavedCr3 /\ machine = "up"
              /\ cr3' = n /\ esp0' = n /\ program_id' = [SavedPid EXCEPT ![u] = n]
          BY <1>2, <3>1 DEF terminal_switch_new, StartShell
        <4>2. LocalsInRange'
          BY <2>9, <3>3
        <4>3. DirectoryFollowsThread'
          BY <2>9, <3>3, <4>1 DEF DirectoryFollowsThread, ThreadCr3
        <4>4. BackgroundSaved'
          BY <4>1 DEF BackgroundSaved
        <4>5. StackFollowsDirectory'
          BY <4>1 DEF StackFollowsDirectory
        <4>. QED  BY <3>3, <4>1, <4>2, <4>3, <4>4, <4>5
      <3>. QED  BY <3>4, <3>5
    <2>. QED  BY <2>2, <2>3
  <1>3. ASSUME NEW u \in Terms, terminal_switch_back(u) PROVE IInv'
    <2>1. term_cr3[u] \in Tasks /\ program_id[u] = term_cr3[u]
      BY <1>3 DEF terminal_switch_back, BackgroundSaved
    <2>2. vmap' \in [Tasks -> Terms \cup {VIDEO}]
      BY <1>3 DEF terminal_switch_back
    <2>3. /\ cr3' = term_cr3[u] /\ esp0' = term_cr3[u]
          /\ term_cr3' = SavedCr3 /\ program_id' = SavedPid
          /\ machine = "up" /\ machine' \in {"up", "lost"}
          /\ old_terminal' = u /\ old_terminal # u
      BY <1>3, <2>1 DEF terminal_switch_back, RestoredStack
    <2>6. torn' \in BOOLEAN /\ clobbered' \subseteq Terms
      BY <1>3 DEF terminal_switch_back
    <2>4. TypeOK'
      BY <1>3, <2>1, <2>2, <2>3, <2>6 DEF terminal_switch_back
    <2>5. StackInv'
      <3>1. UNCHANGED <<pc, cur, new, active>>
        BY <1>3 DEF terminal_switch_back
      <3>2. LocalsInRange'
        BY <3>1
      <3>3. DirectoryFollowsThread'
        BY <2>3, <3>1 DEF DirectoryFollowsThread, ThreadCr3
      <3>4. BackgroundSaved'
        BY <2>3, <3>1 DEF BackgroundSaved
      <3>5. StackFollowsDirectory'
        BY <2>3 DEF StackFollowsDirectory
      <3>. QED  BY <2>1, <2>3, <3>2, <3>3, <3>4, <3>5
    <2>. QED  BY <2>4, <2>5
  <1>. QED  BY <1>1, <1>2, <1>3

LEMMA NextInv == IInv /\ [Next]_vars => IInv'
  <1>. SUFFICES ASSUME IInv, [Next]_vars PROVE IInv'
    OBVIOUS
  <1>1. CASE KernelStep \/ UserStep
    BY <1>1, ExecuteInv, HaltInv, ReturnInv DEF KernelStep, UserStep
  <1>2. CASE (\E n \in Tasks : boot(n))
             \/ (\E u \in Terms : terminal_switch_new(u) \/ terminal_switch_back(u))
    BY <1>2, SwitchInv
  <1>3. CASE UNCHANGED vars
    BY <1>3 DEF IInv, TypeOK, StackInv, LocalsInRange, DirectoryFollowsThread,
         BackgroundSaved, StackFollowsDirectory, BootState, ThreadCr3,
         vars, cpu, terminals, globals, locals, history
  <1>. QED  BY <1>1, <1>2, <1>3 DEF Next

-----------------------------------------------------------------------------

(* The variables of Kernel keep their types, whatever labels the keyboard  *)
(* interrupt strikes at: no index of openTasks, of a PCB or of a page      *)
(* directory leaves its range in execute, halt or terminal_switch.         *)
THEOREM TypeCorrect == Spec => []TypeOK
  <1>1. IInv => TypeOK
    BY DEF IInv
  <1>. QED  BY InitInv, NextInv, <1>1, PTL DEF Spec

(* Whenever a program is in user mode, tss.esp0 is the top of its own      *)
(* kernel stack, for any number of slots and terminals and wherever        *)
(* terminal switches interrupted execute and halt.                         *)
THEOREM KernelStackCorrect == Spec => []KernelStackMatches
  <1>1. IInv => KernelStackMatches
    BY DEF IInv, StackInv, StackFollowsDirectory, KernelStackMatches, fg
  <1>. QED  BY InitInv, NextInv, <1>1, PTL DEF Spec

-----------------------------------------------------------------------------
(* Results.                                                                *)

(* A result nobody has touched is where the label of its thread says, for  *)
(* the threads of all terminals at once; in eax it is only for the thread  *)
(* on the screen.                                                          *)
ResultInv ==
    /\ \A t \in Terms \ clobbered :
           /\ pc[t] \in InStatus => curr_status = expected[t]
           /\ pc[t] \in InReturnValue => returnValue = expected[t]
           /\ pc[t] \in InEax => t = old_terminal /\ eax = expected[t]

LEMMA ResultInit == Init => ResultInv
  BY ConstantFacts DEF Init, ResultInv, InStatus, InReturnValue, InEax, HaltLabels

LEMMA ResultStep ==
    ASSUME IInv, ResultInv, [Next]_vars
    PROVE  ResultInv'
  <1>. USE DEF ResultInv, InStatus, InReturnValue, InEax, HaltLabels, Running, Goto, fg,
               cpu, terminals, globals, locals, history
  <1>1. /\ pc \in [Terms -> Labels] /\ expected \in [Terms -> Results] /\ old_terminal \in Terms
        /\ clobbered \subseteq Terms
    BY DEF IInv, TypeOK
  <1>2. CASE KernelStep
    <2>1. CASE \/ execute_scan \/ execute_claim \/ execute_queue \/ execute_bind
               \/ execute_save \/ execute_page
      BY <1>1, <2>1 DEF execute_scan, execute_claim, execute_queue, execute_bind,
                        execute_save, execute_page
    <2>2. CASE execute_enter
      BY <1>1, <2>2 DEF execute_enter, EnterUser
    <2>3. CASE halt_queue \/ halt_bind \/ halt_page \/ halt_free \/ halt_resume
      BY <1>1, <2>3 DEF halt_queue, halt_bind, halt_page, halt_free, halt_resume
    <2>4. CASE execute_return \/ syscall_iret \/ user_result
      BY <1>1, <2>4 DEF execute_return, syscall_iret, Loaded, user_result
    <2>5. CASE syscall_store
      BY <1>1, <2>5 DEF syscall_store, Waiting
    <2>. QED  BY <1>2, <2>1, <2>2, <2>3, <2>4, <2>5 DEF KernelStep
  <1>3. CASE UserStep
    <2>1. CASE execute_begin \/ execute_hang \/ call_begin \/ exception
      BY <1>1, <2>1 DEF execute_begin, execute_hang, call_begin, exception
    <2>2. CASE execute_fail
      BY <1>1, <2>2 DEF execute_fail, Spared, Waiting
    <2>3. ASSUME NEW s \in Status, halt_begin(s) PROVE ResultInv'
      BY <1>1, <2>3 DEF halt_begin, Spared, Waiting
    <2>4. ASSUME NEW v \in Status, call_end(v) PROVE ResultInv'
      BY <1>1, <2>4 DEF call_end, Spared, Waiting
    <2>. QED  BY <1>3, <2>1, <2>2, <2>3, <2>4 DEF UserStep
  <1>4. ASSUME NEW n \in Tasks, boot(n) PROVE ResultInv'
    BY <1>4, ConstantFacts DEF boot, IInv, StackInv, BootState
  <1>5. ASSUME NEW u \in Terms, terminal_switch_new(u) PROVE ResultInv'
    <2>1. /\ u # old_terminal /\ old_terminal' = u
          /\ \A t \in Terms : pc'[t] \in {pc[t], "user", "trashed"}
          /\ clobbered' = IF pc[old_terminal] \in InEax THEN clobbered \cup {old_terminal} ELSE clobbered
          /\ UNCHANGED <<curr_status, returnValue, expected>>
      BY <1>1, <1>5 DEF terminal_switch_new, SwitchRecorded, EnterUser
    <2>. QED  BY <1>1, <2>1
  <1>6. ASSUME NEW u \in Terms, terminal_switch_back(u) PROVE ResultInv'
    BY <1>1, <1>6 DEF terminal_switch_back, SwitchRecorded
  <1>7. CASE UNCHANGED vars
    BY <1>7 DEF vars
  <1>. QED  BY <1>2, <1>3, <1>4, <1>5, <1>6, <1>7 DEF Next

(* The value a program finds in eax is the one its own system call         *)
(* computed, although curr_status, returnValue and eax are shared by all   *)
(* threads and a switch may come at every statement in between, unless     *)
(* another program has halted while it was in curr_status, another system  *)
(* call has ended while it was in returnValue, or the switch came while it *)
(* was in eax.                                                             *)
THEOREM StatusDeliveredCorrect == Spec => []StatusUnlessClobbered
  <1>1. Init => IInv /\ ResultInv
    BY InitInv, ResultInit
  <1>2. IInv /\ ResultInv /\ [Next]_vars => IInv' /\ ResultInv'
    BY NextInv, ResultStep
  <1>3. IInv /\ ResultInv => StatusUnlessClobbered
    BY DEF IInv, TypeOK, ResultInv, InEax, StatusUnlessClobbered, fg
  <1>. QED  BY <1>1, <1>2, <1>3, PTL DEF Spec

-----------------------------------------------------------------------------
(***************************************************************************)
(* What holds of Kernel up to the first switch that lands in one of the    *)
(* six windows in HalfUpdated, for every number of slots and terminals:    *)
(* execute, halt and terminal_switch implement TaskTable, and with it      *)
(* every thread finds its stack, its terminal and its video page.          *)
(***************************************************************************)

TP == INSTANCE TaskTableProofs WITH parent <- openTasks,
                                    leaf <- [t \in Terms |-> LeafOf(t)],
                                    fg <- old_terminal

-----------------------------------------------------------------------------
(* The inductive invariant: what each label says about the tables.         *)

(* The locals of a thread agree with the directory it runs on and with     *)
(* openTasks, at every label at which it still uses them.                  *)
LocalsFollowTable ==
    \A t \in active :
        /\ pc[t] \in (ExecuteLabels \ {"enter"}) \cup {"hqueue", "hbind", "hpage"}
               => cur[t] = ThreadCr3(t)
        /\ pc[t] = "claim" => openTasks[new[t]] = FREE
        /\ pc[t] \in ExecuteLabels \ {"scan", "claim"} => openTasks[new[t]] = cur[t]
        /\ pc[t] \in HaltLabels \ {"hclose"} => openTasks[cur[t]] = new[t]
        /\ pc[t] \in HaltLabels \ {"hqueue"} => new[t] \in Tasks

(* Only the thread on the screen is ever in a half-updated window.         *)
Threads ==
    /\ newterminal_flag = 0
    /\ old_terminal \in active
    /\ \A t \in Terms \ active : pc[t] = "user" /\ program_id[t] = 0
    /\ \A t \in active : pc[t] # "trashed" /\ (t # old_terminal => pc[t] \notin HalfUpdated)

(* program_id runs ahead of cr3 between bind and page, in both directions. *)
PidFollows ==
    program_id[fg] = IF pc[fg] \in {"save", "page", "hpage"} THEN new[fg] ELSE cr3

(* A suspended program has the frame of its own execute in its PCB, unless *)
(* that execute has claimed the slot and not come to its save yet.         *)
FramesSaved ==
    /\ \A m \in Tasks : openTasks[m] \in Tasks =>
           \/ frame[openTasks[m]] = "own"
           \/ \E t \in active : pc[t] \in {"queue", "bind", "save"} /\ new[t] = m
    /\ pc[fg] = "hclose" => frame[new[fg]] = "own"

(* A video page leads to the buffer of the background terminal that runs   *)
(* on its directory, and to the screen when there is none.                 *)
Mapped ==
    \A p \in Tasks :
        \/ \E t \in active \ {fg} : term_cr3[t] = p /\ vmap[p] = t
        \/ vmap[p] = VIDEO /\ \A t \in active \ {fg} : term_cr3[t] # p

UpInv == LocalsFollowTable /\ Threads /\ PidFollows /\ FramesSaved /\ Mapped

TableInv ==
    /\ machine = "boot" => Init
    /\ machine # "lost"
    /\ Table!Forest
    /\ machine = "up" => UpInv

-----------------------------------------------------------------------------
(* TaskTable's definitions reach this module twice, through Kernel's Table *)
(* and through TP, which brings the theorems.                              *)
LEMMA SameTable ==
    /\ Table!Init <=> TP!Init
    /\ Table!TypeOK <=> TP!TypeOK
    /\ Table!Forest <=> TP!Forest
    /\ (Table!Forest)' <=> (TP!Forest)'
    /\ [Table!Next]_(Table!vars) <=> [TP!Next]_(TP!vars)
  <1>1. Table!Init <=> TP!Init
    BY DEF Table!Init, TP!Init, Table!Tasks, TP!Tasks, Table!Terms, TP!Terms,
           Table!FREE, TP!FREE, Table!NOLEAF, TP!NOLEAF
  <1>2. Table!TypeOK <=> TP!TypeOK
    BY DEF Table!TypeOK, TP!TypeOK, Table!Tasks, TP!Tasks, Table!Terms, TP!Terms,
           Table!FREE, TP!FREE, Table!NOLEAF, TP!NOLEAF, Table!ROOT, TP!ROOT
  <1>. USE DEF Table!Live, TP!Live, Table!Tasks, TP!Tasks, Table!Terms, TP!Terms,
               Table!FREE, TP!FREE, Table!NOLEAF, TP!NOLEAF
  <1>3. Table!Forest <=> TP!Forest
    BY DEF Table!Forest, TP!Forest, Table!LeafIsLive, TP!LeafIsLive,
           Table!LeafIsUnique, TP!LeafIsUnique, Table!LeafHasNoChild, TP!LeafHasNoChild,
           Table!ParentIsLive, TP!ParentIsLive, Table!AtMostOneChild, TP!AtMostOneChild,
           Table!EveryTaskContinues, TP!EveryTaskContinues
  <1>4. (Table!Forest)' <=> (TP!Forest)'
    BY DEF Table!Forest, TP!Forest, Table!LeafIsLive, TP!LeafIsLive,
           Table!LeafIsUnique, TP!LeafIsUnique, Table!LeafHasNoChild, TP!LeafHasNoChild,
           Table!ParentIsLive, TP!ParentIsLive, Table!AtMostOneChild, TP!AtMostOneChild,
           Table!EveryTaskContinues, TP!EveryTaskContinues
  <1>5. [Table!Next]_(Table!vars) <=> [TP!Next]_(TP!vars)
    BY DEF Table!Next, TP!Next, Table!vars, TP!vars, Table!Open, TP!Open,
           Table!Spawn, TP!Spawn, Table!Exit, TP!Exit, Table!Show, TP!Show,
           Table!Vacant, TP!Vacant, Table!ROOT, TP!ROOT
  <1>. QED  BY <1>1, <1>2, <1>3, <1>4, <1>5

LEMMA ForestStep ==
    /\ Table!Init => Table!Forest
    /\ Table!TypeOK /\ Table!Forest /\ [Table!Next]_(Table!vars) => (Table!Forest)'
  BY SameTable, TP!ForestInductive, MaxTaskAssumption, MaxTermAssumption

(* Forest in the words of Kernel.                                          *)
Chains ==
    /\ \A t \in Terms : LeafOf(t) # 0 => LeafOf(t) \in Tasks /\ openTasks[LeafOf(t)] # FREE
    /\ \A t, u \in Terms : LeafOf(t) # 0 /\ LeafOf(t) = LeafOf(u) => t = u
    /\ \A t \in Terms, n \in Tasks : LeafOf(t) # 0 => openTasks[n] # LeafOf(t)
    /\ \A n \in Tasks : openTasks[n] \in Tasks => openTasks[openTasks[n]] # FREE
    /\ \A m, n \in Tasks : openTasks[m] = openTasks[n] /\ openTasks[m] \in Tasks => m = n

LEMMA ForestChains == Table!Forest => Chains
  <1>. SUFFICES ASSUME Table!Forest PROVE Chains
    OBVIOUS
  <1>. USE DEF Table!Forest, Table!Live, Table!Tasks, Table!Terms, Tasks, Terms,
               Table!FREE, FREE, Table!NOLEAF
  <1>1. \A t \in Terms : LeafOf(t) # 0 => LeafOf(t) \in Tasks /\ openTasks[LeafOf(t)] # FREE
    BY DEF Table!LeafIsLive
  <1>2. \A t, u \in Terms : LeafOf(t) # 0 /\ LeafOf(t) = LeafOf(u) => t = u
    BY DEF Table!LeafIsUnique
  <1>3. \A t \in Terms, n \in Tasks : LeafOf(t) # 0 => openTasks[n] # LeafOf(t)
    BY DEF Table!LeafHasNoChild
  <1>4. \A n \in Tasks : openTasks[n] \in Tasks => openTasks[openTasks[n]] # FREE
    BY DEF Table!ParentIsLive
  <1>5. \A m, n \in Tasks : openTasks[m] = openTasks[n] /\ openTasks[m] \in Tasks => m = n
    BY DEF Table!AtMostOneChild
  <1>. QED  BY <1>1, <1>2, <1>3, <1>4, <1>5 DEF Chains

(* Where the threads stand.  Each of them runs on its leaf or on the       *)
(* parent of its leaf, and so does its kernel stack, as long as it has not *)
(* given the slot away: two threads never share a directory, and no thread *)
(* stands on the stack of another one's leaf or of a free slot.            *)
LEMMA ThreadFacts ==
    ASSUME IInv, TableInv, machine = "up"
    PROVE  /\ Chains
           /\ \A t \in active : /\ t \in Terms /\ LeafOf(t) \in Tasks
                                /\ openTasks[LeafOf(t)] # FREE
                                /\ ThreadCr3(t) \in {LeafOf(t), openTasks[LeafOf(t)]} \cap Tasks
           /\ \A t \in Terms \ active : LeafOf(t) = 0
           /\ \A t \in active : pc[t] # "hclose" =>
                  StackOf(t) \in {LeafOf(t), openTasks[LeafOf(t)]}
           /\ \A t, u \in active : t # u => ThreadCr3(t) # ThreadCr3(u)
  <1>1. Chains /\ UpInv
    BY ForestChains DEF TableInv
  <1>2. \A t \in active : t \in Terms /\ ThreadCr3(t) \in Tasks
    BY DEF IInv, TypeOK, StackInv, BackgroundSaved, ThreadCr3
  <1>3. \A t \in active : LeafOf(t) \in Tasks
    BY <1>1, <1>2 DEF IInv, StackInv, LocalsInRange, LeafOf, UpInv, Threads, ExecuteLabels, HaltLabels
  <1>4. \A t \in active : openTasks[LeafOf(t)] # FREE
    BY <1>1, <1>2, <1>3, ConstantFacts DEF Chains
  <1>5. \A t \in active : ThreadCr3(t) \in {LeafOf(t), openTasks[LeafOf(t)]}
    BY <1>1, <1>2 DEF IInv, StackInv, DirectoryFollowsThread, LeafOf, UpInv, Threads,
         LocalsFollowTable, ExecuteLabels, HaltLabels
  <1>6. \A t \in active : pc[t] # "hclose" => StackOf(t) \in {LeafOf(t), openTasks[LeafOf(t)]}
    BY <1>1, <1>2, <1>5 DEF IInv, StackInv, DirectoryFollowsThread, LeafOf, StackOf, UpInv, Threads,
         LocalsFollowTable, ExecuteLabels, HaltLabels
  <1>7. \A t, u \in active : t # u => ThreadCr3(t) # ThreadCr3(u)
    BY <1>1, <1>2, <1>3, <1>5, ConstantFacts DEF Chains
  <1>8. \A t \in Terms \ active : LeafOf(t) = 0
    BY DEF LeafOf
  <1>. QED  BY <1>1, <1>2, <1>3, <1>4, <1>5, <1>6, <1>7, <1>8

LEMMA TableType ==
    ASSUME IInv, TableInv PROVE Table!TypeOK
  <1>. USE DEF Table!TypeOK, Table!Tasks, Tasks, Table!Terms, Terms, Table!FREE, FREE,
               Table!ROOT, Table!NOLEAF
  <1>1. openTasks \in [Tasks -> {FREE, 0} \cup Tasks] /\ old_terminal \in Terms
    BY MaxTaskAssumption DEF IInv, TypeOK
  <1>2. \A t \in Terms : LeafOf(t) \in {0} \cup Tasks
    BY ForestChains DEF TableInv, Chains
  <1>. QED  BY <1>1, <1>2

(* A step that leaves openTasks, the screen and every leaf alone.          *)
LEMMA StutterStep ==
    ASSUME UNCHANGED <<openTasks, old_terminal>>,
           \A t \in Terms : LeafOf(t)' = LeafOf(t)
    PROVE  [Table!Next]_(Table!vars)
  BY DEF Table!vars, Terms

-----------------------------------------------------------------------------
(* Each group of steps keeps UpInv and is a step of TaskTable.             *)

StepGoal == (machine' = "up" => UpInv') /\ machine' # "lost" /\ [Table!Next]_(Table!vars)

(* The labels at which a thread uses none of its locals.                   *)
PlainLabels == UserLabels \cup ReturnLabels \cup {"call", "hang"}

(* The steps to and from user mode: they touch eax, the globals and pc.    *)
LEMMA PlainSteps ==
    ASSUME IInv, TableInv,
           \/ execute_fail \/ execute_hang \/ call_begin \/ \E v \in Status : call_end(v)
           \/ execute_return \/ syscall_store \/ syscall_iret \/ user_result
    PROVE  StepGoal
  <1>1. /\ machine = "up" /\ pc[fg] \in PlainLabels
        /\ \E l \in PlainLabels : pc' = [pc EXCEPT ![fg] = l]
        /\ UNCHANGED <<machine, cr3, openTasks, newterminal_flag, old_terminal, active,
                       program_id, term_cr3, frame, vmap, cur, new>>
    BY DEF execute_fail, execute_hang, call_begin, call_end, execute_return, syscall_store,
           syscall_iret, user_result, Running, Goto, PlainLabels, UserLabels, ReturnLabels,
           terminals, cpu, locals
  <1>2. PICK l \in PlainLabels : pc' = [pc EXCEPT ![fg] = l]
    BY <1>1
  <1>. USE DEF PlainLabels, UserLabels, ReturnLabels, ExecuteLabels, HaltLabels, HalfUpdated, fg
  <1>3. UpInv /\ pc \in [Terms -> Labels] /\ old_terminal \in Terms
    BY <1>1 DEF TableInv, IInv, TypeOK
  <1>4. \A t \in Terms : LeafOf(t)' = LeafOf(t)
    BY <1>1, <1>2, <1>3 DEF LeafOf, ThreadCr3
  <1>5. LocalsFollowTable' /\ Threads'
    BY <1>1, <1>2, <1>3 DEF UpInv, LocalsFollowTable, Threads, ThreadCr3
  <1>6. PidFollows'
    BY <1>1, <1>2, <1>3 DEF UpInv, PidFollows
  <1>7. FramesSaved'
    BY <1>1, <1>2, <1>3 DEF UpInv, FramesSaved
  <1>8. Mapped'
    BY <1>1, <1>3 DEF UpInv, Mapped
  <1>. QED  BY <1>1, <1>4, <1>5, <1>6, <1>7, <1>8, StutterStep DEF UpInv, StepGoal

(* From user mode to the scan.                                            *)
LEMMA BeginStep ==
    ASSUME IInv, TableInv, execute_begin PROVE StepGoal
  <1>. USE DEF ExecuteLabels, HaltLabels, HalfUpdated, fg
  <1>1. machine = "up" /\ UpInv /\ Chains /\ TypeOK /\ old_terminal \in active /\ StackInv
    BY ThreadFacts DEF execute_begin, Running, TableInv, IInv, UpInv, Threads
  <1>2. /\ pc[fg] = "user" /\ pc' = [pc EXCEPT ![fg] = "scan"]
        /\ cur' = [cur EXCEPT ![fg] = cr3]
        /\ new' = [new EXCEPT ![fg] = 1]
        /\ UNCHANGED <<machine, cr3, openTasks, newterminal_flag, old_terminal, active, program_id, term_cr3, frame, vmap>>
    BY DEF execute_begin, Running, Goto, cpu, terminals
  <1>3. \A t \in Terms : LeafOf(t)' = LeafOf(t)
    BY <1>1, <1>2 DEF TypeOK, LeafOf, ThreadCr3
  <1>4. LocalsFollowTable'
    BY <1>1, <1>2 DEF TypeOK, StackInv, LocalsInRange, DirectoryFollowsThread, UpInv, LocalsFollowTable, ThreadCr3
  <1>5. Threads'
    BY <1>1, <1>2 DEF TypeOK, UpInv, Threads
  <1>6. PidFollows'
    BY <1>1, <1>2 DEF TypeOK, UpInv, PidFollows
  <1>7. FramesSaved'
    BY <1>1, <1>2 DEF TypeOK, UpInv, FramesSaved
  <1>8. Mapped'
    BY <1>1, <1>2 DEF UpInv, Mapped
  <1>. QED  BY <1>1, <1>2, <1>3, <1>4, <1>5, <1>6, <1>7, <1>8, StutterStep DEF UpInv, StepGoal

(* A turn of the scan finds a slot free, tries the next one, or hangs.    *)
LEMMA ScanStep ==
    ASSUME IInv, TableInv, execute_scan PROVE StepGoal
  <1>. USE DEF ExecuteLabels, HaltLabels, HalfUpdated, fg
  <1>1. machine = "up" /\ UpInv /\ Chains /\ TypeOK /\ old_terminal \in active /\ StackInv
    BY ThreadFacts DEF execute_scan, Running, TableInv, IInv, UpInv, Threads
  <1>2. /\ pc[fg] = "scan"
        /\ \/ pc' = [pc EXCEPT ![fg] = "hang"] /\ new' = new
           \/ /\ pc' = [pc EXCEPT ![fg] = "claim"] /\ new' = new /\ openTasks[new[fg]] = FREE
           \/ pc' = pc /\ \E i : new' = [new EXCEPT ![fg] = i]
        /\ UNCHANGED <<machine, cr3, openTasks, newterminal_flag, old_terminal, active, program_id, term_cr3, frame, vmap, cur>>
    BY DEF execute_scan, Running, Goto, cpu, terminals
  <1>3. \A t \in Terms : LeafOf(t)' = LeafOf(t)
    BY <1>1, <1>2 DEF TypeOK, LeafOf, ThreadCr3
  <1>4. LocalsFollowTable'
    BY <1>1, <1>2 DEF TypeOK, StackInv, LocalsInRange, DirectoryFollowsThread, UpInv, LocalsFollowTable, ThreadCr3
  <1>5. Threads'
    BY <1>1, <1>2 DEF TypeOK, UpInv, Threads
  <1>6. PidFollows'
    BY <1>1, <1>2 DEF TypeOK, UpInv, PidFollows
  <1>7. FramesSaved'
    BY <1>1, <1>2 DEF TypeOK, UpInv, FramesSaved
  <1>8. Mapped'
    BY <1>1, <1>2 DEF UpInv, Mapped
  <1>. QED  BY <1>1, <1>2, <1>3, <1>4, <1>5, <1>6, <1>7, <1>8, StutterStep DEF UpInv, StepGoal

(* The queue is not part of the tables.                                   *)
LEMMA QueueStep ==
    ASSUME IInv, TableInv, execute_queue PROVE StepGoal
  <1>. USE DEF ExecuteLabels, HaltLabels, HalfUpdated, fg
  <1>1. machine = "up" /\ UpInv /\ Chains /\ TypeOK /\ old_terminal \in active /\ StackInv
    BY ThreadFacts DEF execute_queue, Running, TableInv, IInv, UpInv, Threads
  <1>2. /\ pc[fg] = "queue" /\ pc' = [pc EXCEPT ![fg] = "bind"]
        /\ UNCHANGED <<machine, cr3, openTasks, newterminal_flag, old_terminal, active, program_id, term_cr3, frame, vmap, cur, new>>
    BY DEF execute_queue, Running, Goto, cpu, terminals, locals
  <1>3. \A t \in Terms : LeafOf(t)' = LeafOf(t)
    BY <1>1, <1>2 DEF TypeOK, LeafOf, ThreadCr3
  <1>4. LocalsFollowTable'
    BY <1>1, <1>2 DEF TypeOK, StackInv, LocalsInRange, DirectoryFollowsThread, UpInv, LocalsFollowTable, ThreadCr3
  <1>5. Threads'
    BY <1>1, <1>2 DEF TypeOK, UpInv, Threads
  <1>6. PidFollows'
    BY <1>1, <1>2 DEF TypeOK, UpInv, PidFollows
  <1>7. FramesSaved'
    BY <1>1, <1>2 DEF TypeOK, UpInv, FramesSaved
  <1>8. Mapped'
    BY <1>1, <1>2 DEF UpInv, Mapped
  <1>. QED  BY <1>1, <1>2, <1>3, <1>4, <1>5, <1>6, <1>7, <1>8, StutterStep DEF UpInv, StepGoal

(* program_id moves to the new program before cr3 does.                   *)
LEMMA BindStep ==
    ASSUME IInv, TableInv, execute_bind PROVE StepGoal
  <1>. USE DEF ExecuteLabels, HaltLabels, HalfUpdated, fg
  <1>1. machine = "up" /\ UpInv /\ Chains /\ TypeOK /\ old_terminal \in active /\ StackInv
    BY ThreadFacts DEF execute_bind, Running, TableInv, IInv, UpInv, Threads
  <1>2. /\ pc[fg] = "bind" /\ pc' = [pc EXCEPT ![fg] = "save"]
        /\ program_id' = [program_id EXCEPT ![fg] = new[fg]]
        /\ UNCHANGED <<machine, cr3, openTasks, newterminal_flag, old_terminal, active, term_cr3, frame, vmap, cur, new>>
    BY DEF execute_bind, Running, Goto, cpu, locals
  <1>3. \A t \in Terms : LeafOf(t)' = LeafOf(t)
    BY <1>1, <1>2 DEF TypeOK, LeafOf, ThreadCr3
  <1>4. LocalsFollowTable'
    BY <1>1, <1>2 DEF TypeOK, StackInv, LocalsInRange, DirectoryFollowsThread, UpInv, LocalsFollowTable, ThreadCr3
  <1>5. Threads'
    BY <1>1, <1>2 DEF TypeOK, UpInv, Threads
  <1>6. PidFollows'
    BY <1>1, <1>2 DEF TypeOK, UpInv, PidFollows
  <1>7. FramesSaved'
    BY <1>1, <1>2 DEF TypeOK, UpInv, FramesSaved
  <1>8. Mapped'
    BY <1>1, <1>2 DEF UpInv, Mapped
  <1>. QED  BY <1>1, <1>2, <1>3, <1>4, <1>5, <1>6, <1>7, <1>8, StutterStep DEF UpInv, StepGoal

(* The frame of the caller is there before the child can run.             *)
LEMMA SaveStep ==
    ASSUME IInv, TableInv, execute_save PROVE StepGoal
  <1>. USE DEF ExecuteLabels, HaltLabels, HalfUpdated, fg
  <1>1. machine = "up" /\ UpInv /\ Chains /\ TypeOK /\ old_terminal \in active /\ StackInv
    BY ThreadFacts DEF execute_save, Running, TableInv, IInv, UpInv, Threads
  <1>2. /\ pc[fg] = "save" /\ pc' = [pc EXCEPT ![fg] = "page"]
        /\ frame' = [frame EXCEPT ![cur[fg]] = "own"]
        /\ UNCHANGED <<machine, cr3, openTasks, newterminal_flag, old_terminal, active, program_id, term_cr3, vmap, cur, new>>
    BY DEF execute_save, Running, Goto, SavedFrame, cpu, terminals, locals
  <1>3. \A t \in Terms : LeafOf(t)' = LeafOf(t)
    BY <1>1, <1>2 DEF TypeOK, LeafOf, ThreadCr3
  <1>4. LocalsFollowTable'
    BY <1>1, <1>2 DEF TypeOK, StackInv, LocalsInRange, DirectoryFollowsThread, UpInv, LocalsFollowTable, ThreadCr3
  <1>5. Threads'
    BY <1>1, <1>2 DEF TypeOK, UpInv, Threads
  <1>6. PidFollows'
    BY <1>1, <1>2 DEF TypeOK, UpInv, PidFollows
  <1>7. FramesSaved'
    BY <1>1, <1>2 DEF TypeOK, UpInv, FramesSaved, LocalsFollowTable
  <1>8. Mapped'
    BY <1>1, <1>2 DEF UpInv, Mapped
  <1>. QED  BY <1>1, <1>2, <1>3, <1>4, <1>5, <1>6, <1>7, <1>8, StutterStep DEF UpInv, StepGoal

(* cr3 catches up with program_id.                                        *)
LEMMA PageStep ==
    ASSUME IInv, TableInv, execute_page PROVE StepGoal
  <1>. USE DEF ExecuteLabels, HaltLabels, HalfUpdated, fg
  <1>1. machine = "up" /\ UpInv /\ Chains /\ TypeOK /\ old_terminal \in active /\ StackInv
    BY ThreadFacts DEF execute_page, Running, TableInv, IInv, UpInv, Threads
  <1>2. /\ pc[fg] = "page" /\ pc' = [pc EXCEPT ![fg] = "enter"]
        /\ cr3' = new[fg]
        /\ UNCHANGED <<machine, openTasks, newterminal_flag, old_terminal, active, program_id, term_cr3, frame, vmap, cur, new>>
    BY DEF execute_page, Running, Goto, terminals, locals
  <1>3. \A t \in Terms : LeafOf(t)' = LeafOf(t)
    BY <1>1, <1>2 DEF TypeOK, LeafOf, ThreadCr3
  <1>4. LocalsFollowTable'
    BY <1>1, <1>2 DEF TypeOK, StackInv, LocalsInRange, DirectoryFollowsThread, UpInv, LocalsFollowTable, ThreadCr3
  <1>5. Threads'
    BY <1>1, <1>2 DEF TypeOK, UpInv, Threads
  <1>6. PidFollows'
    BY <1>1, <1>2 DEF TypeOK, UpInv, PidFollows
  <1>7. FramesSaved'
    BY <1>1, <1>2 DEF TypeOK, UpInv, FramesSaved
  <1>8. Mapped'
    BY <1>1, <1>2 DEF UpInv, Mapped
  <1>. QED  BY <1>1, <1>2, <1>3, <1>4, <1>5, <1>6, <1>7, <1>8, StutterStep DEF UpInv, StepGoal

(* The claim of the slot is Spawn: the caller becomes a suspended parent.  *)
LEMMA ClaimStep ==
    ASSUME IInv, TableInv, execute_claim PROVE StepGoal
  <1>. USE DEF ExecuteLabels, HaltLabels, HalfUpdated, fg
  <1>1. machine = "up" /\ UpInv /\ Chains /\ TypeOK /\ old_terminal \in active /\ StackInv
    BY ThreadFacts DEF execute_claim, Running, TableInv, IInv, UpInv, Threads
  <1>2. /\ pc[fg] = "claim" /\ pc' = [pc EXCEPT ![fg] = "queue"]
        /\ openTasks' = [openTasks EXCEPT ![new[fg]] = cur[fg]]
        /\ newterminal_flag' = newterminal_flag
        /\ UNCHANGED <<machine, cr3, old_terminal, active, program_id, term_cr3, frame, vmap, cur, new>>
    BY <1>1 DEF execute_claim, Running, Goto, Owner, UpInv, Threads, cpu, terminals, locals
  <1>3. new[fg] \in Tasks /\ openTasks[new[fg]] = FREE /\ cur[fg] = cr3 /\ cr3 \in Tasks
    BY <1>1, <1>2 DEF TypeOK, StackInv, LocalsInRange, UpInv, LocalsFollowTable, ThreadCr3
  <1>4. [Table!Next]_(Table!vars)
    <2>1. LeafOf(fg) = cr3
      BY <1>1, <1>2 DEF LeafOf, ThreadCr3, UpInv, Threads
    <2>2. \A t \in Terms : LeafOf(t)' = IF t = fg THEN new[fg] ELSE LeafOf(t)
      BY <1>1, <1>2 DEF TypeOK, LeafOf, ThreadCr3, UpInv, Threads
    <2>3. Table!Spawn(new[fg])
      BY <1>1, <1>2, <1>3, <2>1, <2>2, ConstantFacts
         DEF TypeOK, Table!Spawn, Table!Vacant, Table!Live, Table!FREE, FREE, Table!NOLEAF, Tasks, Terms
    <2>. QED  BY <1>3, <2>3 DEF Table!Next, Table!Tasks, Tasks
  <1>5. LocalsFollowTable'
    <2>1. \A t \in active : t # fg /\ pc[t] \in ExecuteLabels \ {"scan"}
              => new[t] \in Tasks \ {new[fg]}
      BY <1>1, <1>2, <1>3, ConstantFacts
         DEF TypeOK, StackInv, LocalsInRange, UpInv, LocalsFollowTable, Threads, FREE
    <2>2. \A t \in active : t # fg /\ pc[t] \in HaltLabels \ {"hclose"}
              => cur[t] \in Tasks \ {new[fg]}
      BY <1>1, <1>3, ThreadFacts DEF UpInv, Threads, LeafOf
    <2>3. \A t \in active : t # fg => UNCHANGED <<pc[t], cur[t], new[t], ThreadCr3(t)>>
      BY <1>1, <1>2 DEF TypeOK, ThreadCr3
    <2>4. \A m \in Tasks \ {new[fg]} : openTasks'[m] = openTasks[m]
      BY <1>1, <1>2 DEF TypeOK
    <2>5. ASSUME NEW t \in active, t # fg PROVE LocalsFollowTable!(t)'
      BY <1>1, <2>1, <2>2, <2>3, <2>4, <2>5 DEF UpInv, LocalsFollowTable, Threads
    <2>6. LocalsFollowTable!(fg)'
      BY <1>1, <1>2, <1>3 DEF TypeOK, ThreadCr3
    <2>. QED  BY <1>2, <2>5, <2>6 DEF LocalsFollowTable
  <1>6. Threads'
    BY <1>1, <1>2 DEF TypeOK, UpInv, Threads
  <1>7. PidFollows'
    BY <1>1, <1>2 DEF TypeOK, UpInv, PidFollows
  <1>8. FramesSaved'
    BY <1>1, <1>2 DEF TypeOK, UpInv, FramesSaved
  <1>9. Mapped'
    BY <1>1, <1>2 DEF UpInv, Mapped
  <1>. QED  BY <1>1, <1>2, <1>4, <1>5, <1>6, <1>7, <1>8, <1>9 DEF UpInv, StepGoal

(* The kernel stack of the new program is nobody else's.                   *)
LEMMA EnterStep ==
    ASSUME IInv, TableInv, execute_enter PROVE StepGoal
  <1>. USE DEF ExecuteLabels, HaltLabels, HalfUpdated, fg
  <1>1. machine = "up" /\ UpInv /\ Chains /\ TypeOK /\ old_terminal \in active /\ StackInv
    BY ThreadFacts DEF execute_enter, Running, TableInv, IInv, UpInv, Threads
  <1>2. /\ pc[fg] = "enter" /\ EnterUser(fg, new[fg])
        /\ frame' = [frame EXCEPT ![new[fg]] = "none"]
        /\ cur' = [cur EXCEPT ![fg] = 0] /\ new' = [new EXCEPT ![fg] = 0]
        /\ UNCHANGED <<machine, cr3, openTasks, newterminal_flag, old_terminal, active,
                       program_id, term_cr3, vmap>>
    BY DEF execute_enter, Running, terminals
  <1>3. new[fg] = cr3 /\ LeafOf(fg) = cr3 /\ cr3 \in Tasks
    BY <1>1, <1>2 DEF TypeOK, StackInv, DirectoryFollowsThread, LeafOf, ThreadCr3, UpInv, Threads
  <1>4. \A u \in active : u # fg => StackOf(u) # cr3
    <2>1. \A u \in active : u # fg => StackOf(u) \in {LeafOf(u), openTasks[LeafOf(u)]}
      BY <1>1, ThreadFacts DEF UpInv, Threads
    <2>. QED  BY <1>1, <1>3, <2>1, ThreadFacts, ConstantFacts DEF Chains
  <1>5. pc' = [pc EXCEPT ![fg] = "user"]
    BY <1>1, <1>2, <1>3, <1>4 DEF EnterUser, TypeOK
  <1>6. \A t \in Terms : LeafOf(t)' = LeafOf(t)
    BY <1>1, <1>2, <1>5 DEF TypeOK, LeafOf, ThreadCr3
  <1>7. LocalsFollowTable'
    BY <1>1, <1>2, <1>5 DEF TypeOK, UpInv, LocalsFollowTable, ThreadCr3
  <1>8. Threads'
    BY <1>1, <1>2, <1>5 DEF TypeOK, UpInv, Threads
  <1>9. PidFollows'
    BY <1>1, <1>2, <1>5 DEF TypeOK, UpInv, PidFollows
  <1>10. FramesSaved'
    <2>1. \A m \in Tasks : openTasks[m] # new[fg]
      BY <1>1, <1>3, ConstantFacts DEF Chains, TypeOK
    <2>. QED  BY <1>1, <1>2, <1>5, <2>1 DEF TypeOK, UpInv, FramesSaved
  <1>11. Mapped'
    BY <1>1, <1>2 DEF UpInv, Mapped
  <1>. QED  BY <1>1, <1>2, <1>6, <1>7, <1>8, <1>9, <1>10, <1>11, StutterStep DEF UpInv, StepGoal

(* halt: the locals are read from the tables.                              *)
LEMMA HaltBeginStep ==
    ASSUME IInv, TableInv, NEW s \in Status, halt_begin(s) PROVE StepGoal
  <1>. USE DEF ExecuteLabels, HaltLabels, HalfUpdated, fg
  <1>1. machine = "up" /\ UpInv /\ Chains /\ TypeOK /\ old_terminal \in active /\ StackInv
    BY ThreadFacts DEF halt_begin, Running, TableInv, IInv, UpInv, Threads
  <1>2. /\ pc[fg] = "user" /\ pc' = [pc EXCEPT ![fg] = "hqueue"]
        /\ cur' = [cur EXCEPT ![fg] = cr3] /\ new' = [new EXCEPT ![fg] = openTasks[cr3]]
        /\ UNCHANGED <<machine, cr3, openTasks, newterminal_flag, old_terminal, active,
                       program_id, term_cr3, frame, vmap>>
    BY DEF halt_begin, Running, Goto, cpu, terminals
  <1>3. cr3 \in Tasks
    BY <1>1 DEF StackInv
  <1>4. \A t \in Terms : LeafOf(t)' = LeafOf(t)
    BY <1>1, <1>2, <1>3 DEF TypeOK, LeafOf, ThreadCr3, UpInv, Threads
  <1>5. LocalsFollowTable'
    BY <1>1, <1>2, <1>3 DEF TypeOK, StackInv, LocalsInRange, UpInv, LocalsFollowTable, ThreadCr3
  <1>6. Threads'
    BY <1>1, <1>2 DEF TypeOK, UpInv, Threads
  <1>7. PidFollows'
    BY <1>1, <1>2, <1>3 DEF TypeOK, UpInv, PidFollows
  <1>8. FramesSaved'
    BY <1>1, <1>2 DEF TypeOK, UpInv, FramesSaved
  <1>9. Mapped'
    BY <1>1, <1>2 DEF UpInv, Mapped
  <1>. QED  BY <1>1, <1>2, <1>4, <1>5, <1>6, <1>7, <1>8, <1>9, StutterStep DEF UpInv, StepGoal

(* A shell without a parent is restarted on the directory it had.          *)
LEMMA HaltQueueStep ==
    ASSUME IInv, TableInv, halt_queue PROVE StepGoal
  <1>. USE DEF ExecuteLabels, HaltLabels, HalfUpdated, fg
  <1>1. machine = "up" /\ UpInv /\ Chains /\ TypeOK /\ old_terminal \in active /\ StackInv
    BY ThreadFacts DEF halt_queue, Running, TableInv, IInv, UpInv, Threads
  <1>2. /\ pc[fg] = "hqueue"
        /\ \/ /\ new[fg] = 0
              /\ pc' = [pc EXCEPT ![fg] = "user"] /\ cur' = [cur EXCEPT ![fg] = 0]
           \/ new[fg] # 0 /\ pc' = [pc EXCEPT ![fg] = "hbind"] /\ cur' = cur
        /\ UNCHANGED <<machine, cr3, openTasks, newterminal_flag, old_terminal, active,
                       program_id, term_cr3, frame, vmap, new>>
    BY DEF halt_queue, ParentIn, Running, Goto, cpu, terminals
  <1>3. cur[fg] = cr3 /\ new[fg] \in {0} \cup Tasks
    <2>1. cur[fg] = cr3 /\ openTasks[cur[fg]] = new[fg] /\ LeafOf(fg) = cur[fg]
      BY <1>1, <1>2 DEF UpInv, LocalsFollowTable, ThreadCr3, LeafOf, Threads
    <2>2. new[fg] # FREE /\ new[fg] \in -1 .. MaxTask
      BY <1>1, <1>2, <2>1, ThreadFacts DEF StackInv, LocalsInRange, TypeOK
    <2>. QED  BY <2>1, <2>2, MaxTaskAssumption DEF FREE, Tasks
  <1>4. \A t \in Terms : LeafOf(t)' = LeafOf(t)
    BY <1>1, <1>2, <1>3 DEF TypeOK, LeafOf, ThreadCr3, UpInv, Threads
  <1>5. LocalsFollowTable'
    BY <1>1, <1>2, <1>3 DEF TypeOK, StackInv, LocalsInRange, UpInv, LocalsFollowTable, ThreadCr3
  <1>6. Threads'
    BY <1>1, <1>2 DEF TypeOK, UpInv, Threads
  <1>7. PidFollows'
    BY <1>1, <1>2, <1>3 DEF TypeOK, UpInv, PidFollows
  <1>8. FramesSaved'
    BY <1>1, <1>2 DEF TypeOK, UpInv, FramesSaved
  <1>9. Mapped'
    BY <1>1, <1>2 DEF UpInv, Mapped
  <1>. QED  BY <1>1, <1>2, <1>4, <1>5, <1>6, <1>7, <1>8, <1>9, StutterStep DEF UpInv, StepGoal

(* program_id goes back to the parent before cr3 does.                     *)
LEMMA HaltBindStep ==
    ASSUME IInv, TableInv, halt_bind PROVE StepGoal
  <1>. USE DEF ExecuteLabels, HaltLabels, HalfUpdated, fg
  <1>1. machine = "up" /\ UpInv /\ Chains /\ TypeOK /\ old_terminal \in active /\ StackInv
    BY ThreadFacts DEF halt_bind, Running, TableInv, IInv, UpInv, Threads
  <1>2. /\ pc[fg] = "hbind" /\ pc' = [pc EXCEPT ![fg] = "hpage"]
        /\ program_id' = [program_id EXCEPT ![fg] = new[fg]]
        /\ UNCHANGED <<machine, cr3, openTasks, newterminal_flag, old_terminal, active,
                       term_cr3, frame, vmap, cur, new>>
    BY DEF halt_bind, BackTo, ParentIn, Running, Goto, cpu, locals
  <1>3. new[fg] \in Tasks
    BY <1>1, <1>2 DEF UpInv, LocalsFollowTable
  <1>4. \A t \in Terms : LeafOf(t)' = LeafOf(t)
    BY <1>1, <1>2, <1>3 DEF TypeOK, LeafOf, ThreadCr3, UpInv, Threads
  <1>5. LocalsFollowTable'
    BY <1>1, <1>2, <1>3 DEF TypeOK, StackInv, LocalsInRange, UpInv, LocalsFollowTable, ThreadCr3
  <1>6. Threads'
    BY <1>1, <1>2 DEF TypeOK, UpInv, Threads
  <1>7. PidFollows'
    BY <1>1, <1>2, <1>3 DEF TypeOK, UpInv, PidFollows
  <1>8. FramesSaved'
    BY <1>1, <1>2 DEF TypeOK, UpInv, FramesSaved
  <1>9. Mapped'
    BY <1>1, <1>2 DEF UpInv, Mapped
  <1>. QED  BY <1>1, <1>2, <1>4, <1>5, <1>6, <1>7, <1>8, <1>9, StutterStep DEF UpInv, StepGoal

(* The parent has a directory: halt does not hang there.                   *)
LEMMA HaltPageStep ==
    ASSUME IInv, TableInv, halt_page PROVE StepGoal
  <1>. USE DEF ExecuteLabels, HaltLabels, HalfUpdated, fg
  <1>1. machine = "up" /\ UpInv /\ Chains /\ TypeOK /\ old_terminal \in active /\ StackInv
    BY ThreadFacts DEF halt_page, Running, TableInv, IInv, UpInv, Threads
  <1>2. pc[fg] = "hpage" /\ new[fg] \in Tasks /\ cur[fg] = cr3
    BY <1>1 DEF UpInv, LocalsFollowTable, halt_page, Running, ThreadCr3
  <1>3. /\ pc' = [pc EXCEPT ![fg] = "hfree"] /\ cr3' = new[fg]
        /\ UNCHANGED <<machine, openTasks, newterminal_flag, old_terminal, active, program_id,
                       term_cr3, frame, vmap, cur, new>>
    BY <1>2 DEF halt_page, ParentIn, Running, Goto, terminals, locals
  <1>4. \A t \in Terms : LeafOf(t)' = LeafOf(t)
    BY <1>1, <1>2, <1>3 DEF TypeOK, LeafOf, ThreadCr3, UpInv, Threads
  <1>5. LocalsFollowTable'
    BY <1>1, <1>2, <1>3 DEF TypeOK, StackInv, LocalsInRange, UpInv, LocalsFollowTable, ThreadCr3
  <1>6. Threads'
    BY <1>1, <1>3 DEF TypeOK, UpInv, Threads
  <1>7. PidFollows'
    BY <1>1, <1>2, <1>3 DEF TypeOK, UpInv, PidFollows
  <1>8. FramesSaved'
    BY <1>1, <1>2, <1>3 DEF TypeOK, UpInv, FramesSaved
  <1>9. Mapped'
    BY <1>1, <1>3 DEF UpInv, Mapped
  <1>. QED  BY <1>1, <1>3, <1>4, <1>5, <1>6, <1>7, <1>8, <1>9, StutterStep DEF UpInv, StepGoal

(* The release of the slot is Exit: the parent is the leaf again.          *)
LEMMA HaltFreeStep ==
    ASSUME IInv, TableInv, halt_free PROVE StepGoal
  <1>. USE DEF ExecuteLabels, HaltLabels, HalfUpdated, fg
  <1>1. machine = "up" /\ UpInv /\ Chains /\ TypeOK /\ old_terminal \in active /\ StackInv
    BY ThreadFacts DEF halt_free, Running, TableInv, IInv, UpInv, Threads
  <1>2. /\ pc[fg] = "hfree" /\ pc' = [pc EXCEPT ![fg] = "hclose"]
        /\ openTasks' = [openTasks EXCEPT ![cur[fg]] = FREE]
        /\ UNCHANGED <<machine, cr3, newterminal_flag, old_terminal, active, program_id,
                       term_cr3, frame, vmap, cur, new>>
    BY DEF halt_free, Running, Goto, cpu, terminals, locals
  <1>3. /\ cur[fg] \in Tasks /\ new[fg] \in Tasks /\ new[fg] = cr3
        /\ openTasks[cur[fg]] = new[fg] /\ LeafOf(fg) = cur[fg]
    BY <1>1, <1>2 DEF TypeOK, StackInv, LocalsInRange, DirectoryFollowsThread, UpInv,
         LocalsFollowTable, ThreadCr3, LeafOf, Threads
  <1>4. [Table!Next]_(Table!vars)
    <2>1. \A t \in Terms : LeafOf(t)' = IF t = fg THEN new[fg] ELSE LeafOf(t)
      BY <1>1, <1>2, <1>3 DEF TypeOK, LeafOf, ThreadCr3, UpInv, Threads
    <2>2. Table!Exit
      BY <1>1, <1>2, <1>3, <2>1, ConstantFacts
         DEF TypeOK, Table!Exit, Table!FREE, FREE, Table!NOLEAF, Table!Tasks, Tasks, Terms
    <2>. QED  BY <2>2 DEF Table!Next
  <1>5. LocalsFollowTable'
    <2>1. \A t \in active : t # fg /\ pc[t] \in ExecuteLabels \ {"scan", "claim"}
              => new[t] \in Tasks \ {cur[fg]}
      <3>1. \A t \in active : pc[t] \in ExecuteLabels \ {"scan", "claim"}
                => new[t] \in Tasks /\ LeafOf(t) = new[t]
        BY <1>1 DEF TypeOK, StackInv, LocalsInRange, DirectoryFollowsThread, LeafOf, UpInv, Threads
      <3>. QED  BY <1>1, <1>3, <3>1, ThreadFacts, ConstantFacts DEF Chains
    <2>2. \A t \in active : t # fg /\ pc[t] \in HaltLabels \ {"hclose"}
              => cur[t] \in Tasks \ {cur[fg]}
      <3>1. \A t \in active : pc[t] \in HaltLabels \ {"hclose"}
                => cur[t] \in Tasks /\ LeafOf(t) = cur[t]
        BY <1>1 DEF TypeOK, StackInv, LocalsInRange, LeafOf, UpInv, Threads
      <3>. QED  BY <1>1, <1>3, <3>1, ThreadFacts, ConstantFacts DEF Chains
    <2>3. \A t \in active : t # fg => UNCHANGED <<pc[t], cur[t], new[t], ThreadCr3(t)>>
      BY <1>1, <1>2 DEF TypeOK, ThreadCr3
    <2>4. \A m \in Tasks \ {cur[fg]} : openTasks'[m] = openTasks[m]
      BY <1>1, <1>2 DEF TypeOK
    <2>5. ASSUME NEW t \in active, t # fg PROVE LocalsFollowTable!(t)'
      BY <1>1, <2>1, <2>2, <2>3, <2>4, <2>5 DEF UpInv, LocalsFollowTable, Threads
    <2>6. LocalsFollowTable!(fg)'
      BY <1>1, <1>2, <1>3 DEF TypeOK
    <2>. QED  BY <1>2, <2>5, <2>6 DEF LocalsFollowTable
  <1>6. Threads'
    BY <1>1, <1>2 DEF TypeOK, UpInv, Threads
  <1>7. PidFollows'
    BY <1>1, <1>2, <1>3 DEF TypeOK, UpInv, PidFollows
  <1>8. FramesSaved'
    <2>1. ~ \E t \in active : pc[t] \in {"queue", "bind", "save"} /\ new[t] = cur[fg]
      <3>1. \A t \in active : pc[t] \in {"queue", "bind", "save"} => LeafOf(t) = new[t]
        BY <1>1 DEF LeafOf, UpInv, Threads
      <3>. QED  BY <1>1, <1>2, <1>3, <3>1, ThreadFacts, ConstantFacts DEF Chains
    <2>2. frame[new[fg]] = "own"
      BY <1>1, <1>3, <2>1 DEF UpInv, FramesSaved
    <2>3. \A m \in Tasks : openTasks'[m] \in Tasks => openTasks'[m] = openTasks[m]
      BY <1>1, <1>2, <1>3, ConstantFacts DEF TypeOK, FREE
    <2>. QED  BY <1>1, <1>2, <2>2, <2>3 DEF TypeOK, UpInv, FramesSaved
  <1>9. Mapped'
    BY <1>1, <1>2 DEF UpInv, Mapped
  <1>. QED  BY <1>1, <1>2, <1>4, <1>5, <1>6, <1>7, <1>8, <1>9 DEF UpInv, StepGoal

(* halt finds the frame that the execute of its parent saved.              *)
LEMMA HaltResumeStep ==
    ASSUME IInv, TableInv, halt_resume PROVE StepGoal
  <1>. USE DEF ExecuteLabels, HaltLabels, HalfUpdated, fg
  <1>1. machine = "up" /\ UpInv /\ Chains /\ TypeOK /\ old_terminal \in active /\ StackInv
    BY ThreadFacts DEF halt_resume, Running, TableInv, IInv, UpInv, Threads
  <1>2. /\ pc[fg] = "hclose" /\ new[fg] \in Tasks /\ new[fg] = cr3 /\ LeafOf(fg) = cr3
        /\ frame[new[fg]] = "own"
    BY <1>1 DEF halt_resume, Running, TypeOK, StackInv, DirectoryFollowsThread, UpInv,
         LocalsFollowTable, FramesSaved, ThreadCr3, LeafOf, Threads
  <1>3. /\ pc' = [pc EXCEPT ![fg] = "ret"]
        /\ frame' = [frame EXCEPT ![new[fg]] = "none"]
        /\ cur' = [cur EXCEPT ![fg] = 0] /\ new' = [new EXCEPT ![fg] = 0]
        /\ UNCHANGED <<machine, cr3, openTasks, newterminal_flag, old_terminal, active,
                       program_id, term_cr3, vmap>>
    BY <1>1, <1>2 DEF halt_resume, ParentIn, Goto, terminals
  <1>10. \A m \in Tasks : openTasks[m] # new[fg]
    BY <1>1, <1>2, ConstantFacts DEF Chains, TypeOK
  <1>4. \A t \in Terms : LeafOf(t)' = LeafOf(t)
    BY <1>1, <1>2, <1>3 DEF TypeOK, LeafOf, ThreadCr3, UpInv, Threads
  <1>5. LocalsFollowTable'
    BY <1>1, <1>2, <1>3 DEF TypeOK, StackInv, LocalsInRange, UpInv, LocalsFollowTable, ThreadCr3
  <1>6. Threads'
    BY <1>1, <1>3 DEF TypeOK, UpInv, Threads
  <1>7. PidFollows'
    BY <1>1, <1>2, <1>3 DEF TypeOK, UpInv, PidFollows
  <1>8. FramesSaved'
    BY <1>1, <1>2, <1>3, <1>10 DEF TypeOK, UpInv, FramesSaved
  <1>9. Mapped'
    BY <1>1, <1>3 DEF UpInv, Mapped
  <1>. QED  BY <1>1, <1>3, <1>4, <1>5, <1>6, <1>7, <1>8, <1>9, StutterStep DEF UpInv, StepGoal

-----------------------------------------------------------------------------
(* The boot path and the keyboard interrupt.                               *)

LEMMA BootStep ==
    ASSUME IInv, TableInv, NEW n \in Tasks, boot(n) PROVE StepGoal
  <1>. USE DEF fg
  <1>1. Init
    BY DEF boot, TableInv
  <1>2. /\ openTasks' = [openTasks EXCEPT ![n] = 0] /\ openTasks[n] = FREE
        /\ program_id' = [program_id EXCEPT ![0] = n] /\ cr3' = n /\ machine' = "up"
        /\ UNCHANGED <<newterminal_flag, old_terminal, active, term_cr3, vmap, pc, cur, new>>
    BY DEF boot, StartShell, FirstFree, locals
  <1>3. LeafOf(0) = 0 /\ LeafOf(0)' = n /\ \A t \in Terms \ {0} : UNCHANGED LeafOf(t)
    BY <1>1, <1>2, ConstantFacts DEF Init, LeafOf, ThreadCr3
  <1>4. [Table!Next]_(Table!vars)
    <2>1. Table!Open(0, n)
      BY <1>1, <1>2, <1>3, ConstantFacts
         DEF Init, Table!Open, Table!Vacant, Table!Live, Table!FREE, FREE, Table!NOLEAF,
             Table!ROOT, Tasks, Terms
    <2>. QED  BY <2>1, ConstantFacts DEF Table!Next, Table!Tasks, Tasks, Table!Terms, Terms
  <1>5. LocalsFollowTable' /\ Threads' /\ PidFollows'
    BY <1>1, <1>2, ConstantFacts
       DEF Init, LocalsFollowTable, Threads, PidFollows, ExecuteLabels, HaltLabels, HalfUpdated
  <1>6. FramesSaved'
    BY <1>1, <1>2, ConstantFacts DEF Init, FramesSaved, FREE
  <1>7. Mapped'
    BY <1>1, <1>2, ConstantFacts DEF Init, Mapped, paging_initialize
  <1>. QED  BY <1>2, <1>4, <1>5, <1>6, <1>7 DEF StepGoal, UpInv

(* What both kinds of switch leave behind: the thread that was on the      *)
(* screen keeps its leaf and its locals, on the directory saved for it.    *)
LEMMA LeavingFacts ==
    ASSUME IInv, TableInv, Interrupted, SwitchRecorded, ~torn'
    PROVE  /\ machine = "up" /\ UpInv /\ Chains /\ TypeOK /\ old_terminal \in active
           /\ pc[fg] \notin HalfUpdated
           /\ \A t \in active : SavedCr3[t] = ThreadCr3(t) /\ SavedPid[t] = ThreadCr3(t)
           /\ \A t \in Terms \ active : SavedPid[t] = 0
           /\ \A p \in Tasks : SavedMap[p] = IF p = cr3 THEN fg ELSE vmap[p]
           /\ cr3 \in Tasks
  <1>. USE DEF fg
  <1>1. machine = "up" /\ UpInv /\ TypeOK /\ StackInv /\ pc[fg] \notin HalfUpdated
    BY DEF Interrupted, SwitchRecorded, TableInv, IInv
  <1>2. Chains
    BY <1>1, ThreadFacts
  <1>3. old_terminal \in active /\ old_terminal \in Terms /\ active \subseteq Terms
    BY <1>1 DEF UpInv, Threads, TypeOK
  <1>4. /\ \A t \in active : SavedCr3[t] = ThreadCr3(t) /\ SavedPid[t] = ThreadCr3(t)
        /\ \A t \in Terms \ active : SavedPid[t] = 0
    BY <1>1, <1>3 DEF TypeOK, StackInv, BackgroundSaved, UpInv, Threads, SavedCr3, SavedPid, ThreadCr3
  <1>5. cr3 \in Tasks /\ \A p \in Tasks : SavedMap[p] = IF p = cr3 THEN fg ELSE vmap[p]
    BY <1>1 DEF TypeOK, StackInv, SavedMap
  <1>. QED  BY <1>1, <1>2, <1>3, <1>4, <1>5

(* Without a free slot the terminal is shown and the machine freezes.      *)
LEMMA SwitchFrozenStep ==
    ASSUME IInv, TableInv, ~torn',
           NEW u \in Terms, terminal_switch_new(u), machine' = "frozen"
    PROVE  StepGoal
  <1>. USE DEF fg
  <1>1. /\ Interrupted /\ SwitchRecorded /\ u # fg /\ u \notin active /\ old_terminal' = u
        /\ active' = active \cup {u} /\ term_cr3' = SavedCr3
        /\ \A n \in Tasks : openTasks[n] # FREE
        /\ newterminal_flag' = 1
        /\ UNCHANGED <<openTasks, cr3, pc, cur, new>>
    BY DEF terminal_switch_new, Interrupted, locals
  <1>2. UpInv /\ \A t \in active : SavedCr3[t] = ThreadCr3(t)
    BY <1>1, LeavingFacts
  <1>3. \A t \in Terms : LeafOf(t)' = LeafOf(t)
    BY <1>1, <1>2 DEF LeafOf, ThreadCr3, UpInv, Threads
  <1>4. Table!Show(u)
    BY <1>1, <1>3 DEF Table!Show, Table!Live, Table!Tasks, Tasks, Table!FREE, FREE, Terms
  <1>. QED  BY <1>4 DEF StepGoal, Table!Next, Table!Terms, Terms

(* The shell of a new terminal gets a kernel stack nobody stands on, and   *)
(* the frame it writes into the interrupted program's PCB is not one that  *)
(* a child of that program will return through.                            *)
LEMMA SwitchNewStep ==
    ASSUME IInv, TableInv, ~torn',
           NEW u \in Terms, terminal_switch_new(u), machine' # "frozen"
    PROVE  StepGoal
  <1>. USE DEF fg
  <1>1. PICK n \in Tasks : /\ StartShell(u, n, SavedPid, add_task_to_queue(tasks, u))
                           /\ EnterUser(u, n)
    BY DEF terminal_switch_new
  <1>2. /\ Interrupted /\ SwitchRecorded /\ u # fg /\ u \notin active /\ old_terminal' = u
        /\ active' = active \cup {u} /\ term_cr3' = SavedCr3 /\ vmap' = SavedMap
        /\ newterminal_flag' = 0
        /\ UNCHANGED <<machine, cur, new>>
    BY DEF terminal_switch_new, locals
  <1>3. /\ openTasks[n] = FREE /\ openTasks' = [openTasks EXCEPT ![n] = 0]
        /\ program_id' = [SavedPid EXCEPT ![u] = n] /\ cr3' = n
        /\ frame' = [p \in Tasks |-> IF p = n THEN "none" ELSE IF p = cr3 THEN "irq" ELSE frame[p]]
    BY <1>1 DEF StartShell, FirstFree
  <1>4. /\ machine = "up" /\ UpInv /\ Chains /\ TypeOK /\ old_terminal \in active
        /\ pc[fg] \notin HalfUpdated
        /\ \A t \in active : SavedCr3[t] = ThreadCr3(t) /\ SavedPid[t] = ThreadCr3(t)
        /\ \A t \in Terms \ active : SavedPid[t] = 0
        /\ \A p \in Tasks : SavedMap[p] = IF p = cr3 THEN fg ELSE vmap[p]
        /\ cr3 \in Tasks
    BY <1>2, LeavingFacts
  <1>5. \A t \in active : StackOf(t) # n /\ LeafOf(t) # n
    <2>1. \A t \in active : StackOf(t) \in {LeafOf(t), openTasks[LeafOf(t)]}
      BY <1>4, ThreadFacts DEF UpInv, Threads, HalfUpdated
    <2>. QED  BY <1>3, <1>4, <2>1, ThreadFacts DEF Chains
  <1>6. pc' = [pc EXCEPT ![u] = "user"]
    BY <1>1, <1>4, <1>5 DEF EnterUser, TypeOK
  <1>7. \A t \in active : t # u /\ t \in Terms /\ UNCHANGED <<pc[t], cur[t], new[t], ThreadCr3(t), LeafOf(t)>>
    BY <1>2, <1>4, <1>6 DEF TypeOK, ThreadCr3, LeafOf, UpInv, Threads
  <1>8. [Table!Next]_(Table!vars)
    <2>1. LeafOf(u) = 0 /\ LeafOf(u)' = n
      BY <1>2, <1>3, <1>4, <1>6 DEF LeafOf, ThreadCr3, TypeOK
    <2>2. \A t \in Terms \ {u} : UNCHANGED LeafOf(t)
      BY <1>2, <1>7 DEF LeafOf
    <2>3. Table!Open(u, n)
      BY <1>2, <1>3, <2>1, <2>2
         DEF Table!Open, Table!Vacant, Table!Live, Table!FREE, FREE, Table!NOLEAF,
             Table!ROOT, Tasks, Terms
    <2>. QED  BY <2>3 DEF Table!Next, Table!Tasks, Tasks, Table!Terms, Terms
  <1>9. LocalsFollowTable'
    <2>. USE DEF ExecuteLabels, HaltLabels
    <2>1. \A m \in Tasks \ {n} : openTasks'[m] = openTasks[m]
      BY <1>3, <1>4 DEF TypeOK
    <2>2. ASSUME NEW t \in active PROVE LocalsFollowTable!(t)'
      <3>1. pc[t] \in ExecuteLabels \ {"scan", "claim"} => new[t] \in Tasks \ {n}
        BY <1>3, <1>4, ConstantFacts
           DEF IInv, StackInv, TypeOK, LocalsInRange, UpInv, LocalsFollowTable, FREE
      <3>2. pc[t] \in HaltLabels \ {"hclose"} => cur[t] \in Tasks \ {n}
        BY <1>3, <1>4, ThreadFacts DEF UpInv, Threads, LeafOf
      <3>3. pc[t] # "claim"
        BY <1>4 DEF UpInv, Threads, HalfUpdated
      <3>. QED  BY <1>4, <1>7, <2>1, <3>1, <3>2, <3>3 DEF UpInv, LocalsFollowTable
    <2>3. LocalsFollowTable!(u)'
      BY <1>4, <1>6 DEF TypeOK
    <2>. QED  BY <1>2, <2>2, <2>3 DEF LocalsFollowTable
  <1>10. Threads'
    BY <1>2, <1>3, <1>4, <1>6, <1>7 DEF TypeOK, UpInv, Threads, SavedPid
  <1>11. PidFollows'
    BY <1>2, <1>3, <1>4, <1>6 DEF TypeOK, PidFollows, SavedPid
  <1>12. FramesSaved'
    <2>1. pc'[u] # "hclose"
      BY <1>4, <1>6 DEF TypeOK
    <2>2. ASSUME NEW m \in Tasks, openTasks'[m] \in Tasks
          PROVE  \/ frame'[openTasks'[m]] = "own"
                 \/ \E t \in active' : pc'[t] \in {"queue", "bind", "save"} /\ new'[t] = m
      <3>1. m # n /\ openTasks'[m] = openTasks[m] /\ openTasks[m] # n
        BY <1>3, <1>4, <2>2, ConstantFacts DEF TypeOK, Chains
      <3>2. CASE \E t \in active : pc[t] \in {"queue", "bind", "save"} /\ new[t] = m
        BY <1>2, <1>7, <3>2
      <3>3. CASE openTasks[m] # cr3
        BY <1>2, <1>3, <1>4, <1>7, <2>2, <3>1, <3>3 DEF UpInv, FramesSaved
      <3>4. CASE openTasks[m] = cr3
        <4>1. cr3 # LeafOf(fg) /\ openTasks[LeafOf(fg)] = cr3 /\ LeafOf(fg) \in Tasks
          BY <1>4, <3>4, ThreadFacts, ConstantFacts DEF Chains, ThreadCr3
        <4>2. m = LeafOf(fg)
          BY <1>4, <3>4, <4>1 DEF Chains
        <4>3. pc[fg] \in {"queue", "bind"} /\ new[fg] = m
          BY <1>4, <4>1, <4>2 DEF LeafOf, ThreadCr3, HalfUpdated, UpInv, Threads, LocalsFollowTable, HaltLabels, ExecuteLabels
        <4>. QED  BY <1>4, <4>3, <3>2
      <3>. QED  BY <3>2, <3>3, <3>4
    <2>. QED  BY <1>2, <2>1, <2>2 DEF FramesSaved
  <1>13. Mapped'
    <2>. SUFFICES ASSUME NEW p \in Tasks PROVE Mapped!(p)'
      BY DEF Mapped
    <2>1. CASE p = cr3
      BY <1>2, <1>4, <2>1 DEF ThreadCr3
    <2>2. CASE p # cr3
      BY <1>2, <1>4, <2>2 DEF ThreadCr3, UpInv, Mapped
    <2>. QED  BY <2>1, <2>2
  <1>. QED  BY <1>2, <1>4, <1>8, <1>9, <1>10, <1>11, <1>12, <1>13 DEF StepGoal, UpInv

(* A terminal that is shown again finds its thread as it left it.          *)
LEMMA SwitchBackStep ==
    ASSUME IInv, TableInv, ~torn',
           NEW u \in Terms, terminal_switch_back(u)
    PROVE  StepGoal
  <1>. USE DEF fg
  <1>1. /\ Interrupted /\ SwitchRecorded /\ u # fg /\ u \in active /\ old_terminal' = u
        /\ term_cr3' = SavedCr3 /\ program_id' = SavedPid
        /\ vmap' = video_mapping(SavedMap, program_id[u]) /\ cr3' = term_cr3[u]
        /\ machine' = (IF pc[u] = "trashed" THEN "lost" ELSE "up")
        /\ UNCHANGED <<openTasks, newterminal_flag, active, frame, pc, cur, new>>
    BY DEF terminal_switch_back, locals
  <1>2. /\ machine = "up" /\ UpInv /\ Chains /\ TypeOK /\ old_terminal \in active
        /\ pc[fg] \notin HalfUpdated
        /\ \A t \in active : SavedCr3[t] = ThreadCr3(t) /\ SavedPid[t] = ThreadCr3(t)
        /\ \A t \in Terms \ active : SavedPid[t] = 0
        /\ \A p \in Tasks : SavedMap[p] = IF p = cr3 THEN fg ELSE vmap[p]
        /\ cr3 \in Tasks
    BY <1>1, LeavingFacts
  <1>3. machine' = "up" /\ pc[u] \notin HalfUpdated
    BY <1>1, <1>2 DEF UpInv, Threads
  <1>4. ThreadCr3(u) = term_cr3[u] /\ term_cr3[u] \in Tasks /\ program_id[u] = term_cr3[u]
    BY <1>1, <1>2 DEF IInv, StackInv, BackgroundSaved, ThreadCr3
  <1>5. \A t \in active : t \in Terms /\ UNCHANGED <<ThreadCr3(t), LeafOf(t)>>
    BY <1>1, <1>2, <1>4 DEF TypeOK, ThreadCr3, LeafOf, UpInv, Threads
  <1>6. [Table!Next]_(Table!vars)
    <2>1. \A t \in Terms : UNCHANGED LeafOf(t)
      BY <1>1, <1>5 DEF LeafOf
    <2>2. LeafOf(u) # 0
      BY <1>1, <1>2, ThreadFacts, ConstantFacts
    <2>3. Table!Show(u)
      BY <1>1, <2>1, <2>2 DEF Table!Show, Table!NOLEAF, Terms
    <2>. QED  BY <2>3 DEF Table!Next, Table!Terms, Terms
  <1>7. LocalsFollowTable'
    BY <1>1, <1>2, <1>5 DEF UpInv, LocalsFollowTable
  <1>8. Threads'
    BY <1>1, <1>2 DEF UpInv, Threads
  <1>9. PidFollows'
    BY <1>1, <1>2, <1>3, <1>4 DEF PidFollows, HalfUpdated
  <1>10. FramesSaved'
    BY <1>1, <1>2, <1>3 DEF UpInv, FramesSaved, HalfUpdated
  <1>11. Mapped'
    <2>. SUFFICES ASSUME NEW p \in Tasks PROVE Mapped!(p)'
      BY DEF Mapped
    <2>1. cr3 # term_cr3[u] /\ \A t \in active : t # u => SavedCr3[t] # term_cr3[u]
      BY <1>1, <1>2, <1>4, ThreadFacts DEF ThreadCr3
    <2>2. vmap'[p] = IF p = term_cr3[u] THEN VIDEO ELSE IF p = cr3 THEN fg ELSE vmap[p]
      BY <1>1, <1>2, <1>4 DEF video_mapping, SavedMap, TypeOK
    <2>3. CASE p = term_cr3[u]
      BY <1>1, <2>1, <2>2, <2>3
    <2>4. CASE p = cr3
      BY <1>1, <1>2, <2>1, <2>2, <2>4 DEF ThreadCr3
    <2>5. CASE p # cr3 /\ p # term_cr3[u]
      BY <1>1, <1>2, <2>1, <2>2, <2>5 DEF ThreadCr3, UpInv, Mapped
    <2>. QED  BY <2>3, <2>4, <2>5
  <1>. QED  BY <1>3, <1>6, <1>7, <1>8, <1>9, <1>10, <1>11 DEF StepGoal, UpInv

-----------------------------------------------------------------------------

LEMMA NextLeavesBoot == Next => machine' # "boot"
  <1>1. KernelStep => machine' # "boot"
    BY DEF KernelStep, execute_scan, execute_claim, execute_queue, execute_bind, execute_save,
           execute_page, execute_enter, halt_queue, halt_bind, halt_page, halt_free,
           halt_resume, execute_return, syscall_store, syscall_iret, user_result, Running
  <1>2. UserStep => machine' # "boot"
    BY DEF UserStep, execute_begin, execute_fail, execute_hang, halt_begin, call_begin,
           call_end, exception, Running
  <1>. QED  BY <1>1, <1>2 DEF Next, boot, terminal_switch_new, terminal_switch_back, Interrupted

LEMMA TableStep ==
    ASSUME IInv, TableInv, ~torn', [Next]_vars
    PROVE  [Table!Next]_(Table!vars) /\ TableInv'
  <1>1. CASE Next
    <2>1. StepGoal
      <3>1. ASSUME NEW n \in Tasks, boot(n) PROVE StepGoal
        BY <3>1, BootStep
      <3>2. CASE KernelStep
        BY <3>2, PlainSteps, ScanStep, ClaimStep, QueueStep, BindStep, SaveStep, PageStep,
           EnterStep, HaltQueueStep, HaltBindStep, HaltPageStep, HaltFreeStep, HaltResumeStep
           DEF KernelStep
      <3>3. CASE UserStep
        <4>1. CASE exception
          <5>1. machine' = "frozen" /\ UNCHANGED <<openTasks, old_terminal, newterminal_flag, active, term_cr3, cr3, pc, cur, new>>
            BY <4>1 DEF exception, cpu, terminals, locals
          <5>2. \A t \in Terms : LeafOf(t)' = LeafOf(t)
            BY <5>1 DEF LeafOf, ThreadCr3
          <5>. QED  BY <5>1, <5>2, StutterStep DEF StepGoal
        <4>2. ASSUME NEW s \in Status, halt_begin(s) PROVE StepGoal
          BY <4>2, HaltBeginStep
        <4>. QED  BY <3>3, <4>1, <4>2, PlainSteps, BeginStep DEF UserStep
      <3>4. ASSUME NEW u \in Terms, terminal_switch_new(u) PROVE StepGoal
        BY <3>4, SwitchFrozenStep, SwitchNewStep
      <3>5. ASSUME NEW u \in Terms, terminal_switch_back(u) PROVE StepGoal
        BY <3>5, SwitchBackStep
      <3>. QED  BY <1>1, <3>1, <3>2, <3>3, <3>4, <3>5 DEF Next
    <2>2. (Table!Forest)'
      BY <2>1, ForestStep, TableType DEF StepGoal, TableInv
    <2>3. machine' # "boot"
      BY <1>1, NextLeavesBoot
    <2>. QED  BY <2>1, <2>2, <2>3 DEF StepGoal, TableInv
  <1>2. CASE UNCHANGED vars
    <2>. USE <1>2 DEF vars, cpu, terminals, globals, locals, history
    <2>1. \A t \in Terms : LeafOf(t)' = LeafOf(t)
      BY DEF LeafOf, ThreadCr3
    <2>2. [Table!Next]_(Table!vars)
      BY <2>1, StutterStep
    <2>3. (Table!Forest)'
      BY <2>2, ForestStep, TableType DEF TableInv
    <2>4. UpInv' <=> UpInv
      BY DEF UpInv, LocalsFollowTable, Threads, PidFollows, FramesSaved, Mapped, ThreadCr3, fg
    <2>5. Init' <=> Init
      BY DEF Init
    <2>. QED  BY <2>2, <2>3, <2>4, <2>5 DEF TableInv
  <1>. QED  BY <1>1, <1>2

LEMMA TableInit == Init => Table!Init /\ TableInv
  <1>. SUFFICES ASSUME Init PROVE Table!Init /\ TableInv
    OBVIOUS
  <1>1. \A t \in Terms : LeafOf(t) = 0
    BY DEF Init, LeafOf, ThreadCr3
  <1>2. Table!Init
    BY <1>1 DEF Init, Table!Init, Table!Tasks, Tasks, Table!Terms, Terms, Table!FREE, FREE, Table!NOLEAF
  <1>3. machine = "boot"
    BY DEF Init
  <1>. QED  BY <1>2, <1>3, ForestStep DEF TableInv

(* A torn switch is never forgotten.                                       *)
LEMMA TornStays == IInv /\ [Next]_vars => (torn => torn')
  <1>. SUFFICES ASSUME IInv, torn, [Next]_vars PROVE torn'
    OBVIOUS
  <1>. USE DEF history
  <1>1. CASE KernelStep
    BY <1>1 DEF KernelStep, execute_scan, execute_claim, execute_queue, execute_bind, execute_save,
           execute_page, execute_enter, halt_queue, halt_bind, halt_page, halt_free,
           halt_resume, execute_return, syscall_store, syscall_iret, user_result
  <1>2. CASE UserStep
    BY <1>2 DEF UserStep, execute_begin, execute_fail, execute_hang, halt_begin, call_begin,
           call_end, exception
  <1>3. CASE \E n \in Tasks : boot(n)
    BY <1>3 DEF boot
  <1>4. CASE \E u \in Terms : terminal_switch_new(u) \/ terminal_switch_back(u)
    BY <1>4 DEF terminal_switch_new, terminal_switch_back, SwitchRecorded
  <1>5. CASE UNCHANGED vars
    BY <1>5 DEF vars
  <1>. QED  BY <1>1, <1>2, <1>3, <1>4, <1>5 DEF Next

(* The invariant of all behaviours, torn or not.                           *)
WholeInv == IInv /\ (torn \/ TableInv)

LEMMA WholeInit == Init => WholeInv /\ Table!Init
  BY InitInv, TableInit DEF WholeInv

LEMMA WholeStep ==
    WholeInv /\ [Next]_vars => WholeInv' /\ [torn' \/ Table!Next]_(Table!vars)
  <1>. SUFFICES ASSUME WholeInv, [Next]_vars
                PROVE  WholeInv' /\ [torn' \/ Table!Next]_(Table!vars)
    OBVIOUS
  <1>1. IInv'
    BY NextInv DEF WholeInv
  <1>2. CASE torn'
    BY <1>1, <1>2 DEF WholeInv
  <1>3. CASE ~torn'
    <2>1. TableInv
      BY <1>3, TornStays DEF WholeInv
    <2>2. [Table!Next]_(Table!vars) /\ TableInv'
      BY <1>3, <2>1, TableStep DEF WholeInv
    <2>. QED  BY <1>1, <2>2 DEF WholeInv
  <1>. QED  BY <1>2, <1>3

(* execute, halt and terminal_switch, interleaved statement by statement,  *)
(* implement TaskTable: up to the first switch that lands in one of the    *)
(* six half-updated windows, openTasks changes as if each of them were one *)
(* step, for every number of slots and terminals.                          *)
THEOREM KernelImplementsTable == Spec => TableSpec
  BY WholeInit, WholeStep, PTL DEF Spec, TableSpec

(* Up to there no two terminals run the same pid, ...                      *)
THEOREM PidUniqueCorrect == Spec => [](torn \/ PidUnique)
  <1>1. TableInv => PidUnique
    BY ForestChains DEF TableInv, Chains, PidUnique
  <1>2. WholeInv => torn \/ PidUnique
    BY <1>1 DEF WholeInv
  <1>. QED  BY <1>2, WholeInit, WholeStep, PTL DEF Spec

(* ... halt gets back into the execute of its parent and every terminal    *)
(* finds its kernel stack as it left it, ...                               *)
THEOREM NeverLostCorrect == Spec => []NeverLostUnlessTorn
  <1>1. WholeInv => NeverLostUnlessTorn
    BY DEF WholeInv, TableInv, NeverLost, NeverLostUnlessTorn
  <1>. QED  BY <1>1, WholeInit, WholeStep, PTL DEF Spec

(* ... find_terminal returns the terminal of the program that calls it,    *)
(* although program_id is 0 for every unopened terminal, ...               *)
THEOREM TerminalFoundCorrect == Spec => []TerminalFoundUnlessTorn
  <1>3. IInv /\ TableInv => TerminalFound
    <2>. SUFFICES ASSUME IInv, TableInv, machine = "up", pc[fg] \in UserLabels \cup {"call"}
                  PROVE  find_terminal(program_id, cr3) = fg
      BY DEF TerminalFound
    <2>1. UpInv /\ fg \in Terms /\ fg \in active /\ cr3 \in Tasks
      BY DEF TableInv, IInv, TypeOK, StackInv, UpInv, Threads, fg
    <2>2. program_id[fg] = cr3
      BY <2>1 DEF UpInv, PidFollows, UserLabels
    <2>3. \A t \in Terms : t # fg => program_id[t] # cr3
      <3>1. \A t \in active : t # fg => program_id[t] = ThreadCr3(t)
        BY <2>1 DEF IInv, TypeOK, StackInv, BackgroundSaved, ThreadCr3, fg
      <3>2. ThreadCr3(fg) = cr3
        BY DEF ThreadCr3, fg
      <3>3. \A t \in Terms \ active : program_id[t] = 0
        BY <2>1 DEF UpInv, Threads
      <3>. QED  BY <2>1, <3>1, <3>2, <3>3, ThreadFacts, ConstantFacts
    <2>4. fg <= fg
      BY <2>1, ConstantFacts
    <2>. QED  BY <2>1, <2>2, <2>3, <2>4 DEF find_terminal, FirstWith
  <1>4. WholeInv => TerminalFoundUnlessTorn
    BY <1>3 DEF WholeInv, TerminalFoundUnlessTorn
  <1>. QED  BY <1>4, WholeInit, WholeStep, PTL DEF Spec

(* ... and the program on the screen writes to the screen, every other     *)
(* terminal's program to the buffer of its terminal.                       *)
THEOREM VideoVisibleCorrect == Spec => []VideoVisibleUnlessTorn
  <1>3. IInv /\ TableInv => VideoVisible
    <2>. SUFFICES ASSUME IInv, TableInv, machine = "up", NEW t \in active
                  PROVE  vmap[ThreadCr3(t)] = IF t = old_terminal THEN VIDEO ELSE t
      BY DEF VideoVisible
    <2>1. Mapped /\ old_terminal \in active
      BY DEF TableInv, UpInv, Threads
    <2>2. \A u \in active \ {old_terminal} : ThreadCr3(u) = term_cr3[u]
      BY DEF ThreadCr3
    <2>. QED  BY <2>1, <2>2, ThreadFacts DEF Mapped, fg
  <1>4. WholeInv => VideoVisibleUnlessTorn
    BY <1>3 DEF WholeInv, VideoVisibleUnlessTorn
  <1>. QED  BY <1>4, WholeInit, WholeStep, PTL DEF Spec
=============================================================================
