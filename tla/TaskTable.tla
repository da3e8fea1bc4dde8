----------------------------- MODULE TaskTable -----------------------------
(***************************************************************************)
(* What execute, halt and terminal_switch promise together, with each of   *)
(* them taken as one indivisible step: the slots of openTasks form one     *)
(* chain of programs per opened terminal.  A chain starts at the shell     *)
(* that the terminal was opened with, every program in it is suspended in  *)
(* the execute call that started the next one, and the last one (the       *)
(* leaf) is the program the terminal runs.                                 *)
(***************************************************************************)
EXTENDS Integers

CONSTANTS MaxTask,      \* program slots: openTasks[1 .. MaxTask], 6 in the code
          MaxTerm       \* terminals 0 .. MaxTerm - 1, MAXTERMS = 3 in the code

ASSUME MaxTaskAssumption == MaxTask \in Nat \ {0}
ASSUME MaxTermAssumption == MaxTerm \in Nat \ {0}

Tasks == 1 .. MaxTask
Terms == 0 .. MaxTerm - 1

FREE == -1      \* the openTasks value of a slot that holds no program
ROOT == 0       \* the openTasks value of a shell started by the kernel
NOLEAF == 0     \* a terminal that was never opened runs no program

VARIABLES parent,       \* [Tasks -> {FREE, ROOT} \cup Tasks]: openTasks
          leaf,         \* [Terms -> {NOLEAF} \cup Tasks]: the program of a terminal
          fg            \* the terminal on the screen: old_terminal

vars == <<parent, leaf, fg>>

Live == {n \in Tasks : parent[n] # FREE}

(* The slot scan accepts slot n.                                           *)
Vacant_any(n) == n \in Tasks            \* mutant: no look at openTasks[n]
Vacant(n) == n \notin Live

Init ==
    /\ parent = [n \in Tasks |-> FREE]
    /\ leaf = [t \in Terms |-> NOLEAF]
    /\ fg = 0

(* The kernel starts a shell in slot n for the unopened terminal t: at boot *)
(* for terminal 0, later on the first switch to t.                          *)
Open(t, n) ==
    /\ leaf[t] = NOLEAF
    /\ Vacant(n)
    /\ parent' = [parent EXCEPT ![n] = ROOT]
    /\ leaf' = [leaf EXCEPT ![t] = n]
    /\ fg' = t

(* execute: the foreground program starts a child in slot n.               *)
Spawn(n) ==
    /\ leaf[fg] # NOLEAF
    /\ Vacant(n)
    /\ parent' = [parent EXCEPT ![n] = leaf[fg]]
    /\ leaf' = [leaf EXCEPT ![fg] = n]
    /\ UNCHANGED fg

(* halt: the foreground program gives its slot back and its parent goes on. *)
(* A shell without a parent is restarted in place and changes nothing here. *)
Exit ==
    /\ leaf[fg] # NOLEAF
    /\ parent[leaf[fg]] \in Tasks
    /\ leaf' = [leaf EXCEPT ![fg] = parent[leaf[fg]]]
    /\ parent' = [parent EXCEPT ![leaf[fg]] = FREE]
    /\ UNCHANGED fg

(* terminal_switch to a terminal that was opened before.  A terminal that  *)
(* was not can only be shown, without a shell, when no slot is left.       *)
Show(t) ==
    /\ leaf[t] # NOLEAF \/ Live = Tasks
    /\ fg' = t
    /\ UNCHANGED <<parent, leaf>>

Next ==
    \/ \E t \in Terms, n \in Tasks : Open(t, n)
    \/ \E n \in Tasks : Spawn(n)
    \/ Exit
    \/ \E t \in Terms : Show(t)

Spec == Init /\ [][Next]_vars

-----------------------------------------------------------------------------

TypeOK ==
    /\ parent \in [Tasks -> {FREE, ROOT} \cup Tasks]
    /\ leaf \in [Terms -> {NOLEAF} \cup Tasks]
    /\ fg \in Terms

LeafIsLive == \A t \in Terms : leaf[t] # NOLEAF => leaf[t] \in Live

LeafIsUnique == \A t, u \in Terms : leaf[t] # NOLEAF /\ leaf[t] = leaf[u] => t = u

LeafHasNoChild ==
    \A t \in Terms, n \in Tasks : leaf[t] # NOLEAF => parent[n] # leaf[t]

ParentIsLive == \A n \in Tasks : parent[n] \in Tasks => parent[n] \in Live

AtMostOneChild ==
    \A m, n \in Tasks : parent[m] = parent[n] /\ parent[m] \in Tasks => m = n

EveryTaskContinues ==
    \A n \in Live : (\E t \in Terms : leaf[t] = n) \/ (\E m \in Tasks : parent[m] = n)

(* Every program in openTasks is either what some terminal runs or waits   *)
(* for exactly one live child; no program runs on two terminals, none is   *)
(* run while it waits, and no program waits for a slot that was given      *)
(* back.  This is what the save and restore of one esp/ebp pair per PCB    *)
(* (execute 187-196, halt 347-348) relies on.                              *)
Forest ==
    /\ LeafIsLive
    /\ LeafIsUnique
    /\ LeafHasNoChild
    /\ ParentIsLive
    /\ AtMostOneChild
    /\ EveryTaskContinues

=============================================================================
