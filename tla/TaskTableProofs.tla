-------------------------- MODULE TaskTableProofs --------------------------
(***************************************************************************)
(* The chains of suspended programs stay chains, for every number of slots *)
(* and of terminals.                                                       *)
(***************************************************************************)
EXTENDS TaskTable, TLAPS

LEMMA ConstantFacts ==
    /\ Tasks \subseteq Nat \ {0}
    /\ 0 \in Terms
    /\ FREE \notin Tasks /\ ROOT \notin Tasks /\ NOLEAF \notin Tasks
    /\ FREE # ROOT
  BY MaxTaskAssumption, MaxTermAssumption DEF Tasks, Terms, FREE, ROOT, NOLEAF

LEMMA TypeInductive ==
    /\ Init => TypeOK
    /\ TypeOK /\ [Next]_vars => TypeOK'
  <1>1. Init => TypeOK
    BY ConstantFacts DEF Init, TypeOK
  <1>2. ASSUME TypeOK, [Next]_vars PROVE TypeOK'
    <2>1. ASSUME NEW t \in Terms, NEW n \in Tasks, Open(t, n) PROVE TypeOK'
      BY <1>2, <2>1 DEF Open, TypeOK
    <2>2. ASSUME NEW n \in Tasks, Spawn(n) PROVE TypeOK'
      BY <1>2, <2>2 DEF Spawn, TypeOK, NOLEAF
    <2>3. CASE Exit
      BY <1>2, <2>3 DEF Exit, TypeOK
    <2>4. ASSUME NEW t \in Terms, Show(t) PROVE TypeOK'
      BY <1>2, <2>4 DEF Show, TypeOK
    <2>5. CASE UNCHANGED vars
      BY <1>2, <2>5 DEF vars, TypeOK
    <2>. QED  BY <1>2, <2>1, <2>2, <2>3, <2>4, <2>5 DEF Next
  <1>. QED  BY <1>1, <1>2

(* The table and the programs of the terminals keep their types, for any   *)
(* number of slots and terminals.                                          *)
THEOREM TypeCorrect == Spec => []TypeOK
  <1>1. Init => TypeOK
    BY TypeInductive
  <1>2. TypeOK /\ [Next]_vars => TypeOK'
    BY TypeInductive
  <1>. QED  BY <1>1, <1>2, PTL DEF Spec

-----------------------------------------------------------------------------
(* One lemma per action that moves a leaf.  The conjuncts of Forest lean   *)
(* on each other: a free slot has no child (ParentIsLive), so a new leaf   *)
(* has none; the leaf has no child (LeafHasNoChild), so giving its slot    *)
(* back leaves no orphan; each program has at most one child               *)
(* (AtMostOneChild), so the parent that goes on has no other.              *)

LEMMA OpenForest ==
    ASSUME TypeOK, Forest, NEW t \in Terms, NEW n \in Tasks, Open(t, n)
    PROVE  Forest'
  <1>. USE ConstantFacts DEF TypeOK, Forest
  <1>1. /\ parent[n] = FREE
        /\ parent' = [parent EXCEPT ![n] = ROOT]
        /\ leaf' = [leaf EXCEPT ![t] = n]
        /\ leaf[t] = NOLEAF
    BY DEF Open, Vacant, Live
  <1>2. Live' = Live \cup {n}
    BY <1>1 DEF Live
  <1>3. \A m \in Tasks : parent[m] # n
    BY <1>1 DEF ParentIsLive, Live
  <1>4. LeafIsLive'
    BY <1>1, <1>2 DEF LeafIsLive
  <1>5. LeafIsUnique'
    BY <1>1 DEF LeafIsUnique, LeafIsLive, Live
  <1>6. LeafHasNoChild'
    BY <1>1, <1>3 DEF LeafHasNoChild
  <1>7. ParentIsLive'
    BY <1>1, <1>2 DEF ParentIsLive
  <1>8. AtMostOneChild'
    BY <1>1 DEF AtMostOneChild
  <1>9. EveryTaskContinues'
    BY <1>1, <1>2, <1>3 DEF EveryTaskContinues, Live
  <1>. QED  BY <1>4, <1>5, <1>6, <1>7, <1>8, <1>9

LEMMA SpawnForest ==
    ASSUME TypeOK, Forest, NEW n \in Tasks, Spawn(n)
    PROVE  Forest'
  <1>. USE ConstantFacts DEF TypeOK, Forest
  <1>1. PICK p \in Tasks : p = leaf[fg]
    BY DEF Spawn
  <1>2. /\ parent[n] = FREE
        /\ parent[p] # FREE
        /\ parent' = [parent EXCEPT ![n] = p]
        /\ leaf' = [leaf EXCEPT ![fg] = n]
    BY <1>1 DEF Spawn, Vacant, Live, LeafIsLive
  <1>3. Live' = Live \cup {n}
    BY <1>2 DEF Live
  <1>4. \A m \in Tasks : parent[m] # n /\ parent[m] # p
    BY <1>1, <1>2 DEF ParentIsLive, LeafHasNoChild, Live
  <1>5. \A t \in Terms : leaf[t] # n
    BY <1>2 DEF LeafIsLive, Live
  <1>6. LeafIsLive'
    BY <1>2, <1>3 DEF LeafIsLive
  <1>7. LeafIsUnique'
    BY <1>2, <1>5 DEF LeafIsUnique
  <1>8. LeafHasNoChild'
    BY <1>1, <1>2, <1>4 DEF LeafHasNoChild, LeafIsUnique
  <1>9. ParentIsLive'
    BY <1>2, <1>3 DEF ParentIsLive, Live
  <1>10. AtMostOneChild'
    BY <1>2, <1>4 DEF AtMostOneChild
  <1>11. EveryTaskContinues'
    <2>. SUFFICES ASSUME NEW m \in Live'
                  PROVE  (\E t \in Terms : leaf'[t] = m) \/ (\E k \in Tasks : parent'[k] = m)
      BY DEF EveryTaskContinues
    <2>1. CASE m = n
      BY <1>2, <2>1
    <2>2. CASE m = p
      BY <1>2, <2>2
    <2>3. CASE m \in Live \ {n, p}
      <3>1. CASE \E t \in Terms : leaf[t] = m
        BY <1>1, <1>2, <2>3, <3>1
      <3>2. CASE \E k \in Tasks : parent[k] = m
        BY <1>2, <2>3, <3>2 DEF Live
      <3>. QED  BY <2>3, <3>1, <3>2 DEF EveryTaskContinues
    <2>. QED  BY <1>3, <2>1, <2>2, <2>3
  <1>. QED  BY <1>6, <1>7, <1>8, <1>9, <1>10, <1>11

LEMMA ExitForest ==
    ASSUME TypeOK, Forest, Exit
    PROVE  Forest'
  <1>. USE ConstantFacts DEF TypeOK, Forest
  <1>1. PICK c \in Tasks : c = leaf[fg]
    BY DEF Exit
  <1>2. PICK p \in Tasks : p = parent[c]
    BY <1>1 DEF Exit
  <1>3. /\ parent[p] # FREE
        /\ parent' = [parent EXCEPT ![c] = FREE]
        /\ leaf' = [leaf EXCEPT ![fg] = p]
    BY <1>1, <1>2 DEF Exit, ParentIsLive, Live
  <1>4. \A m \in Tasks : parent[m] # c
    BY <1>1 DEF LeafHasNoChild
  <1>5. Live' = Live \ {c}
    BY <1>3 DEF Live
  <1>6. \A t \in Terms : leaf[t] # p
    BY <1>2 DEF LeafHasNoChild
  <1>7. LeafIsLive'
    BY <1>1, <1>2, <1>3, <1>4, <1>5 DEF LeafIsLive, LeafIsUnique, Live
  <1>8. LeafIsUnique'
    BY <1>3, <1>6 DEF LeafIsUnique
  <1>9. LeafHasNoChild'
    BY <1>2, <1>3, <1>6 DEF LeafHasNoChild, AtMostOneChild
  <1>10. ParentIsLive'
    BY <1>3, <1>4, <1>5 DEF ParentIsLive
  <1>11. AtMostOneChild'
    BY <1>3 DEF AtMostOneChild
  <1>12. EveryTaskContinues'
    <2>. SUFFICES ASSUME NEW m \in Live'
                  PROVE  (\E t \in Terms : leaf'[t] = m) \/ (\E k \in Tasks : parent'[k] = m)
      BY DEF EveryTaskContinues
    <2>1. CASE m = p
      BY <1>3, <2>1
    <2>2. CASE m \in Live \ {c, p}
      <3>1. CASE \E t \in Terms : leaf[t] = m
        BY <1>1, <1>3, <2>2, <3>1
      <3>2. CASE \E k \in Tasks : parent[k] = m
        BY <1>2, <1>3, <2>2, <3>2 DEF Live
      <3>. QED  BY <2>2, <3>1, <3>2 DEF EveryTaskContinues
    <2>. QED  BY <1>5, <2>1, <2>2
  <1>. QED  BY <1>7, <1>8, <1>9, <1>10, <1>11, <1>12

LEMMA ForestInductive ==
    /\ Init => Forest
    /\ TypeOK /\ Forest /\ [Next]_vars => Forest'
  <1>1. Init => Forest
    BY ConstantFacts DEF Init, Forest, LeafIsLive, LeafIsUnique, LeafHasNoChild,
          ParentIsLive, AtMostOneChild, EveryTaskContinues, Live
  <1>2. ASSUME TypeOK, Forest, [Next]_vars PROVE Forest'
    <2>1. ASSUME NEW t \in Terms, NEW n \in Tasks, Open(t, n) PROVE Forest'
      BY <1>2, <2>1, OpenForest
    <2>2. ASSUME NEW n \in Tasks, Spawn(n) PROVE Forest'
      BY <1>2, <2>2, SpawnForest
    <2>3. CASE Exit
      BY <1>2, <2>3, ExitForest
    <2>4. CASE (\E t \in Terms : Show(t)) \/ UNCHANGED vars
      <3>1. UNCHANGED <<parent, leaf>>
        BY <2>4 DEF Show, vars
      <3>. QED  BY <1>2, <3>1 DEF Forest, LeafIsLive, LeafIsUnique, LeafHasNoChild,
                  ParentIsLive, AtMostOneChild, EveryTaskContinues, Live
    <2>. QED  BY <1>2, <2>1, <2>2, <2>3, <2>4 DEF Next
  <1>. QED  BY <1>1, <1>2

(* With execute, halt and the terminal switch as single steps, openTasks   *)
(* always holds one chain of suspended programs per opened terminal: the   *)
(* guarantee that PCB(p)->esp is the frame of the one child p waits for.   *)
THEOREM ForestCorrect == Spec => []Forest
  <1>1. Init => Forest
    BY ForestInductive
  <1>2. TypeOK /\ Forest /\ [Next]_vars => Forest'
    BY ForestInductive
  <1>. QED  BY <1>1, <1>2, TypeCorrect, PTL DEF Spec
=============================================================================
