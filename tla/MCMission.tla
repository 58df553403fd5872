----------------------------- MODULE MCMission -----------------------------
(***************************************************************************)
(* t1 and t2 are independent, t3 depends on t1: a batch may hold two       *)
(* tasks, and one of them may unlock or block a third.                     *)
(***************************************************************************)
EXTENDS MissionControl, TLC

CONSTANTS t1, t2, t3

\* t3 shares a surface with t2, so that they never go in one batch, and t1
\* one with nobody.
MCInitially ==
  [t \in Initial |->
     [deps |-> IF t = t3 THEN {t1} ELSE {}, files |-> IF t = t1 THEN {1} ELSE {2}]]

\* Two creates of t3 may differ in what it depends on.
MCRequests == [deps : {{}, {t1}}, files : {{2}}]
MCResources == {1, 2}

\* Operators are alike.
MCSymmetry == Permutations(Operators)

\* One thing goes wrong at a time: an id is given twice, to tasks that differ
\* in their dependencies, after which operators only finish what they have
\* begun; or the server dies, after which one operator is left.
MCBounds ==
  /\ again' = {} \/ crashes' = 0
  /\ again' # again => deps' # deps
  /\ again # {} => \A o \in Operators : command'[o] \in {command[o], NoCommand}
  /\ crashes' > 0 =>
       Cardinality({o \in Operators : command'[o] # NoCommand}) <= 1

=============================================================================
