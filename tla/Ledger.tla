------------------------------- MODULE Ledger -------------------------------
(***************************************************************************)
(* What mission control promises of a project's work, whatever its agents, *)
(* operators and crashes do: a task depends on tasks that exist, its work  *)
(* lands only on top of the work of all of them, what has landed stays     *)
(* landed, and a task counts as done only by landing.                      *)
(*                                                                         *)
(* Of a task whose id was given twice nothing is promised: its work may    *)
(* land on top of anything.  The other tasks are not affected.             *)
(***************************************************************************)

CONSTANT Tasks

VARIABLES
  known,    \* tasks that exist
  again,    \* tasks that were created more than once
  deps,     \* the dependencies of each task
  landed,   \* tasks whose work was accepted, ever
  done      \* tasks that count as completed

vars == <<known, again, deps, landed, done>>

Init ==
  /\ landed = {} /\ done = {} /\ again = {}
  /\ known \subseteq Tasks
  /\ deps \in [Tasks -> SUBSET known]

Create(t, D) ==
  /\ D \subseteq known
  /\ known' = known \cup {t}
  /\ again' = IF t \in known THEN again \cup {t} ELSE again
  /\ deps' = [deps EXCEPT ![t] = D]
  /\ done' = done \ {t}
  /\ UNCHANGED landed

Land(t) ==
  /\ t \in known
  /\ t \in again \/ deps[t] \subseteq landed
  /\ landed' = landed \cup {t}
  /\ done' = done \cup {t}
  /\ UNCHANGED <<known, again, deps>>

\* A completed task is reopened or abandoned; its work stays.
Undo(t) ==
  /\ t \in done
  /\ done' = done \ {t}
  /\ UNCHANGED <<known, again, deps, landed>>

Next == \E t \in Tasks :
  Land(t) \/ Undo(t) \/ \E D \in SUBSET Tasks : Create(t, D)

Spec == Init /\ [][Next]_vars

=============================================================================
