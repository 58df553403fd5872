----------------------------- MODULE TaskGraph -----------------------------
(***************************************************************************)
(* The task DAG as TaskDAGProjector folds it from the event log: what one  *)
(* event does to the statuses of all the tasks.  Statuses no code of the   *)
(* repository produces an event for (blocked, split, merged) are left out. *)
(***************************************************************************)

CONSTANT Tasks    \* the task ids that are or will be created

\* "absent": no task.created event yet.
Statuses == {"absent", "created", "ready", "dispatched", "submitted",
             "failed", "abandoned", "completed"}

\* _update_dependency_readiness, which follows every event.
Promote(s, deps) ==
  [t \in Tasks |->
     IF s[t] = "created" /\ \A d \in deps[t] : s[d] = "completed"
     THEN "ready" ELSE s[t]]

\* The statuses after an event that sets the status of t.  task.created sets
\* it to "created", which Promote turns into "ready" at once when t has no
\* dependencies.
Becomes(s, deps, t, st) == Promote([s EXCEPT ![t] = st], deps)

=============================================================================
