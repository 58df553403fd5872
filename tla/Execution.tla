----------------------------- MODULE Execution -----------------------------
(***************************************************************************)
(* One execution of a task, from Orchestrator.execute_task to the end of   *)
(* its finally clause: dispatch, agent, candidate, integration gate,       *)
(* recovery.                                                               *)
(*                                                                         *)
(* The coroutines of all executions share one event loop, and await only   *)
(* the agent, so that from begin to await, and from await to end, each has *)
(* the loop to itself (the integration lock is never contended).  A        *)
(* segment is still cut into one step per event that it appends, because   *)
(* other threads append too and the process may die between any two.       *)
(*                                                                         *)
(* Leases are those of module Leases, with the acquisition and the release *)
(* of one run as one step each.                                            *)
(***************************************************************************)
EXTENDS TaskGraph, Integers, Sequences

CONSTANTS
  Agents,       \* agent profiles
  Resources,    \* file surfaces, numbered by their place in sorted()
  None,         \* nobody
  RetryLimit,   \* the last attempt_count that is retried (recovery.py: 2)
  GitFaults     \* can `git rev-parse HEAD` fail right after the merge?

ASSUME ResourcesAreOrdered == Resources \subseteq Nat
ASSUME NoneIsNobody == None \notin Tasks /\ None \notin Agents
ASSUME RetryLimitType == RetryLimit \in Nat
ASSUME GitFaultsType == GitFaults \in BOOLEAN

VARIABLES
  status,     \* TaskDAGProjector: TaskState.status
  attempts,   \* TaskDAGProjector: TaskState.attempt_count
  deps,       \* TaskDAGProjector: TaskState.dependencies
  files,      \* TaskDAGProjector: TaskState.files_declared
  again,      \* the ids with more than one task.created event
  active,     \* LeaseProjector: holder of the active lease of a resource
  branch,     \* the commits the gate put on the integration branch: the task
              \* of each and the length of the branch it was verified on
  accepted,   \* the gate.accepted events: task and merged commit
  pc,         \* where the run of a task is
  agent,      \* its agent_id
  snap,       \* its `task.attempt_count`, read before the dispatch
  surfaces,   \* its `task.files_declared`, read with it
  base,       \* the length of the branch its worktree was created on
  loop        \* the task whose run has the event loop, or None

projection == <<status, attempts>>
requests == <<deps, files, again>>
repository == <<branch, accepted>>
locals == <<agent, snap, surfaces, base>>
execVars == <<projection, requests, active, repository, pc, locals, loop>>

Phases == {"idle", "queued", "admitted", "dispatch", "prepare", "agent", "submit",
           "failing", "verify", "merge", "accept", "recover", "unwind"}

Enter(t, from, to) == pc[t] = from /\ pc' = [pc EXCEPT ![t] = to]

\* A step of the coroutine that has the loop, which keeps it.
Runs(t, from, to) == loop = t /\ Enter(t, from, to) /\ UNCHANGED loop

\* The coroutine returns or raises, and its locals are gone.
Ends(t, from) ==
  /\ Enter(t, from, "idle")
  /\ agent' = [agent EXCEPT ![t] = None]
  /\ snap' = [snap EXCEPT ![t] = 0]
  /\ surfaces' = [surfaces EXCEPT ![t] = {}]
  /\ base' = [base EXCEPT ![t] = 0]

Emit(t, st) == status' = Becomes(status, deps, t, st)

\* Declared surfaces another agent has an active lease on.
Taken(t) == {r \in files[t] : active[r] \notin {None, agent[t]}}

(***************************************************************************)
(* Up to the agent                                                         *)
(***************************************************************************)

\* run_task finds the task not READY, or execute_task the budget exhausted.
\* What is left of the budget is not modelled: it may refuse at any time.
RunRefused(t) ==
  /\ loop = None
  /\ Ends(t, "queued")
  /\ UNCHANGED <<projection, active, repository, loop>>

\* run_task finds the task READY.
RunAdmitted(t) ==
  /\ loop = None /\ status[t] = "ready"
  /\ Enter(t, "queued", "admitted")
  /\ loop' = t
  /\ UNCHANGED <<projection, active, repository, locals>>

\* execute_task reads the task again, and does not look at its status.
\* _acquire_task_leases is refused on its first taken surface r.  What it got
\* before is released; the lease of the other agent on r is left inactive
\* too, because LeaseProjector applies lease.rejected to it.
LeasesRefused(t) ==
  /\ loop = t
  /\ \E r \in Taken(t) :
       /\ \A q \in Taken(t) : r <= q
       /\ active' = [q \in Resources |-> IF q \in files[t] /\ q <= r
                                         THEN None ELSE active[q]]
  /\ Ends(t, "admitted")
  /\ loop' = None
  /\ UNCHANGED <<projection, repository>>

\* _acquire_task_leases succeeds on every surface.
LeasesAcquired(t) ==
  /\ Runs(t, "admitted", "dispatch")
  /\ Taken(t) = {}
  /\ active' = [r \in Resources |-> IF r \in files[t]
                                    THEN agent[t] ELSE active[r]]
  /\ snap' = [snap EXCEPT ![t] = attempts[t]]
  /\ surfaces' = [surfaces EXCEPT ![t] = files[t]]
  /\ UNCHANGED <<projection, repository, agent, base>>

\* TaskScheduler.dispatch_task does not look at the status again.
Dispatch(t) ==
  /\ Runs(t, "dispatch", "prepare")
  /\ Emit(t, "dispatched")
  /\ attempts' = [attempts EXCEPT ![t] = @ + 1]
  /\ UNCHANGED <<active, repository, locals>>

\* The context is compiled, the worktree created at HEAD, the agent awaited.
Prepare(t) ==
  /\ loop = t
  /\ Enter(t, "prepare", "agent")
  /\ loop' = None
  /\ base' = [base EXCEPT ![t] = Len(branch)]
  /\ UNCHANGED <<projection, active, repository, agent, snap, surfaces>>

\* create_worktree raises a WorktreeError, or the context cannot be built.
PrepareFails(t) ==
  /\ Runs(t, "prepare", "failing") \/ Runs(t, "prepare", "unwind")
  /\ UNCHANGED <<projection, active, repository, locals>>

\* The agent completes, reports another status, or raises.  The last leaves
\* the task as it is, "dispatched".
AgentReturns(t) ==
  /\ loop = None
  /\ loop' = t
  /\ \/ Enter(t, "agent", "submit")
     \/ Enter(t, "agent", "failing")
     \/ Enter(t, "agent", "unwind")
  /\ UNCHANGED <<projection, active, repository, locals>>

\* task.failed, after a WorktreeError or for an agent that did not complete.
MarkFailed(t) ==
  /\ Runs(t, "failing", "unwind")
  /\ Emit(t, "failed")
  /\ UNCHANGED <<attempts, active, repository, locals>>

(***************************************************************************)
(* The candidate and the integration gate                                  *)
(***************************************************************************)

Submit(t) ==
  /\ Runs(t, "submit", "verify")
  /\ Emit(t, "submitted")
  /\ UNCHANGED <<attempts, active, repository, locals>>

\* commit_candidate raises a WorktreeError: the agent changed nothing, say.
NothingToSubmit(t) ==
  /\ Runs(t, "submit", "failing")
  /\ UNCHANGED <<projection, active, repository, locals>>

\* Bug: the verification reuses the worktree the agent worked in.
GateVerify_InTaskWorktree(t) ==
  /\ Runs(t, "verify", "merge")
  /\ UNCHANGED <<projection, active, repository, locals>>

\* The candidate is cherry-picked on a new worktree at HEAD and passes there.
GateVerify(t) ==
  /\ Runs(t, "verify", "merge")
  /\ base' = [base EXCEPT ![t] = Len(branch)]
  /\ UNCHANGED <<projection, active, repository, agent, snap, surfaces>>

\* Too stale, a dirty tree, no such commit, a conflict, a failed check.
GateRejects(t) ==
  /\ Runs(t, "verify", "recover")
  /\ UNCHANGED <<projection, active, repository, locals>>

\* The same commit is cherry-picked on the integration branch.
GateMerge(t) ==
  /\ Runs(t, "merge", "accept")
  /\ branch' = Append(branch, [task |-> t, base |-> base[t]])
  /\ UNCHANGED <<projection, active, accepted, locals>>

\* ... or that fails, and is aborted.
MergeFails(t) ==
  /\ Runs(t, "merge", "recover")
  /\ UNCHANGED <<projection, active, repository, locals>>

\* Bug: gate.accepted names the HEAD the candidate was verified on.
GateAccept_NamesBase(t) ==
  /\ Runs(t, "accept", "unwind")
  /\ Emit(t, "completed")
  /\ accepted' = Append(accepted, [task |-> t, commit |-> base[t]])
  /\ UNCHANGED <<attempts, active, branch, locals>>

\* Bug: a failure after gate.accepted is handled like a rejection.
GateAccept_ThenRecovers(t) ==
  /\ Runs(t, "accept", "recover")
  /\ Emit(t, "completed")
  /\ accepted' = Append(accepted, [task |-> t, commit |-> Len(branch)])
  /\ UNCHANGED <<attempts, active, branch, locals>>

\* gate.accepted, with the merged commit: what HEAD is now.
GateAccept(t) ==
  /\ Runs(t, "accept", "unwind")
  /\ Emit(t, "completed")
  /\ accepted' = Append(accepted, [task |-> t, commit |-> Len(branch)])
  /\ UNCHANGED <<attempts, active, branch, locals>>

\* HEAD cannot be read: GATE_INTERNAL rejects what is already integrated.
AcceptFails(t) ==
  /\ GitFaults
  /\ Runs(t, "accept", "recover")
  /\ UNCHANGED <<projection, active, repository, locals>>

\* Bug: attempt_count is left at its default, 1.
Recover_DefaultCount(t) ==
  /\ Runs(t, "recover", "unwind")
  /\ IF 1 <= RetryLimit THEN Emit(t, "ready") ELSE UNCHANGED status
  /\ UNCHANGED <<attempts, active, repository, locals>>

\* gate.rejected, then RecoveryEngine.handle_failure: recovery.retry, or
\* recovery.escalate, which leaves the task "submitted".
Recover(t) ==
  /\ Runs(t, "recover", "unwind")
  /\ IF snap[t] <= RetryLimit THEN Emit(t, "ready") ELSE UNCHANGED status
  /\ UNCHANGED <<attempts, active, repository, locals>>

\* The finally clause: leases released, worktree removed.
Unwind(t) ==
  /\ loop = t
  /\ Ends(t, "unwind")
  /\ loop' = None
  /\ active' = [r \in Resources |-> IF r \in surfaces[t]
                                    THEN None ELSE active[r]]
  /\ UNCHANGED <<projection, repository>>

RunStep(t) ==
  \/ RunRefused(t) \/ RunAdmitted(t) \/ LeasesRefused(t) \/ LeasesAcquired(t)
  \/ Dispatch(t) \/ Prepare(t) \/ PrepareFails(t) \/ AgentReturns(t)
  \/ MarkFailed(t) \/ Submit(t) \/ NothingToSubmit(t)
  \/ GateVerify(t) \/ GateRejects(t) \/ GateMerge(t) \/ MergeFails(t)
  \/ GateAccept(t) \/ AcceptFails(t) \/ Recover(t) \/ Unwind(t)

=============================================================================
