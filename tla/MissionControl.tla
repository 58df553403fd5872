--------------------------- MODULE MissionControl ---------------------------
(***************************************************************************)
(* The Mission Control server: one process that executes tasks for its web *)
(* clients, one at a time (POST run) or in batches until idle (POST        *)
(* orchestrate, OrchestrationEngine.run_until_idle).  Both hold the        *)
(* server's execution lock and run on its event loop.                      *)
(*                                                                         *)
(* Creating, retrying and cancelling a task are synchronous handlers: the  *)
(* server runs each on a thread of its pool, under no lock, with an event  *)
(* store of its own.  Such a command reads the task from the log, decides, *)
(* and appends its event in a second step; anything may happen in between. *)
(* So two creates may give the same id: the second replaces what the first *)
(* asked for.                                                              *)
(*                                                                         *)
(* A crash ends the process between any two events; the next process finds *)
(* the event log and the repository, and nothing else.                     *)
(***************************************************************************)
EXTENDS Execution, FiniteSets

CONSTANTS
  Operators,     \* threads that serve operators' commands
  Requests,      \* the dependencies and files a create may ask for
  Initial,       \* tasks that exist when the server starts
  Initially,     \* what was asked for in each of them
  MaxParallel,   \* orchestration_max_parallel
  MaxRounds,     \* max_rounds of a request to orchestrate
  MaxAttempts,   \* bound: operators retry no task that was tried more often
  MaxCrashes     \* bound: no more than MaxCrashes restarts

ASSUME RequestsType ==
  Requests \subseteq [deps : SUBSET Tasks, files : SUBSET Resources]
ASSUME InitialType ==
  /\ Initial \subseteq Tasks
  /\ Initially \in [Initial -> [deps : SUBSET Initial, files : SUBSET Resources]]
ASSUME BoundsType ==
  /\ MaxParallel \in Nat \ {0}
  /\ MaxRounds \in Nat
  /\ MaxAttempts \in Nat
  /\ MaxCrashes \in Nat

VARIABLES
  engine,    \* who has the execution lock, and where it is: "off" (nobody),
             \* "one" (POST run), "select" or "batch" (POST orchestrate)
  round,     \* batches the engine has started
  command,   \* the event each operator thread is about to append
  crashes    \* number of restarts so far

vars == <<execVars, engine, round, command, crashes>>

ServerIdle == loop = None /\ \A t \in Tasks : pc[t] = "idle"

Nothing == [deps |-> {}, files |-> {}]
NoCommand == [kind |-> "none", task |-> None, asks |-> Nothing]

(***************************************************************************)
(* The execution lock and the engine                                       *)
(***************************************************************************)

\* POST run: any task, in any status; the run itself looks at the status.
StartOne(t, a) ==
  /\ engine = "off"
  /\ engine' = "one"
  /\ Enter(t, "idle", "queued")
  /\ agent' = [agent EXCEPT ![t] = a]
  /\ UNCHANGED <<projection, requests, active, repository, snap, surfaces, base,
                 loop, round, command, crashes>>

StartAll ==
  /\ engine = "off"
  /\ engine' = "select"
  /\ UNCHANGED <<execVars, round, command, crashes>>

\* Bug: surfaces already occupied by the batch are not looked at.
IsBatch_Overlapping(B) ==
  /\ B # {}
  /\ Cardinality(B) <= MaxParallel
  /\ \A t \in B : status[t] = "ready"

\* What _select_batch can return: READY tasks with disjoint surfaces, and at
\* most MaxParallel of them.  It serves high risks first and leaves out what
\* the router has no agent for; as that may be any task, it may be any batch.
IsBatch(B) ==
  /\ B # {}
  /\ Cardinality(B) <= MaxParallel
  /\ \A t \in B : status[t] = "ready"
  /\ \A t, u \in B : t # u => files[t] \cap files[u] = {}

\* Bug: tasks that could not be started do not count as a round.
SelectBatch_FreeRounds(B, route) ==
  /\ engine = "select"
  /\ round < MaxRounds
  /\ IsBatch(B)
  /\ engine' = "batch"
  /\ pc' = [t \in Tasks |-> IF t \in B THEN "queued" ELSE pc[t]]
  /\ agent' = [t \in Tasks |-> IF t \in B THEN route[t] ELSE agent[t]]
  /\ UNCHANGED <<projection, requests, active, repository, snap, surfaces, base,
                 loop, round, command, crashes>>

\* One round: a batch is selected and all its tasks are started, each with
\* the agent it is routed to.
SelectBatch(B, route) ==
  /\ engine = "select"
  /\ round < MaxRounds
  /\ IsBatch(B)
  /\ engine' = "batch"
  /\ round' = round + 1
  /\ pc' = [t \in Tasks |-> IF t \in B THEN "queued" ELSE pc[t]]
  /\ agent' = [t \in Tasks |-> IF t \in B THEN route[t] ELSE agent[t]]
  /\ UNCHANGED <<projection, requests, active, repository, snap, surfaces, base,
                 loop, command, crashes>>

\* Nothing is READY, nothing READY has a route, or the rounds are over.
StopEngine ==
  /\ engine = "select"
  /\ engine' = "off"
  /\ round' = 0
  /\ UNCHANGED <<execVars, command, crashes>>

\* asyncio.gather returns when all the runs have ended; so does POST run.
EndBatch ==
  /\ ServerIdle
  /\ \/ engine = "batch" /\ engine' = "select"
     \/ engine = "one" /\ engine' = "off"
  /\ UNCHANGED <<execVars, round, command, crashes>>

Run(t) ==
  /\ RunStep(t)
  /\ UNCHANGED <<requests, engine, round, command, crashes>>

(***************************************************************************)
(* Operators' commands                                                     *)
(***************************************************************************)

\* Bug: a task that has not been tried yet may be "retried".
Admits_RetryAny(kind, t) ==
  CASE kind = "create" -> status[t] = "absent"
    [] kind = "retry"  -> status[t] # "absent" /\ attempts[t] <= MaxAttempts
    [] kind = "cancel" -> status[t] \notin {"absent", "completed", "abandoned"}

\* When the first half of a command lets it through.
Admits(kind, t) ==
  CASE kind = "create" -> status[t] = "absent"
    [] kind = "retry"  -> status[t] = "failed" /\ attempts[t] <= MaxAttempts
    [] kind = "cancel" -> status[t] \notin {"absent", "completed", "abandoned"}

\* What a command may ask for: a task depends only on tasks that exist.
Asked(kind) ==
  IF kind = "create"
  THEN {asks \in Requests : \A d \in asks.deps : status[d] # "absent"}
  ELSE {Nothing}

\* create_task, retry_task and cancel_task up to their append.
ReadTask(o, kind, t, asks) ==
  /\ command[o] = NoCommand
  /\ Admits(kind, t)
  /\ command' = [command EXCEPT ![o] = [kind |-> kind, task |-> t, asks |-> asks]]
  /\ UNCHANGED <<execVars, engine, round, crashes>>

\* task.created starts the TaskState of its id from nothing, also when the id
\* has one by now.
AppendCreated(o) ==
  LET t == command[o].task IN
  /\ command[o].kind = "create"
  /\ deps' = [deps EXCEPT ![t] = command[o].asks.deps]
  /\ files' = [files EXCEPT ![t] = command[o].asks.files]
  /\ again' = IF status[t] = "absent" THEN again ELSE again \cup {t}
  /\ status' = Becomes(status, deps', t, "created")
  /\ attempts' = [attempts EXCEPT ![t] = 0]
  /\ command' = [command EXCEPT ![o] = NoCommand]
  /\ UNCHANGED <<active, repository, pc, locals, loop, engine, round, crashes>>

\* recovery.retry and task.abandoned, whatever the status is by now.
AppendRetry(o) ==
  /\ command[o].kind = "retry"
  /\ Emit(command[o].task, "ready")
  /\ command' = [command EXCEPT ![o] = NoCommand]
  /\ UNCHANGED <<attempts, requests, active, repository, pc, locals, loop,
                 engine, round, crashes>>

AppendAbandoned(o) ==
  /\ command[o].kind = "cancel"
  /\ Emit(command[o].task, "abandoned")
  /\ command' = [command EXCEPT ![o] = NoCommand]
  /\ UNCHANGED <<attempts, requests, active, repository, pc, locals, loop,
                 engine, round, crashes>>

(***************************************************************************)
(* The process dies                                                        *)
(***************************************************************************)

Crash ==
  /\ crashes < MaxCrashes
  /\ crashes' = crashes + 1
  /\ pc' = [t \in Tasks |-> "idle"]
  /\ loop' = None
  /\ agent' = [t \in Tasks |-> None]
  /\ snap' = [t \in Tasks |-> 0]
  /\ surfaces' = [t \in Tasks |-> {}]
  /\ base' = [t \in Tasks |-> 0]
  /\ engine' = "off"
  /\ round' = 0
  /\ command' = [o \in Operators |-> NoCommand]
  /\ UNCHANGED <<projection, requests, active, repository>>

-----------------------------------------------------------------------------

Init ==
  /\ deps = [t \in Tasks |-> IF t \in Initial THEN Initially[t].deps ELSE {}]
  /\ files = [t \in Tasks |-> IF t \in Initial THEN Initially[t].files ELSE {}]
  /\ again = {}
  /\ status = Promote([t \in Tasks |->
                         IF t \in Initial THEN "created" ELSE "absent"], deps)
  /\ attempts = [t \in Tasks |-> 0]
  /\ active = [r \in Resources |-> None]
  /\ branch = <<>>
  /\ accepted = <<>>
  /\ pc = [t \in Tasks |-> "idle"]
  /\ agent = [t \in Tasks |-> None]
  /\ snap = [t \in Tasks |-> 0]
  /\ surfaces = [t \in Tasks |-> {}]
  /\ base = [t \in Tasks |-> 0]
  /\ loop = None
  /\ engine = "off"
  /\ round = 0
  /\ command = [o \in Operators |-> NoCommand]
  /\ crashes = 0

Kinds == {"create", "retry", "cancel"}

ServeOperator(o) ==
  \/ \E kind \in Kinds, t \in Tasks : \E asks \in Asked(kind) :
       ReadTask(o, kind, t, asks)
  \/ AppendCreated(o) \/ AppendRetry(o) \/ AppendAbandoned(o)

EngineStep ==
  \/ \E B \in SUBSET Tasks, route \in [Tasks -> Agents] : SelectBatch(B, route)
  \/ StopEngine
  \/ EndBatch

Next ==
  \/ \E t \in Tasks, a \in Agents : StartOne(t, a)
  \/ StartAll
  \/ EngineStep
  \/ \E t \in Tasks : Run(t)
  \/ \E o \in Operators : ServeOperator(o)
  \/ Crash

Spec == Init /\ [][Next]_vars

\* The event loop serves whatever is ready, and a provider process is under
\* a timeout: a request that has the lock is served, one run after another.
FairSpec ==
  /\ Spec
  /\ WF_vars(EngineStep)
  /\ \A t \in Tasks : WF_vars(Run(t))

-----------------------------------------------------------------------------
(***************************************************************************)
(* Properties                                                              *)
(***************************************************************************)

Landed == {accepted[i].task : i \in DOMAIN accepted}

\* The run of t is under way: it has its leases, until it has ended.
Running(t) == pc[t] \notin {"idle", "queued", "admitted"}

Commands ==
  [kind : Kinds, task : Tasks, asks : [deps : SUBSET Tasks, files : SUBSET Resources]]

TypeOK ==
  /\ status \in [Tasks -> Statuses]
  /\ attempts \in [Tasks -> Nat]
  /\ deps \in [Tasks -> SUBSET Tasks]
  /\ files \in [Tasks -> SUBSET Resources]
  /\ again \subseteq Tasks
  /\ active \in [Resources -> Agents \cup {None}]
  /\ branch \in Seq([task : Tasks, base : Nat])
  /\ accepted \in Seq([task : Tasks, commit : Nat])
  /\ pc \in [Tasks -> Phases]
  /\ agent \in [Tasks -> Agents \cup {None}]
  /\ snap \in [Tasks -> Nat]
  /\ surfaces \in [Tasks -> SUBSET Resources]
  /\ base \in [Tasks -> Nat]
  /\ loop \in Tasks \cup {None}
  /\ engine \in {"off", "one", "select", "batch"}
  /\ round \in Nat
  /\ command \in [Operators -> Commands \cup {NoCommand}]
  /\ crashes \in Nat

\* "Only an exact candidate accepted by ARC's gate completes project work"
\* (README.md:209): each gate.accepted names a commit of its own on the
\* integration branch, of the candidate of its task; and the log has them in
\* the order of the branch.
AcceptedIsIntegrated ==
  /\ \A i \in DOMAIN accepted :
       /\ accepted[i].commit \in DOMAIN branch
       /\ branch[accepted[i].commit].task = accepted[i].task
  /\ \A i, j \in DOMAIN accepted :
       i < j => accepted[i].commit < accepted[j].commit

\* "Cherry-picks it onto a temporary worktree at the current integration HEAD,
\* verifies that exact tree" (gate.py): every commit of the integration
\* branch was verified on its very parent, however many agents worked at the
\* same time and whatever landed meanwhile.
IntegratedIsVerified ==
  \A k \in DOMAIN branch : branch[k].base = k - 1

\* The DAG orders the work: no run touches a task, and no candidate lands,
\* before the gate accepted the work of all the dependencies of the task,
\* whatever operators do in between and over restarts.  Only a task whose id
\* was given twice escapes it.
DependenciesAccepted ==
  /\ \A t \in Tasks \ again : Running(t) => deps[t] \subseteq Landed
  /\ \A j \in DOMAIN accepted :
       accepted[j].task \notin again =>
         \A d \in deps[accepted[j].task] :
           \E i \in 1 .. (j - 1) : accepted[i].task = d

\* Git and the log agree: unless the process died, or git failed, between
\* the merge and its event, the branch has no commit that the log does not
\* account for, but the one whose event is about to be appended.
NoUnrecordedCommit ==
  crashes = 0 /\ ~GitFaults =>
    \A k \in DOMAIN branch :
      \/ \E i \in DOMAIN accepted : accepted[i].commit = k
      \/ k = Len(branch) /\ pc[branch[k].task] = "accept"

\* A run under way owns the lease of every surface of its task, restarts and
\* orphaned leases included.  Batches with disjoint surfaces give here what
\* LeaseManager alone does not (module Leases), until an id is given twice:
\* the second create may move a task of the batch to the surface of another.
RunsHoldTheirLeases ==
  again = {} =>
    \A t \in Tasks : Running(t) =>
      \A r \in surfaces[t] : active[r] = agent[t]

\* Every way out of a run gives its leases back: only a crash leaves one
\* behind.
NoOrphanedLease ==
  crashes = 0 =>
    \A r \in Resources : active[r] # None =>
      \E t \in Tasks : Running(t) /\ r \in surfaces[t]

\* No run, its recovery or its restart takes the completion of a task back:
\* only the second half of an operator's command does, which then acts on a
\* status it read before the completion.
OnlyCommandsUndoCompletion ==
  [][\A t \in Tasks : status[t] = "completed" /\ status'[t] # "completed" =>
       \E o \in Operators :
         command[o].task = t /\ command'[o] = NoCommand]_vars

\* The retry budget of recovery.py counts attempts before the dispatch, so
\* that a task left alone by operators is tried up to RetryLimit + 2 times.
AttemptsBounded ==
  Operators = {} => \A t \in Tasks : attempts[t] <= RetryLimit + 2

\* Whoever gets the execution lock gives it back: a request to orchestrate
\* ends even when READY tasks are refused in every round.
ExecutionEnds == engine # "off" ~> engine = "off"

L == INSTANCE Ledger
       WITH landed <- Landed, done <- {t \in Tasks : status[t] = "completed"},
            known <- {t \in Tasks : status[t] # "absent"}

\* Mission Control keeps the promises of the ledger.
KeepsLedger == L!Spec

=============================================================================
