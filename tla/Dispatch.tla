------------------------------ MODULE Dispatch ------------------------------
(***************************************************************************)
(* From an objective to what lands: the planner's tasks are created in the *)
(* log (application/app.py), batches of them are routed to agents          *)
(* (application/orchestration.py), started under the budget with a packet  *)
(* of context (runtime/orchestrator.py, runtime/budgets.py), and judged    *)
(* when the agent returns by what has changed meanwhile (context/          *)
(* staleness.py).  How a candidate is verified, integrated and recovered   *)
(* is the subject of Execution; here it lands, is rejected or has failed.  *)
(*                                                                         *)
(* Worker sessions, other processes and operators act at any time: they    *)
(* spend, replace or dispute memories and append events.                   *)
(***************************************************************************)
EXTENDS Planning, Routing, ContextPackets

CONSTANTS
  MaxTasks,       \* bound of max_tasks
  MaxParallel,
  MaxRounds,
  MaxChanges,     \* how often others act
  RetryLimit,     \* rejections after which recovery escalates
  Risk,           \* of the objective
  TokenBudget,    \* of every task
  Authoritative,  \* sizes of goal, criteria, constraints and paths
  Retrievals,     \* what retrieval may find, as a sequence of memories
  SourceSizes,    \* sizes of the declared files, in order
  Costs,          \* what a turn of an agent may cost
  HardTask, HardProject

ASSUME BoundsPositive ==
  /\ {MaxTasks, MaxParallel, TokenBudget, HardTask, HardProject} \subseteq Nat \ {0}
  /\ {MaxRounds, MaxChanges, RetryLimit, Risk} \subseteq Nat

ASSUME InputsKnown ==
  /\ Authoritative \subseteq Nat /\ Retrievals \subseteq Seq(Memory)
  /\ SourceSizes \in Seq(Nat)
  /\ Costs \subseteq Nat /\ Costs /= {} /\ IsFiniteSet(Costs)

Tasks == 1..MaxTasks

MaxCost == CHOOSE c \in Costs : \A d \in Costs : d <= c

\* orchestrator.py:142 asks for five cents, the unit of Costs.
Estimate == 1

VARIABLES
  plan,       \* the tasks of the plan
  making,     \* whether plan_objective still creates tasks
  status,     \* of each task
  rejections, \* of each task
  round,      \* of the orchestration, 0 when none runs
  run,        \* of each task: its route and what it works from
  spent,      \* budget.consumed per task
  charged,    \* the part of it that sessions recorded
  revised,    \* which memories have been superseded, which disputed
  exhausted,  \* whether budget.exhausted is in the log
  changes

money == <<spent, charged, exhausted>>
vars  == <<plan, making, status, rejections, round, run, money, revised, changes>>

Defined == DOMAIN plan

\* The ids of a task's dependencies: plan_objective maps keys to the tasks it
\* has created.
Deps(i) == {j \in Defined : plan[j].key \in plan[i].deps}

Total == SumFunction(spent)

NoRun == [at |-> "none", agent |-> None, packet |-> EmptyPacket(0),
          relevant |-> 0, touched |-> 0, drift |-> 0]

Routed  == {i \in Tasks : run[i].at = "routed"}
Working == {i \in Tasks : run[i].at = "working"}

-----------------------------------------------------------------------------
(* Planning *)

PlanObjective ==
  /\ plan = <<>>
  /\ \E files \in SUBSET Files, max \in 1..MaxTasks : plan' = Plan(files, Risk, max)
  /\ making' = TRUE
  /\ UNCHANGED <<status, rejections, round, run, money, revised, changes>>

\* Tasks are created one by one, each with its dependencies' ids.
CreateTask ==
  /\ making
  /\ \E i \in Defined :
       /\ status[i] = "absent" /\ \A j \in 1..(i - 1) : status[j] /= "absent"
       /\ status' = [status EXCEPT ![i] =
                       IF \A d \in Deps(i) : status[d] = "done" THEN "ready" ELSE "planned"]
       /\ making' = (i < Len(plan))
  /\ UNCHANGED <<plan, rejections, round, run, money, revised, changes>>

\* The process dies between two of them: the rest is never created.
PlanBreaksOff ==
  /\ making
  /\ making' = FALSE
  /\ UNCHANGED <<plan, status, rejections, round, run, money, revised, changes>>

-----------------------------------------------------------------------------
(* Orchestration *)

Ready == {i \in Defined : status[i] = "ready"}

\* Highest risk first, then in the order of creation.
Before(i, j) == plan[i].risk > plan[j].risk \/ (plan[i].risk = plan[j].risk /\ i < j)

LastOf(S) == CHOOSE i \in S : \A j \in S \ {i} : Before(j, i)

RealProviders == {Profile[a].provider : a \in Agents} \ {"mock"}

NoLoad == [a \in Agents |-> 0]

\* Mutant: the load of an agent is what it was before the batch.
TakeIntoBatch_StaleLoad(batch, i, doctor) ==
  LET a == Route(plan[i], doctor, NoLoad)
  IN IF \/ Cardinality(DOMAIN batch.agent) >= MaxParallel
        \/ plan[i].files \cap batch.occupied /= {} \/ a = None
     THEN batch
     ELSE [agent |-> [j \in DOMAIN batch.agent \cup {i} |->
                        IF j = i THEN a ELSE batch.agent[j]],
           occupied |-> batch.occupied \cup plan[i].files, load |-> NoLoad]

\* One step of _select_batch: a task is taken unless the batch is full, its
\* files are occupied, or no route exists.
TakeIntoBatch(batch, i, doctor) ==
  LET a == Route(plan[i], doctor, batch.load)
  IN IF \/ Cardinality(DOMAIN batch.agent) >= MaxParallel
        \/ plan[i].files \cap batch.occupied /= {} \/ a = None
     THEN batch
     ELSE [agent |-> [j \in DOMAIN batch.agent \cup {i} |->
                        IF j = i THEN a ELSE batch.agent[j]],
           occupied |-> batch.occupied \cup plan[i].files,
           load |-> [batch.load EXCEPT ![a] = @ + 1]]

NoBatch == [agent |-> [i \in {} |-> None], occupied |-> {}, load |-> NoLoad]

\* The loop over the tasks: the last of them is taken when the others have been.
Batch(doctor) ==
  MapThenFoldSet(LAMBDA i, b : TakeIntoBatch(b, i, doctor), NoBatch,
                 LAMBDA i : i, LastOf, Ready)

\* The next round begins when every run of the last one has ended.
SelectBatch ==
  /\ round < MaxRounds /\ Routed \cup Working = {}
  /\ \E found, authenticated \in SUBSET RealProviders :
       LET doctor == [a \in Agents |-> Doctor(Profile[a], found, authenticated)]
           batch  == Batch(doctor).agent
       IN /\ batch /= <<>>
          /\ run' = [i \in Tasks |-> IF i \in DOMAIN batch
                       THEN [NoRun EXCEPT !.at = "routed", !.agent = batch[i]]
                       ELSE NoRun]
  /\ round' = round + 1
  /\ UNCHANGED <<plan, making, status, rejections, money, revised, changes>>

-----------------------------------------------------------------------------
(* Runs *)

\* Mutant: what the task has spent does not count.
CanSpend_ProjectOnly(i) == Total + Estimate <= HardProject

\* can_spend, by the consumption in the log.
CanSpend(i) == Total + Estimate <= HardProject /\ spent[i] + Estimate <= HardTask

\* An event is appended: it adds to the drift of the runs it concerns.
Noted(runs, event) ==
  [i \in Tasks |->
     IF runs[i].at /= "working" THEN runs[i]
     ELSE [runs[i] EXCEPT
             !.relevant = @ + Relevant(event, i, runs[i].agent, Deps(i), plan[i].files),
             !.touched  = @ + IF event.task \in Deps(i) THEN 1 ELSE 0]]

NoFiles == {}
Event(kind, actor, i, files) ==
  [kind |-> kind, actor |-> actor, task |-> i, files |-> files]

\* Memories with the status they have by now.
AsRevised(found) ==
  [k \in DOMAIN found |->
     IF found[k].id \in revised.disputed
     THEN [found[k] EXCEPT !.status = "disputed"] ELSE found[k]]

\* execute_task up to the await of the agent: dispatch, the packet of the
\* project as it is, and context.policy_measured, which the drift will count.
\* Retrieval misses what was superseded and may miss what is disputed.
Start(i) ==
  /\ run[i].at = "routed" /\ CanSpend(i)
  /\ \E authoritative \in Authoritative, found \in Retrievals,
        missed \in SUBSET revised.disputed :
       /\ authoritative <= TokenBudget
       /\ run' = Noted([run EXCEPT ![i].at = "working",
             ![i].packet = Compile(authoritative, AsRevised(found),
                                   revised.superseded \cup missed, SourceSizes,
                                   plan[i].risk, TokenBudget, 1)],
             Event("context.policy_measured", None, i, NoFiles))
  /\ status' = [status EXCEPT ![i] = "dispatched"]
  /\ UNCHANGED <<plan, making, rejections, round, money, revised, changes>>

\* "Budget ceiling exceeded": the task stays READY.
StartRefused(i) ==
  /\ run[i].at = "routed" /\ ~CanSpend(i)
  /\ run' = [run EXCEPT ![i] = NoRun]
  /\ UNCHANGED <<plan, making, status, rejections, round, money, revised, changes>>

\* ContextBudgetExceeded is raised after the dispatch: nothing takes the task
\* back.
ContextDoesNotFit(i) ==
  /\ run[i].at = "routed" /\ CanSpend(i)
  /\ \E authoritative \in Authoritative : authoritative > TokenBudget
  /\ status' = [status EXCEPT ![i] = "dispatched"]
  /\ run' = [run EXCEPT ![i] = NoRun]
  /\ UNCHANGED <<plan, making, rejections, round, money, revised, changes>>

\* record_consumption, and budget.exhausted when the ceiling is reached.
Record(i, cost) ==
  /\ spent' = [spent EXCEPT ![i] = @ + cost]
  /\ exhausted' = (exhausted \/ Total + cost >= HardProject)

\* The memories of the packet that are superseded or disputed by now.
Superseded(i) == run[i].packet.memories \cap revised.superseded
Disputed(i)   == run[i].packet.disputed \cup (run[i].packet.memories \cap revised.disputed)

Score(i) ==
  StalenessScore(run[i].relevant, run[i].touched,
                 Cardinality(Superseded(i)), Cardinality(Disputed(i)))

\* DependenciesSatisfied: a completion makes dependents READY.
Completed(i) ==
  [j \in Tasks |->
     IF j = i THEN "done"
     ELSE IF /\ status[j] = "planned" /\ i \in Deps(j)
             /\ \A d \in Deps(j) \ {i} : status[d] = "done"
     THEN "ready" ELSE status[j]]

\* The agent has not completed its task.
AgentFails(i) ==
  /\ run[i].at = "working"
  /\ \E cost \in Costs : Record(i, cost)
  /\ status' = [status EXCEPT ![i] = "failed"]
  /\ run' = [run EXCEPT ![i] = NoRun]
  /\ UNCHANGED <<plan, making, rejections, round, charged, revised, changes>>

\* Rejected, as stale or by a later stage of the gate: retried or escalated.
Reject(i) ==
  /\ run[i].at = "working"
  /\ \E cost \in Costs : Record(i, cost)
  /\ rejections' = [rejections EXCEPT ![i] = @ + 1]
  /\ status' = [status EXCEPT ![i] = IF rejections[i] < RetryLimit THEN "ready" ELSE "submitted"]
  /\ run' = [run EXCEPT ![i] =
                [NoRun EXCEPT !.at = IF TooStale(Score(i)) THEN "stale" ELSE "none"]]
  /\ UNCHANGED <<plan, making, round, charged, revised, changes>>

\* The candidate lands: accepted by the gate, its score not above 0.8.
Land(i) ==
  /\ run[i].at = "working" /\ ~TooStale(Score(i))
  /\ \E cost \in Costs : Record(i, cost)
  /\ status' = Completed(i)
  /\ run' = [run EXCEPT ![i] = [NoRun EXCEPT !.at = "landed"]]
  /\ UNCHANGED <<plan, making, rejections, round, charged, revised, changes>>

-----------------------------------------------------------------------------
(* Others *)

Drifted(runs) ==
  [i \in Tasks |-> IF runs[i].at = "working" THEN [runs[i] EXCEPT !.drift = @ + 1] ELSE runs[i]]

\* An event of a task that is done (its lease released late, its execution
\* reported), of the project, or one that lists files.
SomeoneAppends ==
  /\ changes < MaxChanges
  /\ \E event \in {Event("orchestration.task_finished", None, i, NoFiles) :
                     i \in {j \in Defined : status[j] = "done"}}
              \cup {Event("project.constraint_added", None, 0, NoFiles)}
              \cup {Event("orchestration.deferred", None, 0, {f}) : f \in Files} :
       run' = Drifted(Noted(run, event))
  /\ changes' = changes + 1
  /\ UNCHANGED <<plan, making, status, rejections, round, money, revised>>

\* Accepted work elsewhere supersedes a decision or constraint, or contradicts
\* an assumption, of which a packet under way has made use.
SomeoneRevises ==
  /\ changes < MaxChanges
  /\ \E found \in Retrievals : \E k \in DOMAIN found :
       LET m == found[k] IN
       /\ \E i \in Working : m.id \in run[i].packet.memories \ run[i].packet.disputed
       /\ m.id \notin revised.superseded \cup revised.disputed
       /\ \/ /\ m.type \in {"decision", "constraint"}
             /\ revised' = [revised EXCEPT !.superseded = @ \cup {m.id}]
          \/ /\ m.type = "assumption"
             /\ revised' = [revised EXCEPT !.disputed = @ \cup {m.id}]
  /\ run' = Drifted(run)
  /\ changes' = changes + 1
  /\ UNCHANGED <<plan, making, status, rejections, round, money>>

\* A turn of a session is recorded and was never asked for (sessions.py:422).
SessionSpends ==
  /\ changes < MaxChanges
  /\ \E i \in Defined, cost \in Costs : Record(i, cost) /\ charged' = charged + cost
  /\ changes' = changes + 1
  /\ UNCHANGED <<plan, making, status, rejections, round, run, revised>>

-----------------------------------------------------------------------------
Init ==
  /\ plan = <<>> /\ making = FALSE
  /\ status = [i \in Tasks |-> "absent"]
  /\ rejections = [i \in Tasks |-> 0]
  /\ round = 0 /\ run = [i \in Tasks |-> NoRun]
  /\ spent = [i \in Tasks |-> 0] /\ charged = 0 /\ exhausted = FALSE
  /\ revised = [superseded |-> {}, disputed |-> {}] /\ changes = 0

Next ==
  \/ PlanObjective \/ CreateTask \/ PlanBreaksOff \/ SelectBatch
  \/ \E i \in Tasks : \/ Start(i) \/ StartRefused(i) \/ ContextDoesNotFit(i)
                      \/ AgentFails(i) \/ Reject(i) \/ Land(i)
  \/ SomeoneAppends \/ SomeoneRevises \/ SessionSpends

Spec == Init /\ [][Next]_vars

-----------------------------------------------------------------------------
(* Properties *)

TaskOf(f) == CHOOSE i \in Defined : f \in plan[i].files

\* The planner's promise ("tests wait for implementation work"; "must not
\* survive as dangling DAG references"), for every set of declared files and
\* every bound, compacted or not: each file has one task; a task waits for
\* earlier ones only, so that each prefix a crash leaves is a DAG; and no
\* documentation or test is worked on before or beside a source file, except
\* within one task.
PlanIsSound ==
  LET files == UNION {plan[i].files : i \in Defined} IN
  /\ Len(plan) <= MaxTasks
  /\ \A i, j \in Defined : i /= j =>
       plan[i].files \cap plan[j].files = {} /\ plan[i].key /= plan[j].key
  /\ \A i \in Defined : /\ Deps(i) \subseteq 1..(i - 1)
                        /\ Cardinality(Deps(i)) = Cardinality(plan[i].deps)
  /\ \A late \in files, source \in OfKind("implementation", files) :
       Kind(late) /= "implementation" =>
         TaskOf(late) = TaskOf(source) \/ TaskOf(source) \in Deps(TaskOf(late))

\* What runs side by side: no file twice, no agent beyond its concurrency, and
\* no mock agent for work that a configured real agent could do ("fail closed
\* instead of making a fake-looking smoke edit with MockAgent").
BatchIsSafe ==
  LET under == Routed \cup Working IN
  /\ \A i, j \in under : i /= j => plan[i].files \cap plan[j].files = {}
  /\ \A a \in Agents : Cardinality({i \in under : run[i].agent = a}) <= Profile[a].limit
  /\ \A i \in under : Profile[run[i].agent].provider = "mock" =>
       \A a \in Agents : ~SemanticallyEligible(a, plan[i])

\* "Enforces hard financial limits" (budgets.py), as far as it goes: runs check
\* before they start and record when they return, so that the ceilings can be
\* passed by what the runs in flight cost, and by no more, however runs,
\* retries and rounds interleave.  Sessions record without a check.
OverspendIsBounded ==
  /\ Total - charged <= HardProject - Estimate + MaxParallel * MaxCost
  /\ \A i \in Tasks : spent[i] - charged <= HardTask - Estimate + MaxCost
  /\ Total >= HardProject => exhausted

\* The token budget is a hard ceiling of the packet and the class caps of
\* its memories, whatever retrieval found and however large the files are;
\* code gets nothing that authoritative text or memories have used.
PacketFits ==
  \A i \in Tasks : run[i].at = "working" =>
    LET p == run[i].packet
        used == p.code + SumFunction(p.used)
    IN /\ \E authoritative \in Authoritative :
            authoritative + used + p.remaining = TokenBudget
       /\ \A b \in Buckets : p.used[b] <= Cap(b, plan[i].risk, TokenBudget)
       /\ p.code <= CodeCap(plan[i].risk, TokenBudget)

\* Nothing lands over changed inputs: not when a dependency was touched, nor when
\* of relevant events and memories no longer in force there are three, the run's
\* own context.policy_measured among them.  A run that nobody disturbed is stale
\* only if its packet was compiled with two disputed memories: those count against
\* it although they were disputed before (staleness.py:115).
StaleWorkNeverLands ==
  [][\A i \in Working :
       /\ run'[i].at = "landed" =>
            /\ run[i].touched = 0
            /\ run[i].relevant + Cardinality(Superseded(i)) + Cardinality(Disputed(i)) <= 2
       /\ run'[i].at = "stale" =>
            run[i].drift > 0 \/ Cardinality(run[i].packet.disputed) >= 2]_vars
=============================================================================
