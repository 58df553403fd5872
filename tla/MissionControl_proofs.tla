----------------------- MODULE MissionControl_proofs -----------------------
(***************************************************************************)
(* What holds of Mission Control for every set of tasks, requests, agents, *)
(* surfaces and operators, and every bound.                                *)
(***************************************************************************)
EXTENDS MissionControl, SequenceTheorems, TLAPS

LEMMA PromoteType ==
  ASSUME NEW s \in [Tasks -> Statuses], NEW d
  PROVE  Promote(s, d) \in [Tasks -> Statuses]
BY DEF Promote, Statuses

LEMMA BecomesType ==
  ASSUME NEW s \in [Tasks -> Statuses], NEW d, NEW t \in Tasks, NEW st \in Statuses
  PROVE  Becomes(s, d, t, st) \in [Tasks -> Statuses]
BY PromoteType DEF Becomes

LEMMA EmitType ==
  ASSUME TypeOK, NEW t \in Tasks, NEW st \in Statuses, Emit(t, st)
  PROVE  status' \in [Tasks -> Statuses]
BY BecomesType DEF Emit, TypeOK

LEMMA StatusNames ==
  {"absent", "created", "ready", "dispatched", "submitted", "failed",
   "abandoned", "completed"} \subseteq Statuses
BY DEF Statuses

(***************************************************************************)
(* Types                                                                   *)
(***************************************************************************)

LEMMA InitTypes == Init => TypeOK
<1> SUFFICES ASSUME Init PROVE TypeOK
  OBVIOUS
<1>1. status \in [Tasks -> Statuses]
  <2>1. [t \in Tasks |-> IF t \in Initial THEN "created" ELSE "absent"]
          \in [Tasks -> Statuses]
    BY DEF Statuses
  <2> QED
    BY <2>1, PromoteType DEF Init
<1>2. branch \in Seq([task : Tasks, base : Nat])
  BY DEF Init
<1>3. accepted \in Seq([task : Tasks, commit : Nat])
  BY DEF Init
<1>4. deps \in [Tasks -> SUBSET Tasks] /\ files \in [Tasks -> SUBSET Resources]
  BY InitialType DEF Init
<1> QED
  BY <1>1, <1>2, <1>3, <1>4 DEF Init, TypeOK, Phases, NoCommand

LEMMA RunTypes ==
  ASSUME TypeOK, NEW t \in Tasks, Run(t)
  PROVE  TypeOK'
<1> USE DEF TypeOK, Run, projection, requests, repository, locals, Phases
<1>1. CASE RunRefused(t)
  BY <1>1 DEF RunRefused, Ends, Enter
<1>2. CASE RunAdmitted(t)
  BY <1>2 DEF RunAdmitted, Enter
<1>3. CASE LeasesRefused(t)
  <2>1. active' \in [Resources -> Agents \cup {None}]
    BY <1>3 DEF LeasesRefused
  <2> QED
    BY <1>3, <2>1 DEF LeasesRefused, Ends, Enter
<1>4. CASE LeasesAcquired(t)
  <2>1. active' \in [Resources -> Agents \cup {None}]
    BY <1>4 DEF LeasesAcquired
  <2>2. surfaces' \in [Tasks -> SUBSET Resources]
    BY <1>4 DEF LeasesAcquired
  <2> QED
    BY <1>4, <2>1, <2>2 DEF LeasesAcquired, Runs, Enter
<1>5. CASE Dispatch(t)
  <2>1. status' \in [Tasks -> Statuses]
    BY <1>5, EmitType, StatusNames DEF Dispatch
  <2>2. attempts' \in [Tasks -> Nat]
    BY <1>5 DEF Dispatch
  <2> QED
    BY <1>5, <2>1, <2>2 DEF Dispatch, Runs, Enter
<1>6. CASE Prepare(t)
  BY <1>6 DEF Prepare, Enter
<1>7. CASE PrepareFails(t) \/ NothingToSubmit(t) \/ GateRejects(t)
             \/ MergeFails(t) \/ AcceptFails(t)
  BY <1>7 DEF PrepareFails, NothingToSubmit, GateRejects, MergeFails,
     AcceptFails, Runs, Enter
<1>8. CASE AgentReturns(t)
  BY <1>8 DEF AgentReturns, Enter
<1>9. CASE MarkFailed(t) \/ Submit(t)
  <2>1. status' \in [Tasks -> Statuses]
    BY <1>9, EmitType, StatusNames DEF MarkFailed, Submit
  <2> QED
    BY <1>9, <2>1 DEF MarkFailed, Submit, Runs, Enter
<1>10. CASE GateVerify(t)
  BY <1>10 DEF GateVerify, Runs, Enter
<1>11. CASE GateMerge(t)
  <2>1. branch' \in Seq([task : Tasks, base : Nat])
    BY <1>11 DEF GateMerge
  <2> QED
    BY <1>11, <2>1 DEF GateMerge, Runs, Enter
<1>12. CASE GateAccept(t)
  <2>1. status' \in [Tasks -> Statuses]
    BY <1>12, EmitType, StatusNames DEF GateAccept
  <2>2. accepted' \in Seq([task : Tasks, commit : Nat])
    BY <1>12 DEF GateAccept
  <2> QED
    BY <1>12, <2>1, <2>2 DEF GateAccept, Runs, Enter
<1>13. CASE Recover(t)
  <2>1. status' \in [Tasks -> Statuses]
    BY <1>13, EmitType, StatusNames DEF Recover
  <2> QED
    BY <1>13, <2>1 DEF Recover, Runs, Enter
<1>14. CASE Unwind(t)
  <2>1. active' \in [Resources -> Agents \cup {None}]
    BY <1>14 DEF Unwind
  <2> QED
    BY <1>14, <2>1 DEF Unwind, Ends, Enter
<1> QED
  BY <1>1, <1>2, <1>3, <1>4, <1>5, <1>6, <1>7, <1>8, <1>9, <1>10, <1>11,
     <1>12, <1>13, <1>14 DEF RunStep

LEMMA CommandTypes ==
  ASSUME TypeOK, NEW o \in Operators, ServeOperator(o)
  PROVE  TypeOK'
<1> USE DEF TypeOK, execVars, projection, requests, repository, locals
<1>1. ASSUME NEW kind \in Kinds, NEW t \in Tasks, NEW asks \in Asked(kind),
             ReadTask(o, kind, t, asks)
      PROVE  TypeOK'
  <2>1. [kind |-> kind, task |-> t, asks |-> asks] \in Commands
    BY RequestsType DEF Asked, Nothing, Commands
  <2>2. command' \in [Operators -> Commands \cup {NoCommand}]
    BY <1>1, <2>1 DEF ReadTask
  <2> QED
    BY <1>1, <2>2 DEF ReadTask
<1>2. CASE AppendCreated(o) \/ AppendRetry(o) \/ AppendAbandoned(o)
  <2>1. /\ command[o].task \in Tasks
        /\ command[o].asks \in [deps : SUBSET Tasks, files : SUBSET Resources]
    <3>1. command[o] # NoCommand
      BY <1>2 DEF AppendCreated, AppendRetry, AppendAbandoned, NoCommand
    <3>2. command[o] \in Commands
      BY <3>1
    <3> QED
      BY <3>2 DEF Commands
  <2>2. status' \in [Tasks -> Statuses]
    <3>1. CASE AppendCreated(o)
      BY <2>1, <3>1, BecomesType, StatusNames DEF AppendCreated
    <3>2. CASE AppendRetry(o) \/ AppendAbandoned(o)
      BY <2>1, <3>2, EmitType, StatusNames DEF AppendRetry, AppendAbandoned
    <3> QED
      BY <1>2, <3>1, <3>2
  <2>3. attempts' \in [Tasks -> Nat]
    <3>1. CASE AppendCreated(o)
      BY <2>1, <3>1 DEF AppendCreated
    <3>2. CASE AppendRetry(o) \/ AppendAbandoned(o)
      BY <3>2 DEF AppendRetry, AppendAbandoned
    <3> QED
      BY <1>2, <3>1, <3>2
  <2>4. command' \in [Operators -> Commands \cup {NoCommand}]
    BY <1>2 DEF AppendCreated, AppendRetry, AppendAbandoned
  <2>5. /\ deps' \in [Tasks -> SUBSET Tasks]
        /\ files' \in [Tasks -> SUBSET Resources]
        /\ again' \subseteq Tasks
    BY <1>2, <2>1 DEF AppendCreated, AppendRetry, AppendAbandoned
  <2> QED
    BY <1>2, <2>2, <2>3, <2>4, <2>5
    DEF AppendCreated, AppendRetry, AppendAbandoned
<1> QED
  BY <1>1, <1>2 DEF ServeOperator

LEMMA StartTypes ==
  ASSUME TypeOK, NEW t \in Tasks, NEW a \in Agents, StartOne(t, a)
  PROVE  TypeOK'
BY DEF TypeOK, StartOne, Enter, Phases, projection, requests, repository

LEMMA EngineTypes ==
  ASSUME TypeOK, StartAll \/ EngineStep
  PROVE  TypeOK'
<1> USE DEF TypeOK, execVars, projection, requests, repository, locals, Phases
<1>1. CASE StartAll \/ StopEngine \/ EndBatch
  BY <1>1 DEF StartAll, StopEngine, EndBatch
<1>2. ASSUME NEW B \in SUBSET Tasks, NEW route \in [Tasks -> Agents],
             SelectBatch(B, route)
      PROVE  TypeOK'
  BY <1>2 DEF SelectBatch
<1> QED
  BY <1>1, <1>2 DEF EngineStep

LEMMA CrashTypes == TypeOK /\ Crash => TypeOK'
BY DEF TypeOK, Crash, Phases, projection, requests, repository

\* Every step preserves the types.
LEMMA NextTypes == TypeOK /\ [Next]_vars => TypeOK'
<1>1. TypeOK /\ UNCHANGED vars => TypeOK'
  BY DEF TypeOK, vars, execVars, projection, requests, repository, locals
<1> QED
  BY <1>1, RunTypes, CommandTypes, StartTypes, EngineTypes, CrashTypes
  DEF Next

\* Every variable keeps its type.
THEOREM MissionTypes == Spec => []TypeOK
BY InitTypes, NextTypes, PTL DEF Spec

(***************************************************************************)
(* The event loop is a mutual exclusion: a run between begin and await, or *)
(* between await and end, is the one that has it.                          *)
(***************************************************************************)

LoopInv ==
  \A t \in Tasks : pc[t] \notin {"idle", "queued", "agent"} => loop = t

LEMMA LoopRun ==
  ASSUME TypeOK, LoopInv, NEW t \in Tasks, Run(t)
  PROVE  LoopInv'
<1> USE NoneIsNobody DEF TypeOK, LoopInv, Run, Phases
<1>1. CASE RunRefused(t) \/ LeasesRefused(t) \/ Unwind(t)
  BY <1>1 DEF RunRefused, LeasesRefused, Unwind, Ends, Enter
<1>2. CASE RunAdmitted(t) \/ Prepare(t) \/ AgentReturns(t)
  BY <1>2 DEF RunAdmitted, Prepare, AgentReturns, Enter
<1>3. ASSUME NEW from, NEW to, Runs(t, from, to)
      PROVE  LoopInv'
  BY <1>3 DEF Runs, Enter
<1> QED
  BY <1>1, <1>2, <1>3
  DEF RunStep, LeasesAcquired, Dispatch, PrepareFails, MarkFailed, Submit, NothingToSubmit,
      GateVerify, GateRejects, GateMerge, MergeFails, GateAccept, AcceptFails,
      Recover

LEMMA LoopNext == TypeOK /\ LoopInv /\ [Next]_vars => LoopInv'
<1> SUFFICES ASSUME TypeOK, LoopInv, [Next]_vars PROVE LoopInv'
  OBVIOUS
<1> USE DEF LoopInv
<1>1. ASSUME NEW t \in Tasks, NEW a \in Agents, StartOne(t, a) PROVE LoopInv'
  BY <1>1 DEF StartOne, Enter, TypeOK
<1>2. CASE StartAll \/ EngineStep
  <2>1. CASE StartAll \/ StopEngine \/ EndBatch
    BY <2>1 DEF StartAll, StopEngine, EndBatch, execVars
  <2>2. ASSUME NEW B \in SUBSET Tasks, NEW route \in [Tasks -> Agents],
               SelectBatch(B, route)
        PROVE  LoopInv'
    BY <2>2 DEF SelectBatch, TypeOK
  <2> QED
    BY <1>2, <2>1, <2>2 DEF EngineStep
<1>3. ASSUME NEW o \in Operators, ServeOperator(o) PROVE LoopInv'
  BY <1>3 DEF ServeOperator, ReadTask, AppendCreated, AppendRetry,
     AppendAbandoned, execVars
<1>4. CASE Crash
  BY <1>4 DEF Crash
<1>5. CASE UNCHANGED vars
  BY <1>5 DEF vars, execVars
<1> QED
  BY <1>1, <1>2, <1>3, <1>4, <1>5, LoopRun DEF Next


(***************************************************************************)
(* Which tasks exist.  Nothing but an idle run touches a task that does    *)
(* not, so that the first task.created of an id finds nothing to replace.  *)
(***************************************************************************)

Known == {t \in Tasks : status[t] # "absent"}

Exists ==
  /\ \A t \in Tasks : pc[t] \notin {"idle", "queued"} => t \in Known
  /\ engine = "batch" => \A t \in Tasks : pc[t] # "idle" => t \in Known
  /\ engine \in {"off", "select"} => \A t \in Tasks : pc[t] = "idle"
  /\ engine = "one" =>
       \A t, u \in Tasks : pc[t] # "idle" /\ pc[u] # "idle" => t = u
  /\ Landed \subseteq Known
  /\ \A o \in Operators :
       /\ command[o].kind \in {"retry", "cancel"} => command[o].task \in Known
       /\ command[o].kind = "create" => command[o].asks.deps \subseteq Known

\* What an event does to the existing tasks and to the completed ones.
Done == {t \in Tasks : status[t] = "completed"}

LEMMA BecomesSets ==
  ASSUME TypeOK, NEW d, NEW t \in Tasks, NEW st \in Statuses,
         status' = Becomes(status, d, t, st)
  PROVE  /\ Done' = IF st = "completed" THEN Done \cup {t} ELSE Done \ {t}
         /\ st # "absent" => Known' = Known \cup {t}
BY DEF TypeOK, Becomes, Promote, Done, Known

LEMMA EmitSets ==
  ASSUME TypeOK, NEW t \in Tasks, NEW st \in Statuses, Emit(t, st)
  PROVE  /\ Done' = IF st = "completed" THEN Done \cup {t} ELSE Done \ {t}
         /\ st # "absent" => Known' = Known \cup {t}
BY BecomesSets DEF Emit

\* The command an operator thread is about to append, one step earlier.
LEMMA CommandNames ==
  ASSUME TypeOK, NEW o \in Operators, command[o].kind # "none"
  PROVE  /\ command[o].kind \in Kinds
         /\ command[o].task \in Tasks
         /\ command[o].asks \in [deps : SUBSET Tasks, files : SUBSET Resources]
<1>1. command[o] \in Commands
  BY DEF TypeOK, NoCommand
<1> QED
  BY <1>1 DEF Commands

\* The three ways a command ends.
LEMMA CommandEnds ==
  ASSUME TypeOK, NEW o \in Operators,
         AppendCreated(o) \/ AppendRetry(o) \/ AppendAbandoned(o)
  PROVE  /\ command[o].task \in Tasks
         /\ command' = [command EXCEPT ![o] = NoCommand]
         /\ UNCHANGED <<active, repository, pc, locals, loop, engine, round, crashes>>
         /\ \/ AppendCreated(o) /\ status' = Becomes(status, deps', command[o].task, "created")
            \/ command[o].kind = "retry" /\ UNCHANGED requests
                 /\ Emit(command[o].task, "ready")
            \/ command[o].kind = "cancel" /\ UNCHANGED requests
                 /\ Emit(command[o].task, "abandoned")
BY CommandNames DEF AppendCreated, AppendRetry, AppendAbandoned

\* What a step of a run does to the task graph: nothing, an event of its own
\* task that does not complete it, or gate.accepted.
LEMMA RunEvents ==
  ASSUME TypeOK, NEW t \in Tasks, Run(t)
  PROVE  \/ UNCHANGED <<status, accepted>>
         \/ /\ UNCHANGED accepted
            /\ pc[t] \notin {"idle", "queued", "admitted", "unwind"}
            /\ \E st \in {"ready", "dispatched", "submitted", "failed"} : Emit(t, st)
         \/ GateAccept(t)
<1> USE DEF Run
<1>1. CASE Dispatch(t) \/ Submit(t) \/ MarkFailed(t)
  BY <1>1 DEF Dispatch, Submit, MarkFailed, Runs, Enter, repository
<1>2. CASE Recover(t)
  BY <1>2 DEF Recover, Runs, Enter, repository
<1>3. CASE GateMerge(t)
  BY <1>3 DEF GateMerge, projection
<1>4. CASE \/ RunRefused(t) \/ RunAdmitted(t) \/ LeasesRefused(t)
           \/ LeasesAcquired(t) \/ Prepare(t) \/ PrepareFails(t)
           \/ AgentReturns(t) \/ NothingToSubmit(t) \/ GateVerify(t)
           \/ GateRejects(t) \/ MergeFails(t) \/ AcceptFails(t) \/ Unwind(t)
  BY <1>4 DEF RunRefused, RunAdmitted, LeasesRefused, LeasesAcquired, Prepare,
     PrepareFails, AgentReturns, NothingToSubmit, GateVerify, GateRejects,
     MergeFails, AcceptFails, Unwind, projection, repository
<1> QED
  BY <1>1, <1>2, <1>3, <1>4 DEF RunStep

\* Where a step of a run takes it: to its end, from the queue to its leases,
\* or on.
LEMMA RunPhases ==
  ASSUME TypeOK, NEW t \in Tasks, Run(t)
  PROVE  /\ pc[t] # "idle"
         /\ \A u \in Tasks : u # t => pc'[u] = pc[u]
         /\ \/ pc'[t] = "idle"
            \/ RunAdmitted(t) /\ pc'[t] = "admitted" /\ status[t] = "ready"
            \/ /\ {pc[t], pc'[t]} \cap {"idle", "queued"} = {}
               /\ pc'[t] # "unwind" => pc[t] # "unwind"
<1> USE DEF Run, TypeOK
<1>1. CASE RunRefused(t) \/ LeasesRefused(t) \/ Unwind(t)
  BY <1>1 DEF RunRefused, LeasesRefused, Unwind, Ends, Enter
<1>2. CASE RunAdmitted(t)
  BY <1>2 DEF RunAdmitted, Enter
<1>3. CASE Prepare(t) \/ AgentReturns(t)
  BY <1>3 DEF Prepare, AgentReturns, Enter
<1>4. CASE \/ LeasesAcquired(t) \/ Dispatch(t) \/ PrepareFails(t)
           \/ MarkFailed(t) \/ Submit(t) \/ NothingToSubmit(t)
           \/ GateVerify(t) \/ GateRejects(t) \/ GateMerge(t)
           \/ MergeFails(t) \/ GateAccept(t) \/ AcceptFails(t) \/ Recover(t)
  BY <1>4 DEF LeasesAcquired, Dispatch, PrepareFails, MarkFailed, Submit,
     NothingToSubmit, GateVerify, GateRejects, GateMerge, MergeFails,
     GateAccept, AcceptFails, Recover, Runs, Enter
<1> QED
  BY <1>1, <1>2, <1>3, <1>4 DEF RunStep

\* gate.accepted lands its task.
LEMMA AcceptLands ==
  ASSUME TypeOK, NEW t \in Tasks, Run(t), GateAccept(t)
  PROVE  /\ Landed' = Landed \cup {t}
         /\ Done' = Done \cup {t}
         /\ Known' = Known \cup {t}
         /\ pc[t] = "accept" /\ pc'[t] = "unwind"
<1> DEFINE a == [task |-> t, commit |-> Len(branch)]
<1>1. accepted \in Seq([task : Tasks, commit : Nat])
  BY DEF TypeOK
<1>2. a \in [task : Tasks, commit : Nat] /\ a.task = t
  BY LenProperties DEF TypeOK
<1>3. accepted' = Append(accepted, a)
  BY DEF GateAccept
<1> HIDE DEF a
<1>4. /\ DOMAIN accepted' = DOMAIN accepted \cup {Len(accepted) + 1}
      /\ \A i \in DOMAIN accepted : accepted'[i] = accepted[i]
      /\ accepted'[Len(accepted) + 1] = a
  BY <1>1, <1>2, <1>3, AppendProperties, LenProperties
<1>5. Landed' = Landed \cup {t}
  BY <1>2, <1>4 DEF Landed
<1>6. Done' = Done \cup {t} /\ Known' = Known \cup {t}
  BY EmitSets DEF GateAccept, Statuses
<1> QED
  BY <1>5, <1>6 DEF GateAccept, Runs, Enter, TypeOK

LEMMA ExistsRun ==
  ASSUME TypeOK, Exists, NEW t \in Tasks, Run(t)
  PROVE  Exists' /\ Known' = Known
<1>1. UNCHANGED <<engine, command>>
  BY DEF Run
<1>2. Known' = Known /\ Landed' \subseteq Landed \cup (IF GateAccept(t) THEN {t} ELSE {})
  <2>1. CASE UNCHANGED <<status, accepted>>
    BY <2>1 DEF Known, Landed
  <2>2. ASSUME NEW st \in {"ready", "dispatched", "submitted", "failed"},
               UNCHANGED accepted, Emit(t, st),
               pc[t] \notin {"idle", "queued", "admitted", "unwind"}
        PROVE  Known' = Known /\ Landed' = Landed
    BY <2>2, EmitSets, StatusNames DEF Landed, Exists
  <2>3. CASE GateAccept(t)
    BY <2>3, AcceptLands DEF Exists
  <2> QED
    BY <2>1, <2>2, <2>3, RunEvents
<1>3. Landed' \subseteq Known'
  BY <1>2, AcceptLands DEF Exists
<1>4. \A u \in Tasks : pc'[u] # "idle" => pc[u] # "idle"
  BY RunPhases
<1>5. \A u \in Tasks : pc'[u] \notin {"idle", "queued"} => u \in Known
  BY RunPhases DEF Exists, Known
<1> QED
  BY <1>1, <1>2, <1>3, <1>4, <1>5 DEF Exists

LEMMA ExistsCommand ==
  ASSUME TypeOK, Exists, NEW o \in Operators, ServeOperator(o)
  PROVE  Exists'
<1>1. UNCHANGED <<engine, pc>> /\ Landed' = Landed
  BY DEF ServeOperator, ReadTask, AppendCreated, AppendRetry, AppendAbandoned,
     execVars, repository, Landed
<1>2. Known \subseteq Known'
  <2>1. CASE AppendCreated(o) \/ AppendRetry(o) \/ AppendAbandoned(o)
    BY <2>1, CommandEnds, BecomesSets, EmitSets, StatusNames
  <2>2. CASE UNCHANGED status
    BY <2>2 DEF Known
  <2> QED
    BY <2>1, <2>2 DEF ServeOperator, ReadTask, execVars, projection
<1> DEFINE Sound(c) == /\ c.kind \in {"retry", "cancel"} => c.task \in Known
                       /\ c.kind = "create" => c.asks.deps \subseteq Known
<1>3. \A q \in Operators : Sound(command'[q])
  <2>1. CASE AppendCreated(o) \/ AppendRetry(o) \/ AppendAbandoned(o)
    <3>1. Sound(NoCommand)
      BY DEF NoCommand
    <3>2. command' = [command EXCEPT ![o] = NoCommand]
      BY <2>1, CommandEnds
    <3> QED
      BY <3>1, <3>2 DEF Exists, TypeOK
  <2>2. ASSUME NEW kind \in Kinds, NEW t \in Tasks, NEW asks \in Asked(kind),
               ReadTask(o, kind, t, asks)
        PROVE  Sound(command'[o])
    <3>1. command' = [command EXCEPT ![o] = [kind |-> kind, task |-> t, asks |-> asks]]
      BY <2>2 DEF ReadTask
    <3>2. kind \in {"retry", "cancel"} => t \in Known
      BY <2>2 DEF ReadTask, Admits, Known
    <3>3. kind = "create" => asks.deps \subseteq Known
      BY <2>2, RequestsType DEF Asked, Known
    <3> QED
      BY <3>1, <3>2, <3>3 DEF TypeOK
  <2>3. \A q \in Operators : q # o => command'[q] = command[q]
    BY DEF ServeOperator, ReadTask, AppendCreated, AppendRetry,
       AppendAbandoned, TypeOK
  <2> QED
    BY <2>1, <2>2, <2>3 DEF ServeOperator, Exists
<1> QED
  BY <1>1, <1>2, <1>3 DEF Exists

LEMMA ExistsNext == TypeOK /\ Exists /\ [Next]_vars => Exists'
<1> SUFFICES ASSUME TypeOK, Exists, [Next]_vars PROVE Exists'
  OBVIOUS
<1>1. ASSUME NEW t \in Tasks, NEW a \in Agents, StartOne(t, a) PROVE Exists'
  <2>1. /\ UNCHANGED <<status, accepted, command>>
        /\ engine = "off" /\ engine' = "one"
        /\ pc' = [pc EXCEPT ![t] = "queued"]
    BY <1>1 DEF StartOne, Enter, projection, repository
  <2>2. \A u \in Tasks : pc'[u] = IF u = t THEN "queued" ELSE "idle"
    BY <2>1 DEF Exists, TypeOK
  <2> QED
    BY <2>1, <2>2 DEF Exists, Known, Landed
<1>2. CASE StartAll \/ StopEngine \/ EndBatch
  BY <1>2 DEF StartAll, StopEngine, EndBatch, ServerIdle, Exists, Known, Landed,
     execVars, projection, repository
<1>3. ASSUME NEW B \in SUBSET Tasks, NEW route \in [Tasks -> Agents],
             SelectBatch(B, route)
      PROVE  Exists'
  <2>1. /\ UNCHANGED <<status, accepted, command>>
        /\ engine' = "batch"
        /\ pc' = [t \in Tasks |-> IF t \in B THEN "queued" ELSE "idle"]
    BY <1>3 DEF SelectBatch, projection, repository, Exists
  <2>2. B \subseteq Known
    BY <1>3 DEF SelectBatch, IsBatch, Known
  <2> QED
    BY <2>1, <2>2 DEF Exists, Known, Landed
<1>4. CASE Crash
  BY <1>4 DEF Crash, NoCommand, Exists, Known, Landed, projection, repository
<1>5. CASE UNCHANGED vars
  BY <1>5 DEF vars, execVars, projection, repository, Exists, Known, Landed
<1> QED
  BY <1>1, <1>2, <1>3, <1>4, <1>5, ExistsRun, ExistsCommand DEF Next, EngineStep

(***************************************************************************)
(* Batches and leases.  The engine selects only while nothing runs, so     *)
(* that the tasks of one batch are all that ever run at the same time, and *)
(* until an id is given twice no two of them touch the same surface.       *)
(***************************************************************************)

EngineInv ==
  /\ again = {} =>
       \A t, u \in Tasks : t # u /\ pc[t] # "idle" /\ pc[u] # "idle" =>
         files[t] \cap files[u] = {}
  /\ again = {} => \A t \in Tasks : Running(t) => surfaces[t] = files[t]
  /\ \A t \in Tasks : pc[t] # "idle" => agent[t] \in Agents
  /\ RunsHoldTheirLeases
  /\ NoOrphanedLease

\* A step that neither starts nor ends a run, nor touches a lease.
LEMMA EngineQuiet ==
  ASSUME TypeOK, EngineInv, UNCHANGED <<requests, active, agent, surfaces, crashes>>,
         \A t \in Tasks : pc'[t] = "idle" <=> pc[t] = "idle",
         \A t \in Tasks : Running(t)' <=> Running(t)
  PROVE  EngineInv'
BY DEF EngineInv, RunsHoldTheirLeases, NoOrphanedLease, requests

LEMMA EngineRun ==
  ASSUME TypeOK, Exists, EngineInv, NEW t \in Tasks, Run(t)
  PROVE  EngineInv'
<1> USE DEF Run, TypeOK
<1>1. UNCHANGED <<deps, files, again, crashes>>
  BY DEF requests
<1>2. CASE RunRefused(t)
  <2>1. /\ UNCHANGED active
        /\ pc[t] = "queued"
        /\ pc' = [pc EXCEPT ![t] = "idle"]
        /\ agent' = [agent EXCEPT ![t] = None]
        /\ surfaces' = [surfaces EXCEPT ![t] = {}]
    BY <1>2 DEF RunRefused, Ends, Enter
  <2>2. \A u \in Tasks : /\ Running(u)' <=> Running(u)
                         /\ Running(u) => u # t
    BY <2>1 DEF Running
  <2>3. RunsHoldTheirLeases' /\ NoOrphanedLease'
    BY <1>1, <2>1, <2>2 DEF EngineInv, RunsHoldTheirLeases, NoOrphanedLease
  <2> QED
    BY <1>1, <2>1, <2>2, <2>3 DEF EngineInv
<1>3. CASE LeasesRefused(t)
  <2>1. /\ \A r \in Resources : active'[r] # active[r] =>
             r \in files[t] /\ active'[r] = None
        /\ pc[t] = "admitted"
        /\ pc' = [pc EXCEPT ![t] = "idle"]
        /\ agent' = [agent EXCEPT ![t] = None]
        /\ surfaces' = [surfaces EXCEPT ![t] = {}]
    BY <1>3 DEF LeasesRefused, Ends, Enter
  <2>2. \A u \in Tasks : /\ Running(u)' <=> Running(u)
                         /\ Running(u) => u # t
    BY <2>1 DEF Running
  <2>3. RunsHoldTheirLeases'
    <3> SUFFICES ASSUME again = {}, NEW u \in Tasks, Running(u)',
                        NEW r \in surfaces'[u]
                 PROVE  active'[r] = agent'[u]
      BY <1>1 DEF RunsHoldTheirLeases
    <3>1. u # t /\ Running(u) /\ agent'[u] = agent[u] /\ surfaces'[u] = surfaces[u]
      BY <2>1, <2>2
    <3>2. r \in Resources /\ r \notin files[t]
      BY <2>1, <3>1 DEF EngineInv, Running
    <3> QED
      BY <2>1, <3>1, <3>2 DEF EngineInv, RunsHoldTheirLeases
  <2>4. NoOrphanedLease'
    BY <1>1, <2>1, <2>2 DEF EngineInv, NoOrphanedLease
  <2> QED
    BY <1>1, <2>1, <2>2, <2>3, <2>4 DEF EngineInv
<1>4. CASE LeasesAcquired(t)
  <2>1. /\ \A r \in Resources :
             active'[r] = IF r \in files[t] THEN agent[t] ELSE active[r]
        /\ pc[t] = "admitted"
        /\ pc' = [pc EXCEPT ![t] = "dispatch"]
        /\ UNCHANGED agent
        /\ surfaces' = [surfaces EXCEPT ![t] = files[t]]
    BY <1>4 DEF LeasesAcquired, Runs, Enter
  <2>2. Running(t)' /\ \A u \in Tasks \ {t} : Running(u)' <=> Running(u)
    BY <2>1 DEF Running
  <2>3. RunsHoldTheirLeases'
    <3> SUFFICES ASSUME again = {}, NEW u \in Tasks, Running(u)',
                        NEW r \in surfaces'[u]
                 PROVE  active'[r] = agent[u]
      BY <1>1, <2>1 DEF RunsHoldTheirLeases
    <3>1. CASE u = t
      BY <2>1, <3>1
    <3>2. CASE u # t
      <4>1. Running(u) /\ surfaces'[u] = surfaces[u]
        BY <2>1, <2>2, <3>2
      <4>2. r \in Resources /\ r \notin files[t]
        BY <2>1, <3>2, <4>1 DEF EngineInv, Running
      <4> QED
        BY <2>1, <4>1, <4>2 DEF EngineInv, RunsHoldTheirLeases
    <3> QED
      BY <3>1, <3>2
  <2>4. NoOrphanedLease'
    BY <1>1, <2>1, <2>2 DEF EngineInv, NoOrphanedLease, Running
  <2>5. again = {} => \A u \in Tasks : Running(u)' => surfaces'[u] = files[u]
    BY <2>1, <2>2 DEF EngineInv
  <2> QED
    BY <1>1, <2>1, <2>3, <2>4, <2>5 DEF EngineInv
<1>5. CASE Unwind(t)
  <2>1. /\ \A r \in Resources :
             active'[r] = IF r \in surfaces[t] THEN None ELSE active[r]
        /\ pc[t] = "unwind"
        /\ pc' = [pc EXCEPT ![t] = "idle"]
        /\ agent' = [agent EXCEPT ![t] = None]
        /\ surfaces' = [surfaces EXCEPT ![t] = {}]
    BY <1>5 DEF Unwind, Ends, Enter
  <2>2. Running(t) /\ ~Running(t)' /\ \A u \in Tasks \ {t} : Running(u)' <=> Running(u)
    BY <2>1 DEF Running
  <2>3. RunsHoldTheirLeases'
    <3> SUFFICES ASSUME again = {}, NEW u \in Tasks, Running(u)',
                        NEW r \in surfaces'[u]
                 PROVE  active'[r] = agent'[u]
      BY <1>1 DEF RunsHoldTheirLeases
    <3>1. u # t /\ Running(u) /\ agent'[u] = agent[u] /\ surfaces'[u] = surfaces[u]
      BY <2>1, <2>2
    <3>2. r \in Resources /\ r \notin surfaces[t]
      BY <2>1, <2>2, <3>1 DEF EngineInv, Running
    <3> QED
      BY <2>1, <3>1, <3>2 DEF EngineInv, RunsHoldTheirLeases
  <2>4. NoOrphanedLease'
    BY <1>1, <2>1, <2>2 DEF EngineInv, NoOrphanedLease
  <2> QED
    BY <1>1, <2>1, <2>2, <2>3, <2>4 DEF EngineInv
<1>6. CASE RunAdmitted(t) \/ Prepare(t) \/ AgentReturns(t)
  <2>1. /\ UNCHANGED <<active, agent, surfaces>>
        /\ \A u \in Tasks : /\ pc'[u] = "idle" <=> pc[u] = "idle"
                            /\ Running(u)' <=> Running(u)
    BY <1>6 DEF RunAdmitted, Prepare, AgentReturns, Enter, locals, Running
  <2> QED
    BY <1>1, <2>1, EngineQuiet DEF requests
<1>7. CASE Dispatch(t) \/ PrepareFails(t) \/ MarkFailed(t) \/ Submit(t)
             \/ NothingToSubmit(t) \/ GateVerify(t) \/ GateRejects(t)
             \/ GateMerge(t) \/ MergeFails(t) \/ GateAccept(t)
             \/ AcceptFails(t) \/ Recover(t)
  <2>1. UNCHANGED <<active, agent, surfaces>>
    BY <1>7 DEF Dispatch, PrepareFails, MarkFailed, Submit, NothingToSubmit,
       GateVerify, GateRejects, GateMerge, MergeFails, GateAccept,
       AcceptFails, Recover, locals
  <2>2. \A u \in Tasks : /\ pc'[u] = "idle" <=> pc[u] = "idle"
                         /\ Running(u)' <=> Running(u)
    BY <1>7 DEF Dispatch, PrepareFails, MarkFailed, Submit, NothingToSubmit,
       GateVerify, GateRejects, GateMerge, MergeFails, GateAccept,
       AcceptFails, Recover, Runs, Enter, Running
  <2> QED
    BY <1>1, <2>1, <2>2, EngineQuiet DEF requests
<1> QED
  BY <1>2, <1>3, <1>4, <1>5, <1>6, <1>7 DEF RunStep

\* While no id has been given twice, a create gives its files to a task that
\* did not exist, which at most one run is queued for, alone.
LEMMA EngineCreate ==
  ASSUME TypeOK, Exists, EngineInv, NEW o \in Operators, AppendCreated(o)
  PROVE  EngineInv'
<1> DEFINE t == command[o].task
<1>1. /\ UNCHANGED <<active, agent, surfaces, pc, crashes>>
      /\ \A u \in Tasks : u # t => files'[u] = files[u]
      /\ again' = {} => again = {} /\ t \notin Known
      /\ t \in Tasks
  BY CommandNames DEF AppendCreated, locals, TypeOK, Known
<1>2. \A u \in Tasks : Running(u)' <=> Running(u)
  BY <1>1 DEF Running
<1>3. t \notin Known => /\ ~Running(t)
                        /\ pc[t] # "idle" => \A u \in Tasks : pc[u] # "idle" => u = t
  BY <1>1 DEF Exists, Running, TypeOK
<1>4. RunsHoldTheirLeases' /\ NoOrphanedLease'
  BY <1>1, <1>2 DEF EngineInv, RunsHoldTheirLeases, NoOrphanedLease
<1> HIDE DEF t
<1> QED
  BY <1>1, <1>2, <1>3, <1>4 DEF EngineInv

LEMMA EngineNext == TypeOK /\ Exists /\ EngineInv /\ [Next]_vars => EngineInv'
<1> SUFFICES ASSUME TypeOK, Exists, EngineInv, [Next]_vars PROVE EngineInv'
  OBVIOUS
<1>1. ASSUME NEW t \in Tasks, NEW a \in Agents, StartOne(t, a)
      PROVE  EngineInv'
  <2>1. /\ \A u \in Tasks : pc[u] = "idle"
        /\ pc' = [pc EXCEPT ![t] = "queued"]
        /\ agent' = [agent EXCEPT ![t] = a]
        /\ UNCHANGED <<requests, active, surfaces, crashes>>
    BY <1>1 DEF StartOne, Enter, Exists
  <2>2. \A u \in Tasks : ~Running(u) /\ ~Running(u)'
    BY <2>1 DEF Running, TypeOK
  <2> QED
    BY <2>1, <2>2
    DEF EngineInv, RunsHoldTheirLeases, NoOrphanedLease, TypeOK, requests
<1>2. CASE StartAll \/ StopEngine \/ EndBatch
  <2>1. UNCHANGED <<requests, active, agent, surfaces, pc, crashes>>
    BY <1>2 DEF StartAll, StopEngine, EndBatch, execVars, locals
  <2> QED
    BY <2>1, EngineQuiet DEF Running
<1>3. ASSUME NEW B \in SUBSET Tasks, NEW route \in [Tasks -> Agents],
             SelectBatch(B, route)
      PROVE  EngineInv'
  <2>1. /\ \A u \in Tasks : pc[u] = "idle"
        /\ pc' = [t \in Tasks |-> IF t \in B THEN "queued" ELSE pc[t]]
        /\ agent' = [t \in Tasks |-> IF t \in B THEN route[t] ELSE agent[t]]
        /\ UNCHANGED <<requests, active, surfaces, crashes>>
    BY <1>3 DEF SelectBatch, Exists
  <2>2. \A t, u \in B : t # u => files[t] \cap files[u] = {}
    BY <1>3 DEF SelectBatch, IsBatch
  <2>3. \A u \in Tasks : ~Running(u) /\ ~Running(u)'
    BY <2>1 DEF Running
  <2> QED
    BY <2>1, <2>2, <2>3
    DEF EngineInv, RunsHoldTheirLeases, NoOrphanedLease, requests
<1>4. ASSUME NEW o \in Operators, ServeOperator(o) PROVE EngineInv'
  <2>1. CASE AppendCreated(o)
    BY <2>1, EngineCreate
  <2>2. CASE ~AppendCreated(o)
    <3>1. UNCHANGED <<requests, active, agent, surfaces, pc, crashes>>
      BY <1>4, <2>2 DEF ServeOperator, ReadTask, AppendRetry, AppendAbandoned,
         execVars, locals, requests
    <3> QED
      BY <3>1, EngineQuiet DEF Running
  <2> QED
    BY <2>1, <2>2
<1>5. CASE Crash
  <2>1. /\ pc' = [t \in Tasks |-> "idle"]
        /\ crashes' # 0
    BY <1>5 DEF Crash, TypeOK
  <2>2. \A t \in Tasks : ~Running(t)'
    BY <2>1 DEF Running
  <2> QED
    BY <2>1, <2>2 DEF EngineInv, RunsHoldTheirLeases, NoOrphanedLease
<1>6. CASE UNCHANGED vars
  BY <1>6, EngineQuiet DEF vars, execVars, locals, Running
<1> QED
  BY <1>1, <1>2, <1>3, <1>4, <1>5, <1>6, EngineRun DEF Next, EngineStep

(***************************************************************************)
(* Git and the log.  The candidate about to be merged was verified on the  *)
(* HEAD it is merged on, and the one about to be accepted is HEAD, because *)
(* no other run gets the event loop in between.                            *)
(***************************************************************************)

BranchInv ==
  /\ AcceptedIsIntegrated
  /\ IntegratedIsVerified
  /\ NoUnrecordedCommit
  /\ \A t \in Tasks : pc[t] = "merge" => base[t] = Len(branch)
  /\ \A t \in Tasks : pc[t] = "accept" =>
       /\ Len(branch) > 0
       /\ branch[Len(branch)].task = t
       /\ \A i \in DOMAIN accepted : accepted[i].commit < Len(branch)

LEMMA BranchElements ==
  ASSUME TypeOK
  PROVE  /\ DOMAIN branch = 1 .. Len(branch)
         /\ \A k \in DOMAIN branch : branch[k].task \in Tasks /\ branch[k].base \in Nat
         /\ DOMAIN accepted = 1 .. Len(accepted)
         /\ \A i \in DOMAIN accepted :
              accepted[i].task \in Tasks /\ accepted[i].commit \in Nat
<1>1. /\ DOMAIN branch = 1 .. Len(branch)
      /\ DOMAIN accepted = 1 .. Len(accepted)
  BY DEF TypeOK
<1>2. ASSUME NEW k \in DOMAIN branch
      PROVE  branch[k].task \in Tasks /\ branch[k].base \in Nat
  <2>1. branch[k] \in [task : Tasks, base : Nat]
    BY <1>1, <1>2, ElementOfSeq DEF TypeOK
  <2> QED
    BY <2>1
<1>3. ASSUME NEW i \in DOMAIN accepted
      PROVE  accepted[i].task \in Tasks /\ accepted[i].commit \in Nat
  <2>1. accepted[i] \in [task : Tasks, commit : Nat]
    BY <1>1, <1>3, ElementOfSeq DEF TypeOK
  <2> QED
    BY <2>1
<1> QED
  BY <1>1, <1>2, <1>3

\* A step that leaves the branch and the log of accepted candidates alone,
\* and takes no run to or from its merge, disturbs nothing of this; nor does
\* one that takes it from there by a crash or a fault of git.
LEMMA BranchQuiet ==
  ASSUME TypeOK, BranchInv, UNCHANGED repository,
         \A t \in Tasks : pc'[t] \in {"merge", "accept"} =>
           pc'[t] = pc[t] /\ base'[t] = base[t],
         \/ crashes' # 0
         \/ GitFaults
         \/ /\ crashes' = crashes
            /\ \A t \in Tasks : pc[t] = "accept" => pc'[t] = "accept"
  PROVE  BranchInv'
<1> USE DEF BranchInv, repository, TypeOK
<1>1. AcceptedIsIntegrated' /\ IntegratedIsVerified'
  BY DEF AcceptedIsIntegrated, IntegratedIsVerified
<1>2. NoUnrecordedCommit'
  BY BranchElements DEF NoUnrecordedCommit
<1> QED
  BY <1>1, <1>2

LEMMA BranchMerge ==
  ASSUME TypeOK, LoopInv, BranchInv, NEW t \in Tasks, Run(t), GateMerge(t)
  PROVE  BranchInv'
<1> USE DEF TypeOK, GateMerge, Runs, Enter, locals, Run
<1>1. /\ branch' = Append(branch, [task |-> t, base |-> Len(branch)])
      /\ accepted' = accepted
  BY DEF BranchInv
<1>2. /\ Len(branch') = Len(branch) + 1
      /\ DOMAIN branch' = 1 .. (Len(branch) + 1)
      /\ DOMAIN branch = 1 .. Len(branch)
      /\ \A k \in DOMAIN branch : branch'[k] = branch[k]
      /\ branch'[Len(branch) + 1] = [task |-> t, base |-> Len(branch)]
  BY <1>1
<1>3. \A u \in Tasks : pc'[u] \in {"merge", "accept"} => u = t
  BY NoneIsNobody DEF LoopInv
<1>4. \A i \in DOMAIN accepted : accepted[i].commit \in 1 .. Len(branch)
  BY <1>2 DEF BranchInv, AcceptedIsIntegrated
<1>5. AcceptedIsIntegrated'
  <2> HIDE DEF TypeOK, GateMerge, Runs, Enter, locals, Run
  <2>1. AcceptedIsIntegrated
    BY DEF BranchInv
  <2>2. ASSUME NEW i \in DOMAIN accepted
        PROVE  /\ accepted[i].commit \in DOMAIN branch'
               /\ branch'[accepted[i].commit].task = accepted[i].task
    <3>1. /\ accepted[i].commit \in DOMAIN branch
          /\ branch[accepted[i].commit].task = accepted[i].task
      BY <2>1 DEF AcceptedIsIntegrated
    <3>2. accepted[i].commit \in DOMAIN branch'
      BY <1>2, <1>4
    <3> QED
      BY <1>2, <3>1, <3>2
  <2>3. \A i, j \in DOMAIN accepted : i < j => accepted[i].commit < accepted[j].commit
    BY <2>1 DEF AcceptedIsIntegrated
  <2> QED
    BY <1>1, <2>2, <2>3 DEF AcceptedIsIntegrated
<1>6. IntegratedIsVerified'
  BY <1>2 DEF BranchInv, IntegratedIsVerified
<1>7. NoUnrecordedCommit'
  <2>1. SUFFICES ASSUME crashes = 0, ~GitFaults, NEW k \in DOMAIN branch'
                 PROVE  \/ \E i \in DOMAIN accepted : accepted[i].commit = k
                        \/ k = Len(branch') /\ pc'[branch'[k].task] = "accept"
    BY <1>1 DEF NoUnrecordedCommit
  <2>2. CASE k = Len(branch) + 1
    BY <1>2, <2>2
  <2>3. CASE k \in DOMAIN branch
    <3>1. pc[branch[k].task] # "accept"
      BY <2>3, NoneIsNobody, BranchElements DEF LoopInv
    <3> QED
      BY <2>1, <2>3, <3>1 DEF BranchInv, NoUnrecordedCommit
  <2>4. k = Len(branch) + 1 \/ k \in DOMAIN branch
    <3> HIDE DEF TypeOK, GateMerge, Runs, Enter, locals, Run
    <3>1. Len(branch) \in Nat
      BY LenProperties DEF TypeOK
    <3> QED
      BY <1>2, <3>1
  <2> QED
    BY <2>2, <2>3, <2>4
<1> QED
  BY <1>1, <1>2, <1>3, <1>4, <1>5, <1>6, <1>7 DEF BranchInv

LEMMA BranchAccept ==
  ASSUME TypeOK, LoopInv, BranchInv, NEW t \in Tasks, Run(t), GateAccept(t)
  PROVE  BranchInv'
<1> DEFINE n == Len(accepted) + 1
<1>1. /\ accepted' = Append(accepted, [task |-> t, commit |-> Len(branch)])
      /\ UNCHANGED <<branch, crashes>>
  BY DEF GateAccept, Run
<1>2. /\ DOMAIN accepted' = 1 .. n
      /\ DOMAIN accepted = 1 .. Len(accepted)
      /\ \A i \in DOMAIN accepted : accepted'[i] = accepted[i]
      /\ accepted'[n].task = t
      /\ accepted'[n].commit = Len(branch)
  <2> DEFINE a == [task |-> t, commit |-> Len(branch)]
  <2>1. accepted \in Seq([task : Tasks, commit : Nat])
    BY DEF TypeOK
  <2>2. a \in [task : Tasks, commit : Nat]
    BY LenProperties DEF TypeOK
  <2>3. a.task = t /\ a.commit = Len(branch)
    OBVIOUS
  <2> HIDE DEF a
  <2> QED
    BY <1>1, <2>1, <2>2, <2>3, AppendProperties, LenProperties DEF a
<1>3. /\ loop = t
      /\ pc[t] = "accept"
      /\ pc' = [pc EXCEPT ![t] = "unwind"]
  BY DEF GateAccept, Runs, Enter
<1>4. /\ Len(branch) \in DOMAIN branch
      /\ branch[Len(branch)].task = t
      /\ \A i \in DOMAIN accepted : accepted[i].commit < Len(branch)
  <2>1. Len(branch) \in Nat
    BY LenProperties DEF TypeOK
  <2> QED
    BY <1>3, <2>1, BranchElements DEF BranchInv
<1>5. \A u \in Tasks : pc'[u] \notin {"merge", "accept"}
  BY <1>3, NoneIsNobody DEF LoopInv, TypeOK
<1>6. AcceptedIsIntegrated'
  <2>1. ASSUME NEW i \in 1 .. n
        PROVE  /\ accepted'[i].commit \in DOMAIN branch
               /\ branch[accepted'[i].commit].task = accepted'[i].task
    <3>1. i = n \/ i \in DOMAIN accepted
      BY <1>2, <2>1
    <3> QED
      BY <1>2, <1>4, <3>1 DEF BranchInv, AcceptedIsIntegrated
  <2>2. ASSUME NEW i \in 1 .. n, NEW j \in 1 .. n, i < j
        PROVE  accepted'[i].commit < accepted'[j].commit
    <3>1. i \in DOMAIN accepted /\ (j = n \/ j \in DOMAIN accepted)
      BY <1>2, <2>2
    <3> QED
      BY <1>2, <1>4, <2>2, <3>1 DEF BranchInv, AcceptedIsIntegrated
  <2> QED
    BY <1>1, <1>2, <2>1, <2>2 DEF AcceptedIsIntegrated
<1>7. IntegratedIsVerified'
  BY <1>1 DEF BranchInv, IntegratedIsVerified
<1>8. NoUnrecordedCommit'
  <2>1. SUFFICES ASSUME crashes = 0, ~GitFaults, NEW k \in DOMAIN branch
                 PROVE  \E i \in 1 .. n : accepted'[i].commit = k
    BY <1>1, <1>2 DEF NoUnrecordedCommit
  <2>2. CASE k = Len(branch)
    <3>1. n \in 1 .. n
      BY LenProperties DEF TypeOK
    <3> QED
      BY <1>2, <2>2, <3>1
  <2>3. CASE k # Len(branch)
    <3>1. PICK i \in DOMAIN accepted : accepted[i].commit = k
      BY <2>1, <2>3 DEF BranchInv, NoUnrecordedCommit
    <3> QED
      BY <1>2, <3>1
  <2> QED
    BY <2>2, <2>3
<1> QED
  BY <1>5, <1>6, <1>7, <1>8 DEF BranchInv

LEMMA BranchRun ==
  ASSUME TypeOK, LoopInv, BranchInv, NEW t \in Tasks, Run(t)
  PROVE  BranchInv'
<1> USE DEF Run
<1>1. CASE RunRefused(t) \/ RunAdmitted(t) \/ LeasesRefused(t)
             \/ LeasesAcquired(t) \/ AgentReturns(t) \/ Unwind(t)
  BY <1>1, BranchQuiet DEF TypeOK, RunRefused, RunAdmitted, LeasesRefused,
     LeasesAcquired, AgentReturns, Unwind, Ends, Runs, Enter, locals
<1>2. CASE Dispatch(t) \/ PrepareFails(t) \/ MarkFailed(t) \/ Submit(t)
             \/ NothingToSubmit(t) \/ GateRejects(t) \/ MergeFails(t)
             \/ Recover(t)
  BY <1>2, BranchQuiet DEF TypeOK, Dispatch, PrepareFails, MarkFailed, Submit,
     NothingToSubmit, GateRejects, MergeFails, Recover, Runs, Enter, locals
<1>3. CASE Prepare(t)
  BY <1>3, BranchQuiet DEF TypeOK, Prepare, Enter
<1>4. CASE AcceptFails(t)
  BY <1>4, BranchQuiet DEF TypeOK, AcceptFails, Runs, Enter, locals
<1>5. CASE GateVerify(t)
  <2>1. \A u \in Tasks : pc'[u] \in {"merge", "accept"} =>
          u = t /\ pc'[u] = "merge" /\ base'[u] = Len(branch)
    BY <1>5, NoneIsNobody DEF LoopInv, TypeOK, GateVerify, Runs, Enter
  <2>2. \A u \in Tasks : pc[u] # "accept"
    BY <1>5, NoneIsNobody DEF LoopInv, TypeOK, GateVerify, Runs, Enter
  <2>3. UNCHANGED <<branch, accepted, crashes>>
    BY <1>5 DEF GateVerify, repository
  <2> QED
    BY <2>1, <2>2, <2>3, BranchElements
    DEF BranchInv, AcceptedIsIntegrated, IntegratedIsVerified, NoUnrecordedCommit
<1> QED
  BY <1>1, <1>2, <1>3, <1>4, <1>5, BranchMerge, BranchAccept DEF RunStep

LEMMA BranchNext ==
  TypeOK /\ LoopInv /\ Exists /\ BranchInv /\ [Next]_vars => BranchInv'
<1> SUFFICES ASSUME TypeOK, LoopInv, Exists, BranchInv, [Next]_vars
             PROVE  BranchInv'
  OBVIOUS
<1>1. ASSUME NEW t \in Tasks, NEW a \in Agents, StartOne(t, a)
      PROVE  BranchInv'
  BY <1>1, BranchQuiet DEF StartOne, Enter, TypeOK
<1>2. CASE StartAll \/ EngineStep
  <2>1. CASE StartAll \/ StopEngine \/ EndBatch
    <3>1. UNCHANGED repository /\ UNCHANGED <<pc, base, crashes>>
      BY <2>1 DEF StartAll, StopEngine, EndBatch, execVars, repository, locals
    <3> QED
      BY <3>1, BranchQuiet
  <2>2. ASSUME NEW B \in SUBSET Tasks, NEW route \in [Tasks -> Agents],
               SelectBatch(B, route)
        PROVE  BranchInv'
    <3>1. UNCHANGED repository /\ UNCHANGED <<base, crashes>>
      BY <2>2 DEF SelectBatch
    <3>2. pc' = [t \in Tasks |-> IF t \in B THEN "queued" ELSE pc[t]]
      BY <2>2 DEF SelectBatch
    <3>3. \A t \in Tasks : pc[t] = "idle"
      BY <2>2 DEF SelectBatch, Exists
    <3> QED
      BY <3>1, <3>2, <3>3, BranchQuiet
  <2> QED
    BY <1>2, <2>1, <2>2 DEF EngineStep
<1>3. ASSUME NEW o \in Operators, ServeOperator(o) PROVE BranchInv'
  BY <1>3, BranchQuiet DEF ServeOperator, ReadTask, AppendCreated, AppendRetry,
     AppendAbandoned, execVars, repository, locals
<1>4. CASE Crash
  <2>1. crashes' # 0
    BY <1>4 DEF Crash, TypeOK
  <2> QED
    BY <1>4, <2>1, BranchQuiet DEF Crash, repository
<1>5. CASE UNCHANGED vars
  BY <1>5, BranchQuiet DEF vars, execVars, repository, locals
<1> QED
  BY <1>1, <1>2, <1>3, <1>4, <1>5, BranchRun DEF Next

(***************************************************************************)
(* The task graph, but for tasks whose id was given twice.                 *)
(***************************************************************************)

\* Statuses a task has only after its dependencies have landed.
Admitted == {"ready", "dispatched", "submitted", "failed", "completed"}

Grounded(t) == deps[t] \subseteq Landed

\* What a retry that is about to be appended may rely on.
RetryGrounded(o) ==
  command[o].kind = "retry" =>
    command[o].task \in again \/ Grounded(command[o].task)

GraphInv ==
  /\ \A t \in Tasks \ again : status[t] \in Admitted => Grounded(t)
  /\ Done \subseteq Landed
  /\ \A t \in Tasks \ again : pc[t] \notin {"idle", "queued"} => Grounded(t)
  /\ \A t \in Tasks : pc[t] \notin {"idle", "queued", "unwind"} => t \notin Done
  /\ \A o \in Operators : RetryGrounded(o)

\* An event of an admitted task, or one that admits no task, keeps every
\* admitted task on top of landed work: _update_dependency_readiness admits
\* only tasks whose dependencies are all completed.
LEMMA EventAdmits ==
  ASSUME TypeOK, TypeOK', GraphInv, NEW t \in Tasks, NEW st \in Statuses,
         status' = Becomes(status, deps', t, st),
         Landed \subseteq Landed', again \subseteq again',
         \A u \in Tasks \ {t} : deps'[u] = deps[u],
         st \in Admitted => t \in again' \/ deps'[t] \subseteq Landed',
         st = "completed" => t \in Landed'
  PROVE  /\ \A u \in Tasks \ again' : status'[u] \in Admitted => Grounded(u)'
         /\ Done' \subseteq Landed'
<1> DEFINE s == [status EXCEPT ![t] = st]
<1>1. \A u \in Tasks : s[u] = IF u = t THEN st ELSE status[u]
  BY DEF TypeOK
<1>2. \A u \in Tasks : s[u] = "completed" => u \in Landed'
  BY <1>1 DEF GraphInv, Done
<1>3. \A u \in Tasks \ again' : s[u] \in Admitted => deps'[u] \subseteq Landed'
  BY <1>1 DEF GraphInv, Grounded
<1> HIDE DEF s
<1>4. status' = Promote(s, deps')
  BY DEF Becomes, s
<1>5. ASSUME NEW u \in Tasks \ again', status'[u] \in Admitted
      PROVE  Grounded(u)'
  <2>1. CASE s[u] = "created" /\ \A d \in deps'[u] : s[d] = "completed"
    BY <1>2, <2>1 DEF TypeOK, Grounded
  <2>2. CASE ~(s[u] = "created" /\ \A d \in deps'[u] : s[d] = "completed")
    BY <1>3, <1>4, <1>5, <2>2 DEF Promote, Grounded
  <2> QED
    BY <2>1, <2>2
<1>6. \A u \in Tasks : status'[u] = "completed" => s[u] = "completed"
  BY <1>4 DEF Promote
<1> QED
  BY <1>2, <1>5, <1>6 DEF Done

LEMMA AdmittedNames ==
  /\ Admitted \subseteq Statuses
  /\ "created" \in Statuses \ Admitted
  /\ "abandoned" \in Statuses \ Admitted
BY DEF Admitted, Statuses

LEMMA InitGraph == Init => GraphInv
<1> SUFFICES ASSUME Init PROVE GraphInv
  OBVIOUS
<1> DEFINE s == [t \in Tasks |-> IF t \in Initial THEN "created" ELSE "absent"]
<1>1. \A t \in Tasks : s[t] \in {"created", "absent"}
  OBVIOUS
<1>2. status = Promote(s, deps) /\ deps \in [Tasks -> SUBSET Tasks]
  BY InitTypes DEF Init, TypeOK
<1> HIDE DEF s
<1>3. \A t \in Tasks :
        /\ status[t] \in {"created", "absent"} \/ (status[t] = "ready" /\ deps[t] = {})
  BY <1>1, <1>2 DEF Promote
<1>4. Done = {} /\ \A t \in Tasks : status[t] \in Admitted => deps[t] = {}
  BY <1>3 DEF Done, Admitted
<1>5. \A t \in Tasks : pc[t] = "idle"
  BY DEF Init
<1>6. \A o \in Operators : command[o].kind # "retry"
  BY DEF Init, NoCommand
<1> QED
  BY <1>4, <1>5, <1>6 DEF GraphInv, Grounded, RetryGrounded

LEMMA GraphRun ==
  ASSUME TypeOK, TypeOK', GraphInv, NEW t \in Tasks, Run(t)
  PROVE  GraphInv'
<1>1. UNCHANGED <<deps, again, command>>
  BY DEF Run, requests
<1>2. Landed \subseteq Landed'
  BY RunEvents, AcceptLands DEF Landed
<1>3. /\ \A u \in Tasks \ again : status'[u] \in Admitted => Grounded(u)'
      /\ Done' \subseteq Landed'
  <2>1. CASE UNCHANGED <<status, accepted>>
    BY <1>1, <2>1 DEF GraphInv, Done, Landed, Grounded
  <2>2. ASSUME NEW st \in {"ready", "dispatched", "submitted", "failed"}, Emit(t, st),
               pc[t] \notin {"idle", "queued", "admitted", "unwind"}
        PROVE  <1>3!1 /\ <1>3!2
    <3>1. t \in again \/ deps[t] \subseteq Landed'
      BY <1>2, <2>2 DEF GraphInv, Grounded
    <3> QED
      BY <1>1, <1>2, <2>2, <3>1, EventAdmits, StatusNames DEF Emit
  <2>3. CASE GateAccept(t)
    <3>1. Emit(t, "completed") /\ "completed" \in Statuses
      BY <2>3 DEF GateAccept, Statuses
    <3>2. (t \in again \/ deps[t] \subseteq Landed') /\ t \in Landed'
      BY <1>2, <2>3, AcceptLands DEF GraphInv, Grounded
    <3> QED
      BY <1>1, <1>2, <3>1, <3>2, EventAdmits DEF Emit
  <2> QED
    BY <2>1, <2>2, <2>3, RunEvents
<1>4. ASSUME NEW u \in Tasks \ again, pc'[u] \notin {"idle", "queued"}
      PROVE  Grounded(u)'
  <2>1. CASE RunAdmitted(t) /\ u = t
    BY <1>1, <1>2, <2>1 DEF RunAdmitted, GraphInv, Grounded, Admitted
  <2>2. CASE pc[u] \notin {"idle", "queued"}
    BY <1>1, <1>2, <2>2 DEF GraphInv, Grounded
  <2> QED
    BY <1>4, <2>1, <2>2, RunPhases
<1>5. ASSUME NEW u \in Tasks, pc'[u] \notin {"idle", "queued", "unwind"}
      PROVE  u \notin Done'
  <2>1. CASE RunAdmitted(t) /\ u = t
    BY <2>1 DEF RunAdmitted, Done, projection
  <2>2. CASE pc[u] \notin {"idle", "queued", "unwind"}
    <3>1. u \notin Done
      BY <2>2 DEF GraphInv
    <3>2. CASE GateAccept(t)
      BY <1>5, <3>1, <3>2, AcceptLands
    <3>3. ASSUME NEW st \in {"ready", "dispatched", "submitted", "failed"}, Emit(t, st)
          PROVE  u \notin Done'
      BY <3>1, <3>3, EmitSets, StatusNames
    <3> QED
      BY <3>1, <3>2, <3>3, RunEvents DEF Done
  <2> QED
    BY <1>5, <2>1, <2>2, RunPhases
<1>6. \A o \in Operators : RetryGrounded(o)'
  BY <1>1, <1>2 DEF GraphInv, Grounded, RetryGrounded
<1> QED
  BY <1>1, <1>3, <1>4, <1>5, <1>6 DEF GraphInv

\* A create replaces the dependencies of a task that did not exist, or puts
\* its id among those that were given twice.
LEMMA CreateAgain ==
  ASSUME TypeOK, NEW o \in Operators, AppendCreated(o)
  PROVE  /\ \A u \in Tasks \ {command[o].task} : deps'[u] = deps[u]
         /\ again \subseteq again' /\ again' \subseteq again \cup {command[o].task}
         /\ command[o].task \in Known => command[o].task \in again'
         /\ command[o].task \notin Known => again' = again
         /\ deps' = [deps EXCEPT ![command[o].task] = command[o].asks.deps]
BY CommandNames DEF AppendCreated, TypeOK, Known

LEMMA GraphCommand ==
  ASSUME TypeOK, TypeOK', Exists, GraphInv, NEW o \in Operators, ServeOperator(o)
  PROVE  GraphInv'
<1>1. UNCHANGED <<accepted, pc>> /\ Landed' = Landed
  BY DEF ServeOperator, ReadTask, AppendCreated, AppendRetry, AppendAbandoned,
     execVars, repository, Landed
<1>2. ASSUME NEW kind \in Kinds, NEW t \in Tasks, NEW asks \in Asked(kind),
             ReadTask(o, kind, t, asks)
      PROVE  GraphInv'
  <2>1. /\ UNCHANGED <<status, deps, again>>
        /\ command' = [command EXCEPT ![o] = [kind |-> kind, task |-> t, asks |-> asks]]
    BY <1>2 DEF ReadTask, execVars, projection, requests
  <2>2. kind = "retry" => t \in again \/ Grounded(t)
    BY <1>2 DEF ReadTask, Admits, GraphInv, Admitted
  <2>3. \A q \in Operators : RetryGrounded(q)'
    BY <1>1, <2>1, <2>2 DEF GraphInv, TypeOK, Grounded, RetryGrounded
  <2> QED
    BY <1>1, <2>1, <2>3 DEF GraphInv, Grounded, Done
<1>3. CASE AppendCreated(o) \/ AppendRetry(o) \/ AppendAbandoned(o)
  <2> DEFINE t == command[o].task
  <2>1. /\ t \in Tasks
        /\ again \subseteq again' /\ again' \subseteq again \cup {t}
        /\ \A u \in Tasks \ {t} : deps'[u] = deps[u]
        /\ t \in again' \/ deps'[t] = deps[t] \/ t \notin Known
    BY <1>3, CommandEnds, CreateAgain DEF requests
  <2>2. PICK st \in {"created", "ready", "abandoned"} :
          /\ status' = Becomes(status, deps', t, st)
          /\ st = "ready" => t \in again' \/ deps'[t] \subseteq Landed
    BY <1>3, CommandEnds DEF Emit, GraphInv, Grounded, RetryGrounded, requests
  <2>3. command' = [command EXCEPT ![o] = NoCommand]
    BY <1>3, CommandEnds
  <2>4. \A q \in Operators : command'[q].kind = "retry" =>
          /\ command'[q] = command[q]
          /\ command[q].task \in Known
    BY <2>3 DEF Exists, TypeOK, NoCommand
  <2> HIDE DEF t
  <2>5. /\ \A u \in Tasks \ again' : status'[u] \in Admitted => Grounded(u)'
        /\ Done' \subseteq Landed'
    BY <1>1, <2>1, <2>2, EventAdmits, AdmittedNames, StatusNames
  <2>6. Done' \subseteq Done
    BY <2>1, <2>2, BecomesSets, StatusNames
  <2>7. \A u \in Tasks : u \in Known /\ (u \in again \/ Grounded(u)) =>
          u \in again' \/ Grounded(u)'
    BY <1>1, <2>1 DEF Grounded
  <2>8. \A u \in Tasks \ again' : pc'[u] \notin {"idle", "queued"} => Grounded(u)'
    BY <1>1, <2>1, <2>7 DEF GraphInv, Exists
  <2>9. ASSUME NEW q \in Operators, command'[q].kind = "retry"
        PROVE  command[q].task \in again' \/ deps'[command[q].task] \subseteq Landed'
    BY <2>4, <2>7, <2>9 DEF GraphInv, Known, RetryGrounded, Grounded
  <2>10. \A q \in Operators : RetryGrounded(q)'
    BY <2>4, <2>9 DEF RetryGrounded, Grounded
  <2> QED
    BY <1>1, <2>5, <2>6, <2>8, <2>10 DEF GraphInv
<1> QED
  BY <1>2, <1>3 DEF ServeOperator

LEMMA GraphNext ==
  TypeOK /\ TypeOK' /\ Exists /\ GraphInv /\ [Next]_vars => GraphInv'
<1> SUFFICES ASSUME TypeOK, TypeOK', Exists, GraphInv, [Next]_vars PROVE GraphInv'
  OBVIOUS
<1>1. ASSUME UNCHANGED <<status, deps, again, accepted, command>>,
             \A t \in Tasks : pc'[t] \in {"idle", "queued", pc[t]}
      PROVE  GraphInv'
  BY <1>1 DEF GraphInv, Grounded, RetryGrounded, Landed, Done
<1>2. ASSUME NEW t \in Tasks, NEW a \in Agents, StartOne(t, a) PROVE GraphInv'
  BY <1>1, <1>2 DEF StartOne, Enter, TypeOK, projection, requests, repository
<1>3. CASE StartAll \/ StopEngine \/ EndBatch
  BY <1>1, <1>3 DEF StartAll, StopEngine, EndBatch, execVars, projection,
     requests, repository
<1>4. ASSUME NEW B \in SUBSET Tasks, NEW route \in [Tasks -> Agents],
             SelectBatch(B, route)
      PROVE  GraphInv'
  BY <1>1, <1>4 DEF SelectBatch, projection, requests, repository
<1>5. CASE Crash
  <2>1. /\ UNCHANGED <<status, deps, again, accepted>>
        /\ \A t \in Tasks : pc'[t] = "idle"
        /\ \A o \in Operators : command'[o].kind = "none"
    BY <1>5 DEF Crash, NoCommand, projection, requests, repository
  <2> QED
    BY <2>1 DEF GraphInv, Grounded, RetryGrounded, Landed, Done
<1>6. CASE UNCHANGED vars
  BY <1>1, <1>6 DEF vars, execVars, projection, requests, repository
<1> QED
  BY <1>2, <1>3, <1>4, <1>5, <1>6, GraphRun, GraphCommand DEF Next, EngineStep

\* The log has the work of the dependencies of a task before its own.
LandedInOrder ==
  \A j \in DOMAIN accepted : accepted[j].task \notin again =>
    \A d \in deps[accepted[j].task] :
      \E i \in 1 .. (j - 1) : accepted[i].task = d

LEMMA AcceptedStable ==
  ASSUME [Next]_vars, ~ \E t \in Tasks : Run(t) /\ GateAccept(t)
  PROVE  UNCHANGED accepted
<1>1. ASSUME NEW t \in Tasks, Run(t) PROVE UNCHANGED accepted
  BY <1>1 DEF Run, RunStep, RunRefused, RunAdmitted, LeasesRefused,
     LeasesAcquired, Dispatch, Prepare, PrepareFails, AgentReturns, MarkFailed,
     Submit, NothingToSubmit, GateVerify, GateRejects, GateMerge, MergeFails,
     AcceptFails, Recover, Unwind, repository
<1> QED
  BY <1>1 DEF Next, EngineStep, ServeOperator, StartOne, StartAll, StopEngine,
     EndBatch, SelectBatch, ReadTask, AppendCreated, AppendRetry,
     AppendAbandoned, Crash, vars, execVars, repository

\* Only a create changes what was asked for.
LEMMA RequestsStable ==
  ASSUME [Next]_vars, ~ \E o \in Operators : AppendCreated(o)
  PROVE  UNCHANGED <<deps, files, again>>
BY DEF Next, Run, EngineStep, ServeOperator, StartOne, StartAll, StopEngine,
   EndBatch, SelectBatch, ReadTask, AppendRetry, AppendAbandoned, Crash, vars,
   execVars, requests

LEMMA OrderNext ==
  TypeOK /\ Exists /\ GraphInv /\ LandedInOrder /\ [Next]_vars => LandedInOrder'
<1> SUFFICES ASSUME TypeOK, Exists, GraphInv, LandedInOrder, [Next]_vars
             PROVE  LandedInOrder'
  OBVIOUS
<1>1. ASSUME UNCHANGED accepted, ~ \E o \in Operators : AppendCreated(o)
      PROVE  LandedInOrder'
  BY <1>1, RequestsStable DEF LandedInOrder
<1>2. ASSUME NEW o \in Operators, AppendCreated(o) PROVE LandedInOrder'
  <2>1. UNCHANGED accepted
    BY <1>2 DEF AppendCreated, repository
  <2>2. ASSUME NEW j \in DOMAIN accepted, accepted[j].task \notin again'
        PROVE  accepted[j].task \notin again /\ deps'[accepted[j].task] = deps[accepted[j].task]
    <3>1. accepted[j].task \in Known
      BY <2>2 DEF Exists, Landed
    <3> QED
      BY <1>2, <2>2, <3>1, CreateAgain DEF Known
  <2> QED
    BY <2>1, <2>2 DEF LandedInOrder
<1>3. ASSUME NEW t \in Tasks, Run(t), GateAccept(t) PROVE LandedInOrder'
  <2> DEFINE a == [task |-> t, commit |-> Len(branch)]
             n == Len(accepted) + 1
  <2>1. accepted \in Seq([task : Tasks, commit : Nat])
    BY DEF TypeOK
  <2>2. a \in [task : Tasks, commit : Nat] /\ a.task = t
    BY LenProperties DEF TypeOK
  <2>3. accepted' = Append(accepted, a) /\ UNCHANGED <<deps, again>>
    BY <1>3 DEF GateAccept, Run, requests
  <2>4. t \notin again => deps[t] \subseteq Landed
    BY <1>3, AcceptLands DEF GraphInv, Grounded
  <2> HIDE DEF a
  <2>5. /\ Len(accepted) \in Nat
        /\ DOMAIN accepted = 1 .. Len(accepted)
        /\ DOMAIN accepted' = 1 .. n
        /\ \A i \in 1 .. Len(accepted) : accepted'[i] = accepted[i]
        /\ accepted'[n] = a
    BY <2>1, <2>2, <2>3, AppendProperties, LenProperties
  <2>6. ASSUME NEW j \in 1 .. n, accepted'[j].task \notin again,
               NEW d \in deps[accepted'[j].task]
        PROVE  \E i \in 1 .. (j - 1) : accepted'[i].task = d
    <3>1. CASE j = n
      <4>1. PICK i \in DOMAIN accepted : accepted[i].task = d
        BY <2>2, <2>4, <2>5, <2>6, <3>1 DEF Landed
      <4> QED
        BY <2>5, <3>1, <4>1
    <3>2. CASE j # n
      <4>1. j \in DOMAIN accepted /\ accepted'[j] = accepted[j]
        BY <2>5, <3>2
      <4>2. PICK i \in 1 .. (j - 1) : accepted[i].task = d
        BY <2>6, <4>1 DEF LandedInOrder
      <4>3. accepted'[i] = accepted[i]
        BY <2>5, <4>1
      <4> QED
        BY <4>2, <4>3
    <3> QED
      BY <3>1, <3>2
  <2> QED
    BY <2>3, <2>5, <2>6 DEF LandedInOrder
<1> QED
  BY <1>1, <1>2, <1>3, AcceptedStable

(***************************************************************************)
(* The theorems.                                                           *)
(***************************************************************************)

MissionInv ==
  /\ TypeOK
  /\ LoopInv
  /\ Exists
  /\ EngineInv
  /\ BranchInv
  /\ GraphInv
  /\ LandedInOrder

LEMMA InitMission == Init => MissionInv
<1> SUFFICES ASSUME Init PROVE MissionInv
  OBVIOUS
<1>1. \A t \in Tasks : pc[t] = "idle"
  BY DEF Init
<1>2. EngineInv
  BY <1>1 DEF Init, EngineInv, RunsHoldTheirLeases, NoOrphanedLease, Running
<1>3. BranchInv
  BY <1>1 DEF Init, BranchInv, AcceptedIsIntegrated, IntegratedIsVerified,
     NoUnrecordedCommit
<1>4. LoopInv
  BY <1>1 DEF LoopInv
<1>5. LandedInOrder
  BY DEF Init, LandedInOrder
<1>6. Exists
  <2>1. Landed = {} /\ \A o \in Operators : command[o].kind = "none"
    BY DEF Init, Landed, NoCommand
  <2> QED
    BY <1>1, <2>1 DEF Exists
<1> QED
  BY <1>2, <1>3, <1>4, <1>5, <1>6, InitTypes, InitGraph DEF MissionInv

THEOREM MissionInvariance == Spec => []MissionInv
<1>1. MissionInv /\ [Next]_vars => MissionInv'
  BY NextTypes, LoopNext, ExistsNext, EngineNext, BranchNext, GraphNext,
     OrderNext
  DEF MissionInv
<1> QED
  BY <1>1, InitMission, PTL DEF Spec

\* Git and the log agree on what is accepted, in the order of the branch.
THEOREM AcceptedWork == Spec => []AcceptedIsIntegrated
<1>1. MissionInv => AcceptedIsIntegrated
  BY DEF MissionInv, BranchInv
<1> QED
  BY <1>1, MissionInvariance, PTL

\* No commit is on the branch that was not verified on its very parent.
THEOREM VerifiedWork == Spec => []IntegratedIsVerified
<1>1. MissionInv => IntegratedIsVerified
  BY DEF MissionInv, BranchInv
<1> QED
  BY <1>1, MissionInvariance, PTL

\* Without crashes and faults of git, no commit is missing from the log.
THEOREM RecordedWork == Spec => []NoUnrecordedCommit
<1>1. MissionInv => NoUnrecordedCommit
  BY DEF MissionInv, BranchInv
<1> QED
  BY <1>1, MissionInvariance, PTL

\* Work starts and lands only on top of the accepted work it depends on, but
\* for tasks whose id was given twice.
THEOREM OrderedWork == Spec => []DependenciesAccepted
<1>1. MissionInv => DependenciesAccepted
  BY DEF MissionInv, GraphInv, Grounded, LandedInOrder, DependenciesAccepted,
     Running
<1> QED
  BY <1>1, MissionInvariance, PTL

\* Until an id is given twice, a run under way has the leases of all its
\* surfaces, restarts included; and only a crash leaves a lease without a run.
THEOREM LeasedWork == Spec => [](RunsHoldTheirLeases /\ NoOrphanedLease)
<1>1. MissionInv => RunsHoldTheirLeases /\ NoOrphanedLease
  BY DEF MissionInv, EngineInv
<1> QED
  BY <1>1, MissionInvariance, PTL

\* How any step changes the completed and the existing tasks: gate.accepted
\* completes one, and only the second half of an operator's command takes one
\* away; a create is what adds to the existing ones.
LEMMA DoneSteps ==
  ASSUME MissionInv, [Next]_vars
  PROVE  \/ \E t \in Tasks : Run(t) /\ GateAccept(t)
         \/ \E o \in Operators : AppendCreated(o)
         \/ /\ UNCHANGED <<accepted, deps, again>>
            /\ Known' = Known
            /\ \/ Done' = Done
               \/ \E o \in Operators :
                    /\ command[o].task \in Tasks
                    /\ Done' = Done \ {command[o].task}
                    /\ command'[o] = NoCommand
<1> USE DEF MissionInv
<1>1. SUFFICES ASSUME ~ \E t \in Tasks : Run(t) /\ GateAccept(t),
                      ~ \E o \in Operators : AppendCreated(o)
               PROVE  /\ Known' = Known
                      /\ \/ Done' = Done
                         \/ \E o \in Operators :
                              /\ command[o].task \in Tasks
                              /\ Done' = Done \ {command[o].task}
                              /\ command'[o] = NoCommand
  BY AcceptedStable, RequestsStable
<1>2. CASE UNCHANGED status
  BY <1>2 DEF Done, Known
<1>3. ASSUME NEW t \in Tasks, Run(t) PROVE Done' = Done /\ Known' = Known
  <2>1. ASSUME NEW st \in {"ready", "dispatched", "submitted", "failed"},
               Emit(t, st), pc[t] \notin {"idle", "queued", "admitted", "unwind"}
        PROVE  Done' = Done
    BY <2>1, EmitSets, StatusNames DEF GraphInv
  <2> QED
    BY <1>1, <1>3, <2>1, RunEvents, ExistsRun DEF Done
<1>4. ASSUME NEW o \in Operators, AppendRetry(o) \/ AppendAbandoned(o)
      PROVE  /\ command[o].task \in Tasks
             /\ Known' = Known
             /\ Done' = Done \ {command[o].task}
             /\ command'[o] = NoCommand
  <2>1. /\ command[o].task \in Tasks
        /\ command[o].kind \in {"retry", "cancel"}
    BY <1>4, CommandEnds DEF AppendRetry, AppendAbandoned
  <2>2. command'[o] = NoCommand
    BY <1>4 DEF AppendRetry, AppendAbandoned, TypeOK
  <2>3. PICK st \in {"ready", "abandoned"} : Emit(command[o].task, st)
    BY <1>4 DEF AppendRetry, AppendAbandoned
  <2>4. command[o].task \in Known
    BY <2>1 DEF Exists
  <2> QED
    BY <2>1, <2>2, <2>3, <2>4, EmitSets, StatusNames
<1> QED
  BY <1>1, <1>2, <1>3, <1>4 DEF Next, EngineStep, ServeOperator, StartOne,
     StartAll, StopEngine, EndBatch, SelectBatch, ReadTask, Crash, vars,
     execVars, projection

\* task.created starts its task from nothing.
LEMMA CreatedSteps ==
  ASSUME MissionInv, NEW o \in Operators, AppendCreated(o)
  PROVE  /\ command[o].task \in Tasks
         /\ Done' = Done \ {command[o].task}
         /\ command'[o] = NoCommand
         /\ L!Create(command[o].task, command[o].asks.deps)
<1> DEFINE t == command[o].task
<1>1. t \in Tasks /\ command[o].asks.deps \subseteq Known
  BY CommandNames DEF MissionInv, AppendCreated, Exists
<1>2. Done' = Done \ {t} /\ Known' = Known \cup {t}
  BY <1>1, BecomesSets, StatusNames DEF MissionInv, AppendCreated
<1>3. Landed' = Landed
  BY DEF AppendCreated, repository, Landed
<1>4. again' = IF t \in Known THEN again \cup {t} ELSE again
  BY <1>1 DEF AppendCreated, Known
<1>5. deps' = [deps EXCEPT ![t] = command[o].asks.deps]
  BY DEF AppendCreated
<1>6. command'[o] = NoCommand
  BY DEF MissionInv, TypeOK, AppendCreated
<1> HIDE DEF t
<1> QED
  BY <1>1, <1>2, <1>3, <1>4, <1>5, <1>6 DEF L!Create, Known, Done, t

\* Only a stale command takes the completion of a task back.
THEOREM CompletionUndone == Spec => OnlyCommandsUndoCompletion
<1> DEFINE Undone ==
      \A t \in Tasks : status[t] = "completed" /\ status'[t] # "completed" =>
        \E o \in Operators : command[o].task = t /\ command'[o] = NoCommand
<1>1. MissionInv /\ [Next]_vars => [Undone]_vars
  <2> SUFFICES ASSUME MissionInv, [Next]_vars PROVE Undone
    OBVIOUS
  <2>1. \A t \in Tasks : Run(t) /\ GateAccept(t) => Done \subseteq Done'
    BY AcceptLands DEF MissionInv
  <2> QED
    BY <2>1, DoneSteps, CreatedSteps DEF Done
<1>2. OnlyCommandsUndoCompletion <=> [][Undone]_vars
  BY DEF OnlyCommandsUndoCompletion
<1> QED
  BY <1>1, <1>2, MissionInvariance, PTL DEF Spec

\* Mission Control implements the ledger.
THEOREM LedgerKept == Spec => KeepsLedger
<1>1. Init => L!Init
  <2> SUFFICES ASSUME Init PROVE L!Init
    OBVIOUS
  <2>1. Landed = {} /\ again = {}
    BY DEF Init, Landed
  <2>2. Done \subseteq Landed
    BY InitMission DEF MissionInv, GraphInv
  <2>3. \A t \in Initial : status[t] # "absent"
    BY InitialType DEF Init, Promote
  <2>4. deps \in [Tasks -> SUBSET Known]
    BY <2>3, InitialType DEF Init, Known
  <2> QED
    BY <2>1, <2>2, <2>4 DEF L!Init, Done, Known
<1>2. MissionInv /\ [Next]_vars => [L!Next]_L!vars
  <2> SUFFICES ASSUME MissionInv, [Next]_vars PROVE [L!Next]_L!vars
    OBVIOUS
  <2> USE DEF L!Next, L!vars
  <2>1. ASSUME NEW t \in Tasks, Run(t), GateAccept(t) PROVE L!Land(t)
    <3>1. /\ Landed' = Landed \cup {t} /\ Done' = Done \cup {t} /\ Known' = Known
          /\ t \in Known
          /\ t \in again \/ deps[t] \subseteq Landed
      BY <2>1, AcceptLands, ExistsRun
      DEF MissionInv, Exists, GraphInv, Grounded
    <3>2. UNCHANGED <<deps, again>>
      BY <2>1 DEF Run, requests
    <3> QED
      BY <3>1, <3>2 DEF L!Land, Known, Done
  <2>2. ASSUME NEW o \in Operators, AppendCreated(o) PROVE L!Next
    <3>1. command[o].asks.deps \in SUBSET Tasks
      BY <2>2, CommandNames DEF AppendCreated, MissionInv
    <3>2. PICK t \in Tasks, D \in SUBSET Tasks :
            t = command[o].task /\ D = command[o].asks.deps
      BY <2>2, <3>1, CreatedSteps
    <3>3. L!Create(t, D)
      BY <2>2, <3>2, CreatedSteps DEF L!Create
    <3> QED
      BY <3>3
  <2>3. CASE /\ UNCHANGED <<accepted, deps, again>>
             /\ Known' = Known /\ Done' = Done
    BY <2>3 DEF Landed, Done, Known
  <2>4. ASSUME NEW t \in Tasks, UNCHANGED <<accepted, deps, again>>,
               Known' = Known, Done' = Done \ {t}
        PROVE  [L!Next]_L!vars
    <3>1. CASE t \in Done
      BY <2>4, <3>1 DEF L!Undo, Landed, Done, Known
    <3>2. CASE t \notin Done
      BY <2>4, <3>2 DEF Landed, Done, Known
    <3> QED
      BY <3>1, <3>2
  <2> QED
    BY <2>1, <2>2, <2>3, <2>4, DoneSteps
<1> QED
  BY <1>1, <1>2, MissionInvariance, PTL DEF Spec, KeepsLedger, L!Spec

(***************************************************************************)
(* Retries.  Without operators only recovery makes a task READY again, and *)
(* it looks at what the run read before its dispatch: one less than what   *)
(* the log has by then.                                                    *)
(***************************************************************************)

Retriable(t) == status[t] \in {"created", "ready"}

AttemptInv ==
  /\ \A t \in Tasks : attempts[t] <= RetryLimit + 2
  /\ \A t \in Tasks : Retriable(t) => attempts[t] <= RetryLimit + 1
  /\ \A t \in Tasks : pc[t] = "admitted" => attempts[t] <= RetryLimit + 1
  /\ \A t \in Tasks : pc[t] = "dispatch" =>
       snap[t] = attempts[t] /\ attempts[t] <= RetryLimit + 1
  /\ \A t \in Tasks : pc[t] \notin {"idle", "queued", "admitted", "dispatch"} =>
       attempts[t] = snap[t] + 1

\* An event makes no task retriable but its own, which it must say.
LEMMA EmitElsewhere ==
  ASSUME TypeOK, NEW t \in Tasks, NEW st \in Statuses, Emit(t, st)
  PROVE  \A u \in Tasks : u # t /\ Retriable(u)' => Retriable(u)
BY DEF TypeOK, Emit, Becomes, Promote, Retriable

LEMMA EmitOther ==
  ASSUME TypeOK, NEW t \in Tasks, NEW st \in Statuses, Emit(t, st),
         st \notin {"created", "ready"}
  PROVE  \A u \in Tasks : Retriable(u)' => Retriable(u) /\ u # t
<1>1. ~Retriable(t)'
  BY DEF TypeOK, Emit, Becomes, Promote, Retriable
<1> QED
  BY <1>1, EmitElsewhere

LEMMA AttemptRun ==
  ASSUME TypeOK, AttemptInv, NEW t \in Tasks, Run(t)
  PROVE  AttemptInv'
<1> USE RetryLimitType DEF Run, TypeOK
<1>1. CASE RunRefused(t) \/ LeasesRefused(t) \/ Unwind(t)
  BY <1>1 DEF AttemptInv, Retriable, RunRefused, LeasesRefused, Unwind, Ends, Enter, projection
<1>2. CASE RunAdmitted(t) \/ LeasesAcquired(t)
  <2>1. CASE RunAdmitted(t)
    BY <2>1 DEF AttemptInv, Retriable, RunAdmitted, Enter, projection, locals
  <2>2. CASE LeasesAcquired(t)
    BY <2>2 DEF AttemptInv, Retriable, LeasesAcquired, Runs, Enter, projection
  <2> QED
    BY <1>2, <2>1, <2>2
<1>3. CASE Dispatch(t)
  <2>1. /\ pc[t] = "dispatch" /\ pc' = [pc EXCEPT ![t] = "prepare"]
        /\ attempts' = [attempts EXCEPT ![t] = @ + 1]
        /\ UNCHANGED snap
    BY <1>3 DEF Dispatch, Runs, Enter, locals
  <2>2. \A u \in Tasks : Retriable(u)' => Retriable(u) /\ u # t
    BY <1>3, EmitOther, StatusNames DEF Dispatch
  <2>3. /\ attempts'[t] = attempts[t] + 1
        /\ \A u \in Tasks : u # t => attempts'[u] = attempts[u]
    BY <2>1
  <2>4. snap[t] = attempts[t] /\ attempts[t] <= RetryLimit + 1
    BY <2>1 DEF AttemptInv
  <2>5. \A u \in Tasks : attempts'[u] <= RetryLimit + 2
    <3>1. attempts'[t] <= RetryLimit + 2
      BY <2>3, <2>4
    <3>2. \A u \in Tasks : u # t => attempts'[u] <= RetryLimit + 2
      BY <2>3 DEF AttemptInv
    <3> QED
      BY <3>1, <3>2
  <2>6. \A u \in Tasks : Retriable(u)' => attempts'[u] <= RetryLimit + 1
    BY <2>2, <2>3 DEF AttemptInv
  <2>7. \A u \in Tasks : /\ pc'[u] = "dispatch" => pc[u] = "dispatch" /\ u # t
                         /\ u # t => pc'[u] = pc[u]
    BY <2>1
  <2>8. \A u \in Tasks : pc'[u] \notin {"idle", "queued", "admitted", "dispatch"} =>
          attempts'[u] = snap'[u] + 1
    BY <2>1, <2>3, <2>4, <2>7 DEF AttemptInv
  <2>9. \A u \in Tasks : pc'[u] = "dispatch" => snap'[u] = attempts'[u] /\ attempts'[u] <= RetryLimit + 1
    BY <2>1, <2>3, <2>7 DEF AttemptInv
  <2>10. \A u \in Tasks : pc'[u] = "admitted" => attempts'[u] <= RetryLimit + 1
    BY <2>1, <2>3, <2>7 DEF AttemptInv
  <2> QED
    BY <2>5, <2>6, <2>8, <2>9, <2>10 DEF AttemptInv
<1>4. CASE Prepare(t) \/ AgentReturns(t)
  BY <1>4 DEF AttemptInv, Retriable, Prepare, AgentReturns, Enter, projection, locals
<1>5. CASE PrepareFails(t) \/ NothingToSubmit(t) \/ GateRejects(t)
             \/ MergeFails(t) \/ AcceptFails(t)
  BY <1>5 DEF AttemptInv, Retriable, PrepareFails, NothingToSubmit, GateRejects, MergeFails,
     AcceptFails, Runs, Enter, projection, locals
<1>6. CASE GateVerify(t) \/ GateMerge(t)
  BY <1>6 DEF AttemptInv, Retriable, GateVerify, GateMerge, Runs, Enter, projection, locals
<1>7. CASE MarkFailed(t) \/ Submit(t) \/ GateAccept(t)
  <2>1. \A u \in Tasks : Retriable(u)' => Retriable(u)
    BY <1>7, EmitOther, StatusNames DEF MarkFailed, Submit, GateAccept
  <2>2. /\ pc[t] \notin {"idle", "queued", "admitted", "dispatch"}
        /\ pc' = [pc EXCEPT ![t] = IF pc[t] = "submit" THEN "verify" ELSE "unwind"]
        /\ UNCHANGED <<attempts, snap>>
    BY <1>7 DEF MarkFailed, Submit, GateAccept, Runs, Enter, locals
  <2> QED
    BY <2>1, <2>2 DEF AttemptInv
<1>8. CASE Recover(t)
  <2>1. /\ pc[t] = "recover" /\ pc' = [pc EXCEPT ![t] = "unwind"]
        /\ UNCHANGED <<attempts, snap>>
    BY <1>8 DEF Recover, Runs, Enter, locals
  <2>2. attempts[t] = snap[t] + 1
    BY <2>1 DEF AttemptInv
  <2>3. \A u \in Tasks : u # t /\ Retriable(u)' => Retriable(u)
    BY <1>8, EmitElsewhere, StatusNames DEF Recover, Retriable
  <2>4. Retriable(t)' => attempts[t] <= RetryLimit + 1
    <3>1. CASE snap[t] <= RetryLimit
      BY <2>2, <3>1
    <3>2. CASE ~(snap[t] <= RetryLimit)
      BY <1>8, <3>2 DEF Recover, AttemptInv, Retriable
    <3> QED
      BY <3>1, <3>2
  <2>5. \A u \in Tasks : Retriable(u)' => attempts[u] <= RetryLimit + 1
    BY <2>3, <2>4 DEF AttemptInv
  <2> QED
    BY <2>1, <2>5 DEF AttemptInv
<1> QED
  BY <1>1, <1>2, <1>3, <1>4, <1>5, <1>6, <1>7, <1>8 DEF RunStep

LEMMA AttemptNext ==
  Operators = {} /\ TypeOK /\ AttemptInv /\ [Next]_vars => AttemptInv'
<1> SUFFICES ASSUME Operators = {}, TypeOK, AttemptInv, [Next]_vars PROVE AttemptInv'
  OBVIOUS
<1>1. ASSUME NEW t \in Tasks, NEW a \in Agents, StartOne(t, a) PROVE AttemptInv'
  BY <1>1 DEF AttemptInv, Retriable, StartOne, Enter, TypeOK, projection
<1>2. CASE StartAll \/ EngineStep
  <2>1. CASE StartAll \/ StopEngine \/ EndBatch
    BY <2>1 DEF AttemptInv, Retriable, StartAll, StopEngine, EndBatch,
       execVars, projection, locals
  <2>2. ASSUME NEW B \in SUBSET Tasks, NEW route \in [Tasks -> Agents],
               SelectBatch(B, route)
        PROVE  AttemptInv'
    BY <2>2 DEF AttemptInv, Retriable, SelectBatch, TypeOK, projection
  <2> QED
    BY <1>2, <2>1, <2>2 DEF EngineStep
<1>3. CASE Crash
  BY <1>3 DEF AttemptInv, Retriable, Crash, projection
<1>4. CASE UNCHANGED vars
  BY <1>4 DEF AttemptInv, Retriable, vars, execVars, projection, locals
<1> QED
  BY <1>1, <1>2, <1>3, <1>4, AttemptRun DEF Next

\* Recovery gives up: whatever agents, gate and restarts do, a task that no
\* operator touches is dispatched at most RetryLimit + 2 times.
THEOREM AttemptsEnd == Spec => []AttemptsBounded
<1>1. Init => (Operators = {} => AttemptInv)
  BY RetryLimitType DEF Init, AttemptInv
<1>2. /\ TypeOK /\ (Operators = {} => AttemptInv) /\ [Next]_vars
      => (Operators = {} => AttemptInv)'
  BY AttemptNext
<1>3. (Operators = {} => AttemptInv) => AttemptsBounded
  <2>1. AttemptInv => \A t \in Tasks : attempts[t] <= RetryLimit + 2
    BY Zenon DEF AttemptInv
  <2> QED
    BY <2>1, Zenon DEF AttemptsBounded
<1> QED
  BY <1>1, <1>2, <1>3, MissionTypes, PTL DEF Spec

=============================================================================
