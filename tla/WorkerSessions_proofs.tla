------------------------ MODULE WorkerSessions_proofs ------------------------
(***************************************************************************)
(* What holds of the Workspace for every number of tasks, sessions,        *)
(* threads and restarts, under every interleaving of the handlers.         *)
(***************************************************************************)
EXTENDS WorkerSessions, SequenceTheorems, FiniteSetTheorems, TLAPS

(***************************************************************************)
(* Types                                                                   *)
(***************************************************************************)

\* A create works on a task and for a session of its own, a resume on a
\* session.
CallsWellFormed ==
  \A w \in Threads :
    /\ thread[w].op = "create" => thread[w].t \in Tasks /\ thread[w].s \in Sessions
    /\ thread[w].op = "resume" => thread[w].s \in Sessions

\* The loop serves a session; it has committed before it concludes.
HandlerWellFormed ==
  /\ loop.op = "none" <=> loop = NoHandler
  /\ loop.op # "none" => loop.s \in Sessions

\* The record type of TypeOK.
SessionRecords ==
  [task : Tasks \cup {None}, status : Active \cup Closed \cup {"none"}]

SessionTypes == TypeOK /\ CallsWellFormed /\ HandlerWellFormed

LEMMA InitSessionTypes == Init => SessionTypes
<1> SUFFICES ASSUME Init PROVE SessionTypes
  OBVIOUS
<1>1. mixed \in SUBSET Tasks
  BY DEF Init
<1>2. /\ task \in [Tasks -> TaskStatuses]
      /\ sess \in [Sessions -> SessionRecords]
      /\ opened \in Seq(Sessions)
  BY DEF Init, TaskStatuses, SessionRecords, Absent
<1>3. /\ draft \in [Tasks -> Sessions \cup {Fleet, None}]
      /\ turns \in [Sessions -> SUBSET (Locking \cup {"supervise"})]
      /\ locked \in [Sessions -> BOOLEAN]
      /\ stopping \in [Sessions -> {"no", "waits", "woken"}]
  BY DEF Init
<1>4. /\ thread = [w \in Threads |-> NoCall]
      /\ loop = NoHandler /\ integration = FALSE /\ fleet = {}
  BY DEF Init
<1> QED
  BY <1>1, <1>2, <1>3, <1>4 DEF SessionTypes, TypeOK, SessionRecords,
     CallsWellFormed, HandlerWellFormed, NoHandler, NoCall

\* The history variable grows by the tasks on which calls now overlap.
LEMMA NextRemembers == Next => Remembers
<1>1. ASSUME NEW w \in Threads, ThreadStep(w) PROVE Remembers
  BY <1>1 DEF ThreadStep, CreateChecks, ResumeChecks, CreateDispatches,
     CreateWorktree, CreateRecords, CreateRaises, CreateGivesBack, ResumeRecords
<1>2. ASSUME NEW s \in Sessions, TurnStep(s) PROVE Remembers
  BY <1>2 DEF TurnStep, LiveStart, LiveBegins, LiveRefused, LiveEnds,
     RequestStarts, RequestEnds, SuperviseStarts, SuperviseEnds
<1>3. ASSUME NEW s \in Sessions, StopStep(s) \/ SubmitStarts(s) PROVE Remembers
  BY <1>3 DEF StopStep, StopCancels, StopTimesOut, StopDirectly, StopResumes,
     SubmitStarts
<1>4. CASE HandlerStep
  BY <1>4 DEF HandlerStep, SubmitRaises, SubmitCommits, SubmitRecords,
     SubmitGated, SubmitConcludes, StopGivesBack, Removes
<1>5. CASE FleetStep \/ Crash
  BY <1>5 DEF FleetStep, FleetStarts, FleetEnds, FleetTakes, FleetLeaves, Crash
<1> QED
  BY <1>1, <1>2, <1>3, <1>4, <1>5 DEF Next

LEMMA MarksType ==
  ASSUME TypeOK, NEW s \in Sessions, NEW st \in Active \cup Closed, Marks(s, st)
  PROVE  sess' \in [Sessions -> SessionRecords]
<1>1. [sess[s] EXCEPT !.status = st] \in SessionRecords
  BY DEF TypeOK, SessionRecords
<1> QED
  BY <1>1 DEF TypeOK, SessionRecords, Marks

LEMMA ThreadTypes ==
  ASSUME SessionTypes, NEW w \in Threads, ThreadStep(w)
  PROVE  SessionTypes'
<1>0. mixed' \in SUBSET Tasks
  BY NextRemembers DEF Next, Remembers, SessionTypes, TypeOK
<1> USE <1>0
<1> USE DEF SessionTypes, TypeOK, CallsWellFormed, HandlerWellFormed, process, log
<1>1. ASSUME NEW t \in Tasks, CreateChecks(w, t) PROVE SessionTypes'
  BY <1>1 DEF CreateChecks
<1>2. ASSUME NEW s \in Sessions, ResumeChecks(w, s) PROVE SessionTypes'
  BY <1>2 DEF ResumeChecks
<1>3. CASE CreateDispatches(w)
  BY <1>3 DEF CreateDispatches, Creating, Goes, TaskStatuses
<1>4. CASE CreateWorktree(w)
  BY <1>4 DEF CreateWorktree, Creating, Goes
<1>5. CASE CreateRecords(w)
  <2>1. thread[w].s \in Sessions /\ thread[w].t \in Tasks
    BY <1>5 DEF CreateRecords, Creating
  <2>2. opened' \in Seq(Sessions)
    BY <1>5, <2>1, AppendProperties DEF CreateRecords
  <2>3. sess' \in [Sessions -> SessionRecords]
    BY <1>5, <2>1 DEF CreateRecords, Active, SessionRecords
  <2> QED
    BY <1>5, <2>2, <2>3 DEF CreateRecords, Returns, NoCall, SessionRecords
<1>6. CASE CreateRaises(w)
  BY <1>6 DEF CreateRaises, Creating, Goes
<1>7. CASE CreateGivesBack(w)
  BY <1>7 DEF CreateGivesBack, Creating, Returns, NoCall, TaskStatuses
<1>8. CASE ResumeRecords(w)
  <2>1. sess' \in [Sessions -> SessionRecords]
    BY <1>8, MarksType DEF ResumeRecords, Active
  <2> QED
    BY <1>8, <2>1 DEF ResumeRecords, Returns, NoCall, SessionRecords
<1> QED
  BY <1>1, <1>2, <1>3, <1>4, <1>5, <1>6, <1>7, <1>8 DEF ThreadStep

LEMMA TurnTypes ==
  ASSUME SessionTypes, NEW s \in Sessions, TurnStep(s)
  PROVE  SessionTypes'
<1>0. mixed' \in SUBSET Tasks
  BY NextRemembers DEF Next, Remembers, SessionTypes, TypeOK
<1> USE <1>0
<1> USE DEF SessionTypes, TypeOK, CallsWellFormed, HandlerWellFormed, process, log,
            Locking, SessionRecords
<1>1. CASE LiveStart(s)
  BY <1>1 DEF LiveStart
<1>2. CASE LiveBegins(s) \/ RequestStarts(s) \/ SuperviseStarts(s)
  <2>1. sess' \in [Sessions -> SessionRecords]
    BY <1>2, MarksType DEF LiveBegins, RequestStarts, SuperviseStarts, Sends, Active
  <2>2. turns' \in [Sessions -> SUBSET (Locking \cup {"supervise"})]
    <3>1. PICK kind \in Locking \cup {"supervise"} : Sends(s, kind)
      BY <1>2 DEF LiveBegins, RequestStarts, SuperviseStarts
    <3> QED
      BY <3>1 DEF Sends
  <2>3. locked' \in [Sessions -> BOOLEAN]
    BY <1>2 DEF LiveBegins, RequestStarts, SuperviseStarts
  <2> QED
    BY <1>2, <2>1, <2>2, <2>3 DEF LiveBegins, RequestStarts, SuperviseStarts
<1>3. CASE LiveRefused(s)
  BY <1>3 DEF LiveRefused, Unlocks
<1>4. CASE LiveEnds(s) \/ RequestEnds(s) \/ SuperviseEnds(s)
  <2>1. sess' \in [Sessions -> SessionRecords]
    BY <1>4, MarksType DEF LiveEnds, RequestEnds, SuperviseEnds, Active
  <2>2. turns' \in [Sessions -> SUBSET (Locking \cup {"supervise"})]
    <3>1. PICK kind : turns' = [turns EXCEPT ![s] = @ \ {kind}]
      BY <1>4 DEF LiveEnds, RequestEnds, SuperviseEnds
    <3> QED
      BY <3>1
  <2>3. /\ locked' \in [Sessions -> BOOLEAN]
        /\ stopping' \in [Sessions -> {"no", "waits", "woken"}]
    <3>1. CASE LiveEnds(s)
      BY <3>1 DEF LiveEnds, Unlocks
    <3>2. CASE RequestEnds(s) \/ SuperviseEnds(s)
      BY <3>2 DEF RequestEnds, SuperviseEnds
    <3> QED
      BY <1>4, <3>1, <3>2
  <2> QED
    BY <1>4, <2>1, <2>2, <2>3 DEF LiveEnds, RequestEnds, SuperviseEnds
<1> QED
  BY <1>1, <1>2, <1>3, <1>4 DEF TurnStep

LEMMA StopTypes ==
  ASSUME SessionTypes, NEW s \in Sessions, StopStep(s) \/ SubmitStarts(s)
  PROVE  SessionTypes'
<1>0. mixed' \in SUBSET Tasks
  BY NextRemembers DEF Next, Remembers, SessionTypes, TypeOK
<1> USE <1>0
<1> USE DEF SessionTypes, TypeOK, CallsWellFormed, HandlerWellFormed, process, log,
            Locking, SessionRecords, NoHandler
<1>1. CASE StopCancels(s)
  BY <1>1 DEF StopCancels
<1>2. CASE StopTimesOut(s)
  <2>1. sess' \in [Sessions -> SessionRecords]
    BY <1>2, MarksType DEF StopTimesOut, Active
  <2> QED
    BY <1>2, <2>1 DEF StopTimesOut, Unlocks
<1>3. CASE StopDirectly(s) \/ StopResumes(s)
  <2>1. sess' \in [Sessions -> SessionRecords]
    BY <1>3, MarksType DEF StopDirectly, StopResumes, Stops, Closed
  <2> QED
    BY <1>3, <2>1 DEF StopDirectly, StopResumes, Stops
<1>4. CASE SubmitStarts(s)
  BY <1>4 DEF SubmitStarts
<1> QED
  BY <1>1, <1>2, <1>3, <1>4 DEF StopStep

LEMMA HandlerTypes ==
  ASSUME SessionTypes, HandlerStep
  PROVE  SessionTypes'
<1>0. mixed' \in SUBSET Tasks
  BY NextRemembers DEF Next, Remembers, SessionTypes, TypeOK
<1> USE <1>0
<1> USE DEF SessionTypes, TypeOK, CallsWellFormed, HandlerWellFormed, process, log,
            NoHandler
<1>1. CASE SubmitRaises
  BY <1>1 DEF SubmitRaises
<1>2. CASE SubmitCommits
  BY <1>2 DEF SubmitCommits, Submitting, Proceeds, TaskStatuses
<1>3. CASE SubmitRecords \/ SubmitConcludes
  <2>1. sess' \in [Sessions -> SessionRecords]
    BY <1>3, MarksType DEF SubmitRecords, SubmitConcludes, Submitting, Closed
  <2>2. PICK at \in {"gate", "remove"} : Proceeds(at)
    BY <1>3 DEF SubmitRecords, SubmitConcludes
  <2>3. loop.op = "submit"
    BY <1>3 DEF SubmitRecords, SubmitConcludes, Submitting
  <2>4. UNCHANGED <<task, opened, draft, process, integration, fleet, thread>>
    BY <1>3 DEF SubmitRecords, SubmitConcludes
  <2> QED
    BY <2>1, <2>2, <2>3, <2>4 DEF Proceeds, SessionRecords
<1>4. CASE SubmitGated
  <2>1. task' \in [Tasks -> TaskStatuses]
    BY <1>4 DEF SubmitGated, TaskStatuses
  <2>2. PICK verdict \in {"accepted", "rejected"} : Proceeds(verdict)
    BY <1>4 DEF SubmitGated
  <2> QED
    BY <1>4, <2>1, <2>2 DEF SubmitGated, Submitting, Proceeds
<1>5. CASE StopGivesBack
  BY <1>5 DEF StopGivesBack, TaskStatuses
<1>6. CASE Removes
  BY <1>6 DEF Removes
<1> QED
  BY <1>1, <1>2, <1>3, <1>4, <1>5, <1>6 DEF HandlerStep

LEMMA FleetTypes ==
  ASSUME SessionTypes, FleetStep \/ Crash
  PROVE  SessionTypes'
<1>0. mixed' \in SUBSET Tasks
  BY NextRemembers DEF Next, Remembers, SessionTypes, TypeOK
<1> USE <1>0
<1> USE DEF SessionTypes, TypeOK, CallsWellFormed, HandlerWellFormed, process, log
<1>1. CASE FleetStarts \/ FleetEnds
  BY <1>1 DEF FleetStarts, FleetEnds
<1>2. ASSUME NEW t \in Tasks, FleetTakes(t) PROVE SessionTypes'
  BY <1>2 DEF FleetTakes, TaskStatuses
<1>3. ASSUME NEW t \in Tasks, FleetLeaves(t) PROVE SessionTypes'
  BY <1>3 DEF FleetLeaves
<1>4. CASE Crash
  <2>2. /\ turns' \in [Sessions -> SUBSET (Locking \cup {"supervise"})]
        /\ locked' \in [Sessions -> BOOLEAN]
        /\ stopping' \in [Sessions -> {"no", "waits", "woken"}]
    BY <1>4 DEF Crash
  <2>3. /\ thread' = [w \in Threads |-> NoCall]
        /\ loop' = NoHandler /\ integration' = FALSE /\ fleet' = {}
        /\ UNCHANGED <<task, sess, opened, draft>>
    BY <1>4 DEF Crash
  <2> QED
    BY <2>2, <2>3 DEF NoHandler, NoCall
<1> QED
  BY <1>1, <1>2, <1>3, <1>4 DEF FleetStep

LEMMA NextSessionTypes == SessionTypes /\ [Next]_vars => SessionTypes'
<1>1. SessionTypes /\ UNCHANGED vars => SessionTypes'
  BY DEF SessionTypes, TypeOK, CallsWellFormed, HandlerWellFormed, vars, process, log
<1> QED
  BY <1>1, ThreadTypes, TurnTypes, StopTypes, HandlerTypes, FleetTypes DEF Next

\* The variables of the Workspace keep their types.
THEOREM WorkspaceTypes == Spec => []TypeOK
<1>1. SessionTypes => TypeOK
  BY DEF SessionTypes
<1> QED
  BY <1>1, InitSessionTypes, NextSessionTypes, PTL DEF Spec

(***************************************************************************)
(* The session locks                                                       *)
(***************************************************************************)

\* At most one turn of a session has taken its lock.
LockTaken ==
  \A s \in Sessions : \A j, k \in turns[s] \cap Locking : j = k

LockInv == LockedForTurn /\ LockTaken

\* The locks and the turns of one session change together.
LEMMA LockChange ==
  ASSUME TypeOK, LockInv, NEW s \in Sessions, NEW T, NEW b \in BOOLEAN,
         turns' = [turns EXCEPT ![s] = T],
         locked' = [locked EXCEPT ![s] = b],
         b <=> T \cap Locking # {},
         \A j, k \in T \cap Locking : j = k
  PROVE  LockInv'
BY DEF TypeOK, LockInv, LockedForTurn, LockTaken

\* Steps that touch neither a lock nor a turn that takes one.
LEMMA LockQuiet ==
  ASSUME LockInv, UNCHANGED locked,
         \A x \in Sessions : turns'[x] \cap Locking = turns[x] \cap Locking
  PROVE  LockInv'
BY DEF LockInv, LockedForTurn, LockTaken

LEMMA LockTurn ==
  ASSUME TypeOK, LockInv, NEW s \in Sessions, TurnStep(s) \/ StopTimesOut(s)
  PROVE  LockInv'
<1>1. locked[s] <=> turns[s] \cap Locking # {}
  BY DEF LockInv, LockedForTurn
<1>2. \A j, k \in turns[s] \cap Locking : j = k
  BY DEF LockInv, LockTaken
<1>3. locked[s] \in BOOLEAN /\ locked = [locked EXCEPT ![s] = locked[s]]
  BY DEF TypeOK
<1> USE <1>1, <1>2
<1>4. CASE LiveStart(s)
  <2> DEFINE T == turns[s] \cup {"scheduled"}
  <2>1. TRUE <=> T \cap Locking # {}
    BY DEF Locking
  <2>2. \A j, k \in T \cap Locking : j = k
    BY <1>4 DEF LiveStart
  <2> QED
    BY <1>4, <2>1, <2>2, LockChange DEF LiveStart
<1>5. CASE LiveBegins(s)
  <2> DEFINE T == {"live"} \cup (turns[s] \ {"scheduled"})
  <2>1. turns' = [turns EXCEPT ![s] = T] /\ "scheduled" \in turns[s]
    BY <1>5 DEF LiveBegins, Sends
  <2>2. locked[s] <=> T \cap Locking # {}
    BY <2>1 DEF Locking
  <2>3. \A j, k \in T \cap Locking : j = k
    BY <2>1 DEF Locking
  <2>4. locked' = [locked EXCEPT ![s] = locked[s]]
    BY <1>3, <1>5 DEF LiveBegins
  <2> QED
    BY <1>3, <2>1, <2>2, <2>3, <2>4, LockChange
<1>6. CASE LiveRefused(s) \/ LiveEnds(s) \/ StopTimesOut(s) \/ RequestEnds(s)
  <2>1. PICK kind \in Locking : /\ kind \in turns[s]
                              /\ turns' = [turns EXCEPT ![s] = @ \ {kind}]
    BY <1>6 DEF LiveRefused, LiveEnds, StopTimesOut, RequestEnds, Locking
  <2>2. locked' = [locked EXCEPT ![s] = FALSE]
    BY <1>6 DEF LiveRefused, LiveEnds, StopTimesOut, RequestEnds, Unlocks
  <2> DEFINE T == turns[s] \ {kind}
  <2>3. T \cap Locking = {}
    BY <2>1
  <2> QED
    BY <2>1, <2>2, <2>3, LockChange
<1>7. CASE RequestStarts(s)
  <2> DEFINE T == {"request"} \cup turns[s]
  <2>1. turns' = [turns EXCEPT ![s] = T]
    BY <1>7 DEF RequestStarts, Sends
  <2>2. TRUE <=> T \cap Locking # {}
    BY DEF Locking
  <2>3. \A j, k \in T \cap Locking : j = k
    BY <1>7 DEF RequestStarts
  <2> QED
    BY <1>7, <2>1, <2>2, <2>3, LockChange DEF RequestStarts
<1>8. CASE SuperviseStarts(s) \/ SuperviseEnds(s)
  <2>1. turns' = [turns EXCEPT ![s] = {"supervise"} \cup turns[s]]
        \/ turns' = [turns EXCEPT ![s] = turns[s] \ {"supervise"}]
    BY <1>8 DEF SuperviseStarts, SuperviseEnds, Sends
  <2>2. \A x \in Sessions : turns'[x] \cap Locking = turns[x] \cap Locking
    BY <2>1 DEF TypeOK, Locking
  <2> QED
    BY <1>8, <2>2, LockQuiet DEF SuperviseStarts, SuperviseEnds
<1> QED
  BY <1>4, <1>5, <1>6, <1>7, <1>8 DEF TurnStep

LEMMA LockNext == TypeOK /\ LockInv /\ [Next]_vars => LockInv'
<1> SUFFICES ASSUME TypeOK, LockInv, [Next]_vars PROVE LockInv'
  OBVIOUS
<1>1. ASSUME UNCHANGED <<turns, locked>> PROVE LockInv'
  BY <1>1 DEF LockInv, LockedForTurn, LockTaken
<1>2. ASSUME NEW w \in Threads, ThreadStep(w) PROVE LockInv'
  BY <1>1, <1>2 DEF ThreadStep, CreateChecks, ResumeChecks, CreateDispatches,
     CreateWorktree, CreateRecords, CreateRaises, CreateGivesBack,
     ResumeRecords, process
<1>3. ASSUME NEW s \in Sessions, TurnStep(s) PROVE LockInv'
  BY <1>3, LockTurn
<1>4. ASSUME NEW s \in Sessions, StopStep(s) PROVE LockInv'
  BY <1>1, <1>4, LockTurn DEF StopStep, StopCancels, StopDirectly, StopResumes,
     process
<1>5. ASSUME NEW s \in Sessions, SubmitStarts(s) PROVE LockInv'
  BY <1>1, <1>5 DEF SubmitStarts, process
<1>6. CASE HandlerStep
  BY <1>1, <1>6 DEF HandlerStep, SubmitRaises, SubmitCommits, SubmitRecords,
     SubmitGated, SubmitConcludes, StopGivesBack, Removes, process
<1>7. CASE FleetStep
  BY <1>1, <1>7 DEF FleetStep, FleetStarts, FleetEnds, FleetTakes, FleetLeaves,
     process
<1>8. CASE Crash
  BY <1>8 DEF Crash, LockInv, LockedForTurn, LockTaken
<1>9. CASE UNCHANGED vars
  BY <1>1, <1>9 DEF vars, process
<1> QED
  BY <1>2, <1>3, <1>4, <1>5, <1>6, <1>7, <1>8, <1>9 DEF Next

\* No path through a turn leaks the lock of its session or gives back that of
\* another turn, whatever threads, supervised turns and stops do meanwhile.
THEOREM LocksFollowTurns == Spec => []LockedForTurn
<1>1. Init => LockInv
  BY DEF Init, LockInv, LockedForTurn, LockTaken
<1>2. LockInv => LockedForTurn
  BY DEF LockInv
<1>3. SessionTypes => TypeOK
  BY DEF SessionTypes
<1> QED
  BY <1>1, <1>2, <1>3, LockNext, InitSessionTypes, NextSessionTypes, PTL DEF Spec

(***************************************************************************)
(* The integration lock                                                    *)
(***************************************************************************)

IntegrationInv ==
  /\ IntegratesAlone
  /\ loop.op = "submit" => integration

LEMMA IntegrationNext == SessionTypes /\ IntegrationInv /\ [Next]_vars => IntegrationInv'
<1> SUFFICES ASSUME SessionTypes, IntegrationInv, [Next]_vars
             PROVE  IntegrationInv'
  OBVIOUS
<1> USE DEF IntegrationInv, IntegratesAlone
<1>0. loop \in [op : {"none", "submit", "stop"}, s : Sessions \cup {None},
                at : {"idle", "commit", "record", "gate", "accepted", "rejected",
                      "giveback", "remove"}]
  BY DEF SessionTypes, TypeOK
<1>1. ASSUME UNCHANGED <<loop, integration, fleet>> PROVE IntegrationInv'
  BY <1>1
<1>2. ASSUME NEW w \in Threads, ThreadStep(w) PROVE IntegrationInv'
  BY <1>1, <1>2 DEF ThreadStep, CreateChecks, ResumeChecks, CreateDispatches,
     CreateWorktree, CreateRecords, CreateRaises, CreateGivesBack, ResumeRecords
<1>3. ASSUME NEW s \in Sessions, TurnStep(s) PROVE IntegrationInv'
  BY <1>1, <1>3 DEF TurnStep, LiveStart, LiveBegins, LiveRefused, LiveEnds,
     RequestStarts, RequestEnds, SuperviseStarts, SuperviseEnds
<1>4. ASSUME NEW s \in Sessions, StopStep(s) PROVE IntegrationInv'
  <2>1. CASE StopCancels(s) \/ StopTimesOut(s)
    BY <1>1, <2>1 DEF StopCancels, StopTimesOut
  <2>2. CASE StopDirectly(s) \/ StopResumes(s)
    BY <2>2 DEF StopDirectly, StopResumes, Stops, LoopFree, NoHandler
  <2> QED
    BY <1>4, <2>1, <2>2 DEF StopStep
<1>5. ASSUME NEW s \in Sessions, SubmitStarts(s) PROVE IntegrationInv'
  BY <1>5 DEF SubmitStarts
<1>6. CASE HandlerStep
  <2>0. CASE SubmitRaises
    BY <2>0 DEF SubmitRaises, Submitting, NoHandler
  <2>1. CASE Removes
    BY <2>1 DEF Removes, NoHandler
  <2>2. CASE SubmitCommits \/ SubmitRecords \/ SubmitGated \/ SubmitConcludes
             \/ StopGivesBack
    <3>1. PICK at : loop' = [loop EXCEPT !.at = at]
      BY <2>2 DEF SubmitCommits, SubmitRecords, SubmitGated, SubmitConcludes,
         StopGivesBack, Proceeds
    <3>2. loop'.op = loop.op
      BY <1>0, <3>1
    <3>3. UNCHANGED <<integration, fleet>>
      BY <2>2 DEF SubmitCommits, SubmitRecords, SubmitGated, SubmitConcludes,
         StopGivesBack
    <3> QED
      BY <3>2, <3>3
  <2> QED
    BY <1>6, <2>0, <2>1, <2>2 DEF HandlerStep
<1>7. CASE FleetStep
  BY <1>7 DEF FleetStep, FleetStarts, FleetEnds, FleetTakes, FleetLeaves,
     LoopFree, NoHandler
<1>8. CASE Crash
  BY <1>8 DEF Crash, NoHandler
<1>9. CASE UNCHANGED vars
  BY <1>1, <1>9 DEF vars
<1> QED
  BY <1>2, <1>3, <1>4, <1>5, <1>6, <1>7, <1>8, <1>9 DEF Next

\* A session's gate and the orchestration never integrate at the same time.
THEOREM OneIntegration == Spec => []IntegratesAlone
<1>1. Init => IntegrationInv
  BY DEF Init, IntegrationInv, IntegratesAlone, NoHandler
<1>2. IntegrationInv => IntegratesAlone
  BY DEF IntegrationInv
<1> QED
  BY <1>1, <1>2, IntegrationNext, InitSessionTypes, NextSessionTypes, PTL DEF Spec

(***************************************************************************)
(* Turns take turns: what the locks leave to the supervised turns          *)
(***************************************************************************)

\* The session that is submitted or stopped has no turn that took its lock.
HandlerAlone == loop.op # "none" => turns[loop.s] \cap Locking = {}

LEMMA AloneNext ==
  SessionTypes /\ LockInv /\ HandlerAlone /\ [Next]_vars => HandlerAlone'
<1> SUFFICES ASSUME SessionTypes, LockInv, HandlerAlone, [Next]_vars
             PROVE  HandlerAlone'
  OBVIOUS
<1>0. loop \in [op : {"none", "submit", "stop"}, s : Sessions \cup {None},
                at : {"idle", "commit", "record", "gate", "accepted", "rejected",
                      "giveback", "remove"}]
  BY DEF SessionTypes, TypeOK
<1>1. ASSUME UNCHANGED <<loop, turns>> PROVE HandlerAlone'
  BY <1>1 DEF HandlerAlone
<1>2. ASSUME loop' = NoHandler PROVE HandlerAlone'
  BY <1>2 DEF HandlerAlone, NoHandler
<1>3. ASSUME NEW s \in Sessions, ~locked[s], turns' = turns, loop'.s = s
      PROVE  HandlerAlone'
  BY <1>3 DEF HandlerAlone, LockInv, LockedForTurn
<1>4. ASSUME NEW w \in Threads, ThreadStep(w) PROVE HandlerAlone'
  BY <1>1, <1>4 DEF ThreadStep, CreateChecks, ResumeChecks, CreateDispatches,
     CreateWorktree, CreateRecords, CreateRaises, CreateGivesBack,
     ResumeRecords, process
<1>5. ASSUME NEW s \in Sessions, TurnStep(s) \/ StopTimesOut(s) PROVE HandlerAlone'
  BY <1>2, <1>5 DEF LoopFree, TurnStep, LiveStart, LiveBegins, LiveRefused,
     LiveEnds, RequestStarts, RequestEnds, SuperviseStarts, SuperviseEnds,
     StopTimesOut
<1>6. ASSUME NEW s \in Sessions, StopDirectly(s) \/ StopResumes(s) \/ StopCancels(s)
                                 \/ SubmitStarts(s)
      PROVE  HandlerAlone'
  BY <1>1, <1>3, <1>6 DEF StopDirectly, StopResumes, StopCancels, SubmitStarts,
     Stops, process
<1>7. CASE HandlerStep
  <2>1. CASE SubmitRaises \/ Removes
    BY <1>2, <2>1 DEF SubmitRaises, Removes
  <2>2. CASE SubmitCommits \/ SubmitRecords \/ SubmitGated \/ SubmitConcludes
             \/ StopGivesBack
    <3>1. PICK at : loop' = [loop EXCEPT !.at = at]
      BY <2>2 DEF SubmitCommits, SubmitRecords, SubmitGated, SubmitConcludes,
         StopGivesBack, Proceeds
    <3>2. loop'.op = loop.op /\ loop'.s = loop.s
      BY <1>0, <3>1
    <3>3. UNCHANGED turns
      BY <2>2 DEF SubmitCommits, SubmitRecords, SubmitGated, SubmitConcludes,
         StopGivesBack, process
    <3> QED
      BY <3>2, <3>3 DEF HandlerAlone
  <2> QED
    BY <1>7, <2>1, <2>2 DEF HandlerStep
<1>8. CASE FleetStep
  BY <1>1, <1>8 DEF FleetStep, FleetStarts, FleetEnds, FleetTakes, FleetLeaves,
     process
<1>9. CASE Crash
  BY <1>2, <1>9 DEF Crash
<1>10. CASE UNCHANGED vars
  BY <1>1, <1>10 DEF vars, process
<1> QED
  BY <1>4, <1>5, <1>6, <1>7, <1>8, <1>9, <1>10 DEF Next, StopStep

\* Of the turns that take the lock of a session one at a time edits its draft,
\* and none while the candidate is gated or the session is stopped.
THEOREM SingleTurn == Spec => []TurnsTakeTurns
<1>1. Init => LockInv /\ HandlerAlone
  BY DEF Init, LockInv, LockedForTurn, LockTaken, HandlerAlone, NoHandler
<1>2. SessionTypes /\ LockInv /\ HandlerAlone => TurnsTakeTurns
  <2> SUFFICES ASSUME SessionTypes, LockInv, HandlerAlone, NEW s \in Sessions
               PROVE  /\ Cardinality(turns[s] \ {"scheduled", "supervise"}) <= 1
                      /\ loop.s = s => turns[s] \subseteq {"supervise"}
    BY DEF TurnsTakeTurns
  <2>1. turns[s] \subseteq Locking \cup {"supervise"}
    BY DEF SessionTypes, TypeOK
  <2> DEFINE T == turns[s] \ {"scheduled", "supervise"}
  <2>2. T \subseteq turns[s] \cap Locking
    BY <2>1
  <2>3. ASSUME T # {} PROVE Cardinality(T) = 1
    <3>1. PICK k : k \in T
      BY <2>3
    <3>2. T = {k}
      BY <2>2, <3>1 DEF LockInv, LockTaken
    <3> QED
      BY <3>2, FS_Singleton
  <2>4. Cardinality(T) <= 1
    <3>1. CASE T = {}
      BY <3>1, FS_EmptySet
    <3> QED
      BY <2>3, <3>1
  <2>5. loop.s = s => turns[s] \subseteq {"supervise"}
    <3>1. loop.s = s => loop # NoHandler
      BY Distinct DEF NoHandler
    <3> QED
      BY <2>1, <3>1 DEF SessionTypes, HandlerWellFormed, HandlerAlone
  <2> QED
    BY <2>4, <2>5
<1>3. SessionTypes => TypeOK
  BY DEF SessionTypes
<1> QED
  BY <1>1, <1>2, <1>3, LockNext, AloneNext, InitSessionTypes, NextSessionTypes, PTL
     DEF Spec

(***************************************************************************)
(* Which sessions the log knows, under every interleaving                  *)
(***************************************************************************)

Known(s) == sess[s].task \in Tasks /\ sess[s].status \in Active \cup Closed

\* Turns, handlers and resumes work for sessions the log knows, and each create
\* for one of its own that the log does not know yet.
KnownInv ==
  /\ \A s \in Sessions : sess[s] = Absent \/ Known(s)
  /\ \A s \in Sessions : turns[s] # {} => Known(s)
  /\ loop.op # "none" => Known(loop.s)
  /\ \A w \in Threads :
       /\ thread[w].op = "resume" => Known(thread[w].s)
       /\ thread[w].op = "create" =>
            /\ sess[thread[w].s] = Absent
            /\ \A v \in Threads : thread[v].op = "create" /\ thread[v].s = thread[w].s
                                    => v = w

LEMMA KnownIsThere ==
  ASSUME NEW s, Known(s)
  PROVE  sess[s] # Absent
BY Distinct DEF Known, Absent, Active, Closed

\* What Marks does to the sessions.
LEMMA Marked ==
  ASSUME TypeOK, NEW s \in Sessions, NEW st, Marks(s, st)
  PROVE  /\ \A x \in Sessions : sess'[x].task = sess[x].task
         /\ \A x \in Sessions \ {s} : sess'[x] = sess[x]
         /\ sess'[s].status = st
BY DEF TypeOK, Marks

\* Marks leaves a known session known, and the others as they are.
LEMMA MarksKnown ==
  ASSUME TypeOK, NEW s \in Sessions, NEW st \in Active \cup Closed, Marks(s, st),
         Known(s)
  PROVE  /\ \A x \in Sessions : Known(x) => (Known(x))'
         /\ \A x \in Sessions : sess[x] = Absent => sess'[x] = Absent
<1>1. (Known(s))'
  BY Marked DEF Known
<1>2. \A x \in Sessions \ {s} : sess'[x] = sess[x]
  BY Marked
<1>3. sess[s] # Absent
  BY KnownIsThere
<1> QED
  BY <1>1, <1>2, <1>3 DEF Known

\* A step that only marks known sessions, and gives turns and handlers to them.
LEMMA KnownKept ==
  ASSUME SessionTypes, KnownInv,
         \A x \in Sessions : Known(x) => (Known(x))',
         \A x \in Sessions : sess[x] = Absent => sess'[x] = Absent,
         \A x \in Sessions : turns'[x] # {} => Known(x),
         loop'.op # "none" => loop'.s \in Sessions /\ Known(loop'.s),
         \A w \in Threads : thread'[w] = thread[w] \/ thread'[w].op = "none"
                            \/ /\ thread'[w].op = "create" /\ thread[w].op = "create"
                               /\ thread'[w].s = thread[w].s
  PROVE  KnownInv'
<1>1. \A s \in Sessions : (sess[s] = Absent \/ Known(s))'
  BY DEF KnownInv
<1>2. \A s \in Sessions : (turns[s] # {} => Known(s))'
  OBVIOUS
<1>3. (loop.op # "none" => Known(loop.s))'
  <2>1. ASSUME NEW s, s = loop'.s, s \in Sessions, Known(s) PROVE (Known(loop.s))'
    <3>1. (Known(s))'
      BY <2>1
    <3> QED
      BY <2>1, <3>1 DEF Known
  <2> QED
    BY <2>1
<1>4. ASSUME NEW w \in Threads, thread'[w].op = "resume" PROVE (Known(thread[w].s))'
  <2>1. thread'[w] = thread[w]
    BY <1>4
  <2>2. thread[w].s \in Sessions /\ Known(thread[w].s)
    BY <1>4, <2>1 DEF KnownInv, SessionTypes, CallsWellFormed
  <2> QED
    BY <2>1, <2>2 DEF Known
<1>5. \A w \in Threads : thread'[w].op = "create" =>
        thread[w].op = "create" /\ thread'[w].s = thread[w].s
  OBVIOUS
<1>6. \A w \in Threads : thread'[w].op = "create" =>
        /\ sess'[thread'[w].s] = Absent
        /\ \A v \in Threads : thread'[v].op = "create" /\ thread'[v].s = thread'[w].s
                                => v = w
  BY <1>5 DEF KnownInv, SessionTypes, CallsWellFormed
<1> QED
  BY <1>1, <1>2, <1>3, <1>4, <1>6 DEF KnownInv

LEMMA ThreadKnown ==
  ASSUME SessionTypes, KnownInv, NEW w \in Threads, ThreadStep(w)
  PROVE  KnownInv'
<1>0. /\ TypeOK /\ CallsWellFormed
      /\ \A x \in Sessions : turns[x] # {} => Known(x)
      /\ loop.op # "none" => loop.s \in Sessions /\ Known(loop.s)
  BY DEF SessionTypes, KnownInv, HandlerWellFormed
<1>1. UNCHANGED <<turns, loop>>
  BY DEF ThreadStep, CreateChecks, ResumeChecks, CreateDispatches, CreateWorktree,
     CreateRecords, CreateRaises, CreateGivesBack, ResumeRecords, process
<1>2. ASSUME UNCHANGED sess,
             \A v \in Threads : thread'[v] = thread[v] \/ thread'[v].op = "none"
                                \/ /\ thread'[v].op = "create" /\ thread[v].op = "create"
                                   /\ thread'[v].s = thread[v].s
      PROVE  KnownInv'
  BY <1>0, <1>1, <1>2, KnownKept DEF Known
<1>3. ASSUME NEW t \in Tasks, CreateChecks(w, t) PROVE KnownInv'
  <2>1. PICK s \in Sessions :
          /\ sess[s] = Absent /\ \A v \in Threads : thread[v].s # s
          /\ thread' = [thread EXCEPT ![w] =
                          [op |-> "create", t |-> t, s |-> s, at |-> "dispatch"]]
          /\ UNCHANGED sess
    BY <1>3 DEF CreateChecks, log
  <2>2. /\ thread'[w] = [op |-> "create", t |-> t, s |-> s, at |-> "dispatch"]
        /\ \A v \in Threads \ {w} : thread'[v] = thread[v]
    BY <1>0, <2>1 DEF TypeOK
  <2> QED
    BY <1>1, <2>1, <2>2 DEF KnownInv, Known
<1>4. ASSUME NEW s \in Sessions, ResumeChecks(w, s) PROVE KnownInv'
  <2>1. /\ Known(s) /\ UNCHANGED sess
        /\ thread' = [thread EXCEPT ![w] =
                        [op |-> "resume", t |-> None, s |-> s, at |-> "record"]]
    BY <1>4 DEF ResumeChecks, log, KnownInv, IsActive, Active, Absent
  <2>2. /\ thread'[w] = [op |-> "resume", t |-> None, s |-> s, at |-> "record"]
        /\ \A v \in Threads \ {w} : thread'[v] = thread[v]
    BY <1>0, <2>1 DEF TypeOK
  <2> QED
    BY <1>1, <2>1, <2>2 DEF KnownInv, Known
<1>5. CASE CreateDispatches(w) \/ CreateWorktree(w) \/ CreateRaises(w)
  <2>1. PICK at : Goes(w, at) /\ thread[w].op = "create" /\ UNCHANGED sess
    BY <1>5 DEF CreateDispatches, CreateWorktree, CreateRaises, Creating, log
  <2>2. /\ thread'[w].op = "create" /\ thread'[w].s = thread[w].s
        /\ \A v \in Threads \ {w} : thread'[v] = thread[v]
    BY <1>0, <2>1 DEF Goes, TypeOK
  <2> QED
    BY <1>2, <2>1, <2>2
<1>6. CASE CreateGivesBack(w)
  <2>1. UNCHANGED sess /\ thread'[w].op = "none"
        /\ \A v \in Threads \ {w} : thread'[v] = thread[v]
    BY <1>0, <1>6 DEF CreateGivesBack, Returns, NoCall, TypeOK
  <2> QED
    BY <1>2, <2>1
<1>7. CASE CreateRecords(w)
  <2>1. PICK s, t : s = thread[w].s /\ t = thread[w].t
    OBVIOUS
  <2>2. /\ thread[w].op = "create" /\ s \in Sessions /\ t \in Tasks
        /\ sess[s] = Absent
        /\ sess' = [sess EXCEPT ![s] = [task |-> t, status |-> "open"]]
        /\ thread' = [thread EXCEPT ![w] = NoCall]
    BY <1>0, <1>7, <2>1
       DEF CreateRecords, Creating, Returns, CallsWellFormed, KnownInv
  <2>3. (Known(s))' /\ \A x \in Sessions \ {s} : sess'[x] = sess[x]
    BY <1>0, <2>2 DEF TypeOK, Known, Active
  <2>4. \A x \in Sessions : Known(x) => (Known(x))'
    BY <2>3 DEF Known
  <2>5. thread'[w] = NoCall /\ \A v \in Threads \ {w} : thread'[v] = thread[v]
    BY <1>0, <2>2 DEF TypeOK
  <2>6. \A v \in Threads : thread'[v].op \in {"create", "resume"} =>
          v # w /\ thread'[v] = thread[v]
    BY <2>5 DEF NoCall
  <2>7. \A v \in Threads \ {w} : thread[v].op = "create" => thread[v].s # s
    BY <2>1, <2>2 DEF KnownInv
  <2>8. \A v \in Threads : thread'[v].op = "create" =>
          /\ sess'[thread'[v].s] = Absent
          /\ \A u \in Threads : thread'[u].op = "create" /\ thread'[u].s = thread'[v].s
                                  => u = v
    BY <1>0, <2>3, <2>6, <2>7 DEF KnownInv, CallsWellFormed
  <2>9. ASSUME NEW v \in Threads, thread'[v].op = "resume"
        PROVE  (Known(thread[v].s))'
    <3>1. thread'[v] = thread[v] /\ thread[v].s \in Sessions /\ Known(thread[v].s)
      BY <1>0, <2>6, <2>9 DEF KnownInv, CallsWellFormed
    <3> QED
      BY <2>4, <3>1 DEF Known
  <2>10. \A x \in Sessions : (sess[x] = Absent \/ Known(x))'
    BY <2>3, <2>4 DEF KnownInv
  <2>11. (loop.op # "none" => Known(loop.s))'
    BY <1>0, <1>1, <2>4 DEF Known
  <2>12. \A x \in Sessions : (turns[x] # {} => Known(x))'
    BY <1>0, <1>1, <2>4
  <2> QED
    BY <2>8, <2>9, <2>10, <2>11, <2>12 DEF KnownInv
<1>8. CASE ResumeRecords(w)
  <2>1. PICK s \in Sessions : s = thread[w].s /\ Known(s) /\ Marks(s, "open")
    BY <1>0, <1>8 DEF ResumeRecords, CallsWellFormed, KnownInv
  <2>2. thread'[w].op = "none" /\ \A v \in Threads \ {w} : thread'[v] = thread[v]
    BY <1>0, <1>8 DEF ResumeRecords, Returns, NoCall, TypeOK
  <2>3. /\ \A x \in Sessions : Known(x) => (Known(x))'
        /\ \A x \in Sessions : sess[x] = Absent => sess'[x] = Absent
    BY <1>0, <2>1, MarksKnown DEF Active
  <2> QED
    BY <1>0, <1>1, <2>2, <2>3, KnownKept
<1> QED
  BY <1>3, <1>4, <1>5, <1>6, <1>7, <1>8 DEF ThreadStep

LEMMA KnownNext == SessionTypes /\ KnownInv /\ [Next]_vars => KnownInv'
<1> SUFFICES ASSUME SessionTypes, KnownInv, [Next]_vars PROVE KnownInv'
  OBVIOUS
<1>0. /\ TypeOK
      /\ \A x \in Sessions : turns[x] # {} => Known(x)
      /\ loop.op # "none" => loop.s \in Sessions /\ Known(loop.s)
      /\ \A x \in Sessions : IsActive(x) => Known(x)
      /\ loop \in [op : {"none", "submit", "stop"}, s : Sessions \cup {None},
                at : {"idle", "commit", "record", "gate", "accepted", "rejected",
                      "giveback", "remove"}]
  BY DEF SessionTypes, TypeOK, KnownInv, HandlerWellFormed, IsActive, Active, Absent
<1>1. ASSUME UNCHANGED <<sess, thread>>,
             \A x \in Sessions : turns'[x] # {} => Known(x),
             loop'.op # "none" => loop'.s \in Sessions /\ Known(loop'.s)
      PROVE  KnownInv'
  BY <1>1, KnownKept DEF Known
<1>2. ASSUME NEW s \in Sessions, NEW st \in Active \cup Closed, Marks(s, st), Known(s),
             UNCHANGED thread,
             \A x \in Sessions : turns'[x] # {} => Known(x),
             loop'.op # "none" => loop'.s \in Sessions /\ Known(loop'.s)
      PROVE  KnownInv'
  BY <1>0, <1>2, MarksKnown, KnownKept
<1>3. ASSUME NEW s \in Sessions, TurnStep(s) \/ StopTimesOut(s) PROVE KnownInv'
  <2>0. UNCHANGED <<loop, thread>>
    BY <1>3 DEF TurnStep, LiveStart, LiveBegins, LiveRefused, LiveEnds,
       RequestStarts, RequestEnds, SuperviseStarts, SuperviseEnds, StopTimesOut
  <2>1. CASE LiveStart(s)
    <3>1. /\ turns' = [turns EXCEPT ![s] = @ \cup {"scheduled"}]
          /\ Known(s) /\ UNCHANGED sess
      BY <1>0, <2>1 DEF LiveStart, log
    <3>2. \A x \in Sessions : turns'[x] # {} => Known(x)
      BY <1>0, <3>1 DEF TypeOK
    <3> QED
      BY <1>0, <1>1, <2>0, <3>1, <3>2
  <2>2. CASE LiveRefused(s)
    <3>1. turns' = [turns EXCEPT ![s] = @ \ {"scheduled"}] /\ UNCHANGED sess
      BY <2>2 DEF LiveRefused, log
    <3>2. \A x \in Sessions : turns'[x] # {} => Known(x)
      BY <1>0, <3>1 DEF TypeOK
    <3> QED
      BY <1>0, <1>1, <2>0, <3>1, <3>2
  <2>3. CASE LiveBegins(s) \/ RequestStarts(s) \/ SuperviseStarts(s)
    <3>1. PICK kind : Sends(s, kind)
      BY <2>3 DEF LiveBegins, RequestStarts, SuperviseStarts
    <3>2. Known(s) /\ Marks(s, "running") /\ \E T : turns' = [turns EXCEPT ![s] = T]
      BY <1>0, <3>1 DEF Sends
    <3>3. \A x \in Sessions : turns'[x] # {} => Known(x)
      BY <1>0, <3>2 DEF TypeOK
    <3> QED
      BY <1>0, <1>2, <2>0, <3>2, <3>3 DEF Active
  <2>4. CASE LiveEnds(s) \/ RequestEnds(s) \/ SuperviseEnds(s) \/ StopTimesOut(s)
    <3>1. PICK kind : kind \in turns[s] /\ turns' = [turns EXCEPT ![s] = @ \ {kind}]
      BY <2>4 DEF LiveEnds, RequestEnds, SuperviseEnds, StopTimesOut
    <3>2. PICK end \in Active : Marks(s, end)
      BY <2>4 DEF LiveEnds, RequestEnds, SuperviseEnds, StopTimesOut, Active
    <3>3. Known(s) /\ \A x \in Sessions : turns'[x] # {} => Known(x)
      BY <1>0, <3>1 DEF TypeOK
    <3> QED
      BY <1>0, <1>2, <2>0, <3>2, <3>3
  <2> QED
    BY <1>3, <2>1, <2>2, <2>3, <2>4 DEF TurnStep
<1>4. ASSUME NEW s \in Sessions, StopCancels(s) \/ SubmitStarts(s)
      PROVE  KnownInv'
  BY <1>0, <1>1, <1>4 DEF StopCancels, SubmitStarts, log, process
<1>5. ASSUME NEW s \in Sessions, StopDirectly(s) \/ StopResumes(s)
      PROVE  KnownInv'
  <2>1. UNCHANGED <<turns, thread>>
    BY <1>5 DEF StopDirectly, StopResumes, process
  <2>2. CASE UNCHANGED <<sess, loop>>
    BY <1>0, <1>1, <2>1, <2>2
  <2>3. CASE /\ IsActive(s) /\ Marks(s, "stopped")
             /\ loop' = [op |-> "stop", s |-> s, at |-> "giveback"]
    BY <1>0, <1>2, <2>1, <2>3 DEF Closed
  <2> QED
    BY <1>5, <2>2, <2>3 DEF StopDirectly, StopResumes, Stops
<1>6. CASE HandlerStep
  <2>1. UNCHANGED <<turns, thread>>
    BY <1>6 DEF HandlerStep, SubmitRaises, SubmitCommits, SubmitRecords,
       SubmitGated, SubmitConcludes, StopGivesBack, Removes, process
  <2>2. CASE SubmitRaises \/ Removes
    <3>1. UNCHANGED sess /\ loop' = NoHandler
      BY <2>2 DEF SubmitRaises, Removes, log
    <3> QED
      BY <1>0, <1>1, <2>1, <3>1 DEF NoHandler
  <2>3. CASE SubmitCommits \/ SubmitGated \/ StopGivesBack
    <3>1. PICK at : loop' = [loop EXCEPT !.at = at]
      BY <2>3 DEF SubmitCommits, SubmitGated, StopGivesBack, Proceeds
    <3>2. loop'.op = loop.op /\ loop'.s = loop.s
      BY <1>0, <3>1
    <3>3. UNCHANGED sess
      BY <2>3 DEF SubmitCommits, SubmitGated, StopGivesBack
    <3> QED
      BY <1>0, <1>1, <2>1, <3>2, <3>3
  <2>4. CASE SubmitRecords \/ SubmitConcludes
    <3>1. PICK st \in Closed : Marks(loop.s, st)
      BY <2>4 DEF SubmitRecords, SubmitConcludes, Submitting, Closed
    <3>2. loop.op # "none"
      BY <2>4 DEF SubmitRecords, SubmitConcludes, Submitting
    <3>3. PICK at : loop' = [loop EXCEPT !.at = at]
      BY <2>4 DEF SubmitRecords, SubmitConcludes, Proceeds
    <3>4. loop'.op = loop.op /\ loop'.s = loop.s
      BY <1>0, <3>3
    <3> QED
      BY <1>0, <1>2, <2>1, <3>1, <3>2, <3>4
  <2> QED
    BY <1>6, <2>2, <2>3, <2>4 DEF HandlerStep
<1>7. CASE FleetStep
  BY <1>0, <1>1, <1>7 DEF FleetStep, FleetStarts, FleetEnds, FleetTakes, FleetLeaves,
     process, log
<1>8. CASE Crash
  <2>1. /\ UNCHANGED sess /\ loop' = NoHandler
        /\ turns' = [s \in Sessions |-> {}]
        /\ thread' = [w \in Threads |-> NoCall]
    BY <1>8 DEF Crash, log
  <2> QED
    BY <2>1, <1>0, KnownKept DEF NoHandler, NoCall, Known
<1>9. CASE UNCHANGED vars
  BY <1>0, <1>1, <1>9 DEF vars, process, log
<1> QED
  BY <1>3, <1>4, <1>5, <1>6, <1>7, <1>8, <1>9, ThreadKnown DEF Next, StopStep

(***************************************************************************)
(* Drafts and their owners.  What each actor owns of a task keeps the      *)
(* others away from it and from the worktree at its path, for as long as   *)
(* no calls have overlapped on that task (mixed).                          *)
(***************************************************************************)

\* An active session owns its task, off the READY frontier, and its draft.
SessionOwns(t) ==
  \A s \in Sessions : IsActive(s) /\ sess[s].task = t =>
    /\ t \notin fleet
    /\ task[t] \in {"dispatched", "submitted"}
    /\ draft[t] = s
    /\ \A x \in Sessions : IsActive(x) /\ sess[x].task = t => x = s

\* A create owns its task from the check on.
CreateOwns(t) ==
  \A w \in Threads : thread[w].op = "create" /\ thread[w].t = t =>
    /\ t \notin fleet
    /\ \A s \in Sessions : IsActive(s) => sess[s].task # t
    /\ thread[w].at # "dispatch" => task[t] = "dispatched"
    /\ thread[w].at = "record" => draft[t] = thread[w].s

\* The session of a resume is still active.
ResumeOwns(t) ==
  \A w \in Threads : thread[w].op = "resume" /\ sess[thread[w].s].task = t =>
    IsActive(thread[w].s)

FleetOwns(t) == t \in fleet => task[t] = "dispatched"

\* The submit or stop under way has the task and the draft of its session to
\* itself; a submit closes the session when it has recorded it, a stop first.
HandlerOwns(t) ==
  HandlerOn(t) =>
    /\ t \notin fleet
    /\ draft[t] = loop.s
    /\ \A x \in Sessions : IsActive(x) /\ sess[x].task = t => x = loop.s
    /\ IsActive(loop.s) <=> loop.op = "submit" /\ loop.at \in {"commit", "record"}

\* Agents work for active sessions.
TurnsOwn(t) ==
  \A s \in Sessions :
    sess[s].task = t /\ turns[s] \ {"scheduled"} # {} => IsActive(s)

TaskInv(t) ==
  /\ SessionOwns(t) /\ CreateOwns(t) /\ ResumeOwns(t)
  /\ FleetOwns(t) /\ HandlerOwns(t) /\ TurnsOwn(t)

DraftInv == \A t \in Tasks \ mixed : ~Mingled(t) /\ TaskInv(t)

\* The invariants that hold of every task.
CommonInv == SessionTypes /\ LockInv /\ HandlerAlone /\ KnownInv

LEMMA InitDraft == Init => DraftInv
<1> SUFFICES ASSUME Init, NEW t \in Tasks PROVE ~Mingled(t) /\ TaskInv(t)
  BY DEF DraftInv
<1>1. /\ thread = [w \in Threads |-> NoCall]
      /\ loop = NoHandler /\ fleet = {}
      /\ sess = [s \in Sessions |-> Absent]
      /\ turns = [s \in Sessions |-> {}]
  BY DEF Init
<1>2. ~Mingled(t)
  BY <1>1 DEF Mingled, ThreadOn, HandlerOn, NoCall, NoHandler
<1>3. SessionOwns(t) /\ TurnsOwn(t) /\ FleetOwns(t)
  BY <1>1 DEF SessionOwns, TurnsOwn, FleetOwns, IsActive, Active, Absent
<1>4. CreateOwns(t) /\ ResumeOwns(t) /\ HandlerOwns(t)
  BY <1>1 DEF CreateOwns, ResumeOwns, HandlerOwns, HandlerOn, NoCall, NoHandler
<1> QED
  BY <1>2, <1>3, <1>4 DEF TaskInv

\* A step that leaves what a task sees as it is: its own row, its worktree, the
\* fleet, which of its sessions are active, and the calls on it.
LEMMA Elsewhere ==
  ASSUME NEW t \in Tasks, TaskInv(t),
         task'[t] = task[t], draft'[t] = draft[t], t \in fleet' <=> t \in fleet,
         \A x \in Sessions : sess'[x].task = t <=> sess[x].task = t,
         \A x \in Sessions : sess[x].task = t => ((IsActive(x))' <=> IsActive(x)),
         \A w \in Threads :
           /\ thread'[w].op = "create" /\ thread'[w].t = t => thread'[w] = thread[w]
           /\ thread'[w].op = "resume" /\ sess'[thread'[w].s].task = t =>
                thread'[w] = thread[w] /\ thread[w].s \in Sessions,
         (HandlerOn(t))' => loop' = loop /\ loop.s \in Sessions,
         (TurnsOwn(t))'
  PROVE  (TaskInv(t))'
<1> USE DEF TaskInv
<1>1. (SessionOwns(t))' /\ (FleetOwns(t))'
  BY DEF SessionOwns, FleetOwns
<1>2. (CreateOwns(t))'
  BY DEF CreateOwns
<1>3. ASSUME NEW w \in Threads, thread'[w].op = "resume", sess'[thread'[w].s].task = t
      PROVE  (IsActive(thread[w].s))'
  <2>1. thread'[w] = thread[w] /\ thread[w].s \in Sessions
    BY <1>3
  <2>2. sess[thread[w].s].task = t
    BY <1>3, <2>1
  <2>3. IsActive(thread[w].s)
    BY <1>3, <2>1, <2>2 DEF ResumeOwns
  <2> QED
    BY <2>1, <2>2, <2>3 DEF IsActive
<1>4. (ResumeOwns(t))'
  BY <1>3 DEF ResumeOwns
<1>5. (HandlerOwns(t))'
  <2> SUFFICES ASSUME (HandlerOn(t))'
               PROVE  (/\ t \notin fleet
                       /\ draft[t] = loop.s
                       /\ \A x \in Sessions : IsActive(x) /\ sess[x].task = t => x = loop.s
                       /\ IsActive(loop.s) <=> loop.op = "submit"
                                               /\ loop.at \in {"commit", "record"})'
    BY DEF HandlerOwns
  <2>1. loop' = loop /\ loop.s \in Sessions
    OBVIOUS
  <2>2. HandlerOn(t)
    BY <2>1 DEF HandlerOn
  <2>3. (IsActive(loop.s))' <=> IsActive(loop.s)
    BY <2>1, <2>2 DEF HandlerOn, IsActive
  <2> QED
    BY <2>1, <2>2, <2>3 DEF HandlerOwns
<1> QED
  BY <1>1, <1>2, <1>4, <1>5

\* What the absence of overlap means for a call on the task.
LEMMA AloneOnTask ==
  ASSUME NEW t \in Tasks, ~Mingled(t), NEW w \in Threads, ThreadOn(w, t)
  PROVE  /\ t \notin fleet /\ ~HandlerOn(t)
         /\ \A v \in Threads \ {w} : ~ThreadOn(v, t)
BY DEF Mingled

LEMMA TurnDraft ==
  ASSUME CommonInv, NEW t \in Tasks, TaskInv(t), NEW s \in Sessions,
         TurnStep(s) \/ StopTimesOut(s)
  PROVE  (TaskInv(t))'
<1>1. LoopFree /\ UNCHANGED <<task, draft, loop, fleet, thread>>
  BY DEF TurnStep, StopTimesOut, LiveStart, LiveBegins, LiveRefused, LiveEnds,
     RequestStarts, RequestEnds, SuperviseStarts, SuperviseEnds, log
<1>2. TypeOK /\ TurnsOwn(t) /\ CallsWellFormed /\ HandlerWellFormed
  BY DEF CommonInv, SessionTypes, TaskInv
<1>3. ASSUME \A x \in Sessions : sess'[x].task = sess[x].task,
             \A x \in Sessions : sess[x].task = t => ((IsActive(x))' <=> IsActive(x)),
             (TurnsOwn(t))'
      PROVE  (TaskInv(t))'
  BY <1>1, <1>2, <1>3, Elsewhere
     DEF CallsWellFormed, LoopFree, HandlerOn, NoHandler
<1>4. CASE LiveStart(s) \/ LiveRefused(s)
  <2>1. UNCHANGED sess
    BY <1>4 DEF LiveStart, LiveRefused, log
  <2>2. turns' = [turns EXCEPT ![s] = @ \cup {"scheduled"}]
        \/ turns' = [turns EXCEPT ![s] = @ \ {"scheduled"}]
    BY <1>4 DEF LiveStart, LiveRefused
  <2>3. \A x \in Sessions : turns'[x] \ {"scheduled"} = turns[x] \ {"scheduled"}
    BY <1>2, <2>2 DEF TypeOK
  <2> QED
    BY <1>2, <1>3, <2>1, <2>3 DEF TurnsOwn, IsActive
<1>5. CASE LiveBegins(s) \/ RequestStarts(s) \/ SuperviseStarts(s)
  <2>1. PICK kind : Sends(s, kind)
    BY <1>5 DEF LiveBegins, RequestStarts, SuperviseStarts
  <2>2. IsActive(s) /\ Marks(s, "running") /\ \E T : turns' = [turns EXCEPT ![s] = T]
    BY <2>1 DEF Sends
  <2>3. \A x \in Sessions : (IsActive(x))' <=> IsActive(x)
    BY <1>2, <2>2, Marked DEF IsActive, Active
  <2>4. (TurnsOwn(t))'
    BY <1>2, <2>2, <2>3, Marked DEF TypeOK, TurnsOwn
  <2> QED
    BY <1>2, <1>3, <2>2, <2>3, <2>4, Marked
<1>6. CASE LiveEnds(s) \/ RequestEnds(s) \/ SuperviseEnds(s) \/ StopTimesOut(s)
  <2>1. PICK kind \in {"live", "request", "supervise"} :
          kind \in turns[s] /\ turns' = [turns EXCEPT ![s] = @ \ {kind}]
    BY <1>6 DEF LiveEnds, RequestEnds, SuperviseEnds, StopTimesOut
  <2>2. PICK end \in Active : Marks(s, end)
    BY <1>6 DEF LiveEnds, RequestEnds, SuperviseEnds, StopTimesOut, Active
  <2>3. sess[s].task = t => IsActive(s)
    BY <1>2, <2>1 DEF TurnsOwn
  <2>4. (IsActive(s))' /\ \A x \in Sessions \ {s} : (IsActive(x))' <=> IsActive(x)
    BY <1>2, <2>2, Marked DEF IsActive
  <2>5. (TurnsOwn(t))'
    BY <1>2, <2>1, <2>2, <2>4, Marked DEF TypeOK, TurnsOwn
  <2> QED
    BY <1>2, <1>3, <2>2, <2>3, <2>4, <2>5, Marked
<1> QED
  BY <1>4, <1>5, <1>6 DEF TurnStep

\* A stop or a submit begins: its session is active, and its lock is free.
LEMMA HandlerBegins ==
  ASSUME CommonInv, NEW t \in Tasks, TaskInv(t), ~(Mingled(t))',
         NEW s \in Sessions, IsActive(s), ~locked[s],
         UNCHANGED <<task, draft, turns, fleet, thread>>,
         loop'.s = s,
         \/ UNCHANGED sess /\ loop'.op = "submit" /\ loop'.at = "commit"
         \/ Marks(s, "stopped") /\ loop'.op = "stop"
  PROVE  (TaskInv(t))'
<1>1. /\ TypeOK /\ CallsWellFormed
      /\ turns[s] \subseteq Locking \cup {"supervise"}
      /\ turns[s] \cap Locking = {}
  BY DEF CommonInv, SessionTypes, TypeOK, LockInv, LockedForTurn
<1>2. /\ \A x \in Sessions : sess'[x].task = sess[x].task
      /\ \A x \in Sessions \ {s} : sess'[x] = sess[x]
  BY <1>1, Marked
<1>3. (IsActive(s))' <=> loop'.op = "submit"
  BY <1>1, Marked DEF IsActive, Active
<1>4. CASE sess[s].task # t
  <2>1. (TurnsOwn(t))'
    BY <1>2, <1>4 DEF TaskInv, TurnsOwn, IsActive
  <2>2. \A x \in Sessions : sess[x].task = t => ((IsActive(x))' <=> IsActive(x))
    BY <1>2, <1>4 DEF IsActive
  <2> QED
    BY <1>1, <1>2, <1>4, <2>1, <2>2, Elsewhere DEF CallsWellFormed, HandlerOn
<1>5. CASE sess[s].task = t
  <2>1. /\ t \notin fleet /\ task[t] \in {"dispatched", "submitted"} /\ draft[t] = s
        /\ \A x \in Sessions : IsActive(x) /\ sess[x].task = t => x = s
    BY <1>5 DEF TaskInv, SessionOwns
  <2>2. (HandlerOn(t))'
    BY <1>2, <1>5 DEF HandlerOn
  <2>3. \A w \in Threads : ~(ThreadOn(w, t))'
    BY <2>2 DEF Mingled
  <2>4. (CreateOwns(t))' /\ (ResumeOwns(t))'
    BY <2>3 DEF CreateOwns, ResumeOwns, ThreadOn
  <2>5. \A x \in Sessions : (IsActive(x))' => IsActive(x)
    BY <1>2 DEF IsActive
  <2>6. (SessionOwns(t))' /\ (FleetOwns(t))'
    BY <1>2, <2>1, <2>5 DEF SessionOwns, FleetOwns
  <2>7. (HandlerOwns(t))'
    BY <1>2, <1>3, <2>1, <2>5 DEF HandlerOwns
  <2>8. turns[s] = {}
    BY <1>1, <2>2 DEF Mingled
  <2>9. (TurnsOwn(t))'
    BY <1>2, <2>8 DEF TaskInv, TurnsOwn, IsActive
  <2> QED
    BY <2>4, <2>6, <2>7, <2>9 DEF TaskInv
<1> QED
  BY <1>4, <1>5

LEMMA StopDraft ==
  ASSUME CommonInv, NEW t \in Tasks, TaskInv(t), ~(Mingled(t))', NEW s \in Sessions,
         StopDirectly(s) \/ StopResumes(s) \/ StopCancels(s) \/ SubmitStarts(s)
  PROVE  (TaskInv(t))'
<1>1. UNCHANGED <<task, draft, turns, fleet, thread>>
  BY DEF StopDirectly, StopResumes, StopCancels, SubmitStarts, log, process
<1>2. CASE UNCHANGED <<sess, loop>>
  <2>1. (TurnsOwn(t))' /\ CallsWellFormed /\ HandlerWellFormed
    BY <1>1, <1>2 DEF TaskInv, TurnsOwn, IsActive, CommonInv, SessionTypes
  <2> QED
    BY <1>1, <1>2, <2>1, Elsewhere
       DEF IsActive, CallsWellFormed, HandlerWellFormed, HandlerOn
<1>3. CASE /\ IsActive(s) /\ ~locked[s] /\ Marks(s, "stopped")
           /\ loop' = [op |-> "stop", s |-> s, at |-> "giveback"]
  BY <1>1, <1>3, HandlerBegins
<1>4. CASE SubmitStarts(s)
  <2>1. /\ IsActive(s) /\ ~locked[s] /\ UNCHANGED sess
        /\ loop' = [op |-> "submit", s |-> s, at |-> "commit"]
    BY <1>4 DEF SubmitStarts, log
  <2> QED
    BY <1>1, <2>1, HandlerBegins
<1> QED
  <2>1. CASE StopCancels(s)
    BY <1>2, <2>1 DEF StopCancels, log
  <2>2. CASE StopDirectly(s) \/ StopResumes(s)
    BY <1>2, <1>3, <2>2 DEF StopDirectly, StopResumes, Stops
  <2> QED
    BY <1>4, <2>1, <2>2

\* The step of a thread that works for another task, or for none.
LEMMA ThreadElsewhere ==
  ASSUME CommonInv, NEW t \in Tasks, TaskInv(t), NEW w \in Threads, NEW call,
         thread' = [thread EXCEPT ![w] = call],
         call.op = "create" => call.t # t,
         call.op = "resume" => sess'[call.s].task # t,
         task'[t] = task[t], draft'[t] = draft[t], UNCHANGED <<turns, loop, fleet>>,
         \A x \in Sessions : Known(x) => sess'[x].task = sess[x].task,
         \A x \in Sessions : sess'[x].task = t <=> sess[x].task = t,
         \A x \in Sessions : sess[x].task = t => ((IsActive(x))' <=> IsActive(x))
  PROVE  (TaskInv(t))'
<1>1. /\ TypeOK /\ CallsWellFormed /\ HandlerWellFormed /\ TurnsOwn(t)
      /\ loop.op # "none" => Known(loop.s)
      /\ \A v \in Threads : thread[v].op = "resume" => Known(thread[v].s)
  BY DEF CommonInv, SessionTypes, TaskInv, KnownInv
<1>2. thread'[w] = call /\ \A v \in Threads \ {w} : thread'[v] = thread[v]
  BY <1>1 DEF TypeOK
<1>3. (TurnsOwn(t))'
  BY <1>1 DEF TurnsOwn
<1>4. (HandlerOn(t))' => loop.s \in Sessions
  BY <1>1 DEF HandlerOn, HandlerWellFormed
<1>5. \A v \in Threads :
        /\ thread'[v].op = "create" /\ thread'[v].t = t => thread'[v] = thread[v]
        /\ thread'[v].op = "resume" /\ sess'[thread'[v].s].task = t =>
             thread'[v] = thread[v] /\ thread[v].s \in Sessions
  BY <1>1, <1>2 DEF CallsWellFormed
<1> QED
  BY <1>3, <1>4, <1>5, Elsewhere

\* The step of a create on the task, up to its session: it has the task to
\* itself.
LEMMA CreateStep ==
  ASSUME CommonInv, NEW t \in Tasks, ~Mingled(t), TaskInv(t), NEW w \in Threads,
         thread[w].op = "create", thread[w].t = t, NEW call,
         thread' = [thread EXCEPT ![w] = call],
         UNCHANGED <<sess, turns, loop, fleet>>,
         \/ call.op = "none"
         \/ /\ call.op = "create" /\ call.t = t
            /\ call.at # "dispatch" => task'[t] = "dispatched"
            /\ call.at = "record" => draft'[t] = call.s
  PROVE  (TaskInv(t))'
<1>1. /\ TypeOK /\ TurnsOwn(t) /\ CreateOwns(t)
  BY DEF CommonInv, SessionTypes, TaskInv
<1>2. /\ ThreadOn(w, t) /\ t \notin fleet
      /\ \A s \in Sessions : IsActive(s) => sess[s].task # t
  BY <1>1 DEF ThreadOn, CreateOwns
<1>3. ~HandlerOn(t) /\ \A v \in Threads \ {w} : ~ThreadOn(v, t)
  BY <1>2, AloneOnTask
<1>4. thread'[w] = call /\ \A v \in Threads \ {w} : thread'[v] = thread[v]
  BY <1>1 DEF TypeOK
<1>5. (SessionOwns(t))' /\ (FleetOwns(t))' /\ (TurnsOwn(t))'
  BY <1>1, <1>2 DEF SessionOwns, FleetOwns, TurnsOwn, IsActive
<1>6. (HandlerOwns(t))'
  BY <1>3 DEF HandlerOwns, HandlerOn
<1>7. (CreateOwns(t))' /\ (ResumeOwns(t))'
  BY <1>2, <1>3, <1>4 DEF CreateOwns, ResumeOwns, ThreadOn, IsActive
<1> QED
  BY <1>5, <1>6, <1>7 DEF TaskInv

LEMMA ThreadDraft ==
  ASSUME CommonInv, NEW t \in Tasks, ~Mingled(t), TaskInv(t), ~(Mingled(t))',
         NEW w \in Threads, ThreadStep(w)
  PROVE  (TaskInv(t))'
<1>0. PICK u, x : u = thread[w].t /\ x = thread[w].s
  OBVIOUS
<1>1. /\ TypeOK /\ CallsWellFormed /\ TurnsOwn(t) /\ CreateOwns(t) /\ KnownInv
      /\ SessionOwns(t)
      /\ thread \in [Threads ->
           [op : {"none", "create", "resume"}, t : Tasks \cup {None},
            s : Sessions \cup {None},
            at : {"idle", "dispatch", "worktree", "record", "giveback"}]]
  BY DEF CommonInv, SessionTypes, TypeOK, TaskInv
<1>2. UNCHANGED <<turns, loop, fleet>>
  BY DEF ThreadStep, CreateChecks, ResumeChecks, CreateDispatches, CreateWorktree,
     CreateRecords, CreateRaises, CreateGivesBack, ResumeRecords, process
<1>3. ASSUME NEW v \in Tasks, CreateChecks(w, v) PROVE (TaskInv(t))'
  <2>1. PICK s \in Sessions :
          /\ task[v] = "ready"
          /\ thread' = [thread EXCEPT ![w] =
                          [op |-> "create", t |-> v, s |-> s, at |-> "dispatch"]]
          /\ UNCHANGED <<task, sess, draft>>
    BY <1>3 DEF CreateChecks, log
  <2>2. CASE v # t
    BY <1>2, <2>1, <2>2, ThreadElsewhere DEF IsActive
  <2>3. CASE v = t
    <3>1. /\ thread'[w] = [op |-> "create", t |-> t, s |-> s, at |-> "dispatch"]
          /\ \A y \in Threads \ {w} : thread'[y] = thread[y]
      BY <1>1, <2>1, <2>3
    <3>2. (ThreadOn(w, t))'
      BY <3>1 DEF ThreadOn
    <3>3. t \notin fleet' /\ ~(HandlerOn(t))'
          /\ \A y \in Threads \ {w} : ~(ThreadOn(y, t))'
      BY <3>2 DEF Mingled
    <3>4. \A s1 \in Sessions : IsActive(s1) => sess[s1].task # t
      BY <1>1, <2>1, <2>3 DEF SessionOwns
    <3>5. (SessionOwns(t))' /\ (FleetOwns(t))' /\ (TurnsOwn(t))'
      BY <1>1, <1>2, <2>1, <3>3, <3>4 DEF SessionOwns, FleetOwns, TurnsOwn, IsActive
    <3>6. (CreateOwns(t))' /\ (ResumeOwns(t))'
      BY <2>1, <3>1, <3>3, <3>4 DEF CreateOwns, ResumeOwns, ThreadOn, IsActive
    <3>7. (HandlerOwns(t))'
      BY <3>3 DEF HandlerOwns
    <3> QED
      BY <3>5, <3>6, <3>7 DEF TaskInv
  <2> QED
    BY <2>2, <2>3
<1>4. ASSUME NEW s \in Sessions, ResumeChecks(w, s) PROVE (TaskInv(t))'
  <2>1. /\ IsActive(s) /\ UNCHANGED <<task, sess, draft>>
        /\ thread' = [thread EXCEPT ![w] =
                        [op |-> "resume", t |-> None, s |-> s, at |-> "record"]]
    BY <1>4 DEF ResumeChecks, log
  <2>2. CASE sess[s].task # t
    BY <1>2, <2>1, <2>2, ThreadElsewhere DEF IsActive
  <2>3. CASE sess[s].task = t
    <3>1. /\ thread'[w] = [op |-> "resume", t |-> None, s |-> s, at |-> "record"]
          /\ \A y \in Threads \ {w} : thread'[y] = thread[y]
      BY <1>1, <2>1
    <3>2. (ThreadOn(w, t))'
      BY <2>1, <2>3, <3>1 DEF ThreadOn
    <3>3. t \notin fleet' /\ ~(HandlerOn(t))'
          /\ \A y \in Threads \ {w} : ~(ThreadOn(y, t))'
      BY <3>2 DEF Mingled
    <3>4. (SessionOwns(t))' /\ (FleetOwns(t))' /\ (TurnsOwn(t))'
      BY <1>1, <1>2, <2>1, <3>3 DEF SessionOwns, FleetOwns, TurnsOwn, IsActive
    <3>5. (CreateOwns(t))' /\ (ResumeOwns(t))'
      BY <2>1, <3>1, <3>3 DEF CreateOwns, ResumeOwns, ThreadOn, IsActive
    <3>6. (HandlerOwns(t))'
      BY <3>3 DEF HandlerOwns
    <3> QED
      BY <3>4, <3>5, <3>6 DEF TaskInv
  <2> QED
    BY <2>2, <2>3
<1>5. CASE CreateDispatches(w) \/ CreateWorktree(w) \/ CreateRaises(w)
  <2>1. PICK at : Goes(w, at) /\ thread[w].op = "create" /\ UNCHANGED sess
    BY <1>5 DEF CreateDispatches, CreateWorktree, CreateRaises, Creating, log
  <2>2. PICK call :
          /\ call = [thread[w] EXCEPT !.at = at]
          /\ thread' = [thread EXCEPT ![w] = call]
    BY <2>1 DEF Goes
  <2>3. call.op = "create" /\ call.t = u /\ call.s = x /\ call.at = at
    BY <1>0, <1>1, <2>1, <2>2
  <2>4. u \in Tasks /\ x \in Sessions /\ thread'[w] = call
    BY <1>0, <1>1, <2>1, <2>2 DEF CallsWellFormed
  <2>5. CASE u # t
    <3>1. task'[t] = task[t] /\ draft'[t] = draft[t]
      BY <1>0, <1>1, <1>5, <2>5
         DEF CreateDispatches, CreateWorktree, CreateRaises, TypeOK, log
    <3> QED
      BY <1>2, <2>1, <2>2, <2>3, <2>5, <3>1, ThreadElsewhere DEF IsActive
  <2>6. CASE u = t
    <3>1. thread[w].at # "dispatch" => task[t] = "dispatched"
      BY <1>0, <1>1, <2>1, <2>6 DEF CreateOwns
    <3>2. CASE CreateDispatches(w)
      <4>0. task'[t] = "dispatched"
        BY <1>0, <1>1, <2>6, <3>2 DEF CreateDispatches, TypeOK
      <4>1. task'[t] = "dispatched" /\ thread'[w].at = "worktree"
        BY <1>1, <3>2, <4>0 DEF CreateDispatches, Goes
      <4> QED
        BY <1>0, <1>2, <2>1, <2>2, <2>3, <2>4, <2>6, <4>1, CreateStep
    <3>3. CASE CreateWorktree(w)
      <4>1. /\ task'[t] = "dispatched" /\ thread'[w].at = "record"
            /\ draft'[t] = x
        BY <1>0, <1>1, <2>6, <3>1, <3>3
           DEF CreateWorktree, Creating, TypeOK, log, Goes
      <4> QED
        BY <1>0, <1>2, <2>1, <2>2, <2>3, <2>4, <2>6, <4>1, CreateStep
    <3>4. CASE CreateRaises(w)
      <4>1. task'[t] = "dispatched" /\ thread'[w].at = "giveback"
        BY <1>0, <1>1, <2>6, <3>1, <3>4
           DEF CreateRaises, Creating, TypeOK, log, Goes
      <4> QED
        BY <1>0, <1>2, <2>1, <2>2, <2>3, <2>4, <2>6, <4>1, CreateStep
    <3> QED
      BY <1>5, <3>2, <3>3, <3>4
  <2> QED
    BY <2>5, <2>6
<1>6. CASE CreateGivesBack(w)
  <2>1. /\ thread[w].op = "create" /\ thread' = [thread EXCEPT ![w] = NoCall]
        /\ task' = [task EXCEPT ![u] = "ready"] /\ UNCHANGED <<sess, draft>>
    BY <1>0, <1>6 DEF CreateGivesBack, Creating, Returns
  <2>2. NoCall.op = "none"
    BY DEF NoCall
  <2>3. CASE u # t
    <3>1. task'[t] = task[t]
      BY <1>1, <2>1, <2>3 DEF TypeOK
    <3> QED
      BY <1>2, <2>1, <2>2, <3>1, ThreadElsewhere DEF IsActive
  <2>4. CASE u = t
    BY <1>0, <1>2, <2>1, <2>2, <2>4, CreateStep
  <2> QED
    BY <2>3, <2>4
<1>7. CASE CreateRecords(w)
  <2>1. /\ thread[w].op = "create" /\ thread[w].at = "record"
        /\ u \in Tasks /\ x \in Sessions /\ sess[x] = Absent
        /\ sess' = [sess EXCEPT ![x] = [task |-> u, status |-> "open"]]
        /\ thread' = [thread EXCEPT ![w] = NoCall]
        /\ UNCHANGED <<task, draft>>
    BY <1>0, <1>1, <1>7
       DEF CreateRecords, Creating, Returns, CallsWellFormed, KnownInv
  <2>2. /\ \A y \in Sessions \ {x} : sess'[y] = sess[y]
        /\ sess'[x].task = u /\ (IsActive(x))'
        /\ sess[x].task # t
    BY <1>1, <2>1, Distinct DEF TypeOK, IsActive, Active, Absent
  <2>3. \A y \in Sessions : Known(y) => y # x
    BY <2>1, KnownIsThere
  <2>4. NoCall.op = "none"
    BY DEF NoCall
  <2>5. CASE u # t
    <3>1. \A y \in Sessions : sess'[y].task = t <=> sess[y].task = t
      BY <2>2, <2>5
    <3>2. \A y \in Sessions : sess[y].task = t => ((IsActive(y))' <=> IsActive(y))
      BY <2>2 DEF IsActive
    <3>3. \A y \in Sessions : Known(y) => sess'[y].task = sess[y].task
      BY <2>2, <2>3
    <3> QED
      BY <1>2, <2>1, <2>4, <3>1, <3>2, <3>3, ThreadElsewhere
  <2>6. CASE u = t
    <3>1. /\ t \notin fleet /\ task[t] = "dispatched" /\ draft[t] = x
          /\ \A s \in Sessions : IsActive(s) => sess[s].task # t
      BY <1>0, <1>1, <2>1, <2>6 DEF CreateOwns
    <3>2. ~HandlerOn(t) /\ \A v \in Threads \ {w} : ~ThreadOn(v, t)
      BY <1>0, <2>1, <2>6, AloneOnTask DEF ThreadOn
    <3>3. \A s \in Sessions : (IsActive(s))' /\ sess'[s].task = t => s = x
      BY <2>2, <3>1 DEF IsActive
    <3>4. (SessionOwns(t))' /\ (FleetOwns(t))'
      BY <1>2, <2>1, <3>1, <3>3 DEF SessionOwns, FleetOwns
    <3>5. (TurnsOwn(t))'
      BY <1>1, <1>2, <2>2 DEF TurnsOwn, IsActive
    <3>6. thread'[w] = NoCall /\ \A v \in Threads \ {w} : thread'[v] = thread[v]
      BY <1>1, <2>1
    <3>7. ASSUME NEW v \in Threads, thread'[v].op = "resume"
          PROVE  sess'[thread'[v].s].task # t
      <4>1. v # w /\ thread'[v] = thread[v]
        BY <2>4, <3>6, <3>7
      <4>2. thread[v].s \in Sessions /\ Known(thread[v].s)
        BY <1>1, <3>7, <4>1 DEF CallsWellFormed, KnownInv
      <4>3. thread[v].s # x
        BY <2>3, <4>2
      <4>4. sess[thread[v].s].task # t
        BY <3>2, <3>7, <4>1 DEF ThreadOn
      <4> QED
        BY <2>2, <4>1, <4>2, <4>3, <4>4
    <3>8. (ResumeOwns(t))'
      BY <3>7 DEF ResumeOwns
    <3>9. (CreateOwns(t))'
      BY <2>4, <3>2, <3>6 DEF CreateOwns, ThreadOn
    <3>10. (HandlerOwns(t))'
      <4>1. loop.op # "none" => loop.s \in Sessions /\ Known(loop.s)
        BY <1>1 DEF CommonInv, SessionTypes, HandlerWellFormed, KnownInv
      <4>2. loop.op # "none" => sess'[loop.s].task # t
        BY <2>2, <2>3, <3>2, <4>1 DEF HandlerOn
      <4> QED
        BY <1>2, <4>2 DEF HandlerOwns, HandlerOn
    <3> QED
      BY <3>4, <3>5, <3>8, <3>9, <3>10 DEF TaskInv
  <2> QED
    BY <2>5, <2>6
<1>8. CASE ResumeRecords(w)
  <2>1. /\ thread[w].op = "resume" /\ x \in Sessions /\ Known(x) /\ Marks(x, "open")
        /\ thread' = [thread EXCEPT ![w] = NoCall]
        /\ UNCHANGED <<task, draft>>
    BY <1>0, <1>1, <1>8 DEF ResumeRecords, Returns, CallsWellFormed, KnownInv
  <2>2. /\ \A y \in Sessions : sess'[y].task = sess[y].task
        /\ \A y \in Sessions \ {x} : sess'[y] = sess[y]
        /\ (IsActive(x))'
    BY <1>1, <2>1, Marked DEF IsActive, Active
  <2>3. sess[x].task = t => IsActive(x)
    BY <1>0, <2>1 DEF TaskInv, ResumeOwns
  <2>4. \A y \in Sessions : sess[y].task = t => ((IsActive(y))' <=> IsActive(y))
    BY <2>2, <2>3 DEF IsActive
  <2>5. NoCall.op = "none"
    BY DEF NoCall
  <2> QED
    BY <1>2, <2>1, <2>2, <2>4, <2>5, ThreadElsewhere
<1> QED
  BY <1>3, <1>4, <1>5, <1>6, <1>7, <1>8 DEF ThreadStep


\* A step of the submit or the stop that is under way.
LEMMA HandlerDraft ==
  ASSUME CommonInv, NEW t \in Tasks, ~Mingled(t), TaskInv(t), HandlerStep
  PROVE  (TaskInv(t))'
<1>0. PICK s, u : s = loop.s /\ u = sess[s].task
  OBVIOUS
<1>1. /\ TypeOK /\ CallsWellFormed /\ HandlerWellFormed /\ SessionOwns(t)
      /\ FleetOwns(t) /\ TurnsOwn(t) /\ HandlerOwns(t)
      /\ loop \in [op : {"none", "submit", "stop"}, s : Sessions \cup {None},
                   at : {"idle", "commit", "record", "gate", "accepted",
                         "rejected", "giveback", "remove"}]
  BY DEF CommonInv, SessionTypes, TaskInv, TypeOK
<1>2. loop.op # "none" /\ UNCHANGED <<turns, fleet, thread>>
  <2>1. loop.op \in {"submit", "stop"} \/ loop.at = "remove"
    BY DEF HandlerStep, SubmitRaises, SubmitCommits, SubmitRecords, SubmitGated,
       SubmitConcludes, StopGivesBack, Removes, Submitting
  <2>2. loop.op # "none"
    BY <1>1, <2>1 DEF HandlerWellFormed, NoHandler
  <2>3. UNCHANGED <<turns, fleet, thread>>
    BY DEF HandlerStep, SubmitRaises, SubmitCommits, SubmitRecords, SubmitGated,
       SubmitConcludes, StopGivesBack, Removes, process
  <2> QED
    BY <2>2, <2>3
<1>3. s \in Sessions /\ u \in Tasks
  BY <1>0, <1>1, <1>2 DEF HandlerWellFormed, CommonInv, KnownInv, Known
<1>4. /\ \A v \in Tasks \ {u} : task'[v] = task[v] /\ draft'[v] = draft[v]
      /\ \A x \in Sessions : sess'[x].task = sess[x].task
      /\ \A x \in Sessions \ {s} : sess'[x] = sess[x]
      /\ loop' = NoHandler \/ loop'.s = s
  <2>1. CASE SubmitRaises \/ Removes
    BY <1>0, <1>1, <1>3, <2>1 DEF SubmitRaises, Removes, TypeOK, log
  <2>2. CASE SubmitCommits \/ SubmitGated \/ StopGivesBack
    <3>1. \E at : loop' = [loop EXCEPT !.at = at]
      BY <2>2 DEF SubmitCommits, SubmitGated, StopGivesBack, Proceeds
    <3>2. UNCHANGED <<sess, draft>>
      BY <2>2 DEF SubmitCommits, SubmitGated, StopGivesBack
    <3>3. \A v \in Tasks \ {u} : task'[v] = task[v]
      BY <1>0, <1>1, <1>3, <2>2 DEF SubmitCommits, SubmitGated, StopGivesBack, TypeOK
    <3> QED
      BY <1>0, <1>1, <3>1, <3>2, <3>3
  <2>3. CASE SubmitRecords \/ SubmitConcludes
    <3>1. \E at : loop' = [loop EXCEPT !.at = at]
      BY <2>3 DEF SubmitRecords, SubmitConcludes, Proceeds
    <3>2. UNCHANGED <<task, draft>> /\ \E st : Marks(s, st)
      BY <1>0, <2>3 DEF SubmitRecords, SubmitConcludes
    <3> QED
      BY <1>0, <1>1, <1>3, <3>1, <3>2, Marked
  <2> QED
    BY <2>1, <2>2, <2>3 DEF HandlerStep
<1>5. CASE u # t
  <2>1. ~(HandlerOn(t))'
    BY <1>0, <1>3, <1>4, <1>5 DEF HandlerOn, NoHandler
  <2>2. \A x \in Sessions : sess[x].task = t => ((IsActive(x))' <=> IsActive(x))
    BY <1>0, <1>4, <1>5 DEF IsActive
  <2>3. (TurnsOwn(t))'
    BY <1>1, <1>2, <1>4, <2>2 DEF TurnsOwn
  <2> QED
    BY <1>0, <1>1, <1>2, <1>3, <1>4, <1>5, <2>1, <2>2, <2>3, Elsewhere
       DEF CallsWellFormed
<1>6. CASE u = t
  <2>1. HandlerOn(t)
    BY <1>0, <1>2, <1>6 DEF HandlerOn
  <2>2. /\ t \notin fleet /\ draft[t] = s
        /\ \A x \in Sessions : IsActive(x) /\ sess[x].task = t => x = s
        /\ IsActive(s) <=> loop.op = "submit" /\ loop.at \in {"commit", "record"}
    BY <1>0, <1>1, <2>1 DEF HandlerOwns
  <2>3. \A w \in Threads : ~ThreadOn(w, t)
    BY <2>1 DEF Mingled
  <2>4. (CreateOwns(t))' /\ (ResumeOwns(t))'
    BY <1>1, <1>2, <1>4, <2>3 DEF CreateOwns, ResumeOwns, ThreadOn, CallsWellFormed
  <2>5. turns[s] = {}
    <3>1. turns[s] \subseteq Locking \cup {"supervise"}
      BY <1>1, <1>3 DEF TypeOK
    <3>2. turns[s] \cap Locking = {} /\ "supervise" \notin turns[s]
      BY <1>0, <1>2, <2>1 DEF CommonInv, HandlerAlone, Mingled
    <3> QED
      BY <3>1, <3>2
  <2>6. (TurnsOwn(t))'
    BY <1>1, <1>2, <1>4, <2>5 DEF TurnsOwn, IsActive
  <2>7. (FleetOwns(t))'
    BY <1>2, <2>2 DEF FleetOwns
  <2>8. ASSUME NEW at,
               loop' = [loop EXCEPT !.at = at],
               UNCHANGED draft,
               task'[t] \in {"dispatched", "submitted"} \/ ~(IsActive(s))',
               (IsActive(s))' => IsActive(s),
               (IsActive(s))'
                 <=> loop.op = "submit" /\ at \in {"commit", "record"}
        PROVE  (TaskInv(t))'
    <3>1. \A x \in Sessions : (IsActive(x))' => IsActive(x)
      BY <1>4, <2>8 DEF IsActive
    <3>2. loop'.op = loop.op /\ loop'.s = s /\ loop'.at = at
      BY <1>0, <1>1, <2>8
    <3>3. (SessionOwns(t))'
      BY <1>2, <1>4, <2>2, <2>8, <3>1 DEF SessionOwns
    <3>4. (HandlerOwns(t))'
      BY <1>2, <1>4, <2>2, <2>8, <3>1, <3>2 DEF HandlerOwns
    <3> QED
      BY <2>4, <2>6, <2>7, <3>3, <3>4 DEF TaskInv
  <2>9. CASE SubmitRaises
    <3>1. UNCHANGED <<task, sess, draft>> /\ loop' = NoHandler
      BY <2>9 DEF SubmitRaises, log
    <3>2. (SessionOwns(t))' /\ (HandlerOwns(t))'
      BY <1>1, <1>2, <3>1 DEF SessionOwns, HandlerOwns, HandlerOn, IsActive, NoHandler
    <3> QED
      BY <2>4, <2>6, <2>7, <3>2 DEF TaskInv
  <2>10. CASE Removes
    <3>1. UNCHANGED <<task, sess>> /\ loop' = NoHandler /\ ~IsActive(s)
      BY <2>2, <2>10 DEF Removes, log
    <3>2. (SessionOwns(t))' /\ (HandlerOwns(t))'
      BY <2>2, <3>1 DEF SessionOwns, HandlerOwns, HandlerOn, IsActive, NoHandler
    <3> QED
      BY <2>4, <2>6, <2>7, <3>2 DEF TaskInv
  <2>11. CASE SubmitCommits
    <3>1. /\ loop.op = "submit" /\ loop.at = "commit"
          /\ task' = [task EXCEPT ![t] = "submitted"]
          /\ loop' = [loop EXCEPT !.at = "record"]
          /\ UNCHANGED <<sess, draft>>
      BY <1>0, <1>6, <2>11 DEF SubmitCommits, Submitting, Proceeds
    <3> QED
      BY <1>1, <2>2, <2>8, <3>1 DEF IsActive, TypeOK
  <2>12. CASE SubmitRecords
    <3>1. /\ loop.op = "submit" /\ Marks(s, "submitted")
          /\ loop' = [loop EXCEPT !.at = "gate"]
          /\ UNCHANGED <<task, draft>>
      BY <1>0, <2>12 DEF SubmitRecords, Submitting, Proceeds
    <3>2. ~(IsActive(s))'
      BY <1>1, <1>3, <3>1, Marked DEF IsActive, Active
    <3> QED
      BY <2>8, <3>1, <3>2
  <2>13. CASE SubmitConcludes
    <3>1. PICK verdict \in {"accepted", "rejected"} : Marks(s, verdict)
      BY <1>0, <2>13 DEF SubmitConcludes, Submitting
    <3>2. /\ loop' = [loop EXCEPT !.at = "remove"]
          /\ UNCHANGED <<task, draft>>
      BY <2>13 DEF SubmitConcludes, Proceeds
    <3>3. ~(IsActive(s))'
      BY <1>1, <1>3, <3>1, Marked DEF IsActive, Active
    <3> QED
      BY <2>8, <3>2, <3>3
  <2>14. CASE SubmitGated
    <3>1. loop.op = "submit" /\ loop.at = "gate" /\ UNCHANGED <<sess, draft>>
      BY <2>14 DEF SubmitGated, Submitting
    <3>2. PICK verdict \in {"accepted", "rejected"} :
            loop' = [loop EXCEPT !.at = verdict]
      BY <2>14 DEF SubmitGated, Proceeds
    <3>3. ~(IsActive(s))'
      BY <2>2, <3>1 DEF IsActive
    <3> QED
      BY <2>8, <3>1, <3>2, <3>3
  <2>15. CASE StopGivesBack
    <3>1. /\ loop.op = "stop" /\ loop.at = "giveback"
          /\ loop' = [loop EXCEPT !.at = "remove"]
          /\ UNCHANGED <<sess, draft>>
      BY <2>15 DEF StopGivesBack
    <3>2. ~(IsActive(s))'
      BY <2>2, <3>1 DEF IsActive
    <3> QED
      BY <2>8, <3>1, <3>2
  <2> QED
    BY <2>9, <2>10, <2>11, <2>12, <2>13, <2>14, <2>15 DEF HandlerStep
<1> QED
  BY <1>5, <1>6

\* A step of the orchestration, or a restart.
LEMMA FleetDraft ==
  ASSUME CommonInv, NEW t \in Tasks, ~Mingled(t), TaskInv(t), ~(Mingled(t))',
         FleetStep \/ Crash
  PROVE  (TaskInv(t))'
<1>1. /\ TypeOK /\ CallsWellFormed /\ SessionOwns(t) /\ TurnsOwn(t)
  BY DEF CommonInv, SessionTypes, TaskInv
<1>2. CASE FleetStep
  <2>1. LoopFree /\ UNCHANGED <<sess, turns, loop, thread>>
    BY <1>2 DEF FleetStep, FleetStarts, FleetEnds, FleetTakes, FleetLeaves, log,
       process
  <2>2. (TurnsOwn(t))' /\ ~(HandlerOn(t))'
    BY <1>1, <2>1 DEF TurnsOwn, IsActive, LoopFree, HandlerOn, NoHandler
  <2>3. ASSUME task'[t] = task[t], draft'[t] = draft[t], t \in fleet' <=> t \in fleet
        PROVE  (TaskInv(t))'
    BY <1>1, <2>1, <2>2, <2>3, Elsewhere DEF IsActive, CallsWellFormed
  <2>4. CASE FleetStarts \/ FleetEnds
    BY <2>3, <2>4 DEF FleetStarts, FleetEnds, log
  <2>5. ASSUME NEW u \in Tasks, FleetTakes(u) PROVE (TaskInv(t))'
    <3>1. /\ task[u] = "ready" /\ task' = [task EXCEPT ![u] = "dispatched"]
          /\ fleet' = fleet \cup {u} /\ draft' = [draft EXCEPT ![u] = Fleet]
      BY <2>5 DEF FleetTakes
    <3>2. CASE u # t
      BY <1>1, <2>3, <3>1, <3>2 DEF TypeOK
    <3>3. CASE u = t
      <4>1. \A s \in Sessions : IsActive(s) => sess[s].task # t
        BY <1>1, <3>1, <3>3 DEF SessionOwns
      <4>2. \A w \in Threads : ~(ThreadOn(w, t))'
        BY <3>1, <3>3 DEF Mingled
      <4>3. (SessionOwns(t))' /\ (FleetOwns(t))'
        BY <1>1, <2>1, <3>1, <3>3, <4>1 DEF TypeOK, SessionOwns, FleetOwns, IsActive
      <4>4. (CreateOwns(t))' /\ (ResumeOwns(t))' /\ (HandlerOwns(t))'
        BY <2>2, <4>2 DEF CreateOwns, ResumeOwns, HandlerOwns, ThreadOn
      <4> QED
        BY <2>2, <4>3, <4>4 DEF TaskInv
    <3> QED
      BY <3>2, <3>3
  <2>6. ASSUME NEW u \in Tasks, FleetLeaves(u) PROVE (TaskInv(t))'
    <3>0. PICK status \in TaskStatuses : task' = [task EXCEPT ![u] = status]
      BY <2>6 DEF FleetLeaves
    <3>1. u \in fleet /\ fleet' = fleet \ {u} /\ draft' = [draft EXCEPT ![u] = None]
      BY <2>6 DEF FleetLeaves
    <3>2. CASE u # t
      BY <1>1, <2>3, <3>0, <3>1, <3>2 DEF TypeOK
    <3>3. CASE u = t
      <4>1. \A s \in Sessions : IsActive(s) => sess[s].task # t
        BY <1>1, <3>1, <3>3 DEF SessionOwns
      <4>2. \A w \in Threads : ~ThreadOn(w, t)
        BY <3>1, <3>3 DEF Mingled
      <4>3. (SessionOwns(t))' /\ (FleetOwns(t))'
        BY <2>1, <3>1, <3>3, <4>1 DEF SessionOwns, FleetOwns, IsActive
      <4>4. (CreateOwns(t))' /\ (ResumeOwns(t))' /\ (HandlerOwns(t))'
        BY <2>1, <2>2, <4>2 DEF CreateOwns, ResumeOwns, HandlerOwns, ThreadOn
      <4> QED
        BY <2>2, <4>3, <4>4 DEF TaskInv
    <3> QED
      BY <3>2, <3>3
  <2> QED
    BY <1>2, <2>4, <2>5, <2>6 DEF FleetStep
<1>3. CASE Crash
  <2>1. /\ UNCHANGED <<task, sess, draft>> /\ fleet' = {} /\ loop' = NoHandler
        /\ thread' = [w \in Threads |-> NoCall]
        /\ turns' = [s \in Sessions |-> {}]
    BY <1>3 DEF Crash, log
  <2>2. (HandlerOwns(t))' /\ (TurnsOwn(t))' /\ (FleetOwns(t))'
    BY <2>1 DEF HandlerOwns, HandlerOn, TurnsOwn, FleetOwns, NoHandler
  <2>3. (CreateOwns(t))' /\ (ResumeOwns(t))'
    BY <2>1 DEF CreateOwns, ResumeOwns, NoCall
  <2>4. (SessionOwns(t))'
    BY <1>1, <2>1 DEF SessionOwns, IsActive
  <2> QED
    BY <2>2, <2>3, <2>4 DEF TaskInv
<1> QED
  BY <1>2, <1>3

LEMMA NextDraft ==
  ASSUME CommonInv, DraftInv, [Next]_vars
  PROVE  DraftInv'
<1>1. ASSUME UNCHANGED vars PROVE DraftInv'
  BY <1>1 DEF vars, log, process, DraftInv, TaskInv, Mingled, ThreadOn, HandlerOn,
     SessionOwns, CreateOwns, ResumeOwns, FleetOwns, HandlerOwns, TurnsOwn, IsActive
<1>2. ASSUME Next, NEW t \in Tasks, t \notin mixed' PROVE ~(Mingled(t))' /\ (TaskInv(t))'
  <2>1. mixed' = mixed \cup {u \in Tasks : Mingled(u)}'
    BY <1>2, NextRemembers DEF Remembers
  <2>2. t \notin mixed /\ ~(Mingled(t))'
    BY <1>2, <2>1
  <2>3. ~Mingled(t) /\ TaskInv(t)
    BY <2>2 DEF DraftInv
  <2>4. ASSUME NEW s \in Sessions, TurnStep(s) \/ StopStep(s) \/ SubmitStarts(s)
        PROVE  (TaskInv(t))'
    BY <2>2, <2>3, <2>4, TurnDraft, StopDraft DEF StopStep
  <2> QED
    BY <1>2, <2>2, <2>3, <2>4, ThreadDraft, HandlerDraft, FleetDraft DEF Next
<1> QED
  BY <1>1, <1>2 DEF DraftInv

\* The conjunction that the next theorems draw on.
OwnersInv == CommonInv /\ DraftInv

THEOREM DraftInvariance == Spec => []OwnersInv
<1>1. Init => OwnersInv
  <2>1. Init => KnownInv /\ HandlerAlone
    BY DEF Init, KnownInv, HandlerAlone, NoHandler, NoCall
  <2> QED
    BY <2>1, InitSessionTypes, InitDraft
       DEF OwnersInv, CommonInv, Init, LockInv, LockedForTurn, LockTaken
<1>2. OwnersInv /\ [Next]_vars => OwnersInv'
  <2>1. SessionTypes => TypeOK
    BY DEF SessionTypes
  <2> QED
    BY <2>1, NextSessionTypes, LockNext, AloneNext, KnownNext, NextDraft
       DEF OwnersInv, CommonInv
<1> QED
  BY <1>1, <1>2, PTL DEF Spec

\* "A session owns task execution until submit/stop": a task on which no calls
\* have overlapped has one active session at most, and neither the READY frontier
\* nor the fleet has it meanwhile.
THEOREM SingleOwner == Spec => []OneOwner
<1>1. OwnersInv => OneOwner
  BY DEF OwnersInv, CommonInv, KnownInv, Known, IsActive, Active, Absent, DraftInv,
     TaskInv, SessionOwns, OneOwner
<1> QED
  BY <1>1, DraftInvariance, PTL

\* An active session, after any number of restarts, finds its own draft at the
\* path of its task.
THEOREM OwnDraft == Spec => []DraftIsOwn
<1>1. OwnersInv => DraftIsOwn
  BY DEF OwnersInv, CommonInv, KnownInv, Known, IsActive, Active, Absent, DraftInv,
     TaskInv, SessionOwns, DraftIsOwn, Worktree
<1> QED
  BY <1>1, DraftInvariance, PTL

\* How a step changes the status of a session of an unmixed task.
LEMMA StatusSteps ==
  ASSUME OwnersInv, [Next]_vars, NEW s \in Sessions,
         sess[s].status \in Closed, sess[s].task \notin mixed
  PROVE  sess'[s].status \in Closed
<1>0. PICK t : t = sess[s].task
  OBVIOUS
<1>1. /\ TypeOK /\ HandlerWellFormed /\ CallsWellFormed /\ KnownInv
      /\ t \in Tasks /\ ResumeOwns(t) /\ TurnsOwn(t) /\ ~IsActive(s)
  BY <1>0, Distinct DEF OwnersInv, CommonInv, DraftInv, TaskInv, SessionTypes, KnownInv,
     Known, Absent, Closed, Active, IsActive
<1>2. ASSUME NEW x \in Sessions, NEW st, Marks(x, st), x # s \/ st \in Closed
      PROVE  sess'[s].status \in Closed
  BY <1>1, <1>2, Marked
<1>3. ASSUME NEW w \in Threads, ThreadStep(w) PROVE sess'[s].status \in Closed
  <2>1. CASE CreateRecords(w)
    <3>1. /\ thread[w].op = "create" /\ sess[thread[w].s] = Absent
          /\ \E new : sess' = [sess EXCEPT ![thread[w].s] = new]
      BY <1>1, <2>1 DEF CreateRecords, Creating, KnownInv
    <3>2. thread[w].s # s
      BY <3>1 DEF Absent, Closed
    <3> QED
      BY <1>1, <3>1, <3>2 DEF TypeOK
  <2>2. CASE ResumeRecords(w)
    <3>1. /\ thread[w].op = "resume" /\ thread[w].s \in Sessions
          /\ Marks(thread[w].s, "open")
      BY <1>1, <2>2 DEF ResumeRecords, CallsWellFormed
    <3>2. thread[w].s # s
      BY <1>0, <1>1, <3>1 DEF ResumeOwns
    <3> QED
      BY <1>2, <3>1, <3>2
  <2> QED
    BY <1>3, <2>1, <2>2 DEF ThreadStep, CreateChecks, ResumeChecks,
       CreateDispatches, CreateWorktree, CreateRaises, CreateGivesBack, log
<1>4. ASSUME NEW x \in Sessions, TurnStep(x) \/ StopTimesOut(x)
      PROVE  sess'[s].status \in Closed
  <2>1. CASE LiveBegins(x) \/ RequestStarts(x) \/ SuperviseStarts(x)
    <3>1. IsActive(x) /\ \E st : Marks(x, st)
      BY <2>1 DEF LiveBegins, RequestStarts, SuperviseStarts, Sends
    <3> QED
      BY <1>1, <1>2, <3>1
  <2>2. CASE LiveEnds(x) \/ RequestEnds(x) \/ SuperviseEnds(x) \/ StopTimesOut(x)
    <3>1. turns[x] \ {"scheduled"} # {} /\ \E st : Marks(x, st)
      BY <2>2 DEF LiveEnds, RequestEnds, SuperviseEnds, StopTimesOut
    <3>2. x # s
      BY <1>0, <1>1, <3>1 DEF TurnsOwn
    <3> QED
      BY <1>2, <3>1, <3>2
  <2> QED
    BY <1>4, <2>1, <2>2 DEF TurnStep, LiveStart, LiveRefused, log
<1>5. ASSUME NEW x \in Sessions, StopStep(x) \/ SubmitStarts(x)
      PROVE  sess'[s].status \in Closed
  <2>1. UNCHANGED sess \/ Marks(x, "stopped") \/ StopTimesOut(x)
    BY <1>5 DEF StopStep, StopCancels, StopDirectly, StopResumes, Stops,
       SubmitStarts, log
  <2> QED
    BY <1>2, <1>4, <2>1 DEF Closed
<1>6. CASE HandlerStep
  <2>1. CASE SubmitRecords \/ SubmitConcludes
    <3>1. loop.s \in Sessions
      BY <1>1, <2>1 DEF SubmitRecords, SubmitConcludes, Submitting, HandlerWellFormed
    <3>2. \E st \in Closed : Marks(loop.s, st)
      BY <2>1 DEF SubmitRecords, SubmitConcludes, Submitting, Closed
    <3> QED
      BY <1>2, <3>1, <3>2
  <2> QED
    BY <1>6, <2>1 DEF HandlerStep, SubmitRaises, SubmitCommits, SubmitGated,
       StopGivesBack, Removes, log
<1>7. CASE FleetStep \/ Crash \/ UNCHANGED vars
  BY <1>7 DEF FleetStep, FleetStarts, FleetEnds, FleetTakes, FleetLeaves, Crash,
     vars, log
<1> QED
  BY <1>3, <1>4, <1>5, <1>6, <1>7 DEF Next

\* A closed session of a task on which no calls have overlapped never becomes
\* active again.
THEOREM ClosedStays == Spec => ClosedIsFinal
<1>1. OwnersInv /\ [Next]_vars
        => [\A s \in Sessions :
              sess[s].status \in Closed /\ sess[s].task \notin mixed
                => sess'[s].status \in Closed]_vars
  BY StatusSteps
<1> QED
  BY <1>1, DraftInvariance, PTL DEF Spec, ClosedIsFinal

\* Nothing removes or replaces the worktree of a task while an agent works in it,
\* unless calls have overlapped on the task.
THEOREM WorktreeStays == Spec => WorktreeOutlivesTurns
<1> DEFINE Stays == \A s \in Sessions :
                      turns[s] \ {"scheduled"} # {} /\ sess[s].task \notin mixed =>
                        draft'[sess[s].task] = draft[sess[s].task]
<1>1. OwnersInv /\ [Next]_vars => [Stays]_vars
  <2> SUFFICES ASSUME OwnersInv, [Next]_vars,
                      NEW s \in Sessions, turns[s] \ {"scheduled"} # {},
                      NEW t, t = sess[s].task, t \notin mixed
               PROVE  draft'[t] = draft[t]
    OBVIOUS
  <2>1. /\ TypeOK /\ HandlerWellFormed /\ t \in Tasks /\ Known(s)
    BY DEF OwnersInv, CommonInv, SessionTypes, KnownInv, Known
  <2>2. /\ SessionOwns(t) /\ CreateOwns(t) /\ HandlerOwns(t) /\ TurnsOwn(t)
    BY <2>1 DEF OwnersInv, DraftInv, TaskInv
  <2>3. /\ IsActive(s) /\ t \notin fleet /\ task[t] # "ready"
        /\ \A x \in Sessions : IsActive(x) /\ sess[x].task = t => x = s
    BY <2>2 DEF TurnsOwn, SessionOwns
  <2>4. ASSUME NEW w \in Threads, ThreadStep(w) PROVE draft'[t] = draft[t]
    <3>1. CASE CreateWorktree(w) \/ CreateRaises(w)
      <4>1. thread[w].op = "create"
        BY <3>1 DEF CreateWorktree, CreateRaises, Creating
      <4>2. thread[w].t # t
        BY <2>2, <2>3, <4>1 DEF CreateOwns
      <4>3. \/ draft' = [draft EXCEPT ![thread[w].t] = thread[w].s]
            \/ draft' = [draft EXCEPT ![thread[w].t] = None]
            \/ draft' = draft
        BY <3>1 DEF CreateWorktree, CreateRaises
      <4>4. draft \in [Tasks -> Sessions \cup {Fleet, None}]
        BY <2>1 DEF TypeOK
      <4> QED
        BY <2>1, <4>2, <4>3, <4>4
    <3> QED
      BY <2>4, <3>1 DEF ThreadStep, CreateChecks, ResumeChecks, CreateDispatches,
         CreateRecords, CreateGivesBack, ResumeRecords
  <2>5. CASE HandlerStep
    <3>1. CASE Removes
      <4>1. loop.op # "none" /\ loop.at = "remove" /\ loop.s \in Sessions
        BY <2>1, <3>1 DEF Removes, HandlerWellFormed, NoHandler
      <4>2. sess[loop.s].task # t
        BY <2>2, <2>3, <4>1 DEF HandlerOwns, HandlerOn
      <4>3. draft' = [draft EXCEPT ![sess[loop.s].task] = None]
        BY <3>1 DEF Removes
      <4> QED
        BY <2>1, <4>2, <4>3 DEF TypeOK
    <3> QED
      BY <2>5, <3>1 DEF HandlerStep, SubmitRaises, SubmitCommits, SubmitRecords,
         SubmitGated, SubmitConcludes, StopGivesBack
  <2>6. CASE FleetStep
    BY <2>1, <2>3, <2>6 DEF FleetStep, FleetStarts, FleetEnds, FleetTakes,
       FleetLeaves, TypeOK
  <2>7. ASSUME NEW x \in Sessions, TurnStep(x) \/ StopStep(x) \/ SubmitStarts(x)
        PROVE  UNCHANGED draft
    BY <2>7 DEF TurnStep, LiveStart, LiveBegins, LiveRefused, LiveEnds,
       RequestStarts, RequestEnds, SuperviseStarts, SuperviseEnds,
       StopStep, StopCancels, StopTimesOut, StopDirectly, StopResumes, SubmitStarts
  <2>8. CASE Crash \/ UNCHANGED vars
    BY <2>8 DEF Crash, vars
  <2> QED
    BY <2>4, <2>5, <2>6, <2>7, <2>8 DEF Next
<1> QED
  BY <1>1, DraftInvariance, PTL DEF Spec, WorktreeOutlivesTurns
=============================================================================
