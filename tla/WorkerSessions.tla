--------------------------- MODULE WorkerSessions ---------------------------
(***************************************************************************)
(* Worker sessions (application/sessions.py) as the ARC Workspace serves   *)
(* them (webui/workspace_server.py, turn_supervisor.py, review_routes.py). *)
(*                                                                         *)
(* Two kinds of handler run at once.  The async handlers share one event   *)
(* loop: between two awaits a handler runs alone among them, so `loop`     *)
(* names the submit or stop that is under way.  The sync handlers (open a  *)
(* session, resume one) run in the server's thread pool and take their     *)
(* steps between any two steps of the others.  Agents work in the          *)
(* background: as turns of a session or as runs of the orchestration.      *)
(*                                                                         *)
(* Sessions and tasks are what the event log says of them; locks, turns    *)
(* and handlers live in the process and are lost with it.                  *)
(***************************************************************************)
EXTENDS Naturals, Sequences, FiniteSets

CONSTANTS
  Tasks,         \* tasks without open dependencies
  Sessions,      \* the ids that uuid4 will give to sessions
  Threads,       \* worker threads of the server's pool
  None, Fleet

ASSUME Distinct == None \notin Sessions \cup Tasks /\ Fleet \notin Sessions \cup {None}

VARIABLES
  task,         \* status of each task in the log
  sess,         \* [task, status] of each session in the log
  opened,       \* the sessions in the order of session.created
  draft,        \* whose worktree stands at the path of a task
  turns,        \* sends under way on a session, by their route
  locked,       \* session_locks
  stopping,     \* the stop handler of a session that waits for its turn
  loop,         \* the submit or stop the event loop is in
  integration,  \* integration_lock
  fleet,        \* tasks that the orchestration executes
  thread,       \* what each thread of the pool is doing
  mixed         \* history: tasks on which calls have overlapped, see Mingled

log     == <<task, sess, opened>>
process == <<turns, locked, stopping>>
vars    == <<log, draft, process, loop, integration, fleet, thread, mixed>>

\* What the handlers tell apart: "open" also stands for "failed", which every
\* check of the code treats alike.  No event leads to "needs_input".
Active == {"open", "running"}
Closed == {"submitted", "accepted", "rejected", "stopped"}

\* "completed" also stands for "failed": no handler of this module takes up
\* either.
TaskStatuses == {"ready", "dispatched", "submitted", "completed"}

\* Routes whose turn holds the lock of its session.  "scheduled" is a live
\* turn that create_task has queued and the loop has not begun.
Locking == {"scheduled", "live", "request"}

NoHandler == [op |-> "none", s |-> None, at |-> "idle"]
NoCall    == [op |-> "none", t |-> None, s |-> None, at |-> "idle"]

Absent == [task |-> None, status |-> "none"]

Of(t) == {i \in 1..Len(opened) : sess[opened[i]].task = t}

\* for_task: the youngest session of a task.
Youngest(t, s) == \E i \in Of(t) : opened[i] = s /\ \A j \in Of(t) : j <= i

IsActive(s) == sess[s].status \in Active
Worktree(s) == draft[sess[s].task]

\* turns.active
LiveTurn(s) == turns[s] \cap {"scheduled", "live"} # {}

\* The loop takes a new handler or a background step.
LoopFree == loop = NoHandler

\* A threaded handler starts.
ThreadFree(w) == thread[w] = NoCall

\* A create of the task, or a resume of one of its sessions, is under way.
ThreadOn(w, t) ==
  \/ thread[w].op = "create" /\ thread[w].t = t
  \/ thread[w].op = "resume" /\ sess[thread[w].s].task = t

\* So is the submit or the stop of a session of the task.
HandlerOn(t) == loop.op # "none" /\ sess[loop.s].task = t

\* Calls that the code lets overlap on a task: a threaded handler with
\* another one, with a submit or a stop, or with the fleet; and a supervised
\* turn with a submit or a stop of its session.
Mingled(t) ==
  \/ \E w \in Threads :
       /\ ThreadOn(w, t)
       /\ HandlerOn(t) \/ t \in fleet \/ \E v \in Threads \ {w} : ThreadOn(v, t)
  \/ HandlerOn(t) /\ "supervise" \in turns[loop.s]

\* The last conjunct of every action.
Remembers == mixed' = mixed \cup {t \in Tasks : Mingled(t)'}

Marks(s, status) == sess' = [sess EXCEPT ![s].status = status]

Init ==
  /\ task = [t \in Tasks |-> "ready"]
  /\ sess = [s \in Sessions |-> Absent]
  /\ opened = <<>>
  /\ draft = [t \in Tasks |-> None]
  /\ turns = [s \in Sessions |-> {}]
  /\ locked = [s \in Sessions |-> FALSE]
  /\ stopping = [s \in Sessions |-> "no"]
  /\ loop = NoHandler
  /\ integration = FALSE
  /\ fleet = {}
  /\ thread = [w \in Threads |-> NoCall]
  /\ mixed = {}

-----------------------------------------------------------------------------
(* POST /api/tasks/{id}/sessions: sessions.create, in a thread.            *)

\* The task is READY and its youngest session, if any, is not active.
CreateChecks(w, t) ==
  \E s \in Sessions :
    /\ ThreadFree(w)
    /\ task[t] = "ready"
    /\ \A x \in Sessions : Youngest(t, x) => ~IsActive(x)
    /\ sess[s] = Absent /\ \A v \in Threads : thread[v].s # s
    /\ thread' = [thread EXCEPT ![w] =
                    [op |-> "create", t |-> t, s |-> s, at |-> "dispatch"]]
    /\ UNCHANGED <<log, draft, process, loop, integration, fleet>>
    /\ Remembers

Creating(w, at) == thread[w].op = "create" /\ thread[w].at = at
Goes(w, at)     == thread' = [thread EXCEPT ![w].at = at]
Returns(w)      == thread' = [thread EXCEPT ![w] = NoCall]

\* task.dispatched, whatever the task has become meanwhile.
CreateDispatches(w) ==
  /\ Creating(w, "dispatch")
  /\ task' = [task EXCEPT ![thread[w].t] = "dispatched"]
  /\ Goes(w, "worktree")
  /\ UNCHANGED <<sess, opened, draft, process, loop, integration, fleet>>
  /\ Remembers

\* create_worktree removes what stands at the path of the task.
CreateWorktree(w) ==
  /\ Creating(w, "worktree")
  /\ draft' = [draft EXCEPT ![thread[w].t] = thread[w].s]
  /\ Goes(w, "record")
  /\ UNCHANGED <<log, process, loop, integration, fleet>>
  /\ Remembers

\* session.created
CreateRecords(w) ==
  /\ Creating(w, "record")
  /\ sess' = [sess EXCEPT ![thread[w].s] = [task |-> thread[w].t, status |-> "open"]]
  /\ opened' = Append(opened, thread[w].s)
  /\ Returns(w)
  /\ UNCHANGED <<task, draft, process, loop, integration, fleet>>
  /\ Remembers

\* Compiling the context or preparing the worktree raises; with the worktree
\* in place, it is removed before the task is given back.
CreateRaises(w) ==
  /\ Creating(w, "worktree") \/ Creating(w, "record")
  /\ draft' = IF Creating(w, "record")
              THEN [draft EXCEPT ![thread[w].t] = None] ELSE draft
  /\ Goes(w, "giveback")
  /\ UNCHANGED <<log, process, loop, integration, fleet>>
  /\ Remembers

\* recovery.retry: session setup failed.
CreateGivesBack(w) ==
  /\ Creating(w, "giveback")
  /\ task' = [task EXCEPT ![thread[w].t] = "ready"]
  /\ Returns(w)
  /\ UNCHANGED <<sess, opened, draft, process, loop, integration, fleet>>
  /\ Remembers

(* POST /api/sessions/{id}/resume: sessions.resume, in a thread.           *)

\* Bug: a closed session can be resumed.
ResumeChecks_AnyStatus(w, s) ==
  /\ ThreadFree(w)
  /\ sess[s] # Absent /\ ~LiveTurn(s) /\ Worktree(s) # None
  /\ thread' = [thread EXCEPT ![w] =
                  [op |-> "resume", t |-> None, s |-> s, at |-> "record"]]
  /\ UNCHANGED <<log, draft, process, loop, integration, fleet>>
  /\ Remembers

ResumeChecks(w, s) ==
  /\ ThreadFree(w)
  /\ ~LiveTurn(s)
  /\ IsActive(s) /\ Worktree(s) # None
  /\ thread' = [thread EXCEPT ![w] =
                  [op |-> "resume", t |-> None, s |-> s, at |-> "record"]]
  /\ UNCHANGED <<log, draft, process, loop, integration, fleet>>
  /\ Remembers

\* session.resumed
ResumeRecords(w) ==
  /\ thread[w].op = "resume"
  /\ Marks(thread[w].s, "open")
  /\ Returns(w)
  /\ UNCHANGED <<task, opened, draft, process, loop, integration, fleet>>
  /\ Remembers

-----------------------------------------------------------------------------
(* Turns.                                                                  *)

\* sessions.send up to its agent: what it checks, and session.turn_started.
Sends(s, kind) ==
  /\ IsActive(s) /\ Worktree(s) # None
  /\ turns' = [turns EXCEPT ![s] = {kind} \cup
                  IF kind = "live" THEN @ \ {"scheduled"} ELSE @]
  /\ Marks(s, "running")

\* Bug: a live turn looks for live turns only, and not at the lock.
LiveStart_BesideRequests(s) ==
  /\ LoopFree
  /\ ~LiveTurn(s)
  /\ IsActive(s) /\ sess[s].status # "running"
  /\ turns' = [turns EXCEPT ![s] = @ \cup {"scheduled"}]
  /\ locked' = [locked EXCEPT ![s] = TRUE]
  /\ UNCHANGED <<log, draft, stopping, loop, integration, fleet, thread>>
  /\ Remembers

\* POST .../turn: LiveTurnSupervisor.start.
LiveStart(s) ==
  /\ LoopFree
  /\ ~LiveTurn(s) /\ ~locked[s]
  /\ IsActive(s) /\ sess[s].status # "running"
  /\ turns' = [turns EXCEPT ![s] = @ \cup {"scheduled"}]
  /\ locked' = [locked EXCEPT ![s] = TRUE]
  /\ UNCHANGED <<log, draft, stopping, loop, integration, fleet, thread>>
  /\ Remembers

LiveBegins(s) ==
  /\ LoopFree
  /\ "scheduled" \in turns[s]
  /\ Sends(s, "live")
  /\ UNCHANGED <<task, opened, draft, locked, stopping, loop,
                 integration, fleet, thread>>
  /\ Remembers

\* The finally clause of the supervisor's run().
Unlocks(s) ==
  /\ locked' = [locked EXCEPT ![s] = FALSE]
  /\ stopping' = [stopping EXCEPT ![s] = IF @ = "waits" THEN "woken" ELSE @]

\* The session is closed, or its worktree gone: send raises before the agent.
LiveRefused(s) ==
  /\ LoopFree
  /\ "scheduled" \in turns[s]
  /\ ~(IsActive(s) /\ Worktree(s) # None)
  /\ turns' = [turns EXCEPT ![s] = @ \ {"scheduled"}]
  /\ Unlocks(s)
  /\ UNCHANGED <<log, draft, loop, integration, fleet, thread>>
  /\ Remembers

\* Bug: a turn that raises before its try statement keeps the lock.
LiveEnds_RaiseKeepsLock(s) ==
  \E end \in {"open", "running"} :
    /\ LoopFree
    /\ "live" \in turns[s]
    /\ turns' = [turns EXCEPT ![s] = @ \ {"live"}]
    /\ Marks(s, end)
    /\ IF end = "running" THEN UNCHANGED <<locked, stopping>> ELSE Unlocks(s)
    /\ UNCHANGED <<task, opened, draft, loop, integration, fleet, thread>>
    /\ Remembers

\* The agent is done: turn_finished, turn_cancelled when it saw the signal of a
\* stop or of POST .../turn/cancel, or failed.  What send raises between
\* turn_started and its try statement leaves the session running.
LiveEnds(s) ==
  \E end \in {"open", "running"} :
    /\ LoopFree
    /\ "live" \in turns[s]
    /\ turns' = [turns EXCEPT ![s] = @ \ {"live"}]
    /\ Marks(s, end)
    /\ Unlocks(s)
    /\ UNCHANGED <<task, opened, draft, loop, integration, fleet, thread>>
    /\ Remembers

\* POST .../messages and .../apply: a turn inside a locked request.
RequestStarts(s) ==
  /\ LoopFree
  /\ ~locked[s]
  /\ Sends(s, "request")
  /\ locked' = [locked EXCEPT ![s] = TRUE]
  /\ UNCHANGED <<task, opened, draft, stopping, loop, integration,
                 fleet, thread>>
  /\ Remembers

RequestEnds(s) ==
  \E end \in {"open", "running"} :
    /\ LoopFree
    /\ "request" \in turns[s]
    /\ turns' = [turns EXCEPT ![s] = @ \ {"request"}]
    /\ Marks(s, end)
    /\ locked' = [locked EXCEPT ![s] = FALSE]
    /\ UNCHANGED <<task, opened, draft, stopping, loop, integration,
                   fleet, thread>>
    /\ Remembers

\* POST /api/reviews/supervise: a turn outside the lock.
SuperviseStarts(s) ==
  /\ LoopFree
  /\ \A x \in Sessions : "supervise" \notin turns[x]
  /\ Sends(s, "supervise")
  /\ UNCHANGED <<task, opened, draft, locked, stopping, loop,
                 integration, fleet, thread>>
  /\ Remembers

SuperviseEnds(s) ==
  \E end \in {"open", "running"} :
    /\ LoopFree
    /\ "supervise" \in turns[s]
    /\ turns' = [turns EXCEPT ![s] = @ \ {"supervise"}]
    /\ Marks(s, end)
    /\ UNCHANGED <<task, opened, draft, locked, stopping, loop,
                   integration, fleet, thread>>
    /\ Remembers

-----------------------------------------------------------------------------
(* POST .../stop                                                           *)

\* A live turn is cancelled first: turns.cancel(wait=True).
StopCancels(s) ==
  /\ LoopFree
  /\ LiveTurn(s) /\ stopping[s] = "no"
  /\ stopping' = [stopping EXCEPT ![s] = "waits"]
  /\ UNCHANGED <<log, draft, turns, locked, loop, integration, fleet, thread>>
  /\ Remembers

\* Bug: after six seconds the agent is only asked again.
StopTimesOut_AsksAgain(s) ==
  /\ LoopFree
  /\ stopping[s] = "waits" /\ "live" \in turns[s]
  /\ UNCHANGED <<log, draft, turns, locked, stopping, loop, integration, fleet,
                 thread>>
  /\ Remembers

\* Six seconds later: task.cancel(), and session.turn_cancelled.
StopTimesOut(s) ==
  /\ LoopFree
  /\ stopping[s] = "waits" /\ "live" \in turns[s]
  /\ turns' = [turns EXCEPT ![s] = @ \ {"live"}]
  /\ Marks(s, "open")
  /\ Unlocks(s)
  /\ UNCHANGED <<task, opened, draft, loop, integration, fleet, thread>>
  /\ Remembers

\* sessions.stop: session.stopped, unless the session is closed already.
Stops(s) ==
  IF IsActive(s)
  THEN Marks(s, "stopped") /\ loop' = [op |-> "stop", s |-> s, at |-> "giveback"]
  ELSE UNCHANGED <<sess, loop>>

StopDirectly(s) ==
  /\ LoopFree
  /\ sess[s] # Absent
  /\ ~LiveTurn(s) /\ ~locked[s]
  /\ Stops(s)
  /\ UNCHANGED <<task, opened, draft, process, integration, fleet, thread>>
  /\ Remembers

\* Bug: the lock is not looked at again after the wait.
StopResumes_Unlocked(s) ==
  /\ LoopFree
  /\ stopping[s] = "woken"
  /\ stopping' = [stopping EXCEPT ![s] = "no"]
  /\ Stops(s)
  /\ UNCHANGED <<task, opened, draft, turns, locked, integration,
                 fleet, thread>>
  /\ Remembers

\* The turn is over; another request may have the session by now: 409.
StopResumes(s) ==
  /\ LoopFree
  /\ stopping[s] = "woken"
  /\ stopping' = [stopping EXCEPT ![s] = "no"]
  /\ IF locked[s] THEN UNCHANGED <<sess, loop>> ELSE Stops(s)
  /\ UNCHANGED <<task, opened, draft, turns, locked, integration,
                 fleet, thread>>
  /\ Remembers

\* recovery.retry
StopGivesBack ==
  /\ loop.op = "stop" /\ loop.at = "giveback"
  /\ LET t == sess[loop.s].task IN
       task' = IF task[t] \in {"dispatched", "submitted"}
               THEN [task EXCEPT ![t] = "ready"] ELSE task
  /\ loop' = [loop EXCEPT !.at = "remove"]
  /\ UNCHANGED <<sess, opened, draft, process, integration, fleet, thread>>
  /\ Remembers

\* remove_worktree, the last step of stop and of submit.
Removes ==
  /\ loop.at = "remove"
  /\ draft' = [draft EXCEPT ![sess[loop.s].task] = None]
  /\ integration' = IF loop.op = "submit" THEN FALSE ELSE integration
  /\ loop' = NoHandler
  /\ UNCHANGED <<log, process, fleet, thread>>
  /\ Remembers

-----------------------------------------------------------------------------
(* POST .../submit                                                         *)

\* Bug: nor is the integration lock.
SubmitStarts_WhileIntegrating(s) ==
  /\ LoopFree
  /\ ~locked[s]
  /\ IsActive(s) /\ Worktree(s) # None
  /\ integration' = TRUE
  /\ loop' = [op |-> "submit", s |-> s, at |-> "commit"]
  /\ UNCHANGED <<log, draft, process, fleet, thread>>
  /\ Remembers

SubmitStarts(s) ==
  /\ LoopFree
  /\ ~integration /\ ~locked[s]
  /\ IsActive(s) /\ Worktree(s) # None
  /\ integration' = TRUE
  /\ loop' = [op |-> "submit", s |-> s, at |-> "commit"]
  /\ UNCHANGED <<log, draft, process, fleet, thread>>
  /\ Remembers

Submitting(at) == loop.op = "submit" /\ loop.at = at
Proceeds(at)   == loop' = [loop EXCEPT !.at = at]

\* Bug: a submit that raises gives the task back, and its session stays open.
SubmitRaises_GivesBack ==
  /\ Submitting("commit")
  /\ integration' = FALSE
  /\ loop' = NoHandler
  /\ task' = [task EXCEPT ![sess[loop.s].task] = "ready"]
  /\ UNCHANGED <<sess, opened, draft, process, fleet, thread>>
  /\ Remembers

\* Bug: the finally clause removes the worktree whatever came out.
SubmitRaises_RemovesDraft ==
  /\ Submitting("commit")
  /\ integration' = FALSE
  /\ loop' = NoHandler
  /\ draft' = [draft EXCEPT ![sess[loop.s].task] = None]
  /\ UNCHANGED <<log, process, fleet, thread>>
  /\ Remembers

\* A lease is refused, or there is nothing to commit; later, the gate or the
\* memory of an accepted task raises, and the session stays submitted.
SubmitRaises ==
  /\ Submitting("commit") \/ Submitting("gate") \/ Submitting("accepted")
  /\ integration' = FALSE
  /\ loop' = NoHandler
  /\ UNCHANGED <<log, draft, process, fleet, thread>>
  /\ Remembers

\* commit_candidate in the worktree at the path of the task; task.submitted.
SubmitCommits ==
  /\ Submitting("commit")
  /\ task' = [task EXCEPT ![sess[loop.s].task] = "submitted"]
  /\ Proceeds("record")
  /\ UNCHANGED <<sess, opened, draft, process, integration, fleet, thread>>
  /\ Remembers

\* session.submitted
SubmitRecords ==
  /\ Submitting("record")
  /\ Marks(loop.s, "submitted")
  /\ Proceeds("gate")
  /\ UNCHANGED <<task, opened, draft, process, integration, fleet, thread>>
  /\ Remembers

\* The gate: gate.accepted; or gate.rejected and recovery.retry or .escalate,
\* which leaves the task submitted.
SubmitGated ==
  /\ Submitting("gate")
  /\ \E verdict \in {"accepted", "rejected"} :
       /\ LET t == sess[loop.s].task IN
            \/ verdict = "accepted" /\ task' = [task EXCEPT ![t] = "completed"]
            \/ verdict = "rejected" /\ task' = [task EXCEPT ![t] = "ready"]
            \/ verdict = "rejected" /\ task' = task
       /\ Proceeds(verdict)
  /\ UNCHANGED <<sess, opened, draft, process, integration, fleet, thread>>
  /\ Remembers

\* session.accepted or session.rejected
SubmitConcludes ==
  /\ Submitting("accepted") \/ Submitting("rejected")
  /\ Marks(loop.s, loop.at)
  /\ Proceeds("remove")
  /\ UNCHANGED <<task, opened, draft, process, integration, fleet, thread>>
  /\ Remembers

-----------------------------------------------------------------------------
(* POST /api/orchestration/run; Execution.tla has the runs in detail.      *)

FleetStarts ==
  /\ LoopFree
  /\ ~integration
  /\ integration' = TRUE
  /\ UNCHANGED <<log, draft, process, loop, fleet, thread>>
  /\ Remembers

\* task.dispatched and a worktree of its own, up to the agent.
FleetTakes(t) ==
  /\ LoopFree
  /\ integration /\ task[t] = "ready"
  /\ fleet' = fleet \cup {t}
  /\ task' = [task EXCEPT ![t] = "dispatched"]
  /\ draft' = [draft EXCEPT ![t] = Fleet]
  /\ UNCHANGED <<sess, opened, process, loop, integration, thread>>
  /\ Remembers

\* The agent is done: failed, stuck, gated; the worktree is removed.
FleetLeaves(t) ==
  /\ LoopFree
  /\ t \in fleet
  /\ \E status \in TaskStatuses : task' = [task EXCEPT ![t] = status]
  /\ fleet' = fleet \ {t}
  /\ draft' = [draft EXCEPT ![t] = None]
  /\ UNCHANGED <<sess, opened, process, loop, integration, thread>>
  /\ Remembers

FleetEnds ==
  /\ LoopFree
  /\ integration /\ fleet = {}
  /\ integration' = FALSE
  /\ UNCHANGED <<log, draft, process, loop, fleet, thread>>
  /\ Remembers

-----------------------------------------------------------------------------
\* The server dies; the log and the worktrees survive it.
Crash ==
  /\ turns' = [s \in Sessions |-> {}]
  /\ locked' = [s \in Sessions |-> FALSE]
  /\ stopping' = [s \in Sessions |-> "no"]
  /\ loop' = NoHandler
  /\ integration' = FALSE
  /\ fleet' = {}
  /\ thread' = [w \in Threads |-> NoCall]
  /\ UNCHANGED <<log, draft>>
  /\ Remembers

ThreadStep(w) ==
  \/ \E t \in Tasks : CreateChecks(w, t)
  \/ \E s \in Sessions : ResumeChecks(w, s)
  \/ CreateDispatches(w) \/ CreateWorktree(w) \/ CreateRecords(w)
  \/ CreateRaises(w) \/ CreateGivesBack(w) \/ ResumeRecords(w)

TurnStep(s) ==
  \/ LiveStart(s) \/ LiveBegins(s) \/ LiveRefused(s) \/ LiveEnds(s)
  \/ RequestStarts(s) \/ RequestEnds(s)
  \/ SuperviseStarts(s) \/ SuperviseEnds(s)

StopStep(s) ==
  StopCancels(s) \/ StopTimesOut(s) \/ StopDirectly(s) \/ StopResumes(s)

HandlerStep ==
  \/ SubmitRaises \/ SubmitCommits \/ SubmitRecords \/ SubmitGated
  \/ SubmitConcludes \/ StopGivesBack \/ Removes

FleetStep ==
  FleetStarts \/ FleetEnds \/ \E t \in Tasks : FleetTakes(t) \/ FleetLeaves(t)

Next ==
  \/ \E w \in Threads : ThreadStep(w)
  \/ \E s \in Sessions : TurnStep(s) \/ StopStep(s) \/ SubmitStarts(s)
  \/ HandlerStep
  \/ FleetStep
  \/ Crash

Spec == Init /\ [][Next]_vars

-----------------------------------------------------------------------------
(* Fairness: the event loop runs what it can run.  Agents owe nothing: what *)
(* ends a turn that hangs is the six seconds of a stop.                    *)

Fairness(s) ==
  /\ WF_vars(HandlerStep)
  /\ SF_vars(LiveBegins(s) \/ LiveRefused(s) \/ StopTimesOut(s))
  /\ SF_vars(StopResumes(s))

-----------------------------------------------------------------------------
TypeOK ==
  /\ task \in [Tasks -> TaskStatuses]
  /\ sess \in [Sessions -> [task : Tasks \cup {None},
                            status : Active \cup Closed \cup {"none"}]]
  /\ opened \in Seq(Sessions)
  /\ draft \in [Tasks -> Sessions \cup {Fleet, None}]
  /\ turns \in [Sessions -> SUBSET (Locking \cup {"supervise"})]
  /\ locked \in [Sessions -> BOOLEAN]
  /\ stopping \in [Sessions -> {"no", "waits", "woken"}]
  /\ loop \in [op : {"none", "submit", "stop"}, s : Sessions \cup {None},
               at : {"idle", "commit", "record", "gate", "accepted", "rejected",
                     "giveback", "remove"}]
  /\ integration \in BOOLEAN
  /\ fleet \in SUBSET Tasks
  /\ thread \in [Threads ->
       [op : {"none", "create", "resume"}, t : Tasks \cup {None},
        s : Sessions \cup {None},
        at : {"idle", "dispatch", "worktree", "record", "giveback"}]]
  /\ mixed \in SUBSET Tasks

\* "A session owns task execution until submit/stop ... preventing fleet
\* execution from racing the interactive worker" (sessions.py:214): the task of
\* an active session is off the READY frontier and the fleet does not execute it.
SessionOwnsTask ==
  \A s \in Sessions : IsActive(s) =>
    /\ task[sess[s].task] \in {"dispatched", "submitted"}
    /\ sess[s].task \notin fleet

\* A task has one owner, whatever the pool, the loop and the fleet do at the same
\* time to other tasks, and over restarts: at most one active session, and while
\* it has one it is neither READY nor with the fleet.  A task loses this only
\* when calls have overlapped on that very task.
OneOwner ==
  \A s \in Sessions : IsActive(s) /\ sess[s].task \notin mixed =>
    /\ \A x \in Sessions : IsActive(x) /\ sess[x].task = sess[s].task => x = s
    /\ task[sess[s].task] \in {"dispatched", "submitted"}
    /\ sess[s].task \notin fleet

\* "the worktree is the durable draft workspace" (sessions.py:5): an active
\* session, also after a restart, finds its own draft at the path of its task,
\* unless calls have overlapped on that task.
DraftIsOwn ==
  \A s \in Sessions : IsActive(s) /\ sess[s].task \notin mixed => Worktree(s) = s

\* "conflicting operations cannot race the same draft worktree"
\* (README.md:462): one agent at a time edits the draft of a session, and none
\* while the candidate is committed and gated or the session is stopped.
OneTurn ==
  \A s \in Sessions :
    /\ Cardinality(turns[s] \ {"scheduled"}) <= 1
    /\ loop.s = s => turns[s] = {}

\* What the lock does guarantee, under every interleaving: of the turns that take
\* it one at a time edits a draft, and none while the candidate is committed and
\* gated or the session is stopped.  Only a supervised turn can break in.
TurnsTakeTurns ==
  \A s \in Sessions :
    /\ Cardinality(turns[s] \ {"scheduled", "supervise"}) <= 1
    /\ loop.s = s => turns[s] \subseteq {"supervise"}

\* A lock is held for exactly as long as a turn that took it: the failure, the
\* cancellation and the refusal of a turn all give it back, and none gives back
\* the lock of another.
LockedForTurn ==
  \A s \in Sessions : locked[s] <=> turns[s] \cap Locking # {}

\* One thing integrates at a time (integration_lock): the gate of a session
\* never runs while the orchestration has agents or gates under way.
IntegratesAlone ==
  /\ loop.op = "submit" => fleet = {}
  /\ fleet # {} => integration

\* "Accepted/rejected submissions are immutable" (sessions.py:634), and a
\* stopped worker is gone: a closed session never becomes active again, unless
\* calls have overlapped on its task (a resume that was checked before a stop is
\* recorded after it).
ClosedIsFinal ==
  [][\A s \in Sessions :
       sess[s].status \in Closed /\ sess[s].task \notin mixed
         => sess'[s].status \in Closed]_vars

\* "ARC will not intentionally delete the worktree underneath a provider process
\* tree it is supervising" (LIVE_TURNS.md): while an agent works for a session,
\* nothing removes or replaces its worktree, unless calls have overlapped on
\* its task.
WorktreeOutlivesTurns ==
  [][\A s \in Sessions :
       turns[s] \ {"scheduled"} # {} /\ sess[s].task \notin mixed
         => draft'[sess[s].task] = draft[sess[s].task]]_vars

=============================================================================
