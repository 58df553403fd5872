# ARC in TLA+

ARC (adaptive agent runtime) executes a project's tasks with coding agents.
An agent works in a git worktree of its own; what it leaves behind becomes a
candidate commit, and one integration gate decides whether the candidate
lands on the integration branch. Everything the system knows about tasks,
leases, sessions, reviews and memories it derives from an append-only event
log (`state/events.py`). This directory models that runtime and the harness
that evaluates it, checks the models with TLC on small instances, and proves
the central results with TLAPS for every value of the constants.

Paths below are relative to `src/`. `PROJECT.json` has the line numbers that
each definition translates, the runs, their mutants, the hazards and the
theorems.

## 1. Inventory

| Part | State it keeps | Operations | Hard behaviour | What makes it correct |
|---|---|---|---|---|
| Event store `state/events.py` | the log (SQLite), snapshots | append, read_after, replay | several processes and threads append; a crash between two appends | events are atomic and ordered; state is a function of the log |
| Task DAG `state/projection.py` | status, attempts, dependencies per task | apply(event) | every event overwrites the status without a guard | a task starts only after its dependencies landed |
| Lease manager `runtime/leases.py` | active lease per file surface; fencing counter in memory | request, release | refusals are events, too; counter after a restart; failure in the middle of an acquisition | tokens grow; holders exclude each other; nothing leaks |
| Orchestrator `runtime/orchestrator.py`, `scheduler.py` | a run per task: lease ids, snapshot of the task, worktree | execute_task, create_task, dispatch | runs interleave at their agents; every await, exception and crash | every way out gives back what was taken |
| Integration gate `runtime/gate.py` | verification worktree, integration branch | evaluate_submission | other candidates land meanwhile; git fails after the merge; crash between merge and event | what lands was verified on what it lands on; log and branch agree; work over changed inputs is refused |
| Recovery `runtime/recovery.py` | attempt counts (log) | handle_failure | the count is read before the dispatch increments it | retries are bounded |
| Orchestration engine `application/orchestration.py` | rounds, batch | run_until_idle | READY tasks that are refused every round; load and files of a batch | batches do not collide; a request ends |
| Planner and router `application/planner.py`, `routing.py`, `agents.py` | none | plan, compact, route, doctor | compaction at the bound; a mock where no agent is available | the plan is a DAG over all the files; no fake work |
| Budgets `runtime/budgets.py` | consumption per task and project (log) | can_spend, record_consumption | check and record are an agent apart | overspending is bounded |
| Context compiler `context/` | context packages | compile, rank, pack, staleness | token budget, boundary values | packed context fits; stale work is refused |
| Memory plane `memory/`, `indexes/lexical.py`, `vectors.py` | rows, events and indexes in three places | process_event, save, maintain, rebuild, retrieve | crash between the commits; conflicts; rebuild; indexes that lag | rebuild reproduces what the log says; active knowledge is consistent |
| Mission Control `webui/server.py`, `application/app.py` | execution lock | run, orchestrate, create, retry, cancel | operator commands read, then append, in threads, while runs go on | a completion is not lost to a run or a restart |
| Worker sessions `application/sessions.py`, `runtime_sessions.py` | session status (log), draft worktree per task | create, resume, send, submit, stop | read-then-append in pool threads; worktree path shared by the sessions of a task | one owner per task; the draft survives until its session ends |
| Workspace server `webui/workspace_server.py`, `turn_supervisor.py`, `review_routes.py` | session locks, integration lock, live turns, cancel flags | turn, message, cancel, stop, submit, supervise, orchestrate | stop waits for a turn that may end, time out or never return | one turn per session; locks neither leak nor are stolen |
| Provider process `adapters/cli_process.py` | process group, pipes | run turn, cancel, terminate | pipes that fill or stay open, cancel while spawning, helpers that leave the group | a stopped turn ends and leaves no process |
| Worker runtime `application/worker_runtime.py`, `runtime/tmux.py`, `tmux_bootstrap.py` | started/stopped events, tmux sessions, environment files | preview, terminal, stop | log and tmux disagree after a crash; who unlinks the environment file | nothing is deleted under a runtime that ARC knows |
| Review loop `application/reviews.py`, `integrations/github_cli.py` | review status, pending feedback (log), pull request | publish, sync, apply_latest, supervise_once | crash between sending feedback and recording it; late snapshots | feedback is neither lost nor swallowed |
| Evaluation campaign `eval/campaigns/`, `eval/runners/`, `eval/studies/` | frozen plans, attempt ledger, studies, evidence | freeze, execute, run-plan, export, meta, finalize | interrupted or killed commands; a machine that drifts; plans replaced meanwhile | a success is whole and final; no turn is hidden; orders are balanced; claims have the right sign |
| Agent Bridge `integrations/agent_bridge.py`, `application/bridge_collaboration.py` | cursor, recorded events | observe, replay | replay after a restart | an event is recorded once |
| Verification, symbol and dependency indexes, auth, configuration, CLI, TUI, replay | files | commands, scans, formatting | none of their own | - |

How they interact. The servers' async handlers share one event loop; sync
handlers run in a thread pool, each with an event store of its own. The log
(SQLite, one transaction per append) is the only state that threads and
processes share, next to the git repository. Mission Control runs executions
under an execution lock; an execution takes leases, dispatches, awaits its
agent, submits to the gate, and gives everything back in a finally clause. The
Workspace serves interactive sessions beside `POST /api/orchestrate`; the two
meet at the task's status, at the worktree path of the task, and at the
integration lock. A session's turn is a provider process; beside it, tmux may
have a terminal and a preview in the same worktree, and GitHub a pull request
whose feedback comes back as further turns. After `gate.accepted`, memory is
fed; before a run, the context compiler reads it. The evaluation campaign runs
all of this as a black box, in child processes of its own.

## 2. Modules

| Module | Models | Shape |
|---|---|---|
| `Leases` | lease protocol at the granularity of single events | state machine; a run acquires its surfaces one request at a time |
| `TaskGraph` | statuses and readiness | operators (`Becomes`, `Promote`) shared by the modules above it |
| `Execution` | one run of `execute_task` with gate and recovery | actions, no Init; one step per event appended |
| `MissionControl` | server, engine, operators, crashes | composes `Execution`; Init, Next, Spec, FairSpec, properties |
| `Ledger` | abstract: work lands after its dependencies and stays landed | implemented by `MissionControl` (`KeepsLedger`) |
| `WorkerSessions` | sessions, live turns, locks, the Workspace's handlers, fleet | state machine |
| `Processes` | provider processes of live turns, terminal and preview, stop and close | state machine, below the turns of `WorkerSessions` |
| `ReviewLoop` | publish, sync, apply, supervise against a changing GitHub | state machine |
| `MemoryPlane` | candidates, gate, conflicts, saves, maintenance, rebuild, retrieval | state machine over a growing log |
| `Planning`, `Routing`, `ContextPackets` | planner, router and doctor, packing and staleness | operators |
| `Dispatch` | from an objective to what lands: plan, batches, budget, packets, staleness | composes the three above |
| `StudySchedule` | crossover schedule, meta effect, orientation of a claim | operators |
| `Campaign` | freeze, attempts, studies, export, meta, finalize; drift, signals, crashes | composes `StudySchedule` |
| `MC*` | instances for TLC | constants and symmetry |
| `Leases_proofs`, `MissionControl_proofs`, `WorkerSessions_proofs`, `ReviewLoop_proofs`, `Processes_proofs`, `MemoryPlane_proofs`, `Dispatch_proofs`, `Campaign_proofs` | theorems | TLAPS |

**Leases.** `lease[r]` is what `LeaseProjector` has for a surface, `highest` the
largest token of the log, `counter` the manager's counter in memory, and
`held[t]` the lease ids that the coroutine of task `t` has in its list. A run
asks for its sorted surfaces one by one (`RequestGranted`, `RequestRejected`),
awaits its agent, and releases (`Release`, `Finish`). `contested` is a history
variable: surfaces on which a request was refused or that two runs of one agent
have shared. `Crash` loses `counter` and `held`, and keeps the log.

**Execution / MissionControl.** `pc[t]` is where the coroutine is; `loop` names
the coroutine that has the event loop, which it gives up only at its agent:
between begin and await, and between await and end, no other coroutine moves,
but operator threads and a crash can come between any two events. `branch` is
what the gate merged: for each commit its task and the length of the branch it
was verified on; `accepted` are the `gate.accepted` events. Operators'
commands are two steps, `ReadTask` and `Append*`, because app.py checks the
status in one transaction and appends in the next. In `Execution` the
acquisition of a run's leases is one step (no other request can come between:
the loop is not given up), whose refinement into requests is `Leases`.

**WorkerSessions.** `task`, `sess`, `opened` are the log; `draft[t]` tells whose
worktree stands at the path of task `t`; `turns`, `locked`, `cancelled`,
`stopping`, `loop`, `integration`, `thread` are process state and vanish in
`Crash`. `loop` names the submit or stop handler that is between two of its
transactions. The threaded handlers (`create`, `resume`) are split at every
transaction. With `Interleaved = FALSE` they are served without interruption
(one client after the other); with `TRUE` anything may happen in between.
`Supervising` enables the route that applies review feedback.

**Processes.** `turn.at` is where `run_prompt` is: launch, prompt, waiting for
exit, cancel event and timeout, terminating, draining. `group`, `away` and
`pipe` are sets of processes that the operating system changes at will: a
provider forks into its group or out of it, keeps the pipes or not, exits when
it likes. `stop` is a stop route that waits for the turn, and after six seconds
cancels its task. `tmux`, `handoff` and `log` are what tmux owns, the file
that hands an environment to it, and what the log knows. The handlers of a runtime do not
await, but the server may die between any two of their steps.

**ReviewLoop.** `github` is the pull request, which changes when it likes;
`review` the fold over the log (`ReviewState`): linked, last snapshot, the
feedback found in it, pending or not, the feedback last applied. A `call` is
a route or a supervisor between two steps; a process runs one call at a time
except while a turn is awaited. `given` is a history variable: the feedback a
worker has been sent.

**MemoryPlane.** `log` grows by the events memories come from; `rows`, `lexical` and
`vector` are the table and the two indexes; `job` is the save under way, whose
three steps (row, index, event) a crash may separate. `torn` and `revived`
remember which memories a crash has separated.

**Dispatch.** `plan` is what `Compacted(Decomposed(...))` makes of declared files;
`run[i]` goes from routed to working to landed, stale, failed. `charged` is
what sessions have spent without asking. The router, the doctor, the packing
and the staleness score are evaluated as the code does, in scaled integers.

**Campaign.** `ledger[a]` is the attempt's file, `study[a][r]` what is on disk for a
repository, `job[a]` the command under way, `meta` and `evidence` the files of
the last two stages. `machine` and `frozen` change under the feet of an operator.

## 3. Runs

| Run | Instance | Question |
|---|---|---|
| `leases_runs` | 3 tasks on surfaces {1,2}, {2}, {1,2}; 2 agents; 1 restart; `FairSpec` | Do tokens unmask each stale holder, does exclusion hold on uncontested surfaces, do runs end? |
| `leases_exclusive` (violation) | 2 tasks, 1 surface, 2 agents, no crash | Can two agents rely on one file? Yes: a refusal ends the lease of its holder. |
| `mission_operators` | 2 tasks (t3 after t1), 2 operator threads, a git fault, a crash | Does the server still implement `Ledger`, do log and branch agree, and who can undo a completion? |
| `mission_unattended` | 3 tasks, 2 agents, the code's retry limit 2, a crash, `FairSpec` | Do runs own their leases, is all work verified on its parent, are retries bounded, does a request end? |
| `sessions_atomic` | 2 tasks, 3 sessions, live and blocking turns, stop, submit, fleet, crash; threaded handlers uninterrupted | One owner per task, drafts kept, closed stays closed, nothing deleted under an agent? |
| `sessions_threads` | 2 tasks, 1 session, a pool thread between any two steps, supervised turns, crash, `FairSpec` | Do locks neither leak nor get stolen, is integration exclusive, is a stop answered? |
| `sessions_supervise` (violation) | 1 task, 2 sessions | Do supervised turns share the worker lock? No. |
| `processes` | 2 process ids, 2 turns, terminal and preview, 1 crash, `FairSpec` | Does a stopped turn leave a process, does a runtime outlive its worktree, does a file with an environment stay, does a stop end a turn wherever it hangs? |
| `review_loop` | 1 route, 1 supervisor in the same process, 1 inline comment, a check that passed and a status that waits, 2 changes on GitHub, 1 crash, `FairSpec` | Is feedback lost, is a request linked, does feedback reach the worker? |
| `memory_plane` | 1 topic, a log of 5 events, 2 failures make a procedure, 1 crash | Is the table what the log rebuilds, is active knowledge consistent, are contexts current, does replaced knowledge come back? |
| `dispatch` | all sets of up to 4 files in 4 places, at most 3 tasks, 3 agents, 2 rounds, 2 acts of others | Is every plan a sound DAG, every batch safe, overspending bounded; do packets fit; is stale work refused? |
| `campaign` | 2 repositories, attempts a001 and a002, 2 operators, 3 repetitions, 4 seeds, 1 fault | Is a success whole and final, does the ledger hide a turn, are orders balanced, workspaces removed, claims oriented? |

**Bounds.** Three tasks are the least with both a dependency and an independent
one, a batch of two and a task left out of it because of its surface. Two
surfaces make the first and the second request refusable, with nothing or
something to give back. `MaxToken` bounds the grants (`Leases`): the three
runs ask for five surfaces, and two more grants are left for runs that follow a
release or a restart. `MaxRounds` is a
parameter of the request in the code, `RetryLimit` is the code's 2
(`mission_operators` has 0, where operators retry instead, and `dispatch` 1).
`MaxAttempts` bounds
operators' retries, the only unbounded loop. `MaxCrashes` is 1: the log carries
over nothing else than what one crash can leave, and a second restart starts
from a state of the same kind. Three sessions on two tasks let a task have an
older and a younger session while another is busy. One pool thread is enough to
interrupt the loop's handlers; two would also race each other (section 6).

Two process ids give a leader and a helper in or out of its group, and a second turn that
reuses ids of the first. Two changes on GitHub make a snapshot old while its
feedback is worked on, and remove feedback again. Five events hold an assumption,
its contradiction, a decision that replaces one, and failures that recur.
`TokenBudget = 32` with authoritative sizes 4, 28 and 40 gives a packet with
room, one with less room than the caps add up to, and one that authoritative text
overflows; costs of 0 and 2 against limits 2 and 4 let a run pass a limit by its own cost and two runs
by both. Two acts of others are the least that drift needs to pass 0.8. In the campaign,
three repetitions are one block of the crossover and the beginning of another, four
seeds leave two of the four schedules without a seed for their last repetition, two attempts are the least that
can contend, and one fault is a drift, a signal, a kill, or a new freeze at any point.

**Symmetry** is used in `sessions_atomic` and `campaign`, which have no liveness
property: ids of sessions, tasks and threads, of operators and attempts are
interchangeable there.

**Deadlock** is checked in the mission and session runs. `Leases` switches it off,
as its bound on tokens stops it; so do the bounds on changes, turns, log and attempts in
`processes`, `review_loop`, `memory_plane`, `dispatch` and `campaign`.

**Fairness.** `Leases` and `MissionControl` assume weak fairness of each run and of
the engine: one event loop serves ready coroutines in turn, and an awaited
provider is under a time limit (`budget.timeout_seconds`, cli_process.py). That
limit begins only after the prompt has been written to the provider's stdin; a
provider that never reads it is outside the assumption. Nothing is assumed of
operators: they may never come back. `WorkerSessions` assumes that handlers go
on, and for each session that a queued turn begins, and that the six-second
timeout of a stop fires (strong fairness: other handlers can have the loop in
between, again and again). It does *not* assume that an agent ever returns:
`StopsAreAnswered` holds without. `Processes` assumes that the loop goes on, that
the clock of a stop runs, and that what left a process group lets go of the pipes
one day; no provider has to read, answer or exit. `ReviewLoop` assumes that a supervise loop
comes round again and again, and that the inline-comments API and a worker's
turn do not fail for ever (strong fairness).

## 4. Properties worth their run

* `ExclusiveUnlessContested`: exclusion holds exactly as far as the code
  gives it. `ExclusiveAcrossAgents` is the unconditional reading, and fails.
* `FencingUnmasksStaleHolders`: even where exclusion is lost, comparing a
  run's token with the log tells it is stale.
* `IntegratedIsVerified`: every commit was verified on the commit it sits on,
  however many agents worked at once. It rests on the loop being kept from
  verification to merge.
* `AcceptedIsIntegrated`: branch and log agree, over stale commands, a failing
  `git rev-parse` and a crash between merge and event.
* `RunsHoldTheirLeases`: what `Leases` alone does not give, Mission Control
  does, as its batches have disjoint surfaces. The loss of exclusion in
  `leases_exclusive` needs runs that overlap in surfaces, for example of the
  CLI and the server.
* `OnlyCommandsUndoCompletion`, `KeepsLedger`: a completion is undone only by
  the second half of an operator's command that read the status before.
* `OneOwner`, `DraftIsOwn`, `RemovesOwnDraft`, `WorktreeOutlivesTurns`: the draft
  at the path of a task belongs to the session that works on it, until that
  session ends.
* `LockedForTurn`, `IntegratesAlone`, `StopsAreAnswered`: the locks of the
  Workspace, on every path, under all interleavings with its threads.
* `StoppedTurnsLeaveNothing`, `StopEndsTurn`: exit, cancellation, timeout and
  the cancelled task race for one turn; whichever wins, the group is gone, and a stop
  goes on even where the turn waits without a time limit.
* `RuntimesEndFirst`, `NoHandoffLeft`: the log's knowledge of tmux is enough to
  end what it knows before the worktree goes.
* `NoFeedbackLost`, `PublishedIsLinked`, `FeedbackReachesWorker`: an answer to
  older feedback, a crash or a failing API does not swallow what reviewers said.
* `RowsAreRecorded`, `NoResurrection`: the table is the log's, but for a memory
  that a crash has torn (the row is committed before its event); only that one may change when the log
  is replayed.
* `ContextIsCurrent`: a lexical index that keeps what it was told and a vector index that a restart
  empties still give every decision and constraint in force, and nothing replaced.
* `PlanIsSound`: compaction keeps the DAG, for every set of files and every bound.
* `OverspendIsBounded`: a limit is soft by exactly the runs in flight.
* `StaleWorkNeverLands`: nothing lands over a touched dependency or more than two relevant
  changes, and an undisturbed run is never rejected although one event of its own counts against it.
* `SuccessIsWhole`, `NoHiddenTurns`, `ResultsAreFinal`: the campaign's promises about
  attempts, with commands that die or run on without their parent.
* `OrdersAreBalanced`, `ClaimsAreOriented`: the schedule and the sign of a claim.

## 5. Proofs

TLAPS checks, for all constants that satisfy the assumptions of the modules (types
of the constants, `None` distinct, dependencies of initial tasks initial):

* `Leases_proofs`. The inductive invariant `LeaseInv` adds to the checked
  properties that neither counter nor leases are ahead of the log
  (`TokensBounded`), which makes the next token fresh; that a run has at most
  one lease per declared surface (`HeldWellFormed`); and, per uncontested
  surface, that the log still shows the lease its run holds
  (`BackedUnlessContested`), of which exclusion is a consequence. Theorems:
  `LeaseTypes`, `ConditionalExclusion`, `Fencing`, and, beyond what the runs
  check, `MonotonicTokens` and `AllOrNothing` (a refused run keeps no lease).
* `MissionControl_proofs`. `MissionInv` is the conjunction of five parts proved
  one after the other: types; `LoopInv` (only the coroutine that has the loop is
  between two of its events), which makes verify-to-merge exclusive;
  `EngineInv` (the runs of a batch have disjoint surfaces, and their leases);
  `BranchInv` (how `branch`, `accepted` and the verification base relate while
  a run is in the gate); `GraphInv` with `LandedInOrder` (a task that is not
  merely created has all its dependencies landed, whatever statuses say now).
  The properties themselves are not inductive: `IntegratedIsVerified`, say,
  needs that the run about to merge verified on the current branch. Theorems:
  `MissionTypes`, `AcceptedWork`, `VerifiedWork`, `LeasedWork`, `CompletionUndone`, the
  refinement `LedgerKept`, and beyond the runs `RecordedWork` (no commit without its event
  unless a process died or git failed) and `OrderedWork` (dependencies land first).
  `AttemptsEnd` has an invariant of its own, `AttemptInv`: what a run read before its dispatch is
  one less than what the log has afterwards, and a task that may be run again was tried
  at most `RetryLimit + 1` times. It needs that there are no operators.
* `WorkerSessions_proofs`. Three inductive invariants. `SessionTypes` adds to the
  types that calls and handlers carry the task and session they work for.
  `LockInv` adds that at most one turn of a session has taken its lock;
  `IntegrationInv` that a submit under way has the integration lock. These hold
  in every mode. `DraftInv` holds when threaded handlers are served one by one
  and no turn is supervised (`Uninterrupted`), the mode of `sessions_atomic`: it
  says for each actor (session, create or resume in a thread, fleet, submit or
  stop on the loop, turn) what it owns - a task off the READY frontier, the
  worktree at its path - and that nobody else does. From it follow `SingleOwner`,
  `OwnDraft`, `SingleTurn`, `ClosedStays`, `OwnDraftRemoved`, `WorktreeStays`; `WorkspaceTypes`,
  `LocksFollowTurns` and `OneIntegration` need no mode. The proof uses the mode in
  two places: no step comes between the transactions of a create, resume,
  stop or submit, and no turn runs outside its lock. Section 6 says what
  happens without.
* `ReviewLoop_proofs`. `ReviewInv` says, besides types, what each call knows: a
  snapshot it is about to record is of a request that exists (`Seen`); what is
  recorded as applied, or about to be, was given to a worker (`AppliedWasGiven`);
  and, as long as all callers live in one process, a clearing that is about to
  be recorded follows a snapshot without feedback (`ClearsNothing`). Theorems:
  `ReviewTypes`, `PublicationLinked`, and `FeedbackKept` under `OneProcess`;
  section 6 says what two processes do.
* `Processes_proofs`. `ProcessInv`: a turn and a runtime handler exclude each
  other (`OneAction`); a turn has processes only between its launch and its
  end, and none once a termination is over (`GroupEnds`); who closes a session
  has stopped the preview before the terminal, and both before the end is
  recorded (`StoppedBefore`); and `NoHandoffLeft` itself. Theorems: `ProcessTypes`,
  `GroupsEnd`, `HandoffsEnd`, `RuntimesGoFirst`, for any number of processes,
  turns and restarts.
* `MemoryPlane_proofs`. `MemoryInv` adds to the types: a row has the shape its
  type gives it (`RowsFit`), and so has every entry of the log (`LogFits`);
  candidates have ids that no row has (`CandidatesAreNew`); what a save under way
  read of the table is still so when it writes (`KnownIsCurrent`), and the
  writes that are left keep knowledge compatible (`WritesFit`); a row whose
  event is still to come is the one that is being written (`RowIsWritten`). Theorems:
  `MemoryKeepsTypes`, `TableIsRecorded`, `KnowledgeAgrees`, `ContextsAreCurrent`, and
  the action property as `NothingResurrected`, for logs of any length, any
  number of topics and of crashes.
* `Dispatch_proofs`. Compaction, batches, packets and sums are loops, written as
  folds of the library. That the fold over a finite set exists is proved once
  (`FoldExists`): by induction on the cardinality of subsets, the induction being that a set of numbers
  has a least element (`LeastNumber`). What a loop promises is then a set of results that its step does
  not leave: a list of tasks is `Sound` (files apart, names distinct,
  dependencies earlier, specialists wait), a batch is good, a packet `Fits`. `DispatchInv` joins
  `PlanInv` (tasks are those of a sound plan), `Types`, `Ordered` (a task under way
  has its dependencies done), `Selected` (runs side by side share no file and keep
  to concurrency and doctor), `Bounded` (what has been spent, and what the runs
  under way may cost, against each limit) and `Watched` (what a run has noticed of
  each kind of event, hence its staleness score). Theorems: `PlansAreSound`, `DispatchKeepsTypes`,
  `RunsAreOrdered`, `BatchesAreSafe`, `OverspendingIsBounded`, `PacketsFit`, `NothingStaleLands`.
  `PacketsFit` says also that the compiler's own check of its budget (compiler.py:312) never raises.
* `Campaign_proofs`. `CampaignInv`: an attempt has one executor, which knows its ledger and its command (`Owned`,
  `Knows`), and per attempt what is on disk agrees with ledger and command (`Sound`).
  From it `CampaignTypes`, `WholeSuccess`, `TurnsAreKnown`, `WorkspacesGo`, `ResultsStay`.
  `ScheduleInv`: what a study has drawn is a schedule with seeds, whatever has been executed since. Balance follows by
  counting (`OrdersBalance`): rotations put a treatment at most once at each place of a block, so by the pigeonhole
  principle exactly once in a whole block; a block that is not finished adds at most one; and the
  search's cursor only goes up, so seeds differ. `ClaimInv`: an effect on disk is an interval round its estimate, and
  the evidence is what `OrientMetric` makes of it (`ClaimsOriented`), whichever label sorts first.

The assumptions are those the modules state: besides types and distinctness,
that there are finitely many agents, with positive limits (`AgentsConfigured`), that costs are finitely many
and retrievals are lists of memories (`InputsKnown`), that bounds are positive (`BoundsPositive`), that a plan
lists at least two treatments without repetition (`ArmsAssumption`), that seeds are numbers (`SeedsAreNumbers`),
and that the modules of the planner are listed in alphabetical order (`AlphabeticalListsModules`).

Every invariant and action property that a passing run checks is stated by a theorem. Only
model-checked is liveness (`RunsEnd`, `ExecutionEnds`, `StopsAreAnswered`,
`FeedbackReachesWorker`, `StopEndsTurn`), which is out of the prover's reach, as is
`ENABLED`: under fairness a step must be shown to be possible, not only harmless.

## 6. What is abstracted, and what is left out

*Mission Control and sessions*

* In `MissionControl` the budget is a refusal that may come at any READY check, and
  the router's choice and the ranking inside a batch are
  nondeterministic: any admissible batch, any agent. `Dispatch` has both.
* An agent returns, fails or raises; verification passes or not. Contents of
  worktrees and prompts are not modelled.
* In the gate, exceptions other than its own errors and a failing
  `git rev-parse` are left out, as is the memory update after `gate.accepted`.
* Statuses `blocked`, `split`, `merged` and `needs_input` have no emitter.
* Leases record an `expires_at` that no code reads; it is not modelled.
* A task that is cancelled while it is executed is integrated all the same, as the
  dispatch does not look at the status again (scheduler.py:32); the CLI calls the command
  "authoritatively abandon an unfinished task" (cli/main.py:337). `KeepsLedger` holds: the ledger does not promise more.
* `OneOwner`, `RemovesOwnDraft`, `ClosedIsFinal` are checked with `Interleaved =
  FALSE`. With `TRUE` (and two threads for `OneOwner`) TLC refutes them, as
  `create` and `resume` check and append in different transactions, and
  `stop` and `submit` make the task READY before they remove its worktree. The
  same for `WorktreeOutlivesTurns` with `Supervising = TRUE`. To see it, change the
  constants of `Sessions_atomic.cfg` to one task and two sessions.
* Two runs of one agent share a lease (leases.py compares agents): the
  `contested` surfaces of `Leases`.

*Processes*

* Time is abstract: two seconds of SIGTERM, six of a stop, five of the helper are choices.
  A SIGKILL always works. Process ids are not reused while something refers to them.
* Processes that survive a crash of the server, that left the group (`setsid`), or that a turn
  which ended by itself has left behind are `strays`: nobody stops them, and a worktree may go under them.
* Writing the prompt and draining the pipes look neither at the cancel event nor at the
  timeout; only a stop ends a turn that hangs there, after six seconds.
* One server serves the session. `arc attach` takes no lock and can start a terminal between the
  stop of the runtimes and the removal of the worktree; a crash between tmux's start and the event leaves a tmux
  session that no one stops. The antigravity adapter has no process group, and is left out.

*Review loop*

* `NoFeedbackLost` needs that the callers live in one process (`OneProcess`). With `arc supervise` as a second process
  (`MCTwoProcesses` in `MCReview`) TLC refutes it: a clearing decided on an older snapshot overwrites feedback.
* One digest covers failing checks and comments, and only the last one applied is kept: a check that
  comes and goes makes ARC send the same comments again (reviews.py:262; docs/INTERACTIVE_WORKSPACE.md:222 says the
  digest prevents it), and a commit status that is pending counts as failing (github_cli.py:282).

*Memory*

* A memory is its type, topic, polarity, status, validity and what it replaces; scores are those of the code, in
  hundredths, without the cost of
  0.001 per token (ranking.py:89): a decision or constraint of more than 2500 tokens, which `ContextIsCurrent` leaves out, may score
  no more than zero and be missing. `feedback.py` has no caller. What a crash has torn - a row without its event - may disappear or come
  back with a rebuild: `torn` and `revived` name exactly those.

*Dispatch*

* Texts are token counts, floats are scaled integers, the doctor's cache of thirty seconds is a nondeterministic answer.
* Limits are soft: sessions record without a check (sessions.py:422), and `reserve` has no caller.
* A run's own `context.policy_measured` counts 0.3 in its staleness, although the comments of staleness.py say that own
  events do not count. A session begun while the last events of a dependency are still to come is rejected as stale.
* `project.constraint_added` has no emitter.

*Campaign*

* Numbers of a study are drawn when it is aggregated; a bootstrap interval contains its estimate. A
  shuffle is a given permutation per seed.
* A killed executor leaves its attempt RUNNING for ever and its id unusable; a command that outlives an
  interrupted executor may finish a study of an attempt that the ledger calls failed. `ResultsAreFinal` is what remains.
* Drift during a study goes unnoticed; a crash of the finalizer leaves a directory that blocks the next one; manifests that are not sorted make
  the shuffle of paired.py differ from the schedule, and the study fails at its check of the order. A search that finds no
  seed raises outside the try of repeated.py (388-399): the directory stays, without a `failure.json`. One thing drifts at a time; two operators at a time prepare the same
  attempt; exports repeated by hand are left out.

*Not modelled.* The Agent Bridge observes a program that is not in the repository: what its cursors promise
cannot be read from here. Replay (`runtime/replay.py`, `environment.py`) reads projections and prepares an
environment. CLI and TUI parse and format around the operations above. Containers, checkpoints,
verification commands, symbol and dependency scans, configuration files, metrics and report texts are I/O or pure
and sequential. `PROJECT.json` says for each component which part of it is modelled.

## 7. What could come next

1. That the acquisition of leases in `Execution` is implemented by `Leases`.
2. That `Dispatch` implements the nondeterministic batches and budgets of `MissionControl`.
3. The Workspace with two servers or with `arc attach` beside it: `Processes` with a second actor that takes no lock.
4. The bridge, once its peer's cursors are specified in the repository.
