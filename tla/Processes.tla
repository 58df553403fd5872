------------------------------ MODULE Processes ------------------------------
(***************************************************************************)
(* The processes that work in the draft worktree of one session:           *)
(*  - the process group of a live turn (adapters/cli_process.py), under a  *)
(*    turn supervisor that can raise its cancel event and, six seconds     *)
(*    into a stop, cancels its task;                                       *)
(*  - the terminal and the preview, which tmux owns and the event log      *)
(*    remembers (application/worker_runtime.py, runtime/tmux.py);          *)
(* and the stop or submit that ends them before the worktree goes          *)
(* (application/runtime_sessions.py).  One server process serves them: the *)
(* handlers of start, stop and close do not await, so only the operating   *)
(* system and a crash come between their steps.                            *)
(***************************************************************************)
EXTENDS Naturals, FiniteSets

CONSTANTS
  Procs,       \* process ids
  MaxTurns,    \* bound: live turns
  MaxCrashes,  \* bound: deaths of the server
  None

ASSUME ProcessesAssumption ==
  /\ IsFiniteSet(Procs) /\ None \notin Procs
  /\ MaxTurns \in Nat /\ MaxCrashes \in Nat

Kinds == {"terminal", "preview"}

VARIABLES
  session,    \* "active" or "closed", from the log
  workspace,  \* the worktree exists
  turn,       \* where the live turn is in run_prompt, or NoTurn
  group,      \* the live processes of its group
  away,       \* those that left the group (setsid)
  pipe,       \* those that hold its stdout or stderr
  strays,     \* processes of turns that are over
  stop,       \* the stop route: "no", "waits", or "cancelled" the task
  handler,    \* the runtime handler under way, or NoHandler
  tmux,       \* the tmux session of each kind: "none", "boot" or "live"
  handoff,    \* the file that hands the environment to a runtime
  log,        \* the last runtime event of each kind
  turns, crashes

processes == <<group, away, pipe, strays>>
runtimes == <<tmux, handoff, log>>
counts == <<turns, crashes>>
vars == <<session, workspace, turn, processes, stop, handler, runtimes, counts>>

NoTurn == [at |-> "none", leader |-> None, outcome |-> "none", cancel |-> FALSE,
           pump |-> "on"]
NoHandler == [op |-> "none", kind |-> "none", at |-> "none"]

Init ==
  /\ session = "active" /\ workspace = TRUE
  /\ turn = NoTurn /\ stop = "no" /\ handler = NoHandler
  /\ group = {} /\ away = {} /\ pipe = {} /\ strays = {}
  /\ tmux = [k \in Kinds |-> "none"]
  /\ handoff = [k \in Kinds |-> FALSE]
  /\ log = [k \in Kinds |-> "none"]
  /\ turns = 0 /\ crashes = 0

\* The action lock of the session is free.
Unlocked == turn = NoTurn /\ handler = NoHandler /\ stop = "no"

Free == Procs \ (group \cup away \cup strays)

-----------------------------------------------------------------------------
(* The operating system *)

ByTheSystem == UNCHANGED <<session, workspace, turn, stop, handler, counts>>

\* A process of the turn starts another, which stays in the group or leaves
\* it, and keeps the pipes or redirects its output.
Fork(p, q) ==
  /\ p \in group /\ q \in Free
  /\ \/ group' = group \cup {q} /\ UNCHANGED away
     \/ away' = away \cup {q} /\ UNCHANGED group
  /\ pipe' \in {pipe} \cup (IF p \in pipe THEN {pipe \cup {q}} ELSE {})
  /\ UNCHANGED <<strays, runtimes>> /\ ByTheSystem

\* By itself, or because of a SIGTERM.
Exit(p) ==
  /\ p \in group \cup away \cup strays
  /\ group' = group \ {p} /\ away' = away \ {p}
  /\ pipe' = pipe \ {p} /\ strays' = strays \ {p}
  /\ UNCHANGED runtimes /\ ByTheSystem

\* tmux_bootstrap.py reads the environment, unlinks it, and becomes the command.
Bootstrap(k) ==
  /\ tmux[k] = "boot" /\ handoff[k]
  /\ handoff' = [handoff EXCEPT ![k] = FALSE]
  /\ tmux' = [tmux EXCEPT ![k] = "live"]
  /\ UNCHANGED <<processes, log>> /\ ByTheSystem

RuntimeExits(k) ==
  /\ tmux[k] /= "none"
  /\ tmux' = [tmux EXCEPT ![k] = "none"]
  /\ UNCHANGED <<processes, handoff, log>> /\ ByTheSystem

-----------------------------------------------------------------------------
(* A live turn: SubprocessCodingAgent.run_prompt *)

InTurn(at) == turn.at = at
Turn == UNCHANGED <<session, workspace, stop, handler, runtimes, crashes>>

\* POST .../turn: create_task.
StartTurn ==
  /\ Unlocked /\ session = "active" /\ workspace
  /\ turns < MaxTurns /\ turns' = turns + 1
  /\ turn' = [NoTurn EXCEPT !.at = "launch"]
  /\ UNCHANGED processes /\ Turn

\* "turn cancelled before launch", or the provider cannot be started.
NotLaunched ==
  /\ InTurn("launch")
  /\ turn' = [turn EXCEPT !.at = "over",
                          !.outcome = IF turn.cancel THEN "cancelled" ELSE "failed"]
  /\ UNCHANGED <<processes, turns>> /\ Turn

\* The provider leads a process group of its own.
Launch(p) ==
  /\ InTurn("launch") /\ ~turn.cancel /\ p \in Free
  /\ turn' = [turn EXCEPT !.at = "prompt", !.leader = p]
  /\ group' = {p} /\ pipe' = {p}
  /\ UNCHANGED <<away, strays, turns>> /\ Turn

\* Everything is written before the timeout starts to count: the provider has
\* read the prompt, or closed its end.
PromptWritten ==
  /\ InTurn("prompt")
  /\ turn' = [turn EXCEPT !.at = "waiting"]
  /\ UNCHANGED <<processes, turns>> /\ Turn

\* asyncio.wait: the provider's exit wins over the cancel event, if the loop
\* has seen it, and both over the timeout.
WaitEnds(outcome) ==
  /\ InTurn("waiting")
  /\ outcome = "completed" => turn.leader \notin group
  /\ outcome = "cancelled" => turn.cancel
  /\ turn' = [turn EXCEPT !.at = IF outcome = "completed" THEN "drain" ELSE "term",
                          !.outcome = outcome]
  /\ UNCHANGED <<processes, turns>> /\ Turn

\* Mutant: only the provider itself is waited for.
Terminated_LeaderOnly ==
  /\ InTurn("term") /\ turn.leader \notin group
  /\ turn' = [turn EXCEPT !.at = "drain"]
  /\ UNCHANGED <<processes, turns>> /\ Turn

\* _terminate_process: after SIGTERM the whole group goes within two seconds ...
Terminated ==
  /\ InTurn("term") /\ group = {}
  /\ turn' = [turn EXCEPT !.at = "drain"]
  /\ UNCHANGED <<processes, turns>> /\ Turn

\* ... or gets a SIGKILL.
Kill ==
  /\ InTurn("term") /\ group /= {}
  /\ group' = {} /\ pipe' = pipe \ group
  /\ turn' = [turn EXCEPT !.at = "drain"]
  /\ UNCHANGED <<away, strays, turns>> /\ Turn

\* output_callback raises, or a line is too long: the pump is over, and
\* nobody looks at it before the gather.
PumpFails ==
  /\ turn.at \in {"prompt", "waiting", "term", "drain"} /\ turn.pump = "on"
  /\ pipe /= {}
  /\ turn' = [turn EXCEPT !.pump = "failed"]
  /\ UNCHANGED <<processes, turns>> /\ Turn

\* gather waits for the end of both streams without a timeout; a pump that
\* failed ends it, except in the handler of CancelledError.
Drained ==
  /\ InTurn("drain")
  /\ \/ pipe = {} \/ turn.pump = "cancelled"
     \/ turn.pump = "failed" /\ turn.outcome /= "interrupted"
  /\ turn' = [turn EXCEPT !.at = "over"]
  /\ UNCHANGED <<processes, turns>> /\ Turn

\* run_prompt has returned or raised: the lock is released, and a stop that
\* waits for it goes on.
EndTurn ==
  /\ InTurn("over")
  /\ turn' = NoTurn
  /\ strays' = strays \cup group \cup away
  /\ group' = {} /\ away' = {} /\ pipe' = {}
  /\ IF stop = "no" THEN UNCHANGED <<stop, handler>>
     ELSE stop' = "no" /\ handler' = [op |-> "close", kind |-> "preview", at |-> "kill"]
  /\ UNCHANGED <<session, workspace, runtimes, counts>>

\* POST .../turn/cancel
Cancel ==
  /\ turn /= NoTurn /\ ~turn.cancel
  /\ turn' = [turn EXCEPT !.cancel = TRUE]
  /\ UNCHANGED <<processes, turns>> /\ Turn

\* POST .../stop with a live turn: cancel(wait=True).
StopWaits ==
  /\ turn /= NoTurn /\ stop = "no"
  /\ stop' = "waits"
  /\ turn' = [turn EXCEPT !.cancel = TRUE]
  /\ UNCHANGED <<session, workspace, processes, handler, runtimes, counts>>

\* Mutant: after six seconds the turn is asked again.
Interrupt_AsksAgain ==
  /\ stop = "waits" /\ turn /= NoTurn /\ turn.at /= "over"
  /\ stop' = "cancelled"
  /\ turn' = [turn EXCEPT !.cancel = TRUE]
  /\ UNCHANGED <<session, workspace, processes, handler, runtimes, counts>>

\* Six seconds later, task.cancel: CancelledError is raised wherever the turn
\* awaits, the group is terminated, and a gather under way has cancelled its
\* pumps.
Interrupt ==
  /\ stop = "waits" /\ turn /= NoTurn /\ turn.at /= "over"
  /\ stop' = "cancelled"
  /\ turn' = [turn EXCEPT
       !.outcome = "interrupted",
       !.at = IF @ = "launch" THEN "over" ELSE "term",
       !.pump = IF turn.at = "drain" /\ @ = "on" THEN "cancelled" ELSE @]
  /\ UNCHANGED <<session, workspace, processes, handler, runtimes, counts>>

-----------------------------------------------------------------------------
(* Runtimes: WorkerRuntimeManager, TmuxController *)

Handler == UNCHANGED <<turn, processes, stop, counts>>

\* status(k).running
IsRunning(k) == log[k] = "started" /\ tmux[k] /= "none"

\* POST .../terminal/start, .../preview/start: nothing happens if the runtime
\* is running, or a tmux session has its name.
Start(k) ==
  /\ Unlocked /\ session = "active" /\ workspace
  /\ ~IsRunning(k) /\ tmux[k] = "none"
  /\ handler' = [op |-> "start", kind |-> k, at |-> "new"]
  /\ handoff' = [handoff EXCEPT ![k] = TRUE]
  /\ UNCHANGED <<session, workspace, tmux, log>> /\ Handler

At(op, at) == handler.op = op /\ handler.at = at

NewSession ==
  /\ At("start", "new")
  /\ tmux' = [tmux EXCEPT ![handler.kind] = "boot"]
  /\ handler' = [handler EXCEPT !.at = "boot"]
  /\ UNCHANGED <<session, workspace, handoff, log>> /\ Handler

\* Mutant: what raises leaves the file.
GiveUp_KeepsFile ==
  /\ \/ At("start", "new")
     \/ At("start", "boot") /\ handoff[handler.kind]
  /\ tmux' = [tmux EXCEPT ![handler.kind] = "none"]
  /\ handler' = NoHandler
  /\ UNCHANGED <<session, workspace, handoff, log>> /\ Handler

\* tmux refuses, or the helper has not taken the file after five seconds.
GiveUp ==
  /\ \/ At("start", "new")
     \/ At("start", "boot") /\ handoff[handler.kind]
  /\ tmux' = [tmux EXCEPT ![handler.kind] = "none"]
  /\ handoff' = [handoff EXCEPT ![handler.kind] = FALSE]
  /\ handler' = NoHandler
  /\ UNCHANGED <<session, workspace, log>> /\ Handler

\* session.runtime_started
EmitStarted ==
  /\ At("start", "boot") /\ ~handoff[handler.kind]
  /\ log' = [log EXCEPT ![handler.kind] = "started"]
  /\ handler' = NoHandler
  /\ UNCHANGED <<session, workspace, tmux, handoff>> /\ Handler

\* POST .../terminal/stop, .../preview/stop
Stop(k) ==
  /\ Unlocked
  /\ handler' = [op |-> "stop", kind |-> k, at |-> "kill"]
  /\ UNCHANGED <<session, workspace, runtimes>> /\ Handler

\* POST .../stop and .../submit of an idle session; the preview ends first.
Close ==
  /\ Unlocked /\ session = "active"
  /\ handler' = [op |-> "close", kind |-> "preview", at |-> "kill"]
  /\ UNCHANGED <<session, workspace, runtimes>> /\ Handler

\* Mutant: the terminal is forgotten.
Stopped_PreviewOnly(h) ==
  IF h.op = "close" THEN [h EXCEPT !.at = "mark"] ELSE NoHandler

\* What follows stop_preview and stop_terminal.
Stopped(h) ==
  IF h.op = "close"
  THEN IF h.kind = "preview" THEN [h EXCEPT !.kind = "terminal", !.at = "kill"]
       ELSE [h EXCEPT !.at = "mark"]
  ELSE NoHandler

\* A runtime that is not running is left alone.
KillRuntime ==
  /\ handler.at = "kill"
  /\ IF IsRunning(handler.kind)
     THEN /\ tmux' = [tmux EXCEPT ![handler.kind] = "none"]
          /\ handler' = [handler EXCEPT !.at = "emit"]
     ELSE handler' = Stopped(handler) /\ UNCHANGED tmux
  /\ UNCHANGED <<session, workspace, handoff, log>> /\ Handler

\* session.runtime_stopped
EmitStopped ==
  /\ handler.at = "emit"
  /\ log' = [log EXCEPT ![handler.kind] = "stopped"]
  /\ handler' = Stopped(handler)
  /\ UNCHANGED <<session, workspace, tmux, handoff>> /\ Handler

\* session.stopped; or a submit up to session.accepted or session.rejected.
MarkClosed ==
  /\ At("close", "mark")
  /\ session' = "closed"
  /\ handler' = [handler EXCEPT !.at = "remove"]
  /\ UNCHANGED <<workspace, runtimes>> /\ Handler

\* A lease is refused, nothing is there to submit, or kill-session fails.
CloseRaises ==
  /\ handler.op \in {"stop", "close"} /\ handler.at \in {"kill", "mark"}
  /\ handler' = NoHandler
  /\ UNCHANGED <<session, workspace, runtimes>> /\ Handler

RemoveWorktree ==
  /\ At("close", "remove")
  /\ workspace' = FALSE
  /\ handler' = NoHandler
  /\ UNCHANGED <<session, runtimes>> /\ Handler

-----------------------------------------------------------------------------

\* The server dies; worktree, log, tmux and the processes of a turn do not.
Crash ==
  /\ crashes < MaxCrashes /\ crashes' = crashes + 1
  /\ turn' = NoTurn /\ stop' = "no" /\ handler' = NoHandler
  /\ strays' = strays \cup group \cup away
  /\ group' = {} /\ away' = {} /\ pipe' = {}
  /\ UNCHANGED <<session, workspace, runtimes, turns>>

TurnStep ==
  \/ NotLaunched \/ PromptWritten \/ Terminated \/ Kill \/ PumpFails \/ Drained \/ EndTurn
  \/ \E p \in Procs : Launch(p)
  \/ \E o \in {"completed", "cancelled", "timeout"} : WaitEnds(o)

RuntimeStep ==
  \/ NewSession \/ GiveUp \/ EmitStarted \/ KillRuntime \/ EmitStopped
  \/ MarkClosed \/ CloseRaises \/ RemoveWorktree

Request ==
  \/ StartTurn \/ Cancel \/ StopWaits \/ Close
  \/ \E k \in Kinds : Start(k) \/ Stop(k)

System ==
  \/ \E p, q \in Procs : Fork(p, q)
  \/ \E p \in Procs : Exit(p)
  \/ \E k \in Kinds : Bootstrap(k) \/ RuntimeExits(k)

Next == TurnStep \/ RuntimeStep \/ Request \/ Interrupt \/ System \/ Crash

Spec == Init /\ [][Next]_vars

\* The event loop runs the turn and the clock of a stop; nothing makes a
\* provider read its prompt, exit, or let go of its pipes, but a process that
\* left the group does not hold them forever.
FairSpec ==
  /\ Spec
  /\ WF_vars(Interrupt) /\ WF_vars(Terminated \/ Kill)
  /\ WF_vars(Drained) /\ WF_vars(EndTurn)
  /\ \A p \in Procs : WF_vars(p \in away /\ Exit(p))

-----------------------------------------------------------------------------
(* Properties *)

TypeOK ==
  /\ session \in {"active", "closed"} /\ workspace \in BOOLEAN
  /\ turn \in [at : {"none", "launch", "prompt", "waiting", "term", "drain", "over"},
               leader : Procs \cup {None},
               outcome : {"none", "failed", "completed", "cancelled", "timeout", "interrupted"},
               cancel : BOOLEAN, pump : {"on", "failed", "cancelled"}]
  /\ \A some \in {group, away, pipe, strays} : some \subseteq Procs
  /\ stop \in {"no", "waits", "cancelled"}
  /\ handler \in {NoHandler} \cup
       ([op : {"start"}, kind : Kinds, at : {"new", "boot"}] \cup
        [op : {"stop"}, kind : Kinds, at : {"kill", "emit"}] \cup
        [op : {"close"}, kind : Kinds, at : {"kill", "emit", "mark", "remove"}])
  /\ tmux \in [Kinds -> {"none", "boot", "live"}]
  /\ handoff \in [Kinds -> BOOLEAN]
  /\ log \in [Kinds -> {"none", "started", "stopped"}]
  /\ turns \in 0..MaxTurns /\ crashes \in 0..MaxCrashes

\* LIVE_TURNS.md: cancellation targets the provider "and descendants it
\* spawned ... before ARC releases the worker action lock".  A turn that was
\* cancelled, interrupted or timed out ends with its group gone, wherever it
\* was and whatever its processes did on SIGTERM.
StoppedTurnsLeaveNothing ==
  InTurn("over") /\ turn.outcome \in {"cancelled", "interrupted", "timeout"} => group = {}

\* runtime_sessions.py: "Stop tmux-owned runtimes before a worker worktree can
\* disappear".  Also after a restart, the only runtime that can outlive its
\* worktree is one whose start a crash kept out of the log.
RuntimesEndFirst ==
  [][workspace /\ ~workspace' => \A k \in Kinds : tmux[k] /= "none" => log[k] /= "started"]_vars

\* tmux.py: no "credential-bearing artifact" is left behind: outside a start
\* no environment file is there, except one whose start died with the server.
NoHandoffLeft ==
  \A k \in Kinds : handoff[k] => (handler.op = "start" /\ handler.kind = k) \/ crashes > 0

\* LIVE_TURNS.md, safe worker stop: a stop waits for the processes and goes on,
\* although writing the prompt and draining the pipes have no timeout.
StopEndsTurn == stop /= "no" ~> stop = "no"

=============================================================================
