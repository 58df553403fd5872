-------------------------- MODULE Processes_proofs --------------------------
(***************************************************************************)
(* What a stop or a timeout leaves behind, for any number of processes,    *)
(* turns and deaths of the server.                                         *)
(***************************************************************************)
EXTENDS Processes, TLAPS

(***************************************************************************)
(* The inductive invariant.                                                *)
(***************************************************************************)

\* The lock of the session: a turn and a runtime handler exclude each other,
\* and a stop that waits has a turn to wait for.
OneAction ==
  /\ turn /= NoTurn => handler = NoHandler
  /\ stop /= "no" => turn /= NoTurn
  /\ turn.at = "none" => turn = NoTurn

\* A turn has processes only between its launch and its end, and none that
\* was not waited for or killed once its group was terminated.
GroupEnds ==
  /\ turn.at \in {"none", "launch"} => group = {}
  /\ turn.at \in {"drain", "over"}
     /\ turn.outcome \in {"cancelled", "interrupted", "timeout"} => group = {}

\* Who closes a session has stopped the preview before the terminal, and both
\* before the session's end is recorded.
StoppedBefore ==
  handler.op = "close" =>
    /\ handler.kind = "terminal" => ~IsRunning("preview")
    /\ handler.at \in {"mark", "remove"} => ~IsRunning("preview") /\ ~IsRunning("terminal")

ProcessInv == TypeOK /\ OneAction /\ GroupEnds /\ StoppedBefore /\ NoHandoffLeft

-----------------------------------------------------------------------------

LEMMA InitProcesses == Init => ProcessInv
BY ProcessesAssumption DEF Init, ProcessInv, TypeOK, OneAction, GroupEnds, StoppedBefore,
   NoHandoffLeft, NoTurn, NoHandler, IsRunning, Kinds

\* The records of a turn and of the handlers that stop runtimes.
TurnRecords ==
  [at : {"none", "launch", "prompt", "waiting", "term", "drain", "over"},
   leader : Procs \cup {None},
   outcome : {"none", "failed", "completed", "cancelled", "timeout", "interrupted"},
   cancel : BOOLEAN, pump : {"on", "failed", "cancelled"}]
StopHandlers == [op : {"stop"}, kind : Kinds, at : {"kill", "emit"}]
CloseHandlers == [op : {"close"}, kind : Kinds, at : {"kill", "emit", "mark", "remove"}]

\* A turn that is somewhere has the lock to itself.
LEMMA TurnHasLock ==
  ASSUME ProcessInv, turn.at /= "none"
  PROVE  handler = NoHandler /\ turn /= NoTurn
BY DEF ProcessInv, OneAction, NoTurn

LEMMA NotNoTurn ==
  ASSUME NEW x, x.at /= "none"
  PROVE  x /= NoTurn
BY DEF NoTurn

LEMMA TurnMoves ==
  ASSUME ProcessInv, turn.at /= "none", turn'.at /= "none", handler' = handler
  PROVE  OneAction'
BY TurnHasLock DEF OneAction, NoTurn

\* Who is at "kill" or "emit" stops a runtime, alone or to close the session.
LEMMA KillsToStop ==
  ASSUME TypeOK, handler.at \in {"kill", "emit"}
  PROVE  handler \in StopHandlers \cup CloseHandlers
BY DEF TypeOK, NoHandler, StopHandlers, CloseHandlers

LEMMA AfterStopped ==
  ASSUME NEW h \in StopHandlers \cup CloseHandlers
  PROVE  /\ Stopped(h) \in {NoHandler} \cup CloseHandlers
         /\ Stopped(h) /= NoHandler =>
              /\ h.op = "close" /\ Stopped(h).op = "close" /\ Stopped(h).kind = "terminal"
              /\ h.kind = "preview" => Stopped(h).at = "kill"
              /\ h.kind = "terminal" => Stopped(h).at = "mark"
<1>1. CASE h \in StopHandlers
  BY <1>1 DEF StopHandlers, Stopped
<1>2. CASE h \in CloseHandlers /\ h.kind = "preview"
  BY <1>2 DEF CloseHandlers, Stopped, NoHandler, Kinds
<1>3. CASE h \in CloseHandlers /\ h.kind = "terminal"
  BY <1>3 DEF CloseHandlers, Stopped, NoHandler, Kinds
<1> QED
  BY <1>1, <1>2, <1>3 DEF CloseHandlers, Kinds

\* A step of a live turn, of the requests for it, and of its processes leaves
\* the runtimes and their handler alone; only the end of the turn hands the
\* lock over to a stop that waits.
LEMMA TurnKeeps ==
  ASSUME ProcessInv, TurnStep \/ StartTurn \/ Cancel \/ StopWaits \/ Interrupt
  PROVE  ProcessInv'
<1> USE DEF ProcessInv, TypeOK, OneAction, GroupEnds, StoppedBefore, NoHandoffLeft,
            IsRunning, Kinds, NoHandler, Turn, InTurn, Unlocked, processes, runtimes, counts
<1>1. CASE StartTurn
  <2>1. TypeOK'
    <3>1. turn' \in TurnRecords
      BY <1>1 DEF StartTurn, TurnRecords, NoTurn
    <3>2. turns' \in 0..MaxTurns
      BY <1>1, ProcessesAssumption DEF StartTurn
    <3> QED
      BY <1>1, <3>1, <3>2 DEF StartTurn, TurnRecords
  <2>2. OneAction'
    BY <1>1, ProcessesAssumption DEF StartTurn, NoTurn
  <2>3. GroupEnds'
    BY <1>1, ProcessesAssumption DEF StartTurn, NoTurn
  <2>4. StoppedBefore'
    BY <1>1, ProcessesAssumption DEF StartTurn, NoTurn
  <2>5. NoHandoffLeft'
    BY <1>1, ProcessesAssumption DEF StartTurn, NoTurn
  <2> QED
    BY <2>1, <2>2, <2>3, <2>4, <2>5
<1>2. CASE NotLaunched
  <2>1. TypeOK'
    BY <1>2 DEF NotLaunched, NoTurn
  <2>2. OneAction'
    <3>1. turn.at /= "none" /\ turn'.at /= "none" /\ handler' = handler
      BY <1>2 DEF NotLaunched, TurnRecords
    <3> QED
      BY <3>1, TurnMoves
  <2>3. GroupEnds'
    BY <1>2 DEF NotLaunched, NoTurn
  <2>4. StoppedBefore'
    BY <1>2 DEF NotLaunched, NoTurn
  <2>5. NoHandoffLeft'
    BY <1>2 DEF NotLaunched, NoTurn
  <2> QED
    BY <2>1, <2>2, <2>3, <2>4, <2>5
<1>3. CASE \E p \in Procs : Launch(p)
  <2>1. TypeOK'
    <3>1. turn' \in TurnRecords
      BY <1>3 DEF Launch, Free, TurnRecords, NoTurn
    <3> QED
      BY <1>3, <3>1 DEF Launch, Free, TurnRecords
  <2>2. OneAction'
    <3>1. turn.at /= "none" /\ turn'.at /= "none" /\ handler' = handler
      BY <1>3 DEF Launch, TurnRecords
    <3> QED
      BY <3>1, TurnMoves
  <2>3. GroupEnds'
    BY <1>3 DEF Launch, NoTurn, Free
  <2>4. StoppedBefore'
    BY <1>3 DEF Launch, NoTurn, Free
  <2>5. NoHandoffLeft'
    BY <1>3 DEF Launch, NoTurn, Free
  <2> QED
    BY <2>1, <2>2, <2>3, <2>4, <2>5
<1>4. CASE PromptWritten
  BY <1>4 DEF PromptWritten, NoTurn
<1>5. CASE \E o \in {"completed", "cancelled", "timeout"} : WaitEnds(o)
  <2>1. TypeOK'
    <3>1. turn' \in TurnRecords
      BY <1>5 DEF WaitEnds, TurnRecords, NoTurn
    <3> QED
      BY <1>5, <3>1 DEF WaitEnds, TurnRecords
  <2>2. OneAction'
    <3>1. turn.at /= "none" /\ turn'.at /= "none" /\ handler' = handler
      BY <1>5 DEF WaitEnds, TurnRecords
    <3> QED
      BY <3>1, TurnMoves
  <2>3. GroupEnds'
    BY <1>5 DEF WaitEnds, NoTurn
  <2>4. StoppedBefore'
    BY <1>5 DEF WaitEnds, NoTurn
  <2>5. NoHandoffLeft'
    BY <1>5 DEF WaitEnds, NoTurn
  <2> QED
    BY <2>1, <2>2, <2>3, <2>4, <2>5
<1>6. CASE Terminated
  BY <1>6 DEF Terminated, NoTurn
<1>7. CASE Kill
  BY <1>7 DEF Kill, NoTurn
<1>8. CASE PumpFails
  BY <1>8 DEF PumpFails, NoTurn
<1>9. CASE Drained
  BY <1>9 DEF Drained, NoTurn
<1>10. CASE EndTurn
  BY <1>10 DEF EndTurn, NoTurn
<1>11. CASE Cancel
  <2>1. turn.at /= "none" /\ turn'.at = turn.at /\ turn'.outcome = turn.outcome
    <3>1. turn.at /= "none"
      BY <1>11 DEF Cancel, NoTurn
    <3> QED
      BY <1>11, <3>1 DEF Cancel
  <2>2. turn' \in TurnRecords
    BY <1>11 DEF Cancel, TurnRecords
  <2>3. OneAction'
    BY <1>11, <2>1, TurnMoves DEF Cancel
  <2> QED
    BY <1>11, <2>1, <2>2, <2>3 DEF Cancel, TurnRecords
<1>12. CASE StopWaits
  BY <1>12 DEF StopWaits, NoTurn
<1>13. CASE Interrupt
  <2>1. TypeOK'
    <3>1. turn' \in TurnRecords
      BY <1>13 DEF Interrupt, TurnRecords, NoTurn
    <3> QED
      BY <1>13, <3>1 DEF Interrupt, TurnRecords
  <2>2. OneAction'
    BY <1>13 DEF Interrupt, NoTurn
  <2>3. GroupEnds'
    BY <1>13 DEF Interrupt, NoTurn
  <2>4. StoppedBefore'
    BY <1>13 DEF Interrupt, NoTurn
  <2>5. NoHandoffLeft'
    BY <1>13 DEF Interrupt, NoTurn
  <2> QED
    BY <2>1, <2>2, <2>3, <2>4, <2>5
<1> QED
  BY <1>1, <1>2, <1>3, <1>4, <1>5, <1>6, <1>7, <1>8, <1>9, <1>10, <1>11, <1>12, <1>13
  DEF TurnStep

\* The operating system starts and ends processes and runtimes at any time;
\* none of it brings a group, a runtime or a handoff back.
LEMMA SystemKeeps ==
  ASSUME ProcessInv, System \/ Crash
  PROVE  ProcessInv'
<1> USE DEF ProcessInv, TypeOK, OneAction, GroupEnds, StoppedBefore, NoHandoffLeft,
            IsRunning, Kinds, NoHandler, ByTheSystem, processes, runtimes, counts
<1>1. CASE \E p, q \in Procs : Fork(p, q)
  BY <1>1 DEF Fork, Free, NoTurn
<1>2. CASE \E p \in Procs : Exit(p)
  BY <1>2 DEF Exit, NoTurn
<1>3. CASE \E k \in Kinds : Bootstrap(k)
  BY <1>3 DEF Bootstrap, NoTurn
<1>4. CASE \E k \in Kinds : RuntimeExits(k)
  BY <1>4 DEF RuntimeExits, NoTurn
<1>5. CASE Crash
  BY <1>5, ProcessesAssumption DEF Crash, NoTurn
<1> QED
  BY <1>1, <1>2, <1>3, <1>4, <1>5 DEF System

\* The handlers of runtimes run one at a time, each to its end.
LEMMA RuntimeKeeps ==
  ASSUME ProcessInv, RuntimeStep \/ Close \/ (\E k \in Kinds : Start(k) \/ Stop(k))
  PROVE  ProcessInv'
<1> USE DEF ProcessInv, TypeOK, OneAction, GroupEnds, StoppedBefore, NoHandoffLeft,
            IsRunning, Kinds, NoHandler, Handler, Unlocked, At, processes, runtimes, counts
<1>1. CASE \E k \in Kinds : Start(k)
  BY <1>1 DEF Start
<1>2. CASE NewSession
  BY <1>2 DEF NewSession
<1>3. CASE GiveUp
  BY <1>3 DEF GiveUp
<1>4. CASE EmitStarted
  BY <1>4 DEF EmitStarted
<1>5. CASE \E k \in Kinds : Stop(k)
  BY <1>5 DEF Stop
<1>6. CASE Close
  BY <1>6 DEF Close
<1>7. CASE KillRuntime
  <2>1. handler \in StopHandlers \cup CloseHandlers
    BY <1>7, KillsToStop DEF KillRuntime
  <2>2. CASE IsRunning(handler.kind)
    <3>1. handler' = [handler EXCEPT !.at = "emit"] /\ tmux' = [tmux EXCEPT ![handler.kind] = "none"]
      BY <1>7, <2>2 DEF KillRuntime
    <3>2. handler' \in StopHandlers \cup CloseHandlers
      BY <2>1, <3>1 DEF StopHandlers, CloseHandlers
    <3>3. handler'.kind = handler.kind /\ handler'.op = handler.op /\ handler'.at = "emit"
      BY <2>1, <3>1 DEF StopHandlers, CloseHandlers
    <3> QED
      BY <1>7, <2>1, <3>1, <3>2, <3>3 DEF KillRuntime, StopHandlers, CloseHandlers
  <2>3. CASE ~IsRunning(handler.kind)
    <3>1. handler' = Stopped(handler) /\ UNCHANGED tmux
      BY <1>7, <2>3 DEF KillRuntime
    <3>2. handler' \in {NoHandler} \cup CloseHandlers
      BY <2>1, <3>1, AfterStopped
    <3>3. TypeOK' /\ OneAction' /\ GroupEnds'
      BY <1>7, <2>1, <3>1, <3>2 DEF KillRuntime, StopHandlers, CloseHandlers
    <3>4. StoppedBefore'
      BY <1>7, <2>1, <2>3, <3>1, AfterStopped DEF KillRuntime, StopHandlers, CloseHandlers
    <3>5. NoHandoffLeft'
      BY <1>7, <2>1, <3>1 DEF KillRuntime, StopHandlers, CloseHandlers
    <3> QED
      BY <3>3, <3>4, <3>5
  <2> QED
    BY <2>2, <2>3
<1>8. CASE EmitStopped
  <2>1. handler \in StopHandlers \cup CloseHandlers
    BY <1>8, KillsToStop DEF EmitStopped
  <2>2. handler' = Stopped(handler) /\ log' = [log EXCEPT ![handler.kind] = "stopped"]
    BY <1>8 DEF EmitStopped
  <2>3. handler' \in {NoHandler} \cup CloseHandlers
    BY <2>1, <2>2, AfterStopped
  <2>4. TypeOK' /\ OneAction' /\ GroupEnds'
    BY <1>8, <2>1, <2>2, <2>3 DEF EmitStopped, StopHandlers, CloseHandlers
  <2>5. StoppedBefore'
    BY <1>8, <2>1, <2>2, AfterStopped DEF EmitStopped, StopHandlers, CloseHandlers
  <2>6. NoHandoffLeft'
    BY <1>8, <2>1, <2>2 DEF EmitStopped, StopHandlers, CloseHandlers
  <2> QED
    BY <2>4, <2>5, <2>6
<1>9. CASE MarkClosed
  BY <1>9 DEF MarkClosed
<1>10. CASE CloseRaises
  BY <1>10 DEF CloseRaises
<1>11. CASE RemoveWorktree
  <2>1. handler.op = "close" /\ handler' = NoHandler /\ workspace' = FALSE
    BY <1>11 DEF RemoveWorktree
  <2>2. TypeOK'
    <3>1. workspace' \in BOOLEAN
      BY <2>1
    <3>2. handler' = NoHandler /\ UNCHANGED <<session, turn, processes, stop, runtimes, counts>>
      BY <1>11 DEF RemoveWorktree
    <3> QED
      BY <3>1, <3>2
  <2>3. OneAction' /\ GroupEnds' /\ NoHandoffLeft'
    BY <1>11, <2>1 DEF RemoveWorktree
  <2>4. StoppedBefore'
    BY <2>1
  <2> QED
    BY <2>2, <2>3, <2>4
<1> QED
  BY <1>1, <1>2, <1>3, <1>4, <1>5, <1>6, <1>7, <1>8, <1>9, <1>10, <1>11 DEF RuntimeStep

LEMMA NextProcesses == ProcessInv /\ [Next]_vars => ProcessInv'
<1> SUFFICES ASSUME ProcessInv, [Next]_vars PROVE ProcessInv'
  OBVIOUS
<1>1. CASE Next
  BY <1>1, TurnKeeps, SystemKeeps, RuntimeKeeps DEF Next, Request
<1>2. CASE UNCHANGED vars
  BY <1>2 DEF vars, ProcessInv, TypeOK, OneAction, GroupEnds, StoppedBefore, NoHandoffLeft,
              IsRunning, processes, runtimes, counts
<1> QED
  BY <1>1, <1>2

LEMMA ProcessesInvariant == Spec => []ProcessInv
BY InitProcesses, NextProcesses, PTL DEF Spec

-----------------------------------------------------------------------------

\* The variables of the processes of a session keep their types.
THEOREM ProcessTypes == Spec => []TypeOK
<1>1. ProcessInv => TypeOK
  BY DEF ProcessInv
<1> QED
  BY <1>1, ProcessesInvariant, PTL

\* A turn that was cancelled, interrupted or timed out ends with its group
\* gone, for any number of processes (cli_process.py, _terminate_process).
THEOREM GroupsEnd == Spec => []StoppedTurnsLeaveNothing
<1>1. ProcessInv => StoppedTurnsLeaveNothing
  BY DEF ProcessInv, GroupEnds, StoppedTurnsLeaveNothing, InTurn
<1> QED
  BY <1>1, ProcessesInvariant, PTL

\* No way out of a start leaves the environment file (tmux.py), but a crash.
THEOREM HandoffsEnd == Spec => []NoHandoffLeft
<1>1. ProcessInv => NoHandoffLeft
  BY DEF ProcessInv
<1> QED
  BY <1>1, ProcessesInvariant, PTL

\* Only the close handler removes the worktree, and no runtime that the log
\* knows is left then (runtime_sessions.py).
THEOREM RuntimesGoFirst == Spec => RuntimesEndFirst
<1> DEFINE Removal == workspace /\ ~workspace' =>
                        \A k \in Kinds : tmux[k] /= "none" => log[k] /= "started"
<1>1. ProcessInv /\ [Next]_vars => [Removal]_vars
  <2> SUFFICES ASSUME ProcessInv, Next, workspace, ~workspace', NEW k \in Kinds
               PROVE  tmux[k] /= "none" => log[k] /= "started"
    BY DEF vars
  <2>1. RemoveWorktree
    BY DEF Next, TurnStep, RuntimeStep, Request, System, Crash, Interrupt,
       NotLaunched, PromptWritten, Terminated, Kill, PumpFails, Drained, EndTurn, Launch,
       WaitEnds, NewSession, GiveUp, EmitStarted, KillRuntime, EmitStopped, MarkClosed,
       CloseRaises, StartTurn, Cancel, StopWaits, Close, Start, Stop, Fork, Exit, Bootstrap,
       RuntimeExits, Turn, ByTheSystem
  <2>2. ~IsRunning("preview") /\ ~IsRunning("terminal")
    BY <2>1 DEF RemoveWorktree, At, ProcessInv, StoppedBefore
  <2> QED
    BY <2>2 DEF IsRunning, Kinds
<1> QED
  BY <1>1, ProcessesInvariant, PTL DEF Spec, RuntimesEndFirst

=============================================================================
