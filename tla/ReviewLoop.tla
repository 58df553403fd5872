----------------------------- MODULE ReviewLoop -----------------------------
(***************************************************************************)
(* The review loop of one worker session (application/reviews.py over      *)
(* integrations/github_cli.py): its branch is published as a pull request, *)
(* snapshots of the request are recorded in the log, and feedback found in *)
(* them is sent to the worker as a turn.                                   *)
(*                                                                         *)
(* What is known of the request is a fold over the log (`review`).  The    *)
(* request itself lives on GitHub and changes when it likes.  Callers are  *)
(* the routes of the Workspace, which take the session's lock, and the     *)
(* supervisors, which do not: a route that supervises once, when asked,    *)
(* and `arc supervise`, a process of its own that does it again and again. *)
(* A process runs one caller at a time between two awaits; the only await  *)
(* is the worker's turn.                                                   *)
(***************************************************************************)
EXTENDS Naturals, Sequences, FiniteSets

CONSTANTS
  Routes,        \* requests to /api/reviews/{session}/...
  Supervisors,   \* supervise_once, from a route or the command line
  Loops,         \* those of `arc supervise --auto-apply`
  Process,       \* the operating-system process of each caller
  Comments,      \* reviews and comments people may write
  ListOf,        \* the list of GitHub that each of them belongs to
  Shown,         \* how many of them a worker is shown: 20
  RawChecks,     \* items of statusCheckRollup
  MaxChanges,    \* how often GitHub changes
  MaxCrashes,    \* how often a process dies
  None

Callers == Routes \cup Supervisors

\* What gh and the inline API list, each in the order it was written.
Lists == {"review", "pr_comment", "inline_review"}

ASSUME LoopsSupervise == Loops \subseteq Supervisors
ASSUME ShownNatural == Shown \in Nat \ {0}
ASSUME CommentsAreListed == ListOf \in [Comments -> Lists]
ASSUME CallersHaveProcesses == DOMAIN Process = Callers
ASSUME BoundsNatural == MaxChanges \in Nat /\ MaxCrashes \in Nat

VARIABLES
  github,    \* the pull request as GitHub has it
  branch,    \* whether the worktree has edits or commits to publish
  active,    \* whether the session is in an active status
  review,    \* status(): what the log says of the request
  call,      \* what each caller is doing
  looping,   \* the loops that run
  given,     \* history: feedback a worker's turn returned on
  swept,     \* history: feedback that a clearing has taken away
  orphaned,  \* history: GitHub made a request and no event followed
  changes, crashes

world == <<github, branch, active>>
past  == <<given, swept, orphaned>>
vars  == <<world, review, call, looping, past, changes, crashes>>

-----------------------------------------------------------------------------
(* Snapshots *)

\* _normalize_check: a commit status has no conclusion, its state stands in.
Conclusion(check) ==
  IF check.conclusion /= "" THEN check.conclusion ELSE check.state

Failed(check) ==
  Conclusion(check) \notin {"", "SUCCESS", "NEUTRAL", "SKIPPED"}

\* The feedback of a snapshot: reviews, then comments, then what the inline API
\* lists; when it does not answer, snapshot() goes on without.
Listed ==
  github.lists["review"] \o github.lists["pr_comment"]
    \o (IF github.inline THEN github.lists["inline_review"] ELSE <<>>)

\* snapshot(): its digest covers every field, so that two snapshots are equal
\* exactly when their digests are.  Left out are the fields that concern no worker
\* (state, merge_state_status): like a comment that is not shown, they change the
\* digest and nothing else.
Snapshot ==
  [check |-> github.check, requested |-> github.requested, comments |-> Listed]

\* feedback[-20:]
Newest(list) ==
  SubSeq(list, IF Len(list) > Shown THEN Len(list) - Shown + 1 ELSE 1, Len(list))

Nothing == [failing |-> "", requested |-> FALSE, comments |-> <<>>]

\* actionable_feedback(): the text names failing checks with their conclusion,
\* the decision CHANGES_REQUESTED and the newest comments; its digest
\* identifies it.
Actionable(snap) ==
  [failing   |-> IF Failed(snap.check) THEN Conclusion(snap.check) ELSE "",
   requested |-> snap.requested,
   comments  |-> Newest(snap.comments)]

Unlinked == [linked |-> FALSE, last |-> None, feedback |-> Nothing,
             pending |-> FALSE, applied |-> Nothing]

\* Mutants of status(): feedback counts once; the answer to old feedback is
\* taken for an answer to the newest.
Synced_Once(status, snap) ==
  LET found == Actionable(snap) IN
  [status EXCEPT !.linked = TRUE, !.last = snap, !.feedback = found,
                 !.pending = found /= Nothing /\ status.applied = Nothing]
Applied_Newest(status, about) ==
  [status EXCEPT !.applied = status.feedback, !.pending = FALSE]

\* status() after session.review_synced.
Synced(status, snap) ==
  LET found == Actionable(snap) IN
  [status EXCEPT !.linked = TRUE, !.last = snap, !.feedback = found,
                 !.pending = found /= Nothing /\ found /= status.applied]

\* status() after session.review_feedback_applied.
Applied(status, about) ==
  [status EXCEPT !.applied = about,
                 !.pending = status.pending /\ status.feedback /= about]

\* status() after session.review_feedback_cleared.
Cleared(status) == [status EXCEPT !.pending = FALSE, !.feedback = Nothing]

-----------------------------------------------------------------------------
(* Callers *)

Idle == [at |-> "idle", op |-> "none", snap |-> None, force |-> FALSE,
         clear |-> FALSE, about |-> Nothing]

\* Between these points and the next await a caller has its process alone.
Synchronous ==
  {"pushed", "viewed", "recording", "clearing", "synced", "answered"}

Runs(c) ==
  \A d \in Callers \ {c} :
    Process[d] = Process[c] => call[d].at \notin Synchronous

\* session_locks: a request is refused while another one is served.
Locked == \E r \in Routes : call[r].at /= "idle"

MayStart(c) ==
  /\ Runs(c)
  /\ call[c].at = "idle"
  /\ c \in Routes => ~Locked

\* sync() with and without applying.
Ops(c) == IF c \in Loops THEN {"sync_apply"} ELSE {"sync", "sync_apply"}

Becomes(c, step) == call' = [call EXCEPT ![c] = step]
Ends(c) == Becomes(c, Idle)

\* The snapshot is dealt with; the caller goes on with its operation.
Proceeds(c, at) == Becomes(c, [Idle EXCEPT !.at = at, !.op = call[c].op])

\* publish up to the request: uncommitted edits are committed, a branch
\* without changes is refused, and gh refuses a second request for a branch.
MayPublish(c) ==
  /\ c \in Routes /\ MayStart(c)
  /\ active
  /\ branch \/ review.linked
  /\ review.linked \/ ~github.made

Push ==
  /\ branch' = TRUE
  /\ github' = [github EXCEPT !.made = TRUE]

Publish(c) ==
  /\ MayPublish(c)
  /\ Push
  /\ Becomes(c, [Idle EXCEPT !.at = "pushed", !.op = "publish",
                             !.snap = Snapshot', !.force = TRUE])
  /\ UNCHANGED <<active, review, looping, past, changes, crashes>>

\* The request is made, and viewing it fails: nothing is recorded.
PublishFails(c) ==
  /\ MayPublish(c)
  /\ Push
  /\ orphaned' = (orphaned \/ ~review.linked)
  /\ UNCHANGED <<active, review, call, looping, given, swept, changes, crashes>>

\* Mutant: the request is viewed before it is recorded, and the view is used
\* up by a caller that ends.
RecordPublication_Ends(c) ==
  /\ Runs(c) /\ call[c].at = "pushed"
  /\ Ends(c)
  /\ UNCHANGED <<world, review, looping, past, changes, crashes>>

\* session.pr_published or session.pr_updated.
RecordPublication(c) ==
  /\ Runs(c) /\ call[c].at = "pushed"
  /\ review' = [review EXCEPT !.linked = TRUE]
  /\ Becomes(c, [call[c] EXCEPT !.at = "viewed"])
  /\ UNCHANGED <<world, looping, past, changes, crashes>>

\* sync up to the answer of gh.  The loop is a supervisor while it runs.
View(c) ==
  /\ MayStart(c)
  /\ review.linked
  /\ c \in Supervisors => active
  /\ c \in Loops => c \in looping
  /\ \E op \in Ops(c) :
       Becomes(c, [Idle EXCEPT !.at = "viewed", !.op = op, !.snap = Snapshot])
  /\ UNCHANGED <<world, review, looping, past, changes, crashes>>

\* _record_snapshot reads what the log says so far, and decides.
Compare(c) ==
  /\ Runs(c) /\ call[c].at = "viewed"
  /\ IF ~call[c].force /\ review.last = call[c].snap
     THEN Proceeds(c, "synced")
     ELSE Becomes(c, [call[c] EXCEPT
                        !.at = "recording",
                        !.clear = /\ Actionable(call[c].snap) = Nothing
                                  /\ review.pending])
  /\ UNCHANGED <<world, review, looping, past, changes, crashes>>

\* session.review_synced.  The events for the transcript are left out:
\* status() does not read them.
Record(c) ==
  /\ Runs(c) /\ call[c].at = "recording"
  /\ review' = Synced(review, call[c].snap)
  /\ Proceeds(c, IF call[c].clear THEN "clearing" ELSE "synced")
  /\ UNCHANGED <<world, looping, past, changes, crashes>>

\* session.review_feedback_cleared, whatever the log says by now.
Clear(c) ==
  /\ Runs(c) /\ call[c].at = "clearing"
  /\ review' = Cleared(review)
  /\ swept' = swept \cup ({review.feedback} \ {Nothing})
  /\ Proceeds(c, "synced")
  /\ UNCHANGED <<world, looping, given, orphaned, changes, crashes>>

\* apply_latest sends what is pending and remembers what that was.
MayApply ==
  /\ review.pending /\ review.feedback /= Nothing
  /\ review.feedback /= review.applied
  /\ active

Sends(c) ==
  Becomes(c, [Idle EXCEPT !.at = "turn", !.op = "apply",
                          !.about = review.feedback])

\* The end of sync: apply_latest, or the answer.  It reads the log twice in a
\* row, which is one step here.
AfterSync(c) ==
  /\ Runs(c) /\ call[c].at = "synced"
  /\ IF call[c].op = "sync_apply" /\ MayApply THEN Sends(c) ELSE Ends(c)
  /\ UNCHANGED <<world, review, looping, past, changes, crashes>>

\* /api/reviews/{session}/apply.
Apply(c) ==
  /\ c \in Routes /\ MayStart(c)
  /\ MayApply
  /\ Sends(c)
  /\ UNCHANGED <<world, review, looping, past, changes, crashes>>

\* sessions.send returns when the turn is complete or was cancelled.
TurnReturns(c) ==
  /\ Runs(c) /\ call[c].at = "turn"
  /\ given' = given \cup {call[c].about}
  /\ branch' \in {branch, TRUE}
  /\ Becomes(c, [call[c] EXCEPT !.at = "answered"])
  /\ UNCHANGED <<github, active, review, looping, swept, orphaned, changes,
                 crashes>>

\* A turn that fails raises: nothing is recorded as applied.
TurnFails(c) ==
  /\ Runs(c) /\ call[c].at = "turn"
  /\ Ends(c)
  /\ UNCHANGED <<world, review, looping, past, changes, crashes>>

RecordApplied(c) ==
  /\ Runs(c) /\ call[c].at = "answered"
  /\ review' = Applied(review, call[c].about)
  /\ Ends(c)
  /\ UNCHANGED <<world, looping, past, changes, crashes>>

-----------------------------------------------------------------------------
(* The world *)

Fresh(x) ==
  \A i \in 1..Len(github.lists[ListOf[x]]) : github.lists[ListOf[x]][i] /= x

\* People review and comment, checks report, and the inline API stops answering
\* or answers again.
GitHubChanges ==
  /\ github.made /\ changes < MaxChanges
  /\ changes' = changes + 1
  /\ \/ \E x \in Comments :
          Fresh(x) /\ github' = [github EXCEPT !.lists[ListOf[x]] = Append(@, x)]
     \/ \E check \in RawChecks \ {github.check} :
          github' = [github EXCEPT !.check = check]
     \/ github' = [github EXCEPT !.requested = ~@]
     \/ github' = [github EXCEPT !.inline = ~@]
  /\ UNCHANGED <<branch, active, review, call, looping, past, crashes>>

\* submit or stop of the session; those of the command line look at no lock.
Close ==
  /\ active
  /\ active' = FALSE
  /\ UNCHANGED <<github, branch, review, call, looping, past, changes, crashes>>

\* A process dies with its callers; between the request and its event the
\* request is forgotten.
Crash(p) ==
  /\ crashes < MaxCrashes
  /\ crashes' = crashes + 1
  /\ call' = [c \in Callers |-> IF Process[c] = p THEN Idle ELSE call[c]]
  /\ looping' = {c \in looping : Process[c] /= p}
  /\ orphaned' = (orphaned \/ /\ ~review.linked
                              /\ \E c \in Callers : /\ Process[c] = p
                                                   /\ call[c].at = "pushed")
  /\ UNCHANGED <<world, review, given, swept, changes>>

\* arc supervise, again.
StartLoop(c) ==
  /\ c \in Loops \ looping
  /\ looping' = looping \cup {c}
  /\ UNCHANGED <<world, review, call, past, changes, crashes>>

-----------------------------------------------------------------------------
Init ==
  /\ \E check \in RawChecks :
       github = [made |-> FALSE, check |-> check,
                 requested |-> FALSE, inline |-> TRUE,
                 lists |-> [k \in Lists |-> <<>>]]
  /\ branch \in BOOLEAN
  /\ active = TRUE
  /\ review = Unlinked
  /\ call = [c \in Callers |-> Idle]
  /\ looping = Loops
  /\ given = {} /\ swept = {} /\ orphaned = FALSE
  /\ changes = 0 /\ crashes = 0

CallerNext(c) ==
  \/ Publish(c) \/ PublishFails(c) \/ RecordPublication(c)
  \/ View(c) \/ Compare(c) \/ Record(c) \/ Clear(c) \/ AfterSync(c) \/ Apply(c)
  \/ TurnReturns(c) \/ TurnFails(c) \/ RecordApplied(c)

Next ==
  \/ \E c \in Callers : CallerNext(c)
  \/ \E c \in Loops : StartLoop(c)
  \/ GitHubChanges \/ Close
  \/ \E p \in {Process[c] : c \in Callers} : Crash(p)

Spec == Init /\ [][Next]_vars

\* A call that has begun goes on, a turn ends, and a loop that runs comes round.
\* What is asked of the worker is that its turns do not fail for ever.
Fairness ==
  /\ \A c \in Callers :
       /\ WF_vars(RecordPublication(c) \/ Compare(c) \/ Record(c) \/ Clear(c)
                    \/ AfterSync(c) \/ RecordApplied(c))
       /\ WF_vars(TurnReturns(c) \/ TurnFails(c))
  /\ \A c \in Loops : WF_vars(View(c)) /\ SF_vars(TurnReturns(c))

FairSpec == Spec /\ Fairness

-----------------------------------------------------------------------------
(* Properties *)

Failures  == {""} \cup {Conclusion(check) : check \in {x \in RawChecks : Failed(x)}}
Feedbacks == [failing : Failures, requested : BOOLEAN, comments : Seq(Comments)]
Snapshots == [check : RawChecks, requested : BOOLEAN, comments : Seq(Comments)]

TypeOK ==
  /\ github \in [made : BOOLEAN, check : RawChecks,
                 requested : BOOLEAN, inline : BOOLEAN,
                 lists : [Lists -> Seq(Comments)]]
  /\ branch \in BOOLEAN
  /\ active \in BOOLEAN
  /\ review \in [linked : BOOLEAN, last : Snapshots \cup {None},
                 feedback : Feedbacks, pending : BOOLEAN, applied : Feedbacks]
  /\ call \in [Callers ->
       [at : {"idle", "turn"} \cup Synchronous,
        op : {"none", "publish", "sync", "sync_apply", "apply"},
        snap : Snapshots \cup {None}, force : BOOLEAN, clear : BOOLEAN,
        about : Feedbacks]]
  /\ looping \subseteq Loops
  /\ given \subseteq Feedbacks /\ swept \subseteq Feedbacks
  /\ orphaned \in BOOLEAN
  /\ changes \in 0..MaxChanges /\ crashes \in 0..MaxCrashes

\* Every caller runs in the process of the server.
OneProcess == \A c, d \in Callers : Process[c] = Process[d]

\* The feedback of the last snapshot in the log, as a worker is shown it, is
\* pending, or a worker has been given it: an answer to older feedback does not
\* swallow it (reviews.py, apply_latest records the digest it read before the
\* turn).  Only a clearing can, one that another process had decided before the
\* snapshot was recorded.
NoFeedbackLost ==
  /\ review.last /= None /\ Actionable(review.last) /= Nothing =>
       \/ review.pending /\ review.feedback = Actionable(review.last)
       \/ Actionable(review.last) \in given
       \/ Actionable(review.last) \in swept
  /\ OneProcess => swept = {}

\* A request that GitHub has made is in the log, or a publish is about to
\* record it, or it was lost on the way: viewing it failed, or its process
\* died (reviews.py:207 records after create_pr).
PublishedIsLinked ==
  /\ github.made => \/ review.linked \/ orphaned
                    \/ \E c \in Callers : call[c].at = "pushed"
  /\ review.linked => github.made

\* What a worker would be shown of what is on GitHub now.
Current == Actionable(Snapshot)

\* `arc supervise`: "Automatically route new actionable review/CI feedback into
\* linked workers" (product.py:208).  While the loop runs, the feedback that GitHub
\* ends up with reaches the worker: an old snapshot of another process, a failing
\* turn or a restart only delay it, and only a clearing takes it away.
FeedbackReachesWorker ==
  review.linked ~> \/ Current \in given \cup swept \cup {Nothing}
                   \/ ~active \/ looping = {}

=============================================================================
