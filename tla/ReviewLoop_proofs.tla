-------------------------- MODULE ReviewLoop_proofs --------------------------
(***************************************************************************)
(* What the log of the review loop keeps, for any number of requests,      *)
(* supervisors, comments, checks and crashes.                              *)
(***************************************************************************)
EXTENDS ReviewLoop, SequenceTheorems, TLAPS

(***************************************************************************)
(* The inductive invariant.                                                *)
(***************************************************************************)

GithubRecords == [made : BOOLEAN, check : RawChecks, requested : BOOLEAN,
                  inline : BOOLEAN, lists : [Lists -> Seq(Comments)]]
ReviewRecords == [linked : BOOLEAN, last : Snapshots \cup {None},
                  feedback : Feedbacks, pending : BOOLEAN, applied : Feedbacks]
CallRecords ==
  [at : {"idle", "turn"} \cup Synchronous,
   op : {"none", "publish", "sync", "sync_apply", "apply"},
   snap : Snapshots \cup {None}, force : BOOLEAN, clear : BOOLEAN,
   about : Feedbacks]

\* Who has seen the request has a snapshot of it, and GitHub has the request.
Seen ==
  \A c \in Callers :
    /\ call[c].at \in {"pushed", "viewed", "recording"} => call[c].snap \in Snapshots
    /\ call[c].at = "pushed" => github.made
    /\ call[c].at \in {"viewed", "recording"} => review.linked

\* What is recorded as applied, or about to be, was given to a worker.
AppliedWasGiven ==
  /\ review.applied \in given \cup {Nothing}
  /\ \A c \in Callers : call[c].at = "answered" => call[c].about \in given

\* In one process a clearing follows the snapshot that decided it.
ClearsNothing ==
  OneProcess => \A c \in Callers :
    /\ call[c].at = "recording" /\ call[c].clear => Actionable(call[c].snap) = Nothing
    /\ call[c].at = "clearing" => review.feedback = Nothing

FeedbackInv == NoFeedbackLost /\ ClearsNothing

ReviewInv == TypeOK /\ Seen /\ PublishedIsLinked /\ AppliedWasGiven /\ FeedbackInv

-----------------------------------------------------------------------------
(* The data *)

LEMMA NothingType == Nothing \in Feedbacks
BY DEF Nothing, Feedbacks, Failures

LEMMA NewestType ==
  ASSUME NEW list \in Seq(Comments)
  PROVE  Newest(list) \in Seq(Comments)
<1> DEFINE first == IF Len(list) > Shown THEN Len(list) - Shown + 1 ELSE 1
<1>1. Len(list) \in Nat
  OBVIOUS
<1>2. first \in Int /\ 1 <= first
  BY <1>1, ShownNatural
<1>3. \A i \in first .. Len(list) : i \in 1 .. Len(list)
  BY <1>1, <1>2
<1>4. \A i \in first .. Len(list) : list[i] \in Comments
  BY <1>3
<1> QED
  BY <1>1, <1>2, <1>4, SubSeqProperties DEF Newest

LEMMA ActionableType ==
  ASSUME NEW snap \in Snapshots
  PROVE  Actionable(snap) \in Feedbacks
<1>1. /\ snap.check \in RawChecks /\ snap.requested \in BOOLEAN
      /\ snap.comments \in Seq(Comments)
  BY DEF Snapshots
<1>2. Newest(snap.comments) \in Seq(Comments)
  BY <1>1, NewestType
<1> QED
  BY <1>1, <1>2 DEF Actionable, Feedbacks, Failures

LEMMA SnapshotType ==
  ASSUME github \in GithubRecords
  PROVE  Snapshot \in Snapshots
<1>1. /\ github.check \in RawChecks /\ github.requested \in BOOLEAN
      /\ github.lists["review"] \in Seq(Comments)
      /\ github.lists["pr_comment"] \in Seq(Comments)
      /\ github.lists["inline_review"] \in Seq(Comments)
  BY DEF GithubRecords, Lists
<1>2. Listed \in Seq(Comments)
  BY <1>1 DEF Listed
<1> QED
  BY <1>1, <1>2 DEF Snapshot, Snapshots

LEMMA IdleType == Idle \in CallRecords /\ Idle.at = "idle"
BY NothingType DEF Idle, CallRecords

\* status() over one more event.
LEMMA SyncedFields ==
  ASSUME NEW status \in ReviewRecords, NEW snap \in Snapshots
  PROVE  /\ Synced(status, snap) \in ReviewRecords
         /\ Synced(status, snap).linked
         /\ Synced(status, snap).last = snap
         /\ Synced(status, snap).feedback = Actionable(snap)
         /\ Synced(status, snap).applied = status.applied
         /\ Actionable(snap) /= Nothing /\ Actionable(snap) /= status.applied =>
              Synced(status, snap).pending
BY ActionableType DEF Synced, ReviewRecords

LEMMA AppliedFields ==
  ASSUME NEW status \in ReviewRecords, NEW about \in Feedbacks
  PROVE  /\ Applied(status, about) \in ReviewRecords
         /\ Applied(status, about).linked = status.linked
         /\ Applied(status, about).last = status.last
         /\ Applied(status, about).feedback = status.feedback
         /\ Applied(status, about).applied = about
         /\ status.pending /\ status.feedback /= about => Applied(status, about).pending
BY DEF Applied, ReviewRecords

LEMMA ClearedFields ==
  ASSUME NEW status \in ReviewRecords
  PROVE  /\ Cleared(status) \in ReviewRecords
         /\ Cleared(status).linked = status.linked
         /\ Cleared(status).last = status.last
         /\ Cleared(status).applied = status.applied
         /\ Cleared(status).feedback = Nothing
BY NothingType DEF Cleared, ReviewRecords

\* One caller moves; the others stay where they are.
LEMMA CallMoves ==
  ASSUME TypeOK, NEW c \in Callers, NEW step \in CallRecords, Becomes(c, step)
  PROVE  /\ call' \in [Callers -> CallRecords]
         /\ \A d \in Callers : call'[d] = IF d = c THEN step ELSE call[d]
BY DEF TypeOK, CallRecords, Becomes

\* What a caller is after its snapshot is dealt with.
LEMMA ProceedsStep ==
  ASSUME TypeOK, NEW c \in Callers, NEW at \in {"clearing", "synced"}
  PROVE  /\ [Idle EXCEPT !.at = at, !.op = call[c].op] \in CallRecords
         /\ [Idle EXCEPT !.at = at, !.op = call[c].op].at = at
BY NothingType DEF TypeOK, CallRecords, Idle, Synchronous

\* In one process nobody else is between two awaits.
LEMMA AloneInProcess ==
  ASSUME OneProcess, NEW c \in Callers, Runs(c), NEW d \in Callers, d /= c
  PROVE  call[d].at \notin Synchronous
BY DEF OneProcess, Runs

\* A step that leaves the log, and what workers were given, alone.
LEMMA QuietStep ==
  ASSUME ReviewInv, UNCHANGED <<review, given, swept>>,
         \A d \in Callers : call'[d].at \in {"recording", "clearing", "answered"} =>
                              call'[d] = call[d]
  PROVE  AppliedWasGiven' /\ FeedbackInv'
<1>1. AppliedWasGiven'
  BY DEF ReviewInv, AppliedWasGiven
<1>2. NoFeedbackLost'
  BY DEF ReviewInv, FeedbackInv, NoFeedbackLost, OneProcess
<1>3. ClearsNothing'
  BY DEF ReviewInv, FeedbackInv, ClearsNothing, OneProcess
<1> QED
  BY <1>1, <1>2, <1>3 DEF FeedbackInv

-----------------------------------------------------------------------------

LEMMA InitReview == Init => ReviewInv
<1> SUFFICES ASSUME Init PROVE ReviewInv
  OBVIOUS
<1>1. TypeOK
  <2>1. call \in [Callers -> CallRecords]
    BY IdleType DEF Init
  <2>2. review \in ReviewRecords
    BY NothingType DEF Init, Unlinked, ReviewRecords
  <2>3. github \in GithubRecords
    BY DEF Init, GithubRecords
  <2>4. /\ given \subseteq Feedbacks /\ swept \subseteq Feedbacks
        /\ orphaned \in BOOLEAN /\ active \in BOOLEAN /\ looping \subseteq Loops
    BY DEF Init
  <2>5. changes \in 0..MaxChanges /\ crashes \in 0..MaxCrashes
    BY BoundsNatural DEF Init
  <2>6. branch \in BOOLEAN
    BY DEF Init
  <2> QED
    BY <2>1, <2>2, <2>3, <2>4, <2>5, <2>6
    DEF TypeOK, CallRecords, ReviewRecords, GithubRecords
<1>2. \A c \in Callers : call[c].at = "idle"
  BY IdleType DEF Init
<1>3. ~review.linked /\ review.last = None /\ review.applied = Nothing /\ ~github.made
  BY DEF Init, Unlinked
<1>4. Seen /\ PublishedIsLinked
  BY <1>2, <1>3 DEF Seen, PublishedIsLinked
<1>5. AppliedWasGiven /\ FeedbackInv
  BY <1>2, <1>3 DEF Init, AppliedWasGiven, FeedbackInv, NoFeedbackLost, ClearsNothing
<1> QED
  BY <1>1, <1>4, <1>5 DEF ReviewInv

\* publish: the request exists, and its caller is about to record it ...
LEMMA PublishKeeps ==
  ASSUME ReviewInv, NEW c \in Callers, Publish(c)
  PROVE  ReviewInv'
<1> DEFINE step == [Idle EXCEPT !.at = "pushed", !.op = "publish",
                                !.snap = Snapshot', !.force = TRUE]
<1>1. Becomes(c, step)
  BY DEF Publish
<1>2. /\ github' \in GithubRecords /\ github'.made /\ branch' \in BOOLEAN
      /\ UNCHANGED <<active, review, looping, given, swept, orphaned, changes, crashes>>
  BY DEF ReviewInv, TypeOK, Publish, Push, GithubRecords, past
<1>3. Snapshot' \in Snapshots
  <2>1. GithubRecords' = GithubRecords
    BY DEF GithubRecords
  <2>2. (github \in GithubRecords => Snapshot \in Snapshots)'
    BY SnapshotType, PTL
  <2>3. Snapshots' = Snapshots
    BY DEF Snapshots
  <2> QED
    BY <1>2, <2>1, <2>2, <2>3
<1>4. step \in CallRecords /\ step.at = "pushed" /\ step.snap \in Snapshots
  BY <1>3, NothingType DEF CallRecords, Idle, Synchronous
<1> HIDE DEF step
<1>5. /\ call' \in [Callers -> CallRecords]
      /\ \A d \in Callers : call'[d] = IF d = c THEN step ELSE call[d]
  BY <1>1, <1>4, CallMoves DEF ReviewInv, step
<1>6. TypeOK'
  BY <1>2, <1>5 DEF ReviewInv, TypeOK, CallRecords, GithubRecords
<1>7. Seen'
  BY <1>2, <1>4, <1>5 DEF ReviewInv, Seen
<1>8. PublishedIsLinked'
  BY <1>2, <1>4, <1>5 DEF ReviewInv, PublishedIsLinked
<1>9. AppliedWasGiven' /\ FeedbackInv'
  BY <1>2, <1>4, <1>5, QuietStep
<1> QED
  BY <1>6, <1>7, <1>8, <1>9 DEF ReviewInv

\* ... or the request is lost on the way.
LEMMA PublishFailsKeeps ==
  ASSUME ReviewInv, NEW c \in Callers, PublishFails(c)
  PROVE  ReviewInv'
<1>1. /\ github' \in GithubRecords /\ github'.made /\ branch' \in BOOLEAN
      /\ orphaned' = (orphaned \/ ~review.linked)
      /\ UNCHANGED <<active, review, call, looping, given, swept, changes, crashes>>
  BY DEF ReviewInv, TypeOK, PublishFails, Push, GithubRecords
<1>2. TypeOK'
  BY <1>1 DEF ReviewInv, TypeOK, GithubRecords
<1>3. Seen' /\ PublishedIsLinked'
  BY <1>1 DEF ReviewInv, Seen, PublishedIsLinked
<1>4. AppliedWasGiven' /\ FeedbackInv'
  BY <1>1, QuietStep
<1> QED
  BY <1>2, <1>3, <1>4 DEF ReviewInv

\* The publication is recorded.
LEMMA RecordPublicationKeeps ==
  ASSUME ReviewInv, NEW c \in Callers, RecordPublication(c)
  PROVE  ReviewInv'
<1> DEFINE step == [call[c] EXCEPT !.at = "viewed"]
<1>1. /\ call[c].at = "pushed" /\ Becomes(c, step)
      /\ review' = [review EXCEPT !.linked = TRUE]
      /\ UNCHANGED <<github, branch, active, looping, given, swept, orphaned, changes, crashes>>
  BY DEF RecordPublication, world, past
<1>2. github.made /\ call[c].snap \in Snapshots
  BY <1>1 DEF ReviewInv, Seen
<1>3. call[c] \in CallRecords /\ review \in ReviewRecords
  BY DEF ReviewInv, TypeOK, CallRecords, ReviewRecords
<1>4. step \in CallRecords /\ step.at = "viewed" /\ step.snap = call[c].snap
  BY <1>3 DEF CallRecords, Synchronous
<1> HIDE DEF step
<1>5. /\ call' \in [Callers -> CallRecords]
      /\ \A d \in Callers : call'[d] = IF d = c THEN step ELSE call[d]
  BY <1>1, <1>4, CallMoves DEF ReviewInv
<1>6. /\ review' \in ReviewRecords /\ review'.linked
      /\ review'.last = review.last /\ review'.feedback = review.feedback
      /\ review'.pending = review.pending /\ review'.applied = review.applied
  BY <1>1, <1>3 DEF ReviewRecords
<1>7. TypeOK'
  BY <1>1, <1>5, <1>6 DEF ReviewInv, TypeOK, CallRecords, ReviewRecords
<1>8. Seen' /\ PublishedIsLinked'
  BY <1>1, <1>2, <1>4, <1>5, <1>6 DEF ReviewInv, Seen, PublishedIsLinked
<1>9. AppliedWasGiven'
  BY <1>1, <1>4, <1>5, <1>6 DEF ReviewInv, AppliedWasGiven
<1>10. NoFeedbackLost'
  BY <1>1, <1>6 DEF ReviewInv, FeedbackInv, NoFeedbackLost, OneProcess
<1>11. ClearsNothing'
  BY <1>4, <1>5, <1>6 DEF ReviewInv, FeedbackInv, ClearsNothing, OneProcess
<1> QED
  BY <1>7, <1>8, <1>9, <1>10, <1>11 DEF ReviewInv, FeedbackInv

\* A snapshot is taken of a request the log knows.
LEMMA ViewKeeps ==
  ASSUME ReviewInv, NEW c \in Callers, View(c)
  PROVE  ReviewInv'
<1>1. PICK op \in Ops(c) :
        Becomes(c, [Idle EXCEPT !.at = "viewed", !.op = op, !.snap = Snapshot])
  BY DEF View
<1> DEFINE step == [Idle EXCEPT !.at = "viewed", !.op = op, !.snap = Snapshot]
<1>2. /\ review.linked
      /\ UNCHANGED <<github, branch, active, review, looping, given, swept, orphaned, changes, crashes>>
  BY DEF View, world, past
<1>3. Snapshot \in Snapshots
  BY SnapshotType DEF ReviewInv, TypeOK, GithubRecords
<1>4. step \in CallRecords /\ step.at = "viewed" /\ step.snap \in Snapshots
  BY <1>3, NothingType DEF CallRecords, Idle, Synchronous, Ops
<1> HIDE DEF step
<1>5. /\ call' \in [Callers -> CallRecords]
      /\ \A d \in Callers : call'[d] = IF d = c THEN step ELSE call[d]
  BY <1>1, <1>4, CallMoves DEF ReviewInv, step
<1>6. TypeOK'
  BY <1>2, <1>5 DEF ReviewInv, TypeOK, CallRecords
<1>7. call[c].at = "idle"
  BY DEF View, MayStart
<1>8. Seen' /\ PublishedIsLinked'
  BY <1>2, <1>4, <1>5, <1>7 DEF ReviewInv, Seen, PublishedIsLinked
<1>9. AppliedWasGiven' /\ FeedbackInv'
  BY <1>2, <1>4, <1>5, QuietStep
<1> QED
  BY <1>6, <1>8, <1>9 DEF ReviewInv

\* The log is read, and nothing is written yet.
LEMMA CompareKeeps ==
  ASSUME ReviewInv, NEW c \in Callers, Compare(c)
  PROVE  ReviewInv'
<1> DEFINE record == [call[c] EXCEPT !.at = "recording",
                        !.clear = Actionable(call[c].snap) = Nothing /\ review.pending]
           forget == [Idle EXCEPT !.at = "synced", !.op = call[c].op]
<1>1. /\ call[c].at = "viewed" /\ (Becomes(c, record) \/ Becomes(c, forget))
      /\ UNCHANGED <<github, branch, active, review, looping, given, swept, orphaned, changes, crashes>>
  BY DEF Compare, Proceeds, world, past
<1>2. call[c].snap \in Snapshots /\ review.linked
  BY <1>1 DEF ReviewInv, Seen
<1>3. call[c] \in CallRecords /\ review.pending \in BOOLEAN
  BY DEF ReviewInv, TypeOK, CallRecords
<1>4. /\ record \in CallRecords /\ record.at = "recording"
      /\ record.snap = call[c].snap
      /\ record.clear => Actionable(call[c].snap) = Nothing
  <2>1. (Actionable(call[c].snap) = Nothing /\ review.pending) \in BOOLEAN
    OBVIOUS
  <2> QED
    BY <1>3, <2>1 DEF CallRecords, Synchronous
<1>5. forget \in CallRecords /\ forget.at = "synced"
  BY ProceedsStep DEF ReviewInv
<1> HIDE DEF record, forget
<1>6. PICK step \in {record, forget} :
        /\ call' \in [Callers -> CallRecords]
        /\ \A d \in Callers : call'[d] = IF d = c THEN step ELSE call[d]
  BY <1>1, <1>4, <1>5, CallMoves DEF ReviewInv
<1>7. TypeOK'
  BY <1>1, <1>6 DEF ReviewInv, TypeOK, CallRecords
<1>8. Seen' /\ PublishedIsLinked'
  BY <1>1, <1>2, <1>4, <1>5, <1>6 DEF ReviewInv, Seen, PublishedIsLinked
<1>9. AppliedWasGiven'
  BY <1>1, <1>4, <1>5, <1>6 DEF ReviewInv, AppliedWasGiven
<1>10. NoFeedbackLost'
  BY <1>1 DEF ReviewInv, FeedbackInv, NoFeedbackLost, OneProcess
<1>11. ClearsNothing'
  BY <1>1, <1>4, <1>5, <1>6 DEF ReviewInv, FeedbackInv, ClearsNothing, OneProcess
<1> QED
  BY <1>7, <1>8, <1>9, <1>10, <1>11 DEF ReviewInv, FeedbackInv

\* A snapshot is recorded: its feedback is pending from now on, unless it is
\* what the last answer was about.
LEMMA RecordKeeps ==
  ASSUME ReviewInv, NEW c \in Callers, Record(c)
  PROVE  ReviewInv'
<1> DEFINE snap == call[c].snap
           where == IF call[c].clear THEN "clearing" ELSE "synced"
           step == [Idle EXCEPT !.at = where, !.op = call[c].op]
<1>1. /\ Runs(c) /\ call[c].at = "recording" /\ Becomes(c, step)
      /\ review' = Synced(review, snap)
      /\ UNCHANGED <<github, branch, active, looping, given, swept, orphaned, changes, crashes>>
  BY DEF Record, Proceeds, world, past
<1>2. snap \in Snapshots /\ review.linked
  BY <1>1 DEF ReviewInv, Seen
<1>3. review \in ReviewRecords
  BY DEF ReviewInv, TypeOK, ReviewRecords
<1>4. step \in CallRecords /\ step.at = where /\ where \in {"synced", "clearing"}
  BY ProceedsStep DEF ReviewInv
<1>5. OneProcess /\ where = "clearing" => Actionable(snap) = Nothing
  BY <1>1 DEF ReviewInv, FeedbackInv, ClearsNothing
<1> HIDE DEF step, where, snap
<1>6. /\ call' \in [Callers -> CallRecords]
      /\ \A d \in Callers : call'[d] = IF d = c THEN step ELSE call[d]
  BY <1>1, <1>4, CallMoves DEF ReviewInv
<1>7. /\ review' \in ReviewRecords /\ review'.linked /\ review'.applied = review.applied
      /\ review'.last = snap /\ review'.feedback = Actionable(snap)
      /\ Actionable(snap) /= Nothing /\ Actionable(snap) /= review.applied =>
           review'.pending
  BY <1>1, <1>2, <1>3, SyncedFields
<1>8. TypeOK'
  BY <1>1, <1>6, <1>7 DEF ReviewInv, TypeOK, CallRecords, ReviewRecords
<1>9. Seen' /\ PublishedIsLinked'
  BY <1>1, <1>4, <1>6, <1>7 DEF ReviewInv, Seen, PublishedIsLinked
<1>10. AppliedWasGiven'
  BY <1>1, <1>4, <1>6, <1>7 DEF ReviewInv, AppliedWasGiven
<1>11. NoFeedbackLost'
  BY <1>1, <1>7 DEF ReviewInv, FeedbackInv, NoFeedbackLost, AppliedWasGiven, OneProcess
<1>12. ClearsNothing'
  <2> SUFFICES ASSUME OneProcess
               PROVE  \A d \in Callers :
                        /\ call'[d].at = "recording" /\ call'[d].clear =>
                             Actionable(call'[d].snap) = Nothing
                        /\ call'[d].at = "clearing" => review'.feedback = Nothing
    BY DEF ClearsNothing, OneProcess
  <2>1. \A d \in Callers : d /= c => call'[d].at \notin {"recording", "clearing"}
    BY <1>1, <1>6, AloneInProcess DEF Synchronous
  <2> QED
    BY <1>4, <1>5, <1>6, <1>7, <2>1
<1> QED
  BY <1>8, <1>9, <1>10, <1>11, <1>12 DEF ReviewInv, FeedbackInv

\* A clearing takes away what is pending by then; in one process that is nothing.
LEMMA ClearKeeps ==
  ASSUME ReviewInv, NEW c \in Callers, Clear(c)
  PROVE  ReviewInv'
<1> DEFINE step == [Idle EXCEPT !.at = "synced", !.op = call[c].op]
<1>1. /\ Runs(c) /\ call[c].at = "clearing" /\ Becomes(c, step)
      /\ review' = Cleared(review)
      /\ swept' = swept \cup ({review.feedback} \ {Nothing})
      /\ UNCHANGED <<github, branch, active, looping, given, orphaned, changes, crashes>>
  BY DEF Clear, Proceeds, world
<1>2. review \in ReviewRecords /\ review.feedback \in Feedbacks
  BY DEF ReviewInv, TypeOK, ReviewRecords
<1>3. step \in CallRecords /\ step.at = "synced"
  BY ProceedsStep DEF ReviewInv
<1> HIDE DEF step
<1>4. /\ call' \in [Callers -> CallRecords]
      /\ \A d \in Callers : call'[d] = IF d = c THEN step ELSE call[d]
  BY <1>1, <1>3, CallMoves DEF ReviewInv
<1>5. /\ review' \in ReviewRecords /\ review'.linked = review.linked
      /\ review'.last = review.last /\ review'.applied = review.applied
      /\ review'.feedback = Nothing
  BY <1>1, <1>2, ClearedFields
<1>6. TypeOK'
  <2>1. swept' \subseteq Feedbacks
    BY <1>1, <1>2 DEF ReviewInv, TypeOK
  <2> QED
    BY <1>1, <1>4, <1>5, <2>1 DEF ReviewInv, TypeOK, CallRecords, ReviewRecords
<1>7. Seen' /\ PublishedIsLinked'
  BY <1>1, <1>3, <1>4, <1>5 DEF ReviewInv, Seen, PublishedIsLinked
<1>8. AppliedWasGiven'
  BY <1>1, <1>3, <1>4, <1>5 DEF ReviewInv, AppliedWasGiven
<1>9. NoFeedbackLost'
  <2>1. ASSUME review'.last /= None, Actionable(review'.last) /= Nothing
        PROVE  Actionable(review'.last) \in given' \cup swept'
    <3>1. Actionable(review.last) = Actionable(review'.last) /\ review.last /= None
      BY <1>5, <2>1
    <3> QED
      BY <1>1, <2>1, <3>1 DEF ReviewInv, FeedbackInv, NoFeedbackLost
  <2>2. OneProcess => swept' = {}
    BY <1>1 DEF ReviewInv, FeedbackInv, NoFeedbackLost, ClearsNothing
  <2> QED
    BY <2>1, <2>2 DEF NoFeedbackLost, OneProcess
<1>10. ClearsNothing'
  BY <1>3, <1>4, <1>5 DEF ReviewInv, FeedbackInv, ClearsNothing, OneProcess
<1> QED
  BY <1>6, <1>7, <1>8, <1>9, <1>10 DEF ReviewInv, FeedbackInv

\* What is sent is what is pending, of which nothing is recorded yet.
LEMMA SendKeeps ==
  ASSUME ReviewInv, NEW c \in Callers, AfterSync(c) \/ Apply(c)
  PROVE  ReviewInv'
<1> DEFINE send == [Idle EXCEPT !.at = "turn", !.op = "apply", !.about = review.feedback]
<1>1. send \in CallRecords /\ send.at = "turn"
  BY DEF ReviewInv, TypeOK, CallRecords, Idle, ReviewRecords
<1>2. /\ call[c].at \in {"synced", "idle"} /\ (Becomes(c, send) \/ Becomes(c, Idle))
      /\ UNCHANGED <<github, branch, active, review, looping, given, swept, orphaned, changes, crashes>>
  BY DEF AfterSync, Apply, Sends, Ends, MayStart, world, past
<1> HIDE DEF send
<1>3. /\ call' \in [Callers -> CallRecords]
      /\ \A d \in Callers : d /= c => call'[d] = call[d]
      /\ call'[c].at \in {"turn", "idle"}
  BY <1>1, <1>2, IdleType, CallMoves DEF ReviewInv
<1>4. TypeOK'
  BY <1>2, <1>3 DEF ReviewInv, TypeOK, CallRecords
<1>5. Seen' /\ PublishedIsLinked'
  BY <1>2, <1>3 DEF ReviewInv, Seen, PublishedIsLinked
<1>6. AppliedWasGiven' /\ FeedbackInv'
  BY <1>2, <1>3, QuietStep
<1> QED
  BY <1>4, <1>5, <1>6 DEF ReviewInv

\* A turn that returns has given its feedback to the worker.
LEMMA TurnReturnsKeeps ==
  ASSUME ReviewInv, NEW c \in Callers, TurnReturns(c)
  PROVE  ReviewInv'
<1> DEFINE step == [call[c] EXCEPT !.at = "answered"]
<1>1. /\ call[c].at = "turn" /\ Becomes(c, step)
      /\ given' = given \cup {call[c].about}
      /\ UNCHANGED <<github, active, review, looping, swept, orphaned, changes, crashes>>
  BY DEF TurnReturns
<1>2. branch' \in BOOLEAN
  BY DEF TurnReturns, ReviewInv, TypeOK
<1>3. call[c] \in CallRecords /\ call[c].about \in Feedbacks
  BY DEF ReviewInv, TypeOK, CallRecords
<1>4. step \in CallRecords /\ step.at = "answered" /\ step.about = call[c].about
  BY <1>3 DEF CallRecords, Synchronous
<1> HIDE DEF step
<1>5. /\ call' \in [Callers -> CallRecords]
      /\ \A d \in Callers : call'[d] = IF d = c THEN step ELSE call[d]
  BY <1>1, <1>4, CallMoves DEF ReviewInv
<1>6. TypeOK'
  BY <1>1, <1>2, <1>3, <1>5 DEF ReviewInv, TypeOK, CallRecords
<1>7. Seen' /\ PublishedIsLinked'
  BY <1>1, <1>4, <1>5 DEF ReviewInv, Seen, PublishedIsLinked
<1>8. AppliedWasGiven'
  BY <1>1, <1>4, <1>5 DEF ReviewInv, AppliedWasGiven
<1>9. NoFeedbackLost'
  BY <1>1 DEF ReviewInv, FeedbackInv, NoFeedbackLost, OneProcess
<1>10. ClearsNothing'
  BY <1>1, <1>4, <1>5 DEF ReviewInv, FeedbackInv, ClearsNothing, OneProcess
<1> QED
  BY <1>6, <1>7, <1>8, <1>9, <1>10 DEF ReviewInv, FeedbackInv

\* A turn that fails leaves the feedback pending.
LEMMA TurnFailsKeeps ==
  ASSUME ReviewInv, NEW c \in Callers, TurnFails(c)
  PROVE  ReviewInv'
<1>1. /\ call[c].at = "turn" /\ Becomes(c, Idle)
      /\ UNCHANGED <<github, branch, active, review, looping, given, swept, orphaned, changes, crashes>>
  BY DEF TurnFails, Ends, world, past
<1>2. /\ call' \in [Callers -> CallRecords]
      /\ \A d \in Callers : call'[d] = IF d = c THEN Idle ELSE call[d]
  BY <1>1, IdleType, CallMoves DEF ReviewInv
<1>3. TypeOK'
  BY <1>1, <1>2 DEF ReviewInv, TypeOK, CallRecords
<1>4. Seen' /\ PublishedIsLinked'
  BY <1>1, <1>2, IdleType DEF ReviewInv, Seen, PublishedIsLinked
<1>5. AppliedWasGiven' /\ FeedbackInv'
  BY <1>1, <1>2, IdleType, QuietStep
<1> QED
  BY <1>3, <1>4, <1>5 DEF ReviewInv

\* The answer is recorded under what was sent: newer feedback stays pending.
LEMMA RecordAppliedKeeps ==
  ASSUME ReviewInv, NEW c \in Callers, RecordApplied(c)
  PROVE  ReviewInv'
<1>1. /\ call[c].at = "answered" /\ Becomes(c, Idle)
      /\ review' = Applied(review, call[c].about)
      /\ UNCHANGED <<github, branch, active, looping, given, swept, orphaned, changes, crashes>>
  BY DEF RecordApplied, Ends, world, past
<1>2. call[c].about \in Feedbacks /\ review \in ReviewRecords
  BY DEF ReviewInv, TypeOK, ReviewRecords
<1>3. /\ review' \in ReviewRecords /\ review'.linked = review.linked
      /\ review'.last = review.last /\ review'.feedback = review.feedback
      /\ review'.applied = call[c].about
      /\ review.pending /\ review.feedback /= call[c].about => review'.pending
  BY <1>1, <1>2, AppliedFields
<1>4. /\ call' \in [Callers -> CallRecords]
      /\ \A d \in Callers : call'[d] = IF d = c THEN Idle ELSE call[d]
  BY <1>1, IdleType, CallMoves DEF ReviewInv
<1>5. call[c].about \in given
  BY <1>1 DEF ReviewInv, AppliedWasGiven
<1>6. TypeOK'
  BY <1>1, <1>3, <1>4 DEF ReviewInv, TypeOK, CallRecords, ReviewRecords
<1>7. Seen' /\ PublishedIsLinked'
  BY <1>1, <1>3, <1>4, IdleType DEF ReviewInv, Seen, PublishedIsLinked
<1>8. AppliedWasGiven'
  BY <1>1, <1>3, <1>4, <1>5, IdleType DEF ReviewInv, AppliedWasGiven
<1>9. NoFeedbackLost'
  <2>1. Actionable(review'.last) = Actionable(review.last)
    BY <1>3
  <2> QED
    BY <1>1, <1>3, <1>5, <2>1 DEF ReviewInv, FeedbackInv, NoFeedbackLost, OneProcess
<1>10. ClearsNothing'
  BY <1>3, <1>4, IdleType DEF ReviewInv, FeedbackInv, ClearsNothing, OneProcess
<1> QED
  BY <1>6, <1>7, <1>8, <1>9, <1>10 DEF ReviewInv, FeedbackInv

\* GitHub and the session change beside the callers.
LEMMA WorldKeeps ==
  ASSUME ReviewInv, GitHubChanges \/ Close
  PROVE  ReviewInv'
<1>1. UNCHANGED <<branch, review, call, looping, given, swept, orphaned, crashes>>
  BY DEF GitHubChanges, Close, past
<1>2. /\ github' \in GithubRecords /\ github'.made = github.made
      /\ changes' \in 0..MaxChanges /\ active' \in BOOLEAN
  <2>1. CASE GitHubChanges
    <3>1. changes' \in 0..MaxChanges /\ active' \in BOOLEAN
      BY <2>1, BoundsNatural DEF GitHubChanges, ReviewInv, TypeOK
    <3>2. github \in GithubRecords
      BY DEF ReviewInv, TypeOK, GithubRecords
    <3>3. CASE \E x \in Comments :
                 Fresh(x) /\ github' = [github EXCEPT !.lists[ListOf[x]] = Append(@, x)]
      <4>1. PICK x \in Comments :
              github' = [github EXCEPT !.lists[ListOf[x]] = Append(@, x)]
        BY <3>3
      <4>2. ListOf[x] \in Lists /\ github.lists \in [Lists -> Seq(Comments)]
        BY <3>2, CommentsAreListed DEF GithubRecords
      <4>3. Append(github.lists[ListOf[x]], x) \in Seq(Comments)
        BY <4>2
      <4> QED
        BY <3>1, <3>2, <4>1, <4>2, <4>3 DEF GithubRecords
    <3>4. CASE \E check \in RawChecks \ {github.check} :
                 github' = [github EXCEPT !.check = check]
      BY <3>1, <3>2, <3>4 DEF GithubRecords
    <3>5. CASE \/ github' = [github EXCEPT !.requested = ~@]
               \/ github' = [github EXCEPT !.inline = ~@]
      <4>1. (~github.requested) \in BOOLEAN /\ (~github.inline) \in BOOLEAN
        OBVIOUS
      <4> QED
        BY <3>1, <3>2, <3>5, <4>1 DEF GithubRecords
    <3> QED
      BY <2>1, <3>3, <3>4, <3>5 DEF GitHubChanges
  <2>2. CASE Close
    BY <2>2 DEF Close, ReviewInv, TypeOK, GithubRecords
  <2> QED
    BY <2>1, <2>2
<1>3. TypeOK'
  BY <1>1, <1>2 DEF ReviewInv, TypeOK, GithubRecords
<1>4. Seen' /\ PublishedIsLinked'
  BY <1>1, <1>2 DEF ReviewInv, Seen, PublishedIsLinked
<1>5. AppliedWasGiven' /\ FeedbackInv'
  BY <1>1, QuietStep
<1> QED
  BY <1>3, <1>4, <1>5 DEF ReviewInv

\* A process dies between any two steps of its callers.
LEMMA CrashKeeps ==
  ASSUME ReviewInv, NEW p, Crash(p)
  PROVE  ReviewInv'
<1>1. /\ call' = [c \in Callers |-> IF Process[c] = p THEN Idle ELSE call[c]]
      /\ UNCHANGED <<github, branch, active, review, given, swept, changes>>
      /\ looping' = {c \in looping : Process[c] /= p}
      /\ orphaned' = (orphaned \/ /\ ~review.linked
                                  /\ \E c \in Callers : /\ Process[c] = p
                                                       /\ call[c].at = "pushed")
      /\ crashes < MaxCrashes /\ crashes' = crashes + 1
  BY DEF Crash, world
<1>2. /\ call' \in [Callers -> CallRecords]
      /\ \A d \in Callers : call'[d] = IF Process[d] = p THEN Idle ELSE call[d]
  BY <1>1, IdleType DEF ReviewInv, TypeOK, CallRecords
<1>3. TypeOK'
  <2>1. /\ crashes' \in 0..MaxCrashes /\ orphaned' \in BOOLEAN
        /\ looping' \subseteq Loops
    BY <1>1, BoundsNatural DEF ReviewInv, TypeOK
  <2> QED
    BY <1>1, <1>2, <2>1 DEF ReviewInv, TypeOK, CallRecords
<1>4. Seen' /\ PublishedIsLinked'
  BY <1>1, <1>2, IdleType DEF ReviewInv, Seen, PublishedIsLinked
<1>5. AppliedWasGiven' /\ FeedbackInv'
  BY <1>1, <1>2, IdleType, QuietStep
<1> QED
  BY <1>3, <1>4, <1>5 DEF ReviewInv

\* `arc supervise` is started again.
LEMMA StartLoopKeeps ==
  ASSUME ReviewInv, NEW c \in Loops, StartLoop(c)
  PROVE  ReviewInv'
<1>1. /\ looping' \subseteq Loops
      /\ UNCHANGED <<github, branch, active, review, call, given, swept, orphaned, changes,
                     crashes>>
  BY DEF StartLoop, world, past, ReviewInv, TypeOK
<1>2. TypeOK'
  BY <1>1 DEF ReviewInv, TypeOK
<1>3. Seen' /\ PublishedIsLinked'
  BY <1>1 DEF ReviewInv, Seen, PublishedIsLinked
<1>4. AppliedWasGiven' /\ FeedbackInv'
  BY <1>1, QuietStep
<1> QED
  BY <1>2, <1>3, <1>4 DEF ReviewInv

LEMMA NextReview == ReviewInv /\ [Next]_vars => ReviewInv'
<1> SUFFICES ASSUME ReviewInv, [Next]_vars PROVE ReviewInv'
  OBVIOUS
<1>1. ASSUME NEW c \in Callers, CallerNext(c) PROVE ReviewInv'
  BY <1>1, PublishKeeps, PublishFailsKeeps, RecordPublicationKeeps, ViewKeeps, CompareKeeps,
     RecordKeeps, ClearKeeps, SendKeeps, TurnReturnsKeeps, TurnFailsKeeps, RecordAppliedKeeps
  DEF CallerNext
<1>2. CASE UNCHANGED vars
  <2>1. UNCHANGED <<github, branch, active, review, call, looping, given, swept, orphaned, changes, crashes>>
    BY <1>2 DEF vars, world, past
  <2>2. TypeOK'
    BY <2>1 DEF ReviewInv, TypeOK
  <2>3. Seen' /\ PublishedIsLinked'
    BY <2>1 DEF ReviewInv, Seen, PublishedIsLinked
  <2>4. AppliedWasGiven' /\ FeedbackInv'
    BY <2>1, QuietStep
  <2> QED
    BY <2>2, <2>3, <2>4 DEF ReviewInv
<1> QED
  BY <1>1, <1>2, WorldKeeps, CrashKeeps, StartLoopKeeps DEF Next

LEMMA ReviewInvariant == Spec => []ReviewInv
BY InitReview, NextReview, PTL DEF Spec

-----------------------------------------------------------------------------

\* The variables of the review loop keep their types.
THEOREM ReviewTypes == Spec => []TypeOK
<1>1. ReviewInv => TypeOK
  BY DEF ReviewInv
<1> QED
  BY <1>1, ReviewInvariant, PTL

\* Whatever requests, supervisors and crashes interleave at the turns, the feedback
\* last recorded is pending, was given to a worker, or was taken away by the clearing
\* of another process (reviews.py, apply_latest and _record_snapshot).
THEOREM FeedbackKept == Spec => []NoFeedbackLost
<1>1. ReviewInv => NoFeedbackLost
  BY DEF ReviewInv, FeedbackInv
<1> QED
  BY <1>1, ReviewInvariant, PTL

\* With any number of processes, a request that GitHub has made is linked, or
\* its publication is under way or broke off (reviews.py, publish).
THEOREM PublicationLinked == Spec => []PublishedIsLinked
<1>1. ReviewInv => PublishedIsLinked
  BY DEF ReviewInv
<1> QED
  BY <1>1, ReviewInvariant, PTL

=============================================================================
