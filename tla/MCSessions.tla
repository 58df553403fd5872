----------------------------- MODULE MCSessions -----------------------------
(* Small instances of WorkerSessions. *)
EXTENDS WorkerSessions

\* Sessions differ in nothing but their ids: any one of them stands for all.
ASession == CHOOSE s \in Sessions : TRUE

\* Fairness for the turns and stops of that session alone.
FairSpec == Spec /\ Fairness(ASession)

\* "Safe worker stop": a stop that waits for a turn is answered, even when the
\* agent never returns by itself.
StopsAreAnswered == stopping[ASession] = "waits" ~> stopping[ASession] = "no"

=============================================================================
