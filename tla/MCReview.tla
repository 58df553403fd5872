------------------------------ MODULE MCReview ------------------------------
(* One session under review: a request to the Workspace, and `arc supervise` *)
(* in a process of its own; comments of which the worker is shown the last.  *)
EXTENDS ReviewLoop

CONSTANTS r1, k1, m1, m2

MCProcess == [c \in Callers |-> IF c \in Loops THEN "shell" ELSE "server"]

MCListOf  == [x \in Comments |-> IF x = m1 THEN "review" ELSE "inline_review"]

\* A check run that passed, and a commit status that waits.
MCStatusChecks ==
  {[conclusion |-> "SUCCESS", state |-> ""], [conclusion |-> "", state |-> "PENDING"]}
=============================================================================
