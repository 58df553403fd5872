----------------------------- MODULE MCCampaign -----------------------------
(* Two repositories, two arms: the shuffle of a seed is any fixed function.  *)
EXTENDS Campaign, TLC

MCManifests == <<"B5", "B7">>
MCRepositories == <<"click", "httpx">>
MCSymmetry == Permutations(Operators) \cup Permutations(Attempts)
MCShuffle == [s \in 0..3 |-> IF s = 1 THEN <<2, 1>> ELSE <<1, 2>>]

\* Bounds: one thing drifts at a time; nobody plans another attempt once one
\* has succeeded, and operators at work at a time share an attempt; an effect and
\* the ends of its interval are -1, 0 or 1.
MCBounds ==
  /\ Cardinality(drift' \ (Repos \X {"config"})) <= 1
  /\ \A o \in Operators : exec[o].at = "idle" /\ exec'[o].at = "ready" =>
       /\ \A b \in Attempts : ledger[b].status /= "SUCCEEDED"
       /\ \A p \in Operators : exec[p].at /= "idle" => exec[p].attempt = exec'[o].attempt
  /\ \A a \in Attempts : LET e == meta'[a].effect IN
       meta'[a] /= meta[a] => {e.mean, e.lower, e.upper} \subseteq -1..1
=============================================================================
