------------------------------ MODULE MCLeases ------------------------------
(***************************************************************************)
(* Three tasks over two surfaces: t1 and t3 declare both, t2 one, so *)
(* that a run can be refused at its first or at its second surface, with   *)
(* something or nothing to give back.                                      *)
(***************************************************************************)
EXTENDS Leases, TLC

CONSTANTS t1, t2, t3, a1, a2

MCDeclared == [t \in Tasks |-> IF t = t2 THEN {2} ELSE {1, 2}]
MCResources == {1, 2}

\* Two tasks that declare the same surface, for the two refuted readings of
\* "exclusive".
MCSharedDeclared == [t \in Tasks |-> {1}]

\* Agents have no order and no other identity.
AgentSymmetry == Permutations(Agents)

=============================================================================
