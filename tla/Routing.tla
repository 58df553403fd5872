------------------------------- MODULE Routing -------------------------------
(***************************************************************************)
(* AgentRouter (application/routing.py) and doctor_profile                 *)
(* (application/agents.py): which agent gets a task.  Weights are in       *)
(* tenths, scores in hundredths.                                           *)
(***************************************************************************)
EXTENDS Integers, FiniteSets

CONSTANTS
  Agents,     \* names of configured profiles, numbers in alphabetical order
  Profile,    \* [Agents -> profile]
  Policy,     \* "balanced", "quality" or "cost"
  Default,    \* the default agent
  None

Policies == {"balanced", "quality", "cost"}

\* AgentProfile's fields: max_concurrency from 1 on, weights from 0 on.
ASSUME AgentsConfigured ==
  /\ IsFiniteSet(Agents) /\ Agents \subseteq Nat /\ None \notin Agents
  /\ Policy \in Policies
  /\ \A a \in Agents : /\ Profile[a].limit \in Nat \ {0}
                        /\ {Profile[a].quality, Profile[a].cost} \subseteq Nat

Generalists == {"implementation", "general", "worker"}

\* doctor_profile; found: executables on the PATH, authenticated: providers
\* signed in.
Doctor(profile, found, authenticated) ==
  CASE ~profile.enabled                        -> "DISABLED"
    [] profile.enabled /\ profile.provider = "mock" -> "READY"
    [] profile.enabled /\ profile.provider = "openrouter" -> "GATEWAY_ONLY"
    [] OTHER ->
         IF profile.provider \notin found THEN "MISSING"
         ELSE IF /\ profile.provider \in {"codex", "claude", "antigravity"}
                 /\ ~profile.override /\ profile.provider \notin authenticated
         THEN "AUTH_REQUIRED" ELSE "READY"

\* _semantically_eligible: a real agent that could do the task.
SemanticallyEligible(a, task) ==
  LET p == Profile[a] IN
  /\ p.enabled /\ p.provider \notin {"mock", "openrouter"}
  /\ IF task.caps /= {} THEN task.caps \subseteq p.caps
     ELSE task.type \in p.caps \cup {p.role} \/ p.role \in Generalists

Weights(p) ==
  CASE Policy = "quality"  -> 30 * p.quality - 5 * p.cost
    [] Policy = "cost"     -> 10 * p.quality - 30 * p.cost
    [] Policy = "balanced" -> 20 * p.quality - 15 * p.cost

RouteScore(a, task, active) ==
  LET p == Profile[a] IN
  400 * Cardinality(task.caps)
  + (IF task.type \in p.caps THEN 300 ELSE 0)
  + (IF p.role = task.type THEN 200 ELSE IF p.role \in Generalists THEN 50 ELSE 0)
  + Weights(p)
  - (250 * active) \div (IF p.limit > 1 THEN p.limit ELSE 1)
  + (IF a = Default THEN 10 ELSE 0)

Candidates(task, doctor, active) ==
  {a \in Agents : /\ Profile[a].enabled /\ doctor[a] = "READY"
                  /\ active[a] < Profile[a].limit
                  /\ task.caps \subseteq Profile[a].caps}

\* The best score, then the first name.
Best(S, task, active) ==
  CHOOSE a \in S : \A b \in S \ {a} :
    \/ RouteScore(a, task, active[a]) > RouteScore(b, task, active[b])
    \/ RouteScore(a, task, active[a]) = RouteScore(b, task, active[b]) /\ a < b

\* Mutant: a mock stands in for whoever cannot work now.
Route_MockStandsIn(task, doctor, active) ==
  LET able == Candidates(task, doctor, active)
      real == {a \in able : Profile[a].provider /= "mock"}
  IN IF able = {} THEN None
     ELSE Best(IF real /= {} THEN real ELSE able, task, active)

\* route: real agents before the mock, and no mock where a real agent could
\* do the task but is not available now.  None: RuntimeError.
Route(task, doctor, active) ==
  LET able == Candidates(task, doctor, active)
      real == {a \in able : Profile[a].provider /= "mock"}
  IN IF real /= {} THEN Best(real, task, active)
     ELSE IF able = {} \/ \E a \in Agents : SemanticallyEligible(a, task) THEN None
     ELSE Best(able, task, active)
=============================================================================
