---------------------------- MODULE Leases_proofs ----------------------------
(***************************************************************************)
(* What holds of the leases for every set of tasks, agents and resources.  *)
(***************************************************************************)
EXTENDS Leases, TLAPS

(***************************************************************************)
(* The inductive invariant.                                                *)
(***************************************************************************)

\* The counter in memory never runs ahead of the log, and no lease of the log
\* is ahead of the log's highest token.
TokensBounded ==
  /\ counter <= highest
  /\ \A r \in Resources : lease[r].token <= highest

\* A run has at most one lease of each surface, only for surfaces it declares,
\* and none at all before it starts.
HeldWellFormed ==
  \A t \in Tasks :
    /\ Surfaces(t) \subseteq Declared[t]
    /\ \A h, g \in held[t] : h.resource = g.resource => h = g
    /\ pc[t] = "idle" => held[t] = {}

LeaseInv ==
  /\ TypeOK
  /\ TokensBounded
  /\ HeldWellFormed
  /\ FencingUnmasksStaleHolders
  /\ TokensUnique
  /\ BackedUnlessContested
  /\ WorksUnderAllLeases
  /\ NoLeak

-----------------------------------------------------------------------------

LEMMA InitLease == Init => LeaseInv
<1> SUFFICES ASSUME Init PROVE LeaseInv
  OBVIOUS
<1> USE DEF Init
<1>1. TypeOK
  BY DEF TypeOK, LeaseRecords, NoLease, Phases, HeldLeases
<1>2. TokensBounded
  BY DEF TokensBounded, NoLease
<1>3. HeldWellFormed /\ FencingUnmasksStaleHolders /\ TokensUnique
  BY DEF HeldWellFormed, FencingUnmasksStaleHolders, TokensUnique, Surfaces
<1>4. BackedUnlessContested /\ WorksUnderAllLeases
  BY DEF BackedUnlessContested, WorksUnderAllLeases
<1>5. NoLeak
  BY DEF NoLeak, NoLease
<1> QED
  BY <1>1, <1>2, <1>3, <1>4, <1>5 DEF LeaseInv

\* A granted token is larger than every token anyone has seen.
LEMMA FreshToken ==
  ASSUME LeaseInv
  PROVE  Synced = highest /\ Synced \in Nat
BY DEF LeaseInv, TypeOK, TokensBounded, Synced

LEMMA GrantLease ==
  ASSUME LeaseInv, NEW t \in Tasks, NEW r \in Resources, RequestGranted(t, r)
  PROVE  LeaseInv'
<1> DEFINE token == highest + 1
           new == [resource |-> r, token |-> token]
<1>1. /\ token \in Nat
      /\ counter' = token /\ highest' = token
      /\ lease' = [lease EXCEPT ![r] = [active |-> TRUE, holder |-> agent[t],
                                        task |-> t, token |-> token]]
      /\ held' = [held EXCEPT ![t] = @ \cup {new}]
  <2>1. Synced = highest /\ highest \in Nat
    BY FreshToken DEF LeaseInv, TypeOK
  <2> QED
    BY <2>1 DEF RequestGranted, Grant
<1>2. /\ r \in Declared[t] /\ r \notin Surfaces(t)
      /\ pc[t] = "acquiring"
      /\ ~Conflicting(r, agent[t])
      /\ UNCHANGED <<pc, agent, loop, crashes>>
      /\ contested' \in {contested, contested \cup {r}}
      /\ \A u \in Tasks \ {t} :
           r \in Surfaces(u) /\ agent[u] = agent[t] => r \in contested'
  BY DEF RequestGranted, IsNext, Relying
<1>3. lease \in [Resources -> LeaseRecords] /\ held \in [Tasks -> SUBSET HeldLeases]
  BY DEF LeaseInv, TypeOK
<1>4. new \in HeldLeases
  BY <1>1 DEF HeldLeases
<1>5. \A u \in Tasks : held'[u] = IF u = t THEN held[t] \cup {new} ELSE held[u]
  BY <1>1, <1>3
<1>6. \A q \in Resources :
        lease'[q] = IF q = r THEN [active |-> TRUE, holder |-> agent[t],
                                   task |-> t, token |-> token]
                    ELSE lease[q]
  BY <1>1, <1>3
<1>7. \A u \in Tasks : \A h \in held[u] :
        h \in HeldLeases /\ h.resource \in Resources /\ h.token \in Nat
  BY <1>3 DEF HeldLeases
<1>8. \A u \in Tasks : \A h \in held[u] : h.token <= highest /\ h.token < token
  <2> SUFFICES ASSUME NEW u \in Tasks, NEW h \in held[u]
               PROVE  h.token <= highest /\ h.token < token
    OBVIOUS
  <2>1. lease[h.resource].token <= highest /\ lease[h.resource].token \in Nat
    BY <1>3, <1>7 DEF LeaseInv, TokensBounded, LeaseRecords
  <2>2. h.token <= lease[h.resource].token
    BY <1>7, <2>1 DEF LeaseInv, FencingUnmasksStaleHolders
  <2> QED
    BY <1>7, <2>1, <2>2 DEF LeaseInv, TypeOK
<1>9. TypeOK'
  BY <1>1, <1>2, <1>3, <1>4 DEF LeaseInv, TypeOK, LeaseRecords
<1>10. TokensBounded'
  <2> SUFFICES ASSUME NEW q \in Resources
               PROVE  lease'[q].token <= token
    BY <1>1 DEF TokensBounded
  <2> QED
    BY <1>1, <1>3, <1>6 DEF LeaseInv, TokensBounded, LeaseRecords, TypeOK
<1>11. HeldWellFormed'
  BY <1>2, <1>5 DEF LeaseInv, HeldWellFormed, Surfaces
<1>12. FencingUnmasksStaleHolders'
  <2> SUFFICES ASSUME NEW u \in Tasks, NEW h \in held'[u]
               PROVE  \/ h.token < lease'[h.resource].token
                      \/ h.token = lease'[h.resource].token /\ lease'[h.resource].task = u
    BY DEF FencingUnmasksStaleHolders
  <2>1. CASE h \in held[u]
    BY <2>1, <1>6, <1>7, <1>8 DEF LeaseInv, FencingUnmasksStaleHolders
  <2>2. CASE u = t /\ h = new
    BY <2>2, <1>6
  <2> QED
    BY <2>1, <2>2, <1>5
<1>13. TokensUnique'
  <2> SUFFICES ASSUME NEW u \in Tasks, NEW v \in Tasks,
                      NEW h \in held'[u], NEW g \in held'[v], h.token = g.token
               PROVE  u = v /\ h = g
    BY DEF TokensUnique
  <2>1. CASE h \in held[u] /\ g \in held[v]
    BY <2>1 DEF LeaseInv, TokensUnique
  <2>2. CASE u = t /\ h = new /\ g \in held[v]
    BY <2>2, <1>1, <1>7, <1>8
  <2>3. CASE v = t /\ g = new /\ h \in held[u]
    BY <2>3, <1>1, <1>7, <1>8
  <2>4. CASE u = t /\ h = new /\ v = t /\ g = new
    BY <2>4
  <2> QED
    BY <2>1, <2>2, <2>3, <2>4, <1>5
<1>14. BackedUnlessContested'
  <2> SUFFICES ASSUME NEW u \in Tasks, NEW h \in held'[u], h.resource \notin contested'
               PROVE  Backed(u, h)'
    BY DEF BackedUnlessContested
  <2>1. CASE u = t /\ h = new
    BY <2>1, <1>2, <1>6 DEF Backed
  <2>2. CASE h \in held[u] /\ h.resource # r
    BY <2>2, <1>2, <1>6, <1>7 DEF Backed, LeaseInv, BackedUnlessContested
  <2>3. CASE h \in held[u] /\ h.resource = r
    <3>1. u # t /\ agent[u] # agent[t]
      BY <2>3, <1>2 DEF Surfaces
    <3>2. Backed(u, h)
      BY <2>3, <1>2 DEF LeaseInv, BackedUnlessContested
    <3> QED
      BY <2>3, <3>1, <3>2, <1>2 DEF Backed, Conflicting
  <2> QED
    BY <2>1, <2>2, <2>3, <1>5
<1>15. WorksUnderAllLeases'
  BY <1>2, <1>5 DEF LeaseInv, WorksUnderAllLeases, Surfaces
<1>16. NoLeak'
  <2> SUFFICES ASSUME crashes = 0, NEW q \in Resources, lease'[q].active
               PROVE  \E u \in Tasks : q \in Surfaces(u)'
    BY <1>2 DEF NoLeak
  <2>1. CASE q = r
    <3>1. new \in held'[t] /\ new.resource = q
      BY <2>1, <1>5
    <3> QED
      BY <3>1 DEF Surfaces
  <2>2. CASE q # r
    <3>1. PICK u \in Tasks : q \in Surfaces(u)
      BY <2>2, <1>6 DEF LeaseInv, NoLeak
    <3> QED
      BY <3>1, <1>5 DEF Surfaces
  <2> QED
    BY <2>1, <2>2
<1> QED
  BY <1>9, <1>10, <1>11, <1>12, <1>13, <1>14, <1>15, <1>16 DEF LeaseInv

LEMMA RejectLease ==
  ASSUME LeaseInv, NEW t \in Tasks, NEW r \in Resources, RequestRejected(t, r)
  PROVE  LeaseInv'
<1>1. /\ r \notin Surfaces(t)
      /\ pc' = [pc EXCEPT ![t] = "unwinding"] /\ pc[t] = "acquiring"
      /\ lease' = [lease EXCEPT ![r].active = FALSE]
      /\ counter' = highest
      /\ UNCHANGED <<highest, agent, held, loop, crashes>>
      /\ contested' \in {contested, contested \cup {r}}
      /\ \A u \in Tasks \ {t} : r \in Surfaces(u) => r \in contested'
  BY FreshToken DEF RequestRejected, IsNext, Relying, Enter, Deactivate
<1>2. lease \in [Resources -> LeaseRecords] /\ held \in [Tasks -> SUBSET HeldLeases]
  BY DEF LeaseInv, TypeOK
<1>3. \A u \in Tasks : \A h \in held[u] : h.resource \in Resources
  BY <1>2 DEF HeldLeases
<1>4. \A q \in Resources :
        /\ lease'[q] \in LeaseRecords
        /\ lease'[q].task = lease[q].task /\ lease'[q].token = lease[q].token
        /\ lease'[q].active => q # r /\ lease[q].active
        /\ q # r => lease'[q] = lease[q]
  BY <1>1, <1>2 DEF LeaseRecords
<1>5. TypeOK'
  BY <1>1, <1>4 DEF LeaseInv, TypeOK, Phases
<1>6. TokensBounded'
  BY <1>1, <1>4 DEF LeaseInv, TypeOK, TokensBounded
<1>7. HeldWellFormed' /\ WorksUnderAllLeases'
  BY <1>1 DEF LeaseInv, TypeOK, HeldWellFormed, WorksUnderAllLeases, Surfaces
<1>8. FencingUnmasksStaleHolders' /\ TokensUnique'
  BY <1>1, <1>3, <1>4 DEF LeaseInv, FencingUnmasksStaleHolders, TokensUnique
<1>9. BackedUnlessContested'
  <2> SUFFICES ASSUME NEW u \in Tasks, NEW h \in held[u], h.resource \notin contested'
               PROVE  Backed(u, h)'
    BY <1>1 DEF BackedUnlessContested
  <2>1. h.resource # r
    BY <1>1 DEF Surfaces
  <2> QED
    BY <1>1, <1>3, <1>4, <2>1 DEF Backed, LeaseInv, BackedUnlessContested
<1>10. NoLeak'
  BY <1>1, <1>4 DEF LeaseInv, NoLeak, Surfaces
<1> QED
  BY <1>5, <1>6, <1>7, <1>8, <1>9, <1>10 DEF LeaseInv

LEMMA ReleaseLease ==
  ASSUME LeaseInv, NEW t \in Tasks, NEW h \in held[t], Release(t, h)
  PROVE  LeaseInv'
<1> DEFINE r == h.resource
<1>1. /\ pc[t] \in {"unwinding", "releasing"}
      /\ lease' = [lease EXCEPT ![r].active = FALSE]
      /\ held' = [held EXCEPT ![t] = @ \ {h}]
      /\ UNCHANGED <<highest, counter, pc, agent, loop, crashes>>
      /\ contested' = IF Relying(t, r) = {} THEN contested \ {r} ELSE contested
  BY DEF Release, Deactivate
<1>2. lease \in [Resources -> LeaseRecords] /\ held \in [Tasks -> SUBSET HeldLeases]
  BY DEF LeaseInv, TypeOK
<1>3. \A u \in Tasks : \A g \in held[u] : g.resource \in Resources
  BY <1>2 DEF HeldLeases
<1>4. \A q \in Resources :
        /\ lease'[q] \in LeaseRecords
        /\ lease'[q].task = lease[q].task /\ lease'[q].token = lease[q].token
        /\ lease'[q].active => q # r /\ lease[q].active
        /\ q # r => lease'[q] = lease[q]
  BY <1>1, <1>2 DEF LeaseRecords
<1>5. /\ \A u \in Tasks : held'[u] = IF u = t THEN held[t] \ {h} ELSE held[u]
      /\ \A u \in Tasks : held'[u] \subseteq held[u]
  BY <1>1, <1>2
<1>6. TypeOK'
  <2>1. contested' \subseteq Resources
    BY <1>1 DEF LeaseInv, TypeOK
  <2>2. held' \in [Tasks -> SUBSET HeldLeases]
    BY <1>1, <1>2
  <2>3. lease' \in [Resources -> LeaseRecords]
    BY <1>1, <1>2, <1>4
  <2> QED
    BY <1>1, <2>1, <2>2, <2>3 DEF LeaseInv, TypeOK
<1>7. TokensBounded'
  BY <1>1, <1>4 DEF LeaseInv, TypeOK, TokensBounded
<1>8. HeldWellFormed' /\ WorksUnderAllLeases'
  BY <1>1, <1>5 DEF LeaseInv, HeldWellFormed, WorksUnderAllLeases, Surfaces
<1>9. FencingUnmasksStaleHolders' /\ TokensUnique'
  BY <1>3, <1>4, <1>5 DEF LeaseInv, FencingUnmasksStaleHolders, TokensUnique
<1>10. BackedUnlessContested'
  <2> SUFFICES ASSUME NEW u \in Tasks, NEW g \in held'[u], g.resource \notin contested'
               PROVE  Backed(u, g)'
    BY DEF BackedUnlessContested
  <2>1. g \in held[u] /\ (u = t => g # h)
    BY <1>5
  <2>2. CASE g.resource # r
    BY <1>1, <1>3, <1>4, <2>1, <2>2 DEF Backed, LeaseInv, BackedUnlessContested
  <2>3. CASE g.resource = r
    <3>1. u # t
      BY <2>1, <2>3 DEF LeaseInv, HeldWellFormed
    <3>2. u \in Relying(t, r)
      BY <2>1, <2>3, <3>1 DEF Relying, Surfaces
    <3>3. r \notin contested
      BY <1>1, <2>3, <3>2
    <3>4. Backed(u, g) /\ Backed(t, h)
      BY <2>1, <2>3, <3>3 DEF LeaseInv, BackedUnlessContested
    <3> QED
      BY <2>3, <3>1, <3>4 DEF Backed
  <2> QED
    BY <2>2, <2>3
<1>11. NoLeak'
  <2> SUFFICES ASSUME crashes = 0, NEW q \in Resources, lease'[q].active
               PROVE  \E u \in Tasks : q \in Surfaces(u)'
    BY <1>1 DEF NoLeak
  <2>1. PICK u \in Tasks : q \in Surfaces(u)
    BY <1>4 DEF LeaseInv, NoLeak
  <2>2. PICK g \in held[u] : g.resource = q
    BY <2>1 DEF Surfaces
  <2>3. g \in held'[u]
    BY <1>4, <1>5, <2>2
  <2> QED
    BY <2>2, <2>3 DEF Surfaces
<1> QED
  BY <1>6, <1>7, <1>8, <1>9, <1>10, <1>11 DEF LeaseInv

\* The steps that touch no lease.
LEMMA OtherSteps ==
  ASSUME LeaseInv, NEW t \in Tasks,
         \/ \E a \in Agents : Start(t, a)
         \/ AwaitAgent(t)
         \/ AgentReturns(t)
         \/ Finish(t)
  PROVE  LeaseInv'
<1>1. /\ UNCHANGED <<lease, highest, counter, held, crashes, contested>>
      /\ loop' \in Tasks \cup {None}
      /\ \E p \in Phases : pc' = [pc EXCEPT ![t] = p]
      /\ pc'[t] = "working" => Surfaces(t) = Declared[t]
      /\ pc'[t] = "idle" => held[t] = {}
      /\ \A u \in Tasks : u # t => pc'[u] = pc[u]
      /\ agent' \in [Tasks -> Agents \cup {None}]
      /\ \A u \in Tasks : held[u] # {} => agent'[u] = agent[u]
  BY DEF Start, AwaitAgent, AgentReturns, Finish, Enter, Phases, LeaseInv, TypeOK,
         HeldWellFormed
<1>2. TypeOK'
  BY <1>1 DEF LeaseInv, TypeOK
<1>3. TokensBounded' /\ FencingUnmasksStaleHolders' /\ TokensUnique'
  BY <1>1 DEF LeaseInv, TokensBounded, FencingUnmasksStaleHolders, TokensUnique
<1>4. HeldWellFormed' /\ WorksUnderAllLeases' /\ NoLeak'
  BY <1>1 DEF LeaseInv, HeldWellFormed, WorksUnderAllLeases, NoLeak, Surfaces
<1>5. BackedUnlessContested'
  BY <1>1 DEF LeaseInv, BackedUnlessContested, Backed
<1> QED
  BY <1>2, <1>3, <1>4, <1>5 DEF LeaseInv

LEMMA CrashLease ==
  ASSUME LeaseInv, Crash
  PROVE  LeaseInv'
<1> USE DEF Crash
<1>1. TypeOK'
  BY DEF LeaseInv, TypeOK, Phases
<1>2. TokensBounded'
  BY DEF LeaseInv, TypeOK, TokensBounded
<1>3. HeldWellFormed' /\ WorksUnderAllLeases'
  BY DEF HeldWellFormed, WorksUnderAllLeases, Surfaces
<1>4. FencingUnmasksStaleHolders' /\ TokensUnique' /\ BackedUnlessContested'
  BY DEF FencingUnmasksStaleHolders, TokensUnique, BackedUnlessContested
<1>5. NoLeak'
  BY DEF LeaseInv, TypeOK, NoLeak
<1> QED
  BY <1>1, <1>2, <1>3, <1>4, <1>5 DEF LeaseInv

LEMMA NextLease == LeaseInv /\ [Next]_vars => LeaseInv'
<1> SUFFICES ASSUME LeaseInv, [Next]_vars PROVE LeaseInv'
  OBVIOUS
<1>1. ASSUME NEW t \in Tasks, Step(t) PROVE LeaseInv'
  BY <1>1, GrantLease, RejectLease, ReleaseLease, OtherSteps DEF Step
<1>2. ASSUME NEW t \in Tasks, NEW a \in Agents, Start(t, a) PROVE LeaseInv'
  BY <1>2, OtherSteps
<1>3. CASE Crash
  BY <1>3, CrashLease
<1>4. CASE UNCHANGED vars
  BY <1>4 DEF vars, LeaseInv, TypeOK, TokensBounded, HeldWellFormed,
     FencingUnmasksStaleHolders, TokensUnique, BackedUnlessContested, Backed,
     WorksUnderAllLeases, NoLeak, Surfaces
<1> QED
  BY <1>1, <1>2, <1>3, <1>4 DEF Next

THEOREM LeaseInvariance == Spec => []LeaseInv
BY InitLease, NextLease, PTL DEF Spec

-----------------------------------------------------------------------------

\* Type correctness of the lease projection and of its clients.
THEOREM LeaseTypes == Spec => []TypeOK
<1>1. LeaseInv => TypeOK
  BY DEF LeaseInv
<1> QED
  BY <1>1, LeaseInvariance, PTL

\* Leases are exclusive until a refused request, or a second run of the same
\* agent, breaks the projection's record of who has them: only then can two
\* runs rely on one surface.
THEOREM ConditionalExclusion == Spec => []ExclusiveUnlessContested
<1>1. LeaseInv => ExclusiveUnlessContested
  <2> SUFFICES ASSUME LeaseInv, NEW t \in Tasks, NEW u \in Tasks,
                      NEW r \in Surfaces(t) \cap Surfaces(u), r \notin contested
               PROVE  t = u
    BY DEF ExclusiveUnlessContested
  <2>1. PICK h \in held[t], g \in held[u] : h.resource = r /\ g.resource = r
    BY DEF Surfaces
  <2>2. Backed(t, h) /\ Backed(u, g)
    BY <2>1 DEF LeaseInv, BackedUnlessContested
  <2> QED
    BY <2>1, <2>2 DEF Backed
<1> QED
  BY <1>1, LeaseInvariance, PTL

\* Comparing a run's token with the log's unmasks every run whose lease was
\* granted again to another, across crashes and restarts.
THEOREM Fencing == Spec => [](FencingUnmasksStaleHolders /\ TokensUnique)
<1>1. LeaseInv => FencingUnmasksStaleHolders /\ TokensUnique
  BY DEF LeaseInv
<1> QED
  BY <1>1, LeaseInvariance, PTL

\* Tokens increase along the log: a grant after a restart does not start over.
THEOREM MonotonicTokens == Spec => TokensIncrease
<1> DEFINE Increase == \A r \in Resources :
             lease'[r].token # lease[r].token => lease'[r].token > highest
<1>1. LeaseInv /\ [Next]_vars => [Increase]_vars
  <2> SUFFICES ASSUME LeaseInv, Next, NEW r \in Resources,
                      lease'[r].token # lease[r].token
               PROVE  lease'[r].token > highest
    OBVIOUS
  <2>1. lease \in [Resources -> LeaseRecords] /\ highest \in Nat
    BY DEF LeaseInv, TypeOK
  <2>2. ASSUME NEW t \in Tasks, NEW q \in Resources, RequestGranted(t, q)
        PROVE  lease'[r].token > highest
    <3>1. lease'[r].token \in {lease[r].token, highest + 1}
      BY <2>1, <2>2, FreshToken DEF RequestGranted, Grant
    <3> QED
      BY <2>1, <3>1
  <2>3. ASSUME NEW t \in Tasks, NEW q \in Resources,
               lease' = [lease EXCEPT ![q].active = FALSE]
        PROVE  FALSE
    BY <2>1, <2>3 DEF LeaseRecords
  <2>4. lease' # lease
    OBVIOUS
  <2> QED
    BY <2>2, <2>3, <2>4 DEF Next, Step, Start, RequestRejected, AwaitAgent,
       AgentReturns, Release, Finish, Crash, Deactivate, HeldLeases, LeaseInv, TypeOK
<1>2. TokensIncrease <=> [][Increase]_vars
  BY DEF TokensIncrease
<1> QED
  BY <1>1, <1>2, LeaseInvariance, PTL DEF Spec

\* An agent works under leases for all the surfaces its task declares, and no
\* lease outlives the run that took it unless the process crashed.
THEOREM AllOrNothing == Spec => [](WorksUnderAllLeases /\ NoLeak)
<1>1. LeaseInv => WorksUnderAllLeases /\ NoLeak
  BY DEF LeaseInv
<1> QED
  BY <1>1, LeaseInvariance, PTL

=============================================================================
