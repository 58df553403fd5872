------------------------------- MODULE Leases -------------------------------
(***************************************************************************)
(* Exclusive leases on the file surfaces that tasks declare.               *)
(*                                                                         *)
(* The lease state of ARC is a projection of the event log: LeaseProjector *)
(* folds lease.granted, lease.released and lease.rejected into one record  *)
(* per resource.  LeaseManager re-reads that projection on every request   *)
(* and keeps only a fencing counter in memory.  The clients are the        *)
(* execute_task coroutines of one Orchestrator: each acquires the          *)
(* surfaces of its task in sorted order, gives back what it got when one   *)
(* of them is refused, and otherwise holds them all until it ends.         *)
(*                                                                         *)
(* A coroutine runs without interruption between two awaits, so one of     *)
(* them at a time has the event loop; the process may crash between any    *)
(* two appends to the log, and a new one starts from the log.              *)
(***************************************************************************)
EXTENDS Integers, FiniteSets

CONSTANTS
  Tasks,        \* tasks whose execution asks for leases
  Agents,       \* agent profiles, the holders of leases
  Resources,    \* file surfaces, numbered by their place in sorted()
  Declared,     \* TaskState.files_declared, as a set
  None,         \* nobody
  MaxToken,     \* bound: no run starts that could exceed this token
  MaxCrashes    \* bound: no more than MaxCrashes restarts

ASSUME ResourcesAreOrdered == Resources \subseteq Nat
ASSUME DeclaredType == Declared \in [Tasks -> SUBSET Resources]
ASSUME NoneIsNobody == None \notin Tasks /\ None \notin Agents
ASSUME BoundsType == MaxToken \in Nat /\ MaxCrashes \in Nat

VARIABLES
  lease,      \* LeaseProjector.leases: the last lease of each resource
  highest,    \* LeaseProjector.current_fencing_token
  counter,    \* LeaseManager._fencing_counter, lost in a crash
  pc,         \* where the coroutine that executes a task is
  agent,      \* the agent_id of that coroutine
  held,       \* its list of Lease objects, by resource
  loop,       \* the task whose coroutine has the event loop, or None
  crashes,    \* number of restarts so far
  contested   \* history: resources on which a request was refused, or let
              \* in as one of the same agent, while another run relied on it

vars == <<lease, highest, counter, pc, agent, held, loop, crashes, contested>>

(***************************************************************************)
(* Types                                                                   *)
(***************************************************************************)

Phases == {"idle", "acquiring", "working", "unwinding", "releasing"}

\* The fields of state.models.Lease that something depends on.
LeaseRecords ==
  [active : BOOLEAN, holder : Agents \cup {None},
   task : Tasks \cup {None}, token : Nat]

\* What a client keeps of the Lease objects it was handed.
HeldLeases == [resource : Resources, token : Nat]

NoLease == [active |-> FALSE, holder |-> None, task |-> None, token |-> 0]

(***************************************************************************)
(* Helpers                                                                 *)
(***************************************************************************)

Surfaces(t) == {h.resource : h \in held[t]}

\* The resource the loop of _acquire_task_leases is at.
IsNext(t, r) ==
  /\ r \in Declared[t] \ Surfaces(t)
  /\ \A q \in Declared[t] \ Surfaces(t) : r <= q

\* The lease at the head of reversed(leases).
IsLast(t, h) == h \in held[t] /\ \A g \in held[t] : g.resource <= h.resource

\* Bug: the conflict test of request_lease is inverted.
Conflicting_Inverted(r, a) == lease[r].active /\ lease[r].holder = a

\* `active and active.holder != holder`
Conflicting(r, a) == lease[r].active /\ lease[r].holder # a

\* The counter after _projection(): at least what the log has granted.
Synced == IF counter >= highest THEN counter ELSE highest

\* Runs other than t that still rely on a lease of r.
Relying(t, r) == {u \in Tasks \ {t} : r \in Surfaces(u)}

Enter(t, from, to) == pc[t] = from /\ pc' = [pc EXCEPT ![t] = to]

OnLoop(t) == loop = t

(***************************************************************************)
(* LeaseManager and LeaseProjector                                         *)
(***************************************************************************)

\* lease.granted, as LeaseManager appends it and LeaseProjector applies it.
Grant(t, r) ==
  LET token == Synced + 1 IN
  /\ counter' = token
  /\ highest' = IF token > highest THEN token ELSE highest
  /\ lease' = [lease EXCEPT ![r] = [active |-> TRUE, holder |-> agent[t],
                                    task |-> t, token |-> token]]
  /\ held' = [held EXCEPT ![t] = @ \cup {[resource |-> r, token |-> token]}]

\* Bug: the projection forgets the lease instead of marking it inactive.
Deactivate_Deletes(r) == lease' = [lease EXCEPT ![r] = NoLease]

\* lease.released and lease.rejected have the same effect on the projection:
\* whoever the lease belongs to, it is not active any more.
Deactivate(r) == lease' = [lease EXCEPT ![r].active = FALSE]

(***************************************************************************)
(* The clients: execute_task and _acquire_task_leases                      *)
(***************************************************************************)

Start(t, a) ==
  /\ loop = None
  /\ highest + Cardinality(Declared[t]) <= MaxToken
  /\ Enter(t, "idle", "acquiring")
  /\ agent' = [agent EXCEPT ![t] = a]
  /\ loop' = t
  /\ UNCHANGED <<lease, highest, counter, held, crashes, contested>>

\* request_lease returns a lease: nobody, or the same agent, has the resource.
RequestGranted(t, r) ==
  /\ OnLoop(t)
  /\ pc[t] = "acquiring"
  /\ IsNext(t, r)
  /\ ~Conflicting(r, agent[t])
  /\ Grant(t, r)
  /\ contested' = IF \E u \in Relying(t, r) : agent[u] = agent[t]
                  THEN contested \cup {r} ELSE contested
  /\ UNCHANGED <<pc, agent, loop, crashes>>

\* request_lease returns None: the refusal is recorded, and the caller
\* unwinds what it has.
RequestRejected(t, r) ==
  /\ OnLoop(t)
  /\ IsNext(t, r)
  /\ Conflicting(r, agent[t])
  /\ Enter(t, "acquiring", "unwinding")
  /\ Deactivate(r)
  /\ counter' = Synced
  /\ contested' = IF Relying(t, r) # {} THEN contested \cup {r} ELSE contested
  /\ UNCHANGED <<highest, agent, held, loop, crashes>>

\* Every surface is leased; the coroutine goes on to await the agent.
AwaitAgent(t) ==
  /\ OnLoop(t)
  /\ Declared[t] \subseteq Surfaces(t)
  /\ Enter(t, "acquiring", "working")
  /\ loop' = None
  /\ UNCHANGED <<lease, highest, counter, agent, held, crashes, contested>>

\* The agent answered, or raised: both end in the finally clause.
AgentReturns(t) ==
  /\ loop = None
  /\ Enter(t, "working", "releasing")
  /\ loop' = t
  /\ UNCHANGED <<lease, highest, counter, agent, held, crashes, contested>>

\* release_lease, for the last lease of the list.  A resource nobody relies
\* on any more is not contested any more.
Release(t, h) ==
  /\ OnLoop(t)
  /\ pc[t] \in {"unwinding", "releasing"}
  /\ IsLast(t, h)
  /\ Deactivate(h.resource)
  /\ held' = [held EXCEPT ![t] = @ \ {h}]
  /\ contested' = IF Relying(t, h.resource) = {}
                  THEN contested \ {h.resource} ELSE contested
  /\ UNCHANGED <<highest, counter, pc, agent, loop, crashes>>

\* Bug: the refused run never gets past its unwinding.
Finish_OnlyAfterWork(t) ==
  /\ OnLoop(t)
  /\ held[t] = {}
  /\ Enter(t, "releasing", "idle")
  /\ loop' = None
  /\ UNCHANGED <<lease, highest, counter, agent, held, crashes, contested>>

Finish(t) ==
  /\ OnLoop(t)
  /\ held[t] = {}
  /\ \/ Enter(t, "unwinding", "idle")
     \/ Enter(t, "releasing", "idle")
  /\ loop' = None
  /\ UNCHANGED <<lease, highest, counter, agent, held, crashes, contested>>

\* The process dies; a new Orchestrator starts with an empty memory.  What
\* the log says of leases survives, and no finally clause has run.
Crash ==
  /\ crashes < MaxCrashes
  /\ crashes' = crashes + 1
  /\ counter' = 0
  /\ pc' = [t \in Tasks |-> "idle"]
  /\ held' = [t \in Tasks |-> {}]
  /\ loop' = None
  /\ contested' = {}
  /\ UNCHANGED <<lease, highest, agent>>

-----------------------------------------------------------------------------

Init ==
  /\ lease = [r \in Resources |-> NoLease]
  /\ highest = 0
  /\ counter = 0
  /\ pc = [t \in Tasks |-> "idle"]
  /\ agent = [t \in Tasks |-> None]
  /\ held = [t \in Tasks |-> {}]
  /\ loop = None
  /\ crashes = 0
  /\ contested = {}

Step(t) ==
  \/ \E r \in Resources : RequestGranted(t, r) \/ RequestRejected(t, r)
  \/ AwaitAgent(t)
  \/ AgentReturns(t)
  \/ \E h \in held[t] : Release(t, h)
  \/ Finish(t)

Next ==
  \/ \E t \in Tasks, a \in Agents : Start(t, a)
  \/ \E t \in Tasks : Step(t)
  \/ Crash

Spec == Init /\ [][Next]_vars

\* Once begun, a coroutine is run to its end: the event loop serves it and
\* the provider process is under a timeout.
FairSpec == Spec /\ \A t \in Tasks : WF_vars(Step(t))

-----------------------------------------------------------------------------
(***************************************************************************)
(* Properties                                                              *)
(***************************************************************************)

TypeOK ==
  /\ lease \in [Resources -> LeaseRecords]
  /\ highest \in Nat
  /\ counter \in Nat
  /\ pc \in [Tasks -> Phases]
  /\ agent \in [Tasks -> Agents \cup {None}]
  /\ held \in [Tasks -> SUBSET HeldLeases]
  /\ loop \in Tasks \cup {None}
  /\ crashes \in Nat
  /\ contested \subseteq Resources

\* A run relies on a lease the log still shows as active and as its own.
Backed(t, h) ==
  /\ lease[h.resource].active
  /\ lease[h.resource].holder = agent[t]
  /\ lease[h.resource].task = t
  /\ lease[h.resource].token = h.token

\* Fencing (leases.py "monotonic fencing tokens"): whatever has been granted,
\* rejected, released or lost in a crash since, the log's last token of a
\* resource is larger than that of every run but the one it was granted to
\* last, so that comparing tokens unmasks each run whose lease was taken over.
FencingUnmasksStaleHolders ==
  \A t \in Tasks : \A h \in held[t] :
    \/ h.token < lease[h.resource].token
    \/ h.token = lease[h.resource].token /\ lease[h.resource].task = t

\* Tokens order the grants of the whole project: no two leases that runs
\* hold share one, across resources and restarts.
TokensUnique ==
  \A t, u \in Tasks : \A h \in held[t], g \in held[u] :
    h.token = g.token => t = u /\ h = g

\* Tokens only grow, along the whole log and over restarts: a grant never
\* reuses or undercuts a token granted before it to anyone.
TokensIncrease ==
  [][\A r \in Resources :
       lease'[r].token # lease[r].token => lease'[r].token > highest]_vars

\* Exclusion, as far as the code gives it: as long as no request has been
\* refused on a resource and no run of the same agent has shared it, the run
\* that relies on it is the one the log names, hence the only one.
BackedUnlessContested ==
  \A t \in Tasks : \A h \in held[t] :
    h.resource \in contested \/ Backed(t, h)

ExclusiveUnlessContested ==
  \A t, u \in Tasks : \A r \in Surfaces(t) \cap Surfaces(u) :
    t = u \/ r \in contested

\* All or nothing (_acquire_task_leases): an agent only ever works under
\* leases for all the surfaces of its task.
WorksUnderAllLeases ==
  \A t \in Tasks : pc[t] = "working" => Surfaces(t) = Declared[t]

\* No failure path forgets a lease: the log shows an active lease that no run
\* relies on only after a crash.
NoLeak ==
  crashes = 0 =>
    \A r \in Resources :
      lease[r].active => \E t \in Tasks : r \in Surfaces(t)

\* Every run ends, so every lease it took is given back, unless the process
\* dies first.
RunsEnd ==
  \A t \in Tasks : pc[t] # "idle" ~> pc[t] = "idle"

\* "Manage exclusive resource leases" (leases.py:11): runs of two agents never
\* rely on the same surface.  The code does not ensure it.
ExclusiveAcrossAgents ==
  \A t, u \in Tasks :
    Surfaces(t) \cap Surfaces(u) # {} => t = u \/ agent[t] = agent[u]

=============================================================================
