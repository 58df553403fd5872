--------------------------- MODULE Campaign_proofs ---------------------------
(***************************************************************************)
(* What the campaign promises about its attempts, for any number of        *)
(* repositories, attempts, operators, repetitions and faults; and what its *)
(* schedules and its claims promise, for any number of treatments.         *)
(***************************************************************************)
EXTENDS Campaign, FiniteSetTheorems, WellFoundedInduction, TLAPS

(***************************************************************************)
(* The inductive invariant: what the files of one attempt have to do with  *)
(* each other and with its command (Sound), and what the executor that     *)
(* owns the attempt knows of them (Knows).                                 *)
(***************************************************************************)

All == {"provenance", "aggregates", "study"}

Going == {"next", "spawn", "study", "export", "meta"}

Owns(e) == e.at \in Going \cup {"claimed", "closing"}

\* An executor e, the ledger l of its attempt, and the attempt's command j.
Knows(e, l, j) ==
  /\ e.at = "claimed" => l.status = "claimed"
  /\ e.at \in Going =>
       /\ l.status = "RUNNING" /\ l.plans = e.plans
       /\ e.next \in 1..(NRepos + 1)
       /\ \A k \in 1..(e.next - 1) : l.repos[Repositories[k]] = "SUCCEEDED"
  /\ e.at \in {"next", "spawn"} => j = None
  /\ e.at \in {"spawn", "study", "export"} =>
       /\ e.next <= NRepos /\ l.started
       /\ l.repos[Repositories[e.next]] = "RUNNING"
  /\ e.at \in {"study", "export", "meta"} => j \in Commands /\ j.kind = e.at
  /\ e.at \in {"study", "export"} => j.repo = Repositories[e.next]
  /\ e.at = "meta" => e.next = NRepos + 1
  /\ e.at = "closing" => l.status = "SUCCEEDED" /\ j = None

\* A study command on repository r, whose artifacts are s.
StudySound(s, j) ==
  /\ j.at \in {"arm", "turn", "write", "paired"} => s.files = {}
  /\ j.at = "publish" =>
       s.files \in {{}, {"provenance"}, {"provenance", "aggregates"}, All}
  /\ j.at \in {"arm", "turn", "write", "paired", "publish"} => s.dir
  /\ j.at = "exited" /\ j.ok => s.files = All

MetaSound(l, m, j) ==
  /\ \A r \in Repos : l.repos[r] = "SUCCEEDED"
  /\ (j.at = "manifest" \/ (j.at = "exited" /\ j.ok)) => m.plan = l.plans
  /\ j.at = "exited" /\ j.ok => m.files = "whole"

\* The command of an attempt.
CommandSound(l, s, m, j) ==
  /\ l.status \in {"RUNNING", "FAILED"}
  /\ j.kind \in {"study", "export"} =>
       /\ j.repo \in Repos /\ l.started
       /\ l.repos[j.repo] \in {"RUNNING", "FAILED"}
  /\ j.kind = "study" => StudySound(s[j.repo], j)
  /\ j.kind = "export" => s[j.repo].files = All /\ s[j.repo].plan = l.plans
  /\ j.kind = "meta" => MetaSound(l, m, j)

\* The artifacts s of repository r.
RepoSound(a, l, s, j, K, r) ==
  /\ l.repos[r] = "SUCCEEDED" =>
       s.files = All /\ s.exported = "whole" /\ s.plan = l.plans
  /\ s.files /= {} => s.dir
  /\ s.turns => l.started /\ l.repos[r] \in {"RUNNING", "SUCCEEDED", "FAILED"}
  /\ s.workspace =>
       \/ j \in Commands /\ j.kind = "study" /\ j.repo = r /\ j.at \in {"turn", "write"}
       \/ a \in K

\* The ledger l, the studies s, the meta-study m and the command j of
\* attempt a; K: the attempts that had a command killed.
Sound(a, l, s, m, j, K) ==
  /\ l.status \in {"none", "claimed"} =>
       j = None /\ \A r \in Repos : s[r] = NoStudy /\ l.repos[r] = "PENDING"
  /\ j \in Commands => CommandSound(l, s, m, j)
  /\ \A r \in Repos : RepoSound(a, l, s[r], j, K, r)
  /\ l.status = "SUCCEEDED" =>
       /\ j = None /\ \A r \in Repos : l.repos[r] = "SUCCEEDED"
       /\ m.files = "whole" /\ m.plan = l.plans

Owned ==
  /\ \A o \in Operators : exec[o].at /= "idle" => exec[o].attempt \in Attempts
  /\ \A o, p \in Operators :
       Owns(exec[o]) /\ Owns(exec[p]) /\ exec[o].attempt = exec[p].attempt => o = p
  /\ \A o \in Operators : Owns(exec[o]) =>
       Knows(exec[o], ledger[exec[o].attempt], job[exec[o].attempt])

Attempted(a) == Sound(a, ledger[a], study[a], meta[a], job[a], killed)

CampaignInv == TypeOK /\ Owned /\ \A a \in Attempts : Attempted(a)

\* Bundles are read in the order they were frozen: an executor's plans are
\* never older than the bundle its preflight read.
Versions ==
  /\ frozen /= None => freezes >= 1 /\ frozen.version = freezes
  /\ \A o \in Operators :
       /\ exec[o].at = "ready" => exec[o].manifest \in 1..freezes
       /\ Owns(exec[o]) => exec[o].manifest \in 1..exec[o].plans
  /\ \A a \in Attempts : ledger[a].status \in {"RUNNING", "SUCCEEDED", "FAILED"} =>
       ledger[a].manifest \in 1..ledger[a].plans

-----------------------------------------------------------------------------
(* The data *)

LEMMA RepoNames ==
  /\ NRepos \in Nat /\ NRepos >= 2
  /\ \A i \in 1..NRepos : Repositories[i] \in Repos
  /\ \A i, k \in 1..NRepos : Repositories[i] = Repositories[k] => i = k
  /\ \A r \in Repos : \E i \in 1..NRepos : r = Repositories[i]
BY CampaignAssumption DEF NRepos, Repos, ToSet, IsInjective

LEMMA CommandType ==
  ASSUME NEW kind \in {"study", "export", "meta"}, NEW r \in Repos \cup {None}
  PROVE  /\ Command(kind, r) \in Commands
         /\ Command(kind, r).kind = kind /\ Command(kind, r).repo = r
         /\ Command(kind, r).at = "start"
BY DEF Command, Commands

LEMMA ExitedType ==
  ASSUME NEW j \in Commands, NEW ok \in BOOLEAN
  PROVE  /\ Exited(j, ok) \in Commands
         /\ Exited(j, ok).kind = j.kind /\ Exited(j, ok).repo = j.repo
         /\ Exited(j, ok).at = "exited" /\ Exited(j, ok).ok = ok
BY DEF Exited, Command, Commands

LEMMA FailedType ==
  ASSUME NEW l \in Ledgers
  PROVE  /\ Failed(l) \in Ledgers
         /\ Failed(l).status = "FAILED" /\ Failed(l).started = l.started
         /\ Failed(l).plans = l.plans /\ Failed(l).manifest = l.manifest
         /\ \A r \in Repos : Failed(l).repos[r] =
              IF l.repos[r] = "RUNNING" THEN "FAILED" ELSE l.repos[r]
<1> DEFINE repos == [r \in Repos |-> IF l.repos[r] = "RUNNING" THEN "FAILED" ELSE l.repos[r]]
           end == IF l.meta = "RUNNING" THEN "FAILED" ELSE l.meta
<1>1. Failed(l) = [l EXCEPT !.status = "FAILED", !.repos = repos, !.meta = end]
  BY DEF Failed
<1>2. repos \in [Repos -> Outcomes] /\ end \in Outcomes
  BY DEF Ledgers, Outcomes
<1> HIDE DEF repos, end
<1>3. /\ Failed(l) \in Ledgers /\ Failed(l).repos = repos
      /\ Failed(l).status = "FAILED" /\ Failed(l).started = l.started
      /\ Failed(l).plans = l.plans /\ Failed(l).manifest = l.manifest
  BY <1>1, <1>2 DEF Ledgers
<1> QED
  BY <1>3 DEF repos

LEMMA StartedType ==
  ASSUME NEW l \in Ledgers, NEW r \in Repos
  PROVE  /\ Started(l, r) \in Ledgers
         /\ Started(l, r).status = l.status /\ Started(l, r).started
         /\ Started(l, r).plans = l.plans /\ Started(l, r).manifest = l.manifest
         /\ \A q \in Repos : Started(l, r).repos[q] =
              IF q = r THEN "RUNNING" ELSE l.repos[q]
BY DEF Started, Ledgers, Outcomes

LEMMA NoStudyType ==
  /\ NoStudy \in Studies /\ NoStudy.files = {} /\ ~NoStudy.turns /\ ~NoStudy.workspace
BY DEF NoStudy, Studies

LEMMA NoLedgerType == NoLedger \in Ledgers
BY DEF NoLedger, Ledgers, Outcomes

LEMMA CleanedUpType ==
  ASSUME NEW s \in Studies
  PROVE  /\ CleanedUp(s) \in Studies /\ ~CleanedUp(s).workspace
         /\ CleanedUp(s).dir = s.dir /\ CleanedUp(s).plan = s.plan
         /\ CleanedUp(s).files = s.files /\ CleanedUp(s).exported = s.exported
         /\ CleanedUp(s).turns = s.turns
BY DEF CleanedUp, Studies

-----------------------------------------------------------------------------
(* Steps of one attempt's files *)

LEMMA SoundClaimed ==
  ASSUME NEW a, NEW l \in Ledgers, NEW s \in [Repos -> Studies], NEW m, NEW j, NEW K,
         Sound(a, l, s, m, j, K), l.status = "none"
  PROVE  Sound(a, [l EXCEPT !.status = "claimed"], s, m, j, K)
BY NoneIsNoCommand DEF Sound, RepoSound, Ledgers

LEMMA SoundOpened ==
  ASSUME NEW a, NEW l \in Ledgers, NEW s \in [Repos -> Studies], NEW m, NEW j, NEW K,
         Sound(a, l, s, m, j, K), l.status = "claimed",
         NEW manifest \in Nat, NEW plans \in Nat
  PROVE  Sound(a, [NoLedger EXCEPT !.status = "RUNNING", !.manifest = manifest,
                                   !.plans = plans], s, m, j, K)
<1> DEFINE next == [NoLedger EXCEPT !.status = "RUNNING", !.manifest = manifest,
                                    !.plans = plans]
<1>1. next.status = "RUNNING" /\ \A r \in Repos : next.repos[r] = "PENDING"
  BY DEF NoLedger
<1>2. j = None /\ \A r \in Repos : s[r] = NoStudy
  BY DEF Sound
<1> HIDE DEF next
<1>3. \A r \in Repos : RepoSound(a, next, s[r], j, K, r)
  BY <1>1, <1>2, NoStudyType DEF RepoSound
<1>4. Sound(a, next, s, m, j, K)
  BY <1>1, <1>2, <1>3, NoneIsNoCommand DEF Sound
<1> QED
  BY <1>4 DEF next

LEMMA SoundStarted ==
  ASSUME NEW a, NEW l \in Ledgers, NEW s \in [Repos -> Studies], NEW m, NEW K,
         Sound(a, l, s, m, None, K), l.status = "RUNNING", NEW r \in Repos
  PROVE  Sound(a, Started(l, r), s, m, None, K)
<1>1. ASSUME NEW q \in Repos PROVE RepoSound(a, Started(l, r), s[q], None, K, q)
  <2>1. RepoSound(a, l, s[q], None, K, q)
    BY DEF Sound
  <2>2. Started(l, r).repos[q] \in {l.repos[q], "RUNNING"}
    BY StartedType
  <2> QED
    BY <2>1, <2>2, StartedType DEF RepoSound
<1> QED
  BY <1>1, NoneIsNoCommand, StartedType DEF Sound

LEMMA SoundStudy ==
  ASSUME NEW a, NEW l \in Ledgers, NEW s \in [Repos -> Studies], NEW m, NEW K,
         Sound(a, l, s, m, None, K), l.status = "RUNNING",
         NEW r \in Repos, l.started, l.repos[r] = "RUNNING"
  PROVE  Sound(a, l, s, m, Command("study", r), K)
BY NoneIsNoCommand, CommandType DEF Sound, RepoSound, CommandSound, StudySound

LEMMA SoundExport ==
  ASSUME NEW a, NEW l \in Ledgers, NEW s \in [Repos -> Studies], NEW m, NEW K,
         NEW j \in Commands, Sound(a, l, s, m, j, K),
         j.kind = "study", j.at = "exited", j.ok, s[j.repo].plan = l.plans
  PROVE  Sound(a, l, s, m, Command("export", j.repo), K)
<1>1. j.repo \in Repos /\ j /= None
  BY NoneIsNoCommand DEF Sound, CommandSound
<1> QED
  BY <1>1, CommandType DEF Sound, RepoSound, CommandSound, StudySound

LEMMA SoundSucceeded ==
  ASSUME NEW a, NEW l \in Ledgers, NEW s \in [Repos -> Studies], NEW m, NEW K,
         NEW j \in Commands, Sound(a, l, s, m, j, K), l.status = "RUNNING",
         j.kind = "export", j.at = "exited", s[j.repo].exported = "whole"
  PROVE  Sound(a, [l EXCEPT !.repos[j.repo] = "SUCCEEDED"], s, m, None, K)
<1> DEFINE next == [l EXCEPT !.repos[j.repo] = "SUCCEEDED"]
<1>1. j.repo \in Repos /\ s[j.repo].files = All /\ s[j.repo].plan = l.plans /\ l.started
  BY DEF Sound, CommandSound
<1>2. /\ next.status = "RUNNING" /\ next.started = l.started /\ next.plans = l.plans
      /\ \A r \in Repos : next.repos[r] = IF r = j.repo THEN "SUCCEEDED" ELSE l.repos[r]
  BY <1>1 DEF Ledgers
<1>3. \A r \in Repos : RepoSound(a, next, s[r], None, K, r)
  BY <1>1, <1>2 DEF Sound, RepoSound
<1> QED
  BY <1>2, <1>3, NoneIsNoCommand DEF Sound

LEMMA SoundMeta ==
  ASSUME NEW a, NEW l \in Ledgers, NEW s \in [Repos -> Studies], NEW m, NEW K,
         Sound(a, l, s, m, None, K), l.status = "RUNNING",
         \A r \in Repos : l.repos[r] = "SUCCEEDED"
  PROVE  Sound(a, [l EXCEPT !.meta = "RUNNING"], s, m, Command("meta", None), K)
BY NoneIsNoCommand, CommandType DEF Sound, RepoSound, CommandSound, MetaSound, Ledgers

LEMMA SoundClosed ==
  ASSUME NEW a, NEW l \in Ledgers, NEW s \in [Repos -> Studies], NEW m, NEW K,
         NEW j \in Commands, Sound(a, l, s, m, j, K),
         j.kind = "meta", j.at = "exited", j.ok
  PROVE  Sound(a, [l EXCEPT !.meta = "SUCCEEDED", !.status = "SUCCEEDED"], s, m, None, K)
<1> DEFINE next == [l EXCEPT !.meta = "SUCCEEDED", !.status = "SUCCEEDED"]
<1>1. MetaSound(l, m, j)
  BY DEF Sound, CommandSound
<1>2. /\ next.status = "SUCCEEDED" /\ next.started = l.started /\ next.plans = l.plans
      /\ next.repos = l.repos
  BY DEF Ledgers
<1>3. \A r \in Repos : RepoSound(a, next, s[r], None, K, r)
  BY <1>2 DEF Sound, RepoSound
<1> QED
  BY <1>1, <1>2, <1>3, NoneIsNoCommand DEF Sound, MetaSound

\* The ledger is closed as failed, and the command goes on.
LEMMA SoundFailed ==
  ASSUME NEW a, NEW l \in Ledgers, NEW s \in [Repos -> Studies], NEW m, NEW K,
         NEW j \in Commands \cup {None}, Sound(a, l, s, m, j, K),
         l.status \in {"RUNNING", "SUCCEEDED"}
  PROVE  Sound(a, Failed(l), s, m, j, K)
<1>1. j \in Commands => CommandSound(Failed(l), s, m, j)
  BY FailedType DEF Sound, CommandSound, MetaSound
<1>2. \A r \in Repos : RepoSound(a, Failed(l), s[r], j, K, r)
  BY FailedType DEF Sound, RepoSound
<1> QED
  BY <1>1, <1>2, FailedType DEF Sound

\* A command that has exited is forgotten.
LEMMA SoundForgotten ==
  ASSUME NEW a, NEW l \in Ledgers, NEW s \in [Repos -> Studies], NEW m, NEW K,
         NEW j \in Commands \cup {None}, Sound(a, l, s, m, j, K),
         j = None \/ j.at = "exited", l.status = "FAILED"
  PROVE  Sound(a, l, s, m, None, K)
BY NoneIsNoCommand DEF Sound, RepoSound

\* A step of a study command, and of the other two.
LEMMA SoundStudyStep ==
  ASSUME NEW a, NEW l \in Ledgers, NEW s \in [Repos -> Studies], NEW m, NEW K,
         NEW j \in Commands, Sound(a, l, s, m, j, K), j.kind = "study",
         NEW t \in Studies, NEW i \in Commands, i.kind = "study", i.repo = j.repo,
         StudySound(t, i), RepoSound(a, l, t, i, K, j.repo)
  PROVE  Sound(a, l, [s EXCEPT ![j.repo] = t], m, i, K)
<1> DEFINE next == [s EXCEPT ![j.repo] = t]
<1>1. /\ j.repo \in Repos /\ j /= None /\ i /= None /\ l.status \in {"RUNNING", "FAILED"}
      /\ next \in [Repos -> Studies]
      /\ \A r \in Repos : next[r] = IF r = j.repo THEN t ELSE s[r]
  BY NoneIsNoCommand DEF Sound, CommandSound
<1>2. CommandSound(l, next, m, i)
  BY <1>1 DEF Sound, CommandSound
<1>3. \A r \in Repos : RepoSound(a, l, next[r], i, K, r)
  <2> SUFFICES ASSUME NEW r \in Repos, r /= j.repo PROVE RepoSound(a, l, next[r], i, K, r)
    BY <1>1
  <2> QED
    BY <1>1 DEF Sound, RepoSound
<1> QED
  BY <1>1, <1>2, <1>3 DEF Sound

LEMMA SoundExportStep ==
  ASSUME NEW a, NEW l \in Ledgers, NEW s \in [Repos -> Studies], NEW m, NEW K,
         NEW j \in Commands, Sound(a, l, s, m, j, K), j.kind = "export",
         NEW written \in {"none", "part", "whole"},
         NEW i \in Commands, i.kind = "export", i.repo = j.repo
  PROVE  Sound(a, l, [s EXCEPT ![j.repo].exported = written], m, i, K)
<1> DEFINE next == [s EXCEPT ![j.repo].exported = written]
<1>1. /\ j.repo \in Repos /\ j /= None /\ i /= None /\ l.status \in {"RUNNING", "FAILED"}
      /\ l.repos[j.repo] \in {"RUNNING", "FAILED"}
      /\ \A r \in Repos : r /= j.repo => next[r] = s[r]
      /\ next[j.repo] = [s[j.repo] EXCEPT !.exported = written]
  BY NoneIsNoCommand DEF Sound, CommandSound
<1>2. LET t == next[j.repo] IN
      /\ t.files = s[j.repo].files /\ t.plan = s[j.repo].plan /\ t.dir = s[j.repo].dir
      /\ t.turns = s[j.repo].turns /\ t.workspace = s[j.repo].workspace
  BY <1>1 DEF Studies
<1>3. CommandSound(l, next, m, i)
  BY <1>1, <1>2 DEF Sound, CommandSound
<1>4. \A r \in Repos : RepoSound(a, l, next[r], i, K, r)
  <2>1. RepoSound(a, l, next[j.repo], i, K, j.repo)
    BY <1>1, <1>2 DEF Sound, RepoSound
  <2>2. ASSUME NEW r \in Repos, r /= j.repo PROVE RepoSound(a, l, next[r], i, K, r)
    BY <1>1, <2>2 DEF Sound, RepoSound
  <2> QED
    BY <2>1, <2>2
<1> QED
  BY <1>1, <1>3, <1>4 DEF Sound

LEMMA SoundMetaStep ==
  ASSUME NEW a, NEW l \in Ledgers, NEW s \in [Repos -> Studies], NEW m, NEW K,
         NEW j \in Commands, Sound(a, l, s, m, j, K), j.kind = "meta",
         NEW n, NEW i \in Commands, i.kind = "meta", MetaSound(l, n, i)
  PROVE  Sound(a, l, s, n, i, K)
<1>1. CommandSound(l, s, n, i)
  BY DEF Sound, CommandSound
<1>2. \A r \in Repos : RepoSound(a, l, s[r], i, K, r)
  BY DEF Sound, RepoSound
<1> QED
  BY <1>1, <1>2, NoneIsNoCommand DEF Sound, CommandSound

\* A command exits without success, and its worktree is gone or it was killed.
LEMMA SoundExit ==
  ASSUME NEW a, NEW l \in Ledgers, NEW s \in [Repos -> Studies], NEW m, NEW K, NEW L,
         NEW j \in Commands, Sound(a, l, s, m, j, K), K \subseteq L,
         j.kind /= "study" \/ ~s[j.repo].workspace \/ a \in L
  PROVE  Sound(a, l, s, m, Exited(j, FALSE), L)
<1>1. CommandSound(l, s, m, Exited(j, FALSE))
  BY ExitedType DEF Sound, CommandSound, StudySound, MetaSound
<1>2. \A r \in Repos : RepoSound(a, l, s[r], Exited(j, FALSE), L, r)
  BY ExitedType DEF Sound, RepoSound
<1> QED
  BY <1>1, <1>2, ExitedType, NoneIsNoCommand DEF Sound, CommandSound

-----------------------------------------------------------------------------
(* Types *)

LEMMA InitCampaign == Init => CampaignInv
<1> SUFFICES ASSUME Init PROVE CampaignInv
  OBVIOUS
<1> USE DEF Init
<1>1. TypeOK
  BY NoStudyType, NoLedgerType
  DEF TypeOK, Things, NoFreezer, Idle, Executors, NoMeta, Metas, Effects, NoEvidence
<1>2. Owned
  BY DEF Owned, Idle, Owns, Going
<1>3. ASSUME NEW a \in Attempts PROVE Attempted(a)
  <2>1. /\ ledger[a] = NoLedger /\ study[a] = [r \in Repos |-> NoStudy] /\ job[a] = None
    OBVIOUS
  <2>2. NoLedger.status = "none" /\ \A r \in Repos : NoLedger.repos[r] = "PENDING"
    BY DEF NoLedger
  <2> QED
    BY <2>1, <2>2, NoStudyType, NoneIsNoCommand DEF Attempted, Sound, RepoSound
<1> QED
  BY <1>1, <1>2, <1>3 DEF CampaignInv

LEMMA MachineTypes ==
  ASSUME TypeOK, (\E thing \in Things : Drift(thing)) \/ Upgrade \/ Freezing \/ RetireFreeze
  PROVE  TypeOK'
<1> USE DEF TypeOK, machine, bundle, artifacts
<1>1. CASE (\E thing \in Things : Drift(thing)) \/ Upgrade \/ RetireFreeze
  BY <1>1 DEF Drift, Upgrade, RetireFreeze, Fault
<1>2. CASE BeginFreeze \/ AbandonFreeze
  BY <1>2 DEF BeginFreeze, AbandonFreeze, NoFreezer
<1>3. CASE ConfigureAndLock
  BY <1>3 DEF ConfigureAndLock, Configured
<1>4. CASE PublishFreeze
  <2>1. frozen' \in Bundles
    BY <1>4 DEF PublishFreeze, NewPlans, Bundles
  <2> QED
    BY <1>4, <2>1 DEF PublishFreeze, NoFreezer
<1> QED
  BY <1>1, <1>2, <1>3, <1>4 DEF Freezing

\* What the invariant says of an executor and its attempt.
LEMMA OwnerKnows ==
  ASSUME CampaignInv, NEW o \in Operators, Owns(exec[o])
  PROVE  /\ exec[o] \in Executors /\ exec[o].attempt \in Attempts
         /\ ledger[exec[o].attempt] \in Ledgers
         /\ study[exec[o].attempt] \in [Repos -> Studies]
         /\ meta[exec[o].attempt] \in Metas
         /\ job[exec[o].attempt] \in Commands \cup {None}
         /\ Knows(exec[o], ledger[exec[o].attempt], job[exec[o].attempt])
         /\ Attempted(exec[o].attempt)
BY DEF CampaignInv, TypeOK, Owned, Owns, Going

\* The repository an executor has reached.
LEMMA RepoReached ==
  ASSUME CampaignInv, NEW o \in Operators, exec[o].at \in Going, exec[o].next <= NRepos
  PROVE  exec[o].next \in 1..NRepos /\ Repo(o) \in Repos
<1>1. exec[o].next \in 1..(NRepos + 1)
  BY OwnerKnows DEF Owns, Knows
<1> QED
  BY <1>1, RepoNames DEF Repo

\* What an executor's step makes of its own record.
LEMMA ExecutorRecord ==
  ASSUME TypeOK, NEW o \in Operators,
         NEW e \in Executors, exec' = [exec EXCEPT ![o] = e]
  PROVE  exec' \in [Operators -> Executors]
BY DEF TypeOK

LEMMA IdleType == Idle \in Executors /\ Idle.at = "idle" /\ ~Owns(Idle)
BY DEF Idle, Executors, Owns, Going

LEMMA LedgerRecord ==
  ASSUME TypeOK, NEW a,
         NEW l \in Ledgers, ledger' = [ledger EXCEPT ![a] = l]
  PROVE  ledger' \in [Attempts -> Ledgers]
BY DEF TypeOK

LEMMA ClaimTypes ==
  ASSUME CampaignInv, NEW o \in Operators, ClaimAttempt(o)
  PROVE  TypeOK'
<1> USE DEF CampaignInv
<1> DEFINE e == [exec[o] EXCEPT !.at = "claimed", !.plans = frozen.version]
           a == exec[o].attempt
           l == [ledger[a] EXCEPT !.status = "claimed"]
<1>1. CASE BundleLoads /\ ledger[a].status = "none"
  <2>1. a \in Attempts /\ ledger[a] \in Ledgers /\ exec[o] \in Executors
    BY <1>1 DEF ClaimAttempt, Owned, TypeOK
  <2>2. frozen.version \in Nat
    BY <1>1 DEF BundleLoads, TypeOK, Bundles
  <2>3. e \in Executors
    BY <2>1, <2>2 DEF Executors
  <2>4. l \in Ledgers
    BY <2>1 DEF Ledgers
  <2>5. exec' = [exec EXCEPT ![o] = e] /\ ledger' = [ledger EXCEPT ![a] = l]
    BY <1>1 DEF ClaimAttempt
  <2> HIDE DEF e, l
  <2>6. exec' \in [Operators -> Executors] /\ ledger' \in [Attempts -> Ledgers]
    BY <2>3, <2>4, <2>5, ExecutorRecord, LedgerRecord
  <2> QED
    BY <2>6 DEF ClaimAttempt, TypeOK, machine, bundle, artifacts
<1>2. CASE ~(BundleLoads /\ ledger[a].status = "none")
  BY <1>2 DEF ClaimAttempt, TypeOK, machine, bundle, artifacts, Idle, Executors
<1> QED
  BY <1>1, <1>2

LEMMA OpenTypes ==
  ASSUME CampaignInv, NEW o \in Operators, OpenLedger(o)
  PROVE  TypeOK'
<1> DEFINE e == [exec[o] EXCEPT !.at = "next", !.next = 1]
           l == [NoLedger EXCEPT !.status = "RUNNING", !.manifest = exec[o].manifest,
                                 !.plans = exec[o].plans]
<1>1. exec[o] \in Executors /\ exec[o].plans \in Nat /\ exec[o].manifest \in Nat
  BY OwnerKnows DEF OpenLedger, Owns, Executors
<1>2. e \in Executors /\ l \in Ledgers
  BY <1>1, NoLedgerType DEF Executors, Ledgers
<1>3. exec' = [exec EXCEPT ![o] = e] /\ ledger' = [ledger EXCEPT ![exec[o].attempt] = l]
  BY DEF OpenLedger
<1> HIDE DEF e, l
<1>4. exec' \in [Operators -> Executors] /\ ledger' \in [Attempts -> Ledgers]
  BY <1>2, <1>3, ExecutorRecord, LedgerRecord DEF CampaignInv
<1> QED
  BY <1>4 DEF OpenLedger, CampaignInv, TypeOK, machine, bundle, artifacts

LEMMA RevalidateTypes ==
  ASSUME CampaignInv, NEW o \in Operators, Revalidate(o)
  PROVE  TypeOK'
<1> DEFINE e == [exec[o] EXCEPT !.at = "spawn"]
           a == exec[o].attempt
           l == Started(ledger[a], Repo(o))
<1>1. Repo(o) \in Repos /\ exec[o] \in Executors /\ ledger[a] \in Ledgers
  BY OwnerKnows, RepoReached DEF Revalidate, Owns, Going
<1>2. e \in Executors /\ l \in Ledgers
  BY <1>1, StartedType DEF Executors
<1>3. exec' = [exec EXCEPT ![o] = e] /\ ledger' = [ledger EXCEPT ![a] = l]
  BY DEF Revalidate
<1> HIDE DEF e, l
<1>4. exec' \in [Operators -> Executors] /\ ledger' \in [Attempts -> Ledgers]
  BY <1>2, <1>3, ExecutorRecord, LedgerRecord DEF CampaignInv
<1> QED
  BY <1>4 DEF Revalidate, CampaignInv, TypeOK, machine, bundle, artifacts

LEMMA SpawnTypes ==
  ASSUME CampaignInv, NEW o \in Operators, SpawnStudy(o) \/ SpawnExport(o)
  PROVE  TypeOK'
<1>1. PICK at \in {"study", "export"} :
        /\ exec[o].at \in {"spawn", "study"}
        /\ job' = [job EXCEPT ![exec[o].attempt] = Command(at, Repo(o))]
        /\ exec' = [exec EXCEPT ![o].at = at]
        /\ UNCHANGED <<machine, bundle, ledger, artifacts, evidence, killed, faults>>
  BY DEF SpawnStudy, SpawnExport, Ended
<1> DEFINE e == [exec[o] EXCEPT !.at = at]
           c == Command(at, Repo(o))
<1>2. exec[o] \in Executors /\ exec[o].next <= NRepos
  BY <1>1, OwnerKnows DEF Owns, Going, Knows
<1>3. Repo(o) \in Repos
  BY <1>1, <1>2, RepoReached DEF Going
<1>4. e \in Executors /\ c \in Commands
  BY <1>2, <1>3, CommandType DEF Executors
<1>5. exec' = [exec EXCEPT ![o] = e]
  BY <1>1
<1> HIDE DEF e, c
<1>6. exec' \in [Operators -> Executors]
  BY <1>4, <1>5, ExecutorRecord DEF CampaignInv
<1>7. job' \in [Attempts -> Commands \cup {None}]
  BY <1>1, <1>4 DEF CampaignInv, TypeOK, c
<1> QED
  BY <1>1, <1>6, <1>7 DEF CampaignInv, TypeOK, machine, bundle, artifacts

LEMMA SucceededTypes ==
  ASSUME CampaignInv, NEW o \in Operators, RepositorySucceeded(o)
  PROVE  TypeOK'
<1> DEFINE e == [exec[o] EXCEPT !.at = "next", !.next = exec[o].next + 1]
           a == exec[o].attempt
           l == [ledger[a] EXCEPT !.repos[Repo(o)] = "SUCCEEDED"]
<1>1. exec[o] \in Executors /\ ledger[a] \in Ledgers
  BY OwnerKnows DEF RepositorySucceeded, Ended, Owns, Going
<1>2. e \in Executors
  <2>1. exec[o].next + 1 \in Nat
    BY <1>1 DEF Executors
  <2> QED
    BY <1>1, <2>1, ZenonT(30) DEF Executors
<1>3. l \in Ledgers
  BY <1>1 DEF Ledgers, Outcomes
<1>4. exec' = [exec EXCEPT ![o] = e] /\ ledger' = [ledger EXCEPT ![a] = l]
  BY DEF RepositorySucceeded
<1> HIDE DEF e, l
<1>5. exec' \in [Operators -> Executors] /\ ledger' \in [Attempts -> Ledgers]
  BY <1>2, <1>3, <1>4, ExecutorRecord, LedgerRecord DEF CampaignInv
<1>6. job' \in [Attempts -> Commands \cup {None}]
  BY DEF RepositorySucceeded, CampaignInv, TypeOK
<1> QED
  BY <1>5, <1>6 DEF RepositorySucceeded, CampaignInv, TypeOK, machine, bundle, artifacts

LEMMA MetaTypes ==
  ASSUME CampaignInv, NEW o \in Operators, SpawnMeta(o)
  PROVE  TypeOK'
<1> DEFINE e == [exec[o] EXCEPT !.at = "meta"]
           a == exec[o].attempt
           l == [ledger[a] EXCEPT !.meta = "RUNNING"]
           c == Command("meta", None)
<1>1. exec[o] \in Executors /\ ledger[a] \in Ledgers
  BY OwnerKnows DEF SpawnMeta, Owns, Going
<1>2. e \in Executors /\ l \in Ledgers /\ c \in Commands
  BY <1>1, CommandType DEF Executors, Ledgers, Outcomes
<1>3. /\ exec' = [exec EXCEPT ![o] = e] /\ ledger' = [ledger EXCEPT ![a] = l]
      /\ job' = [job EXCEPT ![a] = c]
  BY DEF SpawnMeta
<1> HIDE DEF e, l, c
<1>4. exec' \in [Operators -> Executors] /\ ledger' \in [Attempts -> Ledgers]
  BY <1>2, <1>3, ExecutorRecord, LedgerRecord DEF CampaignInv
<1>5. job' \in [Attempts -> Commands \cup {None}]
  BY <1>2, <1>3 DEF CampaignInv, TypeOK
<1> QED
  BY <1>4, <1>5 DEF SpawnMeta, CampaignInv, TypeOK, machine, bundle, artifacts

\* The ledger is closed.
LEMMA EndTypes ==
  ASSUME CampaignInv, NEW o \in Operators, CloseLedger(o) \/ ExecutorRaises(o)
  PROVE  TypeOK'
<1> DEFINE a == exec[o].attempt
<1>1. ledger[a] \in Ledgers /\ exec[o] \in Executors
  BY OwnerKnows DEF CloseLedger, ExecutorRaises, Ended, Owns, Going
<1>2. PICK l \in Ledgers, e \in Executors :
        ledger' = [ledger EXCEPT ![a] = l] /\ exec' = [exec EXCEPT ![o] = e]
  <2>1. CASE CloseLedger(o)
    <3> DEFINE l == [ledger[a] EXCEPT !.meta = "SUCCEEDED", !.status = "SUCCEEDED"]
               e == [exec[o] EXCEPT !.at = "closing"]
    <3>1. l \in Ledgers /\ e \in Executors
      BY <1>1 DEF Ledgers, Outcomes, Executors
    <3>2. ledger' = [ledger EXCEPT ![a] = l] /\ exec' = [exec EXCEPT ![o] = e]
      BY <2>1 DEF CloseLedger
    <3> HIDE DEF l, e
    <3> QED
      BY <3>1, <3>2
  <2>2. CASE ExecutorRaises(o)
    <3>1. Failed(ledger[a]) \in Ledgers
      BY <1>1, FailedType
    <3>2. ledger' = [ledger EXCEPT ![a] = Failed(ledger[a])] /\ exec' = [exec EXCEPT ![o] = Idle]
      BY <2>2 DEF ExecutorRaises
    <3> QED
      BY <3>1, <3>2, IdleType
  <2> QED
    BY <2>1, <2>2
<1>3. ledger' \in [Attempts -> Ledgers] /\ exec' \in [Operators -> Executors]
  BY <1>2, LedgerRecord, ExecutorRecord DEF CampaignInv
<1>4. job' \in [Attempts -> Commands \cup {None}]
  BY DEF CloseLedger, ExecutorRaises, CampaignInv, TypeOK
<1> QED
  BY <1>3, <1>4
  DEF CloseLedger, ExecutorRaises, CampaignInv, TypeOK, machine, bundle, artifacts

LEMMA KillTypes ==
  ASSUME CampaignInv, NEW o \in Operators, KillExecutor(o) \/ Return(o)
  PROVE  TypeOK'
<1>1. exec' \in [Operators -> Executors]
  BY IdleType, ExecutorRecord DEF KillExecutor, Return, CampaignInv
<1> QED
  BY <1>1 DEF KillExecutor, Return, Fault, CampaignInv, TypeOK, machine, bundle, artifacts

LEMMA PreflightTypes ==
  ASSUME CampaignInv, NEW o \in Operators, NEW a \in Attempts, Preflight(o, a)
  PROVE  TypeOK'
<1> DEFINE e == [Idle EXCEPT !.at = "ready", !.attempt = a, !.manifest = frozen.version]
<1>0. frozen.version \in Nat
  BY DEF Preflight, BundleLoads, CampaignInv, TypeOK, Bundles
<1>1. e \in Executors
  BY <1>0 DEF Idle, Executors
<1>2. exec' \in [Operators -> Executors]
  BY <1>1, ExecutorRecord DEF Preflight, CampaignInv
<1> QED
  BY <1>2 DEF Preflight, CampaignInv, TypeOK, machine, bundle, artifacts

LEMMA InterruptTypes ==
  ASSUME CampaignInv, NEW o \in Operators, NEW both \in BOOLEAN, Interrupt(o, both)
  PROVE  TypeOK'
<1> DEFINE a == exec[o].attempt
<1>1. /\ a \in Attempts /\ ledger[a] \in Ledgers /\ study[a] \in [Repos -> Studies]
      /\ job[a] \in Commands \cup {None}
  BY OwnerKnows DEF Interrupt, Executing, Owns, Going
<1>2. ledger' \in [Attempts -> Ledgers]
  BY <1>1, FailedType DEF Interrupt, CampaignInv, TypeOK
<1>3. exec' \in [Operators -> Executors]
  BY DEF Interrupt, CampaignInv, TypeOK, Idle, Executors
<1>4. job' \in [Attempts -> Commands \cup {None}]
  <2>1. both => Exited(job[a], FALSE) \in Commands
    BY <1>1, ExitedType DEF Interrupt, Live
  <2> QED
    BY <1>1, <2>1 DEF Interrupt, CampaignInv, TypeOK
<1>5. study' \in [Attempts -> [Repos -> Studies]]
  <2>1. CASE both /\ job[a].kind = "study"
    <3> DEFINE q == job[a].repo
               s == [study[a] EXCEPT ![q] = CleanedUp(study[a][q])]
    <3>1. s \in [Repos -> Studies]
      BY <1>1, CleanedUpType
    <3>2. study' = [study EXCEPT ![a] = s]
      BY <2>1 DEF Interrupt
    <3> HIDE DEF s
    <3> QED
      BY <3>1, <3>2 DEF CampaignInv, TypeOK
  <2>2. CASE ~(both /\ job[a].kind = "study")
    BY <2>2 DEF Interrupt, CampaignInv, TypeOK
  <2> QED
    BY <2>1, <2>2
<1>6. UNCHANGED <<machine, bundle, meta, evidence, killed>> /\ faults' = faults + 1
  BY DEF Interrupt, Fault
<1> QED
  BY <1>2, <1>3, <1>4, <1>5, <1>6 DEF CampaignInv, TypeOK, machine, bundle

LEMMA FinalizerTypes ==
  ASSUME CampaignInv, NEW o \in Operators,
         SealEvidence(o) \/ \E a \in Attempts : WriteReport(o, a)
  PROVE  TypeOK'
<1> DEFINE Evidence == [files : {"none", "part", "whole"}, higher : BOOLEAN,
                        claim : Claims \cup {None}]
<1>1. CASE SealEvidence(o)
  <2> DEFINE a == exec[o].attempt
             n == [evidence[a] EXCEPT !.files = "whole"]
  <2>1. a \in Attempts /\ evidence \in [Attempts -> Evidence]
    BY <1>1 DEF SealEvidence, CampaignInv, Owned, TypeOK
  <2>2. n \in Evidence
    BY <2>1
  <2>3. evidence' = [evidence EXCEPT ![a] = n]
    BY <1>1 DEF SealEvidence
  <2> HIDE DEF n, Evidence
  <2>4. evidence' \in [Attempts -> Evidence]
    BY <2>1, <2>2, <2>3
  <2>5. exec' \in [Operators -> Executors]
    BY <1>1 DEF SealEvidence, CampaignInv, TypeOK, Idle, Executors
  <2> QED
    BY <1>1, <2>4, <2>5
    DEF SealEvidence, CampaignInv, TypeOK, Evidence, machine, bundle, artifacts
<1>2. ASSUME NEW a \in Attempts, WriteReport(o, a) PROVE TypeOK'
  <2>1. \A first, raw, higher : OrientMetric(first, raw, higher) \in Claims
    BY DEF OrientMetric, Claims
  <2>2. PICK higher \in BOOLEAN : evidence' = [evidence EXCEPT ![a] =
          [files |-> "part", higher |-> higher,
           claim |-> OrientMetric(SortedArms[1], meta[a].effect, higher)]]
    BY <1>2 DEF WriteReport
  <2> DEFINE n == [files |-> "part", higher |-> higher,
                   claim |-> OrientMetric(SortedArms[1], meta[a].effect, higher)]
  <2>3. n \in Evidence
    BY <2>1
  <2>4. evidence \in [Attempts -> Evidence]
    BY DEF CampaignInv, TypeOK
  <2> HIDE DEF n, Evidence
  <2>5. evidence' \in [Attempts -> Evidence]
    BY <2>2, <2>3, <2>4 DEF n
  <2>6. [Idle EXCEPT !.at = "report", !.attempt = a] \in Executors
    BY DEF Idle, Executors
  <2>7. exec' \in [Operators -> Executors]
    BY <1>2, <2>6 DEF WriteReport, CampaignInv, TypeOK
  <2> QED
    BY <1>2, <2>5, <2>7
    DEF WriteReport, CampaignInv, TypeOK, Evidence, machine, bundle, artifacts
<1> QED
  BY <1>1, <1>2

-----------------------------------------------------------------------------
(* Frames *)

\* Only attempt a has changed.
OthersKept(a) ==
  \A b \in Attempts \ {a} : /\ ledger'[b] = ledger[b] /\ study'[b] = study[b]
                            /\ meta'[b] = meta[b] /\ job'[b] = job[b]

LEMMA AttemptsKept ==
  ASSUME CampaignInv, NEW a \in Attempts, OthersKept(a), Attempted(a)',
         killed \subseteq killed', killed' \subseteq killed \cup {a}
  PROVE  \A b \in Attempts : Attempted(b)'
<1> SUFFICES ASSUME NEW b \in Attempts, b /= a PROVE Attempted(b)'
  OBVIOUS
<1>1. Sound(b, ledger[b], study[b], meta[b], job[b], killed)
  BY DEF CampaignInv, Attempted
<1>2. b \in killed <=> b \in killed'
  OBVIOUS
<1>3. Sound(b, ledger[b], study[b], meta[b], job[b], killed')
  BY <1>1, <1>2 DEF Sound, RepoSound
<1> QED
  BY <1>3 DEF Attempted, OthersKept

\* A step of the executor o, whose attempt a is nobody else's.
LEMMA OwnerStep ==
  ASSUME CampaignInv, TypeOK', NEW o \in Operators, NEW a \in Attempts,
         \A p \in Operators \ {o} : Owns(exec[p]) => exec[p].attempt /= a,
         NEW e, exec' = [exec EXCEPT ![o] = e],
         e.attempt = a \/ e.at = "idle",
         Owns(e) => Knows(e, ledger'[a], job'[a]),
         OthersKept(a), killed' = killed, Attempted(a)'
  PROVE  CampaignInv'
<1>1. exec'[o] = e /\ \A p \in Operators \ {o} : exec'[p] = exec[p]
  BY DEF CampaignInv, TypeOK
<1>2. Owns(e) => e.attempt = a
  BY DEF Owns, Going
<1>3. \A p \in Operators : exec'[p].at /= "idle" => exec'[p].attempt \in Attempts
  BY <1>1 DEF CampaignInv, Owned
<1>4. ASSUME NEW p \in Operators, NEW q \in Operators, Owns(exec'[p]), Owns(exec'[q]),
             exec'[p].attempt = exec'[q].attempt
      PROVE  p = q
  BY <1>1, <1>2, <1>4 DEF CampaignInv, Owned
<1>5. ASSUME NEW p \in Operators, Owns(exec'[p])
      PROVE  Knows(exec'[p], ledger'[exec'[p].attempt], job'[exec'[p].attempt])
  <2>1. CASE p = o
    BY <1>1, <1>2, <1>5, <2>1
  <2>2. CASE p /= o
    <3>1. /\ Knows(exec[p], ledger[exec[p].attempt], job[exec[p].attempt])
          /\ exec[p].attempt \in Attempts \ {a}
      BY <1>1, <1>5, <2>2, OwnerKnows
    <3> QED
      BY <1>1, <2>2, <3>1 DEF OthersKept
  <2> QED
    BY <2>1, <2>2
<1>6. Owned'
  BY <1>3, <1>4, <1>5 DEF Owned, Owns
<1> QED
  BY <1>6, AttemptsKept DEF CampaignInv

\* The attempt of an executor that has claimed it is nobody else's.
LEMMA OwnedAlone ==
  ASSUME CampaignInv, NEW o \in Operators, Owns(exec[o])
  PROVE  \A p \in Operators \ {o} : Owns(exec[p]) => exec[p].attempt /= exec[o].attempt
BY DEF CampaignInv, Owned

\* A step of the command of a.
LEMMA CommandStep ==
  ASSUME CampaignInv, TypeOK', NEW a \in Attempts,
         exec' = exec, ledger' = ledger,
         job[a] \in Commands, job'[a] \in Commands,
         job'[a].kind = job[a].kind, job'[a].repo = job[a].repo,
         OthersKept(a), Attempted(a)',
         killed \subseteq killed', killed' \subseteq killed \cup {a}
  PROVE  CampaignInv'
<1>1. ASSUME NEW o \in Operators, Owns(exec[o])
      PROVE  Knows(exec[o], ledger[exec[o].attempt], job'[exec[o].attempt])
  <2>1. /\ Knows(exec[o], ledger[exec[o].attempt], job[exec[o].attempt])
        /\ exec[o].attempt \in Attempts
    BY <1>1, OwnerKnows
  <2>2. CASE exec[o].attempt = a
    BY <2>1, <2>2, NoneIsNoCommand DEF Knows
  <2>3. CASE exec[o].attempt /= a
    BY <2>1, <2>3 DEF OthersKept
  <2> QED
    BY <2>2, <2>3
<1>2. Owned'
  BY <1>1 DEF CampaignInv, Owned, Owns
<1> QED
  BY <1>2, AttemptsKept DEF CampaignInv

Files == <<ledger, study, meta, job, killed>>

\* A step of an executor that owns nothing after it, and leaves the files.
LEMMA QuietStep ==
  ASSUME CampaignInv, TypeOK', NEW o \in Operators, UNCHANGED Files,
         NEW e, exec' = [exec EXCEPT ![o] = e], ~Owns(e),
         e.at = "idle" \/ e.attempt \in Attempts
  PROVE  CampaignInv'
<1>1. exec'[o] = e /\ \A p \in Operators \ {o} : exec'[p] = exec[p]
  BY DEF CampaignInv, TypeOK
<1>2. Owned'
  BY <1>1 DEF CampaignInv, Owned, Owns, Files
<1>3. \A a \in Attempts : Attempted(a)'
  BY DEF CampaignInv, Attempted, Files
<1> QED
  BY <1>2, <1>3 DEF CampaignInv

LEMMA MachineStep ==
  ASSUME CampaignInv, TypeOK', UNCHANGED <<exec, Files>>
  PROVE  CampaignInv'
BY DEF CampaignInv, Owned, Attempted, Files

-----------------------------------------------------------------------------
(* Steps of an executor *)

LEMMA ClaimStep ==
  ASSUME CampaignInv, NEW o \in Operators, ClaimAttempt(o)
  PROVE  CampaignInv'
<1>1. PICK a \in Attempts : a = exec[o].attempt
  BY DEF ClaimAttempt, CampaignInv, Owned
<1>2. TypeOK'
  BY ClaimTypes
<1>3. ledger[a] \in Ledgers /\ study[a] \in [Repos -> Studies] /\ exec[o] \in Executors
  BY DEF CampaignInv, TypeOK
<1>4. CASE BundleLoads /\ ledger[a].status = "none"
  <2> DEFINE e == [exec[o] EXCEPT !.at = "claimed", !.plans = frozen.version]
             l == [ledger[a] EXCEPT !.status = "claimed"]
  <2>1. /\ exec' = [exec EXCEPT ![o] = e] /\ ledger' = [ledger EXCEPT ![a] = l]
        /\ UNCHANGED <<study, meta, job, killed>>
    BY <1>1, <1>4 DEF ClaimAttempt, artifacts
  <2>2. e.attempt = a /\ e.at = "claimed" /\ l.status = "claimed"
    BY <1>1, <1>3 DEF Executors, Ledgers
  <2>3. Sound(a, l, study[a], meta[a], job[a], killed)
    BY <1>3, <1>4, SoundClaimed DEF CampaignInv, Attempted
  <2>4. \A p \in Operators \ {o} : Owns(exec[p]) => exec[p].attempt /= a
    BY <1>4, OwnerKnows DEF Knows, Owns
  <2> HIDE DEF e, l
  <2>5. ledger'[a] = l /\ OthersKept(a)
    BY <2>1 DEF OthersKept, CampaignInv, TypeOK
  <2>6. Attempted(a)'
    BY <2>1, <2>3, <2>5 DEF Attempted
  <2>7. Knows(e, ledger'[a], job'[a])
    BY <2>2, <2>5 DEF Knows, Going
  <2> QED
    BY <1>2, <2>1, <2>2, <2>4, <2>5, <2>6, <2>7, OwnerStep
<1>5. CASE ~(BundleLoads /\ ledger[a].status = "none")
  <2>1. exec' = [exec EXCEPT ![o] = Idle] /\ UNCHANGED Files
    BY <1>1, <1>5 DEF ClaimAttempt, Files, artifacts
  <2> QED
    BY <1>2, <2>1, IdleType, QuietStep
<1> QED
  BY <1>4, <1>5

\* What an owner's step starts from.
LEMMA OwnerStarts ==
  ASSUME CampaignInv, NEW o \in Operators, Owns(exec[o])
  PROVE  \E a \in Attempts :
           /\ a = exec[o].attempt /\ exec[o] \in Executors
           /\ ledger[a] \in Ledgers /\ study[a] \in [Repos -> Studies]
           /\ job[a] \in Commands \cup {None}
           /\ Knows(exec[o], ledger[a], job[a])
           /\ Sound(a, ledger[a], study[a], meta[a], job[a], killed)
           /\ \A p \in Operators \ {o} : Owns(exec[p]) => exec[p].attempt /= a
<1>1. PICK a \in Attempts : a = exec[o].attempt
  BY OwnerKnows
<1> QED
  BY <1>1, OwnerKnows, OwnedAlone DEF Attempted

LEMMA OpenStep ==
  ASSUME CampaignInv, NEW o \in Operators, OpenLedger(o)
  PROVE  CampaignInv'
<1>1. PICK a \in Attempts :
        /\ a = exec[o].attempt /\ exec[o] \in Executors
        /\ ledger[a] \in Ledgers /\ study[a] \in [Repos -> Studies]
        /\ Knows(exec[o], ledger[a], job[a])
        /\ Sound(a, ledger[a], study[a], meta[a], job[a], killed)
        /\ \A p \in Operators \ {o} : Owns(exec[p]) => exec[p].attempt /= a
  BY OwnerStarts DEF OpenLedger, Owns
<1> DEFINE e == [exec[o] EXCEPT !.at = "next", !.next = 1]
           l == [NoLedger EXCEPT !.status = "RUNNING", !.manifest = exec[o].manifest,
                                 !.plans = exec[o].plans]
<1>2. TypeOK'
  BY OpenTypes
<1>3. /\ exec' = [exec EXCEPT ![o] = e] /\ ledger' = [ledger EXCEPT ![a] = l]
      /\ UNCHANGED <<study, meta, job, killed>>
  BY <1>1 DEF OpenLedger, artifacts
<1>4. /\ e.attempt = a /\ e.at = "next" /\ e.next = 1 /\ e.plans = exec[o].plans
      /\ l.status = "RUNNING" /\ l.plans = e.plans
  BY <1>1 DEF Executors, NoLedger
<1>5. /\ ledger[a].status = "claimed" /\ job[a] = None
      /\ exec[o].plans \in Nat /\ exec[o].manifest \in Nat
  BY <1>1 DEF OpenLedger, Knows, Sound, Executors
<1>6. Sound(a, l, study[a], meta[a], job[a], killed)
  BY <1>1, <1>5, SoundOpened
<1> HIDE DEF e, l
<1>7. ledger'[a] = l /\ OthersKept(a)
  BY <1>3 DEF OthersKept, CampaignInv, TypeOK
<1>8. Attempted(a)'
  BY <1>3, <1>6, <1>7 DEF Attempted
<1>9. Knows(e, ledger'[a], job'[a])
  BY <1>3, <1>4, <1>5, <1>7, RepoNames DEF Knows, Going
<1> QED
  BY <1>1, <1>2, <1>3, <1>4, <1>7, <1>8, <1>9, OwnerStep

LEMMA RevalidateStep ==
  ASSUME CampaignInv, NEW o \in Operators, Revalidate(o)
  PROVE  CampaignInv'
<1>1. PICK a \in Attempts :
        /\ a = exec[o].attempt /\ exec[o] \in Executors
        /\ ledger[a] \in Ledgers /\ study[a] \in [Repos -> Studies]
        /\ Knows(exec[o], ledger[a], job[a])
        /\ Sound(a, ledger[a], study[a], meta[a], job[a], killed)
        /\ \A p \in Operators \ {o} : Owns(exec[p]) => exec[p].attempt /= a
  BY OwnerStarts DEF Revalidate, Owns, Going
<1> DEFINE e == [exec[o] EXCEPT !.at = "spawn"]
           n == exec[o].next
           r == Repo(o)
           l == Started(ledger[a], r)
<1>2. TypeOK'
  BY RevalidateTypes
<1>3. /\ exec' = [exec EXCEPT ![o] = e] /\ ledger' = [ledger EXCEPT ![a] = l]
      /\ UNCHANGED <<study, meta, job, killed>>
  BY <1>1 DEF Revalidate, artifacts
<1>4. e.attempt = a /\ e.at = "spawn" /\ e.next = n /\ e.plans = exec[o].plans
  BY <1>1 DEF Executors
<1>5. /\ n \in 1..NRepos /\ r \in Repos /\ r = Repositories[n]
      /\ ledger[a].status = "RUNNING" /\ ledger[a].plans = e.plans /\ job[a] = None
      /\ \A k \in 1..(n - 1) : ledger[a].repos[Repositories[k]] = "SUCCEEDED"
  BY <1>1, <1>4, RepoReached DEF Revalidate, Knows, Going, Repo
<1>6. Sound(a, l, study[a], meta[a], job[a], killed)
  BY <1>1, <1>5, SoundStarted
<1>7. /\ l.status = "RUNNING" /\ l.started /\ l.plans = e.plans
      /\ l.repos[r] = "RUNNING"
      /\ \A k \in 1..(n - 1) : l.repos[Repositories[k]] = "SUCCEEDED"
  <2>1. \A k \in 1..(n - 1) : Repositories[k] \in Repos /\ Repositories[k] /= r
    BY <1>5, RepoNames
  <2>2. /\ l.status = ledger[a].status /\ l.started /\ l.plans = ledger[a].plans
        /\ \A q \in Repos : l.repos[q] = IF q = r THEN "RUNNING" ELSE ledger[a].repos[q]
    BY <1>1, <1>5, StartedType
  <2> HIDE DEF l, r, n, e
  <2> QED
    BY <1>5, <2>1, <2>2
<1> HIDE DEF e, l, n, r
<1>8. ledger'[a] = l /\ OthersKept(a)
  BY <1>3 DEF OthersKept, CampaignInv, TypeOK
<1>9. Attempted(a)'
  BY <1>3, <1>6, <1>8 DEF Attempted
<1>10. Knows(e, ledger'[a], job'[a])
  BY <1>3, <1>4, <1>5, <1>7, <1>8, RepoNames DEF Knows, Going
<1> QED
  BY <1>1, <1>2, <1>3, <1>4, <1>8, <1>9, <1>10, OwnerStep

LEMMA SpawnStep ==
  ASSUME CampaignInv, NEW o \in Operators, SpawnStudy(o) \/ SpawnExport(o)
  PROVE  CampaignInv'
<1>1. PICK a \in Attempts :
        /\ a = exec[o].attempt /\ exec[o] \in Executors
        /\ ledger[a] \in Ledgers /\ study[a] \in [Repos -> Studies]
        /\ job[a] \in Commands \cup {None}
        /\ Knows(exec[o], ledger[a], job[a])
        /\ Sound(a, ledger[a], study[a], meta[a], job[a], killed)
        /\ \A p \in Operators \ {o} : Owns(exec[p]) => exec[p].attempt /= a
  BY OwnerStarts DEF SpawnStudy, SpawnExport, Ended, Owns, Going
<1>2. TypeOK'
  BY SpawnTypes
<1>3. PICK at \in {"study", "export"} :
        /\ IF at = "study" THEN exec[o].at = "spawn"
           ELSE Ended(o, "study") /\ StudyCompleted(o)
        /\ job' = [job EXCEPT ![a] = Command(at, Repo(o))]
        /\ exec' = [exec EXCEPT ![o].at = at]
        /\ UNCHANGED <<ledger, study, meta, killed>>
  BY <1>1 DEF SpawnStudy, SpawnExport, artifacts
<1> DEFINE e == [exec[o] EXCEPT !.at = at]
           r == Repo(o)
           c == Command(at, r)
<1>4. exec' = [exec EXCEPT ![o] = e] /\ e.attempt = a /\ e.at = at
      /\ e.next = exec[o].next /\ e.plans = exec[o].plans
  BY <1>1, <1>3 DEF Executors
<1>5. /\ exec[o].at \in {"spawn", "study"} /\ exec[o].next <= NRepos
      /\ ledger[a].status = "RUNNING" /\ ledger[a].started
      /\ r = Repositories[exec[o].next] /\ ledger[a].repos[r] = "RUNNING"
  BY <1>1, <1>3 DEF Ended, Knows, Going, Repo
<1>6. r \in Repos
  BY <1>5, RepoReached DEF Going
<1>7. /\ c \in Commands /\ c.kind = at /\ c.repo = r
  BY <1>6, CommandType
<1>8. Sound(a, ledger[a], study[a], meta[a], c, killed)
  <2>1. CASE at = "study"
    <3>1. job[a] = None
      BY <1>1, <1>3, <2>1 DEF Knows
    <3> QED
      BY <1>1, <1>5, <1>6, <2>1, <3>1, SoundStudy
  <2>2. CASE at = "export"
    <3>1. /\ job[a] \in Commands /\ job[a].kind = "study" /\ job[a].repo = r
          /\ job[a].at = "exited" /\ job[a].ok
          /\ study[a][r].plan = ledger[a].plans
      BY <1>1, <1>3, <2>2 DEF Ended, StudyCompleted, Knows, Going, Repo
    <3> QED
      BY <1>1, <2>2, <3>1, SoundExport
  <2> QED
    BY <2>1, <2>2
<1> HIDE DEF e, r, c
<1>9. job'[a] = c /\ OthersKept(a)
  BY <1>3 DEF OthersKept, CampaignInv, TypeOK, c, r
<1>10. Attempted(a)'
  BY <1>3, <1>8, <1>9 DEF Attempted
<1>11. Knows(e, ledger'[a], job'[a])
  BY <1>1, <1>3, <1>4, <1>5, <1>7, <1>9 DEF Knows, Going
<1> QED
  BY <1>1, <1>2, <1>3, <1>4, <1>9, <1>10, <1>11, OwnerStep

LEMMA SucceededStep ==
  ASSUME CampaignInv, NEW o \in Operators, RepositorySucceeded(o)
  PROVE  CampaignInv'
<1>1. PICK a \in Attempts :
        /\ a = exec[o].attempt /\ exec[o] \in Executors
        /\ ledger[a] \in Ledgers /\ study[a] \in [Repos -> Studies]
        /\ job[a] \in Commands \cup {None}
        /\ Knows(exec[o], ledger[a], job[a])
        /\ Sound(a, ledger[a], study[a], meta[a], job[a], killed)
        /\ \A p \in Operators \ {o} : Owns(exec[p]) => exec[p].attempt /= a
  BY OwnerStarts DEF RepositorySucceeded, Ended, Owns, Going
<1>2. TypeOK'
  BY SucceededTypes
<1> DEFINE n == exec[o].next
           e == [exec[o] EXCEPT !.at = "next", !.next = n + 1]
           r == Repo(o)
           l == [ledger[a] EXCEPT !.repos[r] = "SUCCEEDED"]
<1>3. /\ exec' = [exec EXCEPT ![o] = e] /\ ledger' = [ledger EXCEPT ![a] = l]
      /\ job' = [job EXCEPT ![a] = None] /\ UNCHANGED <<study, meta, killed>>
  BY <1>1 DEF RepositorySucceeded, artifacts
<1>4. e.attempt = a /\ e.at = "next" /\ e.next = n + 1 /\ e.plans = exec[o].plans
  BY <1>1 DEF Executors
<1>5. /\ exec[o].at = "export" /\ n <= NRepos /\ ledger[a].status = "RUNNING"
      /\ ledger[a].plans = exec[o].plans /\ n \in Nat
      /\ r = Repositories[n] /\ job[a] \in Commands /\ job[a].kind = "export"
      /\ job[a].repo = r /\ job[a].at = "exited" /\ study[a][r].exported = "whole"
      /\ \A k \in 1..(n - 1) : ledger[a].repos[Repositories[k]] = "SUCCEEDED"
  BY <1>1 DEF RepositorySucceeded, Ended, ExportCompleted, Knows, Going, Repo, Executors
<1>6. r \in Repos /\ n \in 1..NRepos
  BY <1>5, RepoReached DEF Going
<1>7. Sound(a, l, study[a], meta[a], None, killed)
  BY <1>1, <1>5, SoundSucceeded
<1>8. /\ l.status = "RUNNING" /\ l.plans = ledger[a].plans
      /\ \A q \in Repos : l.repos[q] = IF q = r THEN "SUCCEEDED" ELSE ledger[a].repos[q]
  BY <1>1, <1>5, <1>6 DEF Ledgers
<1> HIDE DEF e, l, n, r
<1>9. \A k \in 1..n : l.repos[Repositories[k]] = "SUCCEEDED"
  BY <1>5, <1>6, <1>8, RepoNames
<1>10. ledger'[a] = l /\ job'[a] = None /\ OthersKept(a)
  BY <1>3 DEF OthersKept, CampaignInv, TypeOK
<1>11. Attempted(a)'
  BY <1>3, <1>7, <1>10 DEF Attempted
<1>12. Knows(e, ledger'[a], job'[a])
  <2>1. n + 1 \in 1..(NRepos + 1) /\ (n + 1) - 1 = n
    BY <1>6, RepoNames
  <2> QED
    BY <1>4, <1>5, <1>8, <1>9, <1>10, <2>1 DEF Knows, Going
<1> QED
  BY <1>1, <1>2, <1>3, <1>4, <1>10, <1>11, <1>12, OwnerStep

LEMMA SpawnMetaStep ==
  ASSUME CampaignInv, NEW o \in Operators, SpawnMeta(o)
  PROVE  CampaignInv'
<1>1. PICK a \in Attempts :
        /\ a = exec[o].attempt /\ exec[o] \in Executors
        /\ ledger[a] \in Ledgers /\ study[a] \in [Repos -> Studies]
        /\ Knows(exec[o], ledger[a], job[a])
        /\ Sound(a, ledger[a], study[a], meta[a], job[a], killed)
        /\ \A p \in Operators \ {o} : Owns(exec[p]) => exec[p].attempt /= a
  BY OwnerStarts DEF SpawnMeta, Owns, Going
<1>2. TypeOK'
  BY MetaTypes
<1> DEFINE e == [exec[o] EXCEPT !.at = "meta"]
           l == [ledger[a] EXCEPT !.meta = "RUNNING"]
           c == Command("meta", None)
<1>3. /\ exec' = [exec EXCEPT ![o] = e] /\ ledger' = [ledger EXCEPT ![a] = l]
      /\ job' = [job EXCEPT ![a] = c] /\ UNCHANGED <<study, meta, killed>>
  BY <1>1 DEF SpawnMeta, artifacts
<1>4. /\ e.attempt = a /\ e.at = "meta" /\ e.next = exec[o].next /\ e.plans = exec[o].plans
      /\ l.status = ledger[a].status /\ l.plans = ledger[a].plans /\ l.repos = ledger[a].repos
      /\ c \in Commands /\ c.kind = "meta"
  BY <1>1, CommandType DEF Executors, Ledgers
<1>5. /\ exec[o].next = NRepos + 1 /\ job[a] = None
      /\ ledger[a].status = "RUNNING" /\ ledger[a].plans = exec[o].plans
      /\ \A k \in 1..NRepos : ledger[a].repos[Repositories[k]] = "SUCCEEDED"
  BY <1>1, RepoNames DEF SpawnMeta, Knows, Going
<1>6. \A r \in Repos : ledger[a].repos[r] = "SUCCEEDED"
  BY <1>5, RepoNames
<1>7. Sound(a, l, study[a], meta[a], c, killed)
  BY <1>1, <1>5, <1>6, SoundMeta
<1> HIDE DEF e, l, c
<1>8. ledger'[a] = l /\ job'[a] = c /\ OthersKept(a)
  BY <1>3 DEF OthersKept, CampaignInv, TypeOK, c
<1>9. Attempted(a)'
  BY <1>3, <1>7, <1>8 DEF Attempted
<1>10. Knows(e, ledger'[a], job'[a])
  BY <1>4, <1>5, <1>8, RepoNames DEF Knows, Going
<1> QED
  BY <1>1, <1>2, <1>3, <1>4, <1>8, <1>9, <1>10, OwnerStep

\* The executor is done with its attempt: the ledger is l, the command j.
LEMMA EndStep ==
  ASSUME CampaignInv, TypeOK', NEW o \in Operators, NEW a \in Attempts, a = exec[o].attempt,
         Owns(exec[o]), exec' = [exec EXCEPT ![o] = Idle], OthersKept(a), killed' = killed,
         Attempted(a)'
  PROVE  CampaignInv'
BY OwnedAlone, IdleType, OwnerStep

LEMMA CloseStep ==
  ASSUME CampaignInv, NEW o \in Operators, CloseLedger(o)
  PROVE  CampaignInv'
<1>1. PICK a \in Attempts :
        /\ a = exec[o].attempt /\ exec[o] \in Executors
        /\ ledger[a] \in Ledgers /\ study[a] \in [Repos -> Studies]
        /\ job[a] \in Commands \cup {None}
        /\ Knows(exec[o], ledger[a], job[a])
        /\ Sound(a, ledger[a], study[a], meta[a], job[a], killed)
        /\ \A p \in Operators \ {o} : Owns(exec[p]) => exec[p].attempt /= a
  BY OwnerStarts DEF CloseLedger, Ended, Owns, Going
<1>2. TypeOK'
  BY EndTypes
<1> DEFINE l == [ledger[a] EXCEPT !.meta = "SUCCEEDED", !.status = "SUCCEEDED"]
           e == [exec[o] EXCEPT !.at = "closing"]
<1>3. /\ exec' = [exec EXCEPT ![o] = e] /\ ledger' = [ledger EXCEPT ![a] = l]
      /\ job' = [job EXCEPT ![a] = None] /\ UNCHANGED <<study, meta, killed>>
  BY <1>1 DEF CloseLedger, artifacts
<1>4. /\ job[a] \in Commands /\ job[a].kind = "meta" /\ job[a].at = "exited" /\ job[a].ok
  BY <1>1 DEF CloseLedger, Ended, MetaCompleted, Knows
<1>5. Sound(a, l, study[a], meta[a], None, killed)
  BY <1>1, <1>4, SoundClosed
<1>6. e.attempt = a /\ e.at = "closing" /\ l.status = "SUCCEEDED"
  BY <1>1 DEF Executors, Ledgers
<1> HIDE DEF l, e
<1>7. ledger'[a] = l /\ job'[a] = None /\ OthersKept(a)
  BY <1>3 DEF OthersKept, CampaignInv, TypeOK
<1>8. Attempted(a)'
  BY <1>3, <1>5, <1>7 DEF Attempted
<1>9. Knows(e, ledger'[a], job'[a])
  BY <1>6, <1>7 DEF Knows, Going
<1> QED
  BY <1>1, <1>2, <1>3, <1>6, <1>7, <1>8, <1>9, OwnerStep

LEMMA RaiseStep ==
  ASSUME CampaignInv, NEW o \in Operators, ExecutorRaises(o)
  PROVE  CampaignInv'
<1>1. PICK a \in Attempts :
        /\ a = exec[o].attempt
        /\ ledger[a] \in Ledgers /\ study[a] \in [Repos -> Studies]
        /\ job[a] \in Commands \cup {None}
        /\ Knows(exec[o], ledger[a], job[a])
        /\ Sound(a, ledger[a], study[a], meta[a], job[a], killed)
  BY OwnerStarts DEF ExecutorRaises, Ended, Owns, Going
<1>2. TypeOK'
  BY EndTypes
<1> DEFINE l == Failed(ledger[a])
<1>3. /\ exec' = [exec EXCEPT ![o] = Idle] /\ ledger' = [ledger EXCEPT ![a] = l]
      /\ job' = [job EXCEPT ![a] = None] /\ UNCHANGED <<study, meta, killed>>
  BY <1>1 DEF ExecutorRaises, artifacts
<1>4. Owns(exec[o]) /\ ledger[a].status = "RUNNING" /\ (job[a] = None \/ job[a].at = "exited")
  BY <1>1 DEF ExecutorRaises, Ended, Knows, Going, Owns
<1>5. l \in Ledgers /\ l.status = "FAILED"
  BY <1>1, FailedType
<1>6. Sound(a, l, study[a], meta[a], job[a], killed)
  BY <1>1, <1>4, SoundFailed
<1> HIDE DEF l
<1>7. Sound(a, l, study[a], meta[a], None, killed)
  BY <1>1, <1>4, <1>5, <1>6, SoundForgotten
<1>8. ledger'[a] = l /\ job'[a] = None /\ OthersKept(a)
  BY <1>3 DEF OthersKept, CampaignInv, TypeOK
<1>9. Attempted(a)'
  BY <1>3, <1>7, <1>8 DEF Attempted
<1> QED
  BY <1>1, <1>2, <1>3, <1>4, <1>8, <1>9, EndStep

\* A study command that exits without success has cleaned up.
LEMMA SoundStudyExit ==
  ASSUME NEW a, NEW l \in Ledgers, NEW s \in [Repos -> Studies], NEW m, NEW K,
         NEW j \in Commands, Sound(a, l, s, m, j, K), j.kind = "study"
  PROVE  Sound(a, l, [s EXCEPT ![j.repo] = CleanedUp(s[j.repo])], m, Exited(j, FALSE), K)
<1> DEFINE t == CleanedUp(s[j.repo])
           i == Exited(j, FALSE)
<1>1. j.repo \in Repos /\ s[j.repo] \in Studies
  BY DEF Sound, CommandSound
<1>2. /\ t \in Studies /\ i \in Commands /\ i.kind = "study" /\ i.repo = j.repo
      /\ i.at = "exited" /\ i.ok = FALSE
  BY <1>1, CleanedUpType, ExitedType
<1>3. StudySound(t, i)
  BY <1>2 DEF StudySound
<1>4. RepoSound(a, l, t, i, K, j.repo)
  <2>1. RepoSound(a, l, s[j.repo], j, K, j.repo)
    BY <1>1 DEF Sound
  <2>2. /\ ~t.workspace /\ t.dir = s[j.repo].dir /\ t.plan = s[j.repo].plan
        /\ t.files = s[j.repo].files /\ t.exported = s[j.repo].exported
        /\ t.turns = s[j.repo].turns
    BY <1>1, CleanedUpType
  <2> HIDE DEF t, i
  <2> QED
    BY <2>1, <2>2 DEF RepoSound
<1> HIDE DEF t, i
<1>5. Sound(a, l, [s EXCEPT ![j.repo] = t], m, i, K)
  BY <1>2, <1>3, <1>4, SoundStudyStep
<1> QED
  BY <1>5 DEF t, i

LEMMA InterruptStep ==
  ASSUME CampaignInv, NEW o \in Operators, NEW both \in BOOLEAN, Interrupt(o, both)
  PROVE  CampaignInv'
<1>1. PICK a \in Attempts :
        /\ a = exec[o].attempt
        /\ ledger[a] \in Ledgers /\ study[a] \in [Repos -> Studies]
        /\ job[a] \in Commands \cup {None}
        /\ Knows(exec[o], ledger[a], job[a])
        /\ Sound(a, ledger[a], study[a], meta[a], job[a], killed)
  BY OwnerStarts DEF Interrupt, Executing, Owns, Going
<1>2. TypeOK'
  BY InterruptTypes
<1> DEFINE l == Failed(ledger[a])
<1>3. /\ exec' = [exec EXCEPT ![o] = Idle] /\ ledger' = [ledger EXCEPT ![a] = l]
      /\ UNCHANGED <<meta, killed>>
  BY <1>1 DEF Interrupt
<1>4. Owns(exec[o]) /\ ledger[a].status \in {"RUNNING", "SUCCEEDED"}
  BY <1>1 DEF Interrupt, Executing, Knows, Going, Owns
<1>5. l \in Ledgers
  BY <1>1, FailedType
<1>6. Sound(a, l, study[a], meta[a], job[a], killed)
  BY <1>1, <1>4, SoundFailed
<1> HIDE DEF l
<1>7. OthersKept(a) /\ ledger'[a] = l
  BY <1>1, <1>3 DEF Interrupt, OthersKept, CampaignInv, TypeOK
<1>8. Sound(a, l, study'[a], meta[a], job'[a], killed)
  <2>1. CASE ~both
    BY <1>1, <1>6, <2>1 DEF Interrupt
  <2>2. CASE both /\ job[a].kind = "study"
    <3>1. job[a] \in Commands
      BY <1>1, <2>2 DEF Interrupt, Live
    <3>2. /\ study'[a] = [study[a] EXCEPT ![job[a].repo] = CleanedUp(@)]
          /\ job'[a] = Exited(job[a], FALSE)
      BY <1>1, <2>2 DEF Interrupt, CampaignInv, TypeOK
    <3>3. Sound(a, l, [study[a] EXCEPT ![job[a].repo] = CleanedUp(study[a][job[a].repo])],
                meta[a], Exited(job[a], FALSE), killed)
      BY <1>1, <1>5, <1>6, <2>2, <3>1, SoundStudyExit
    <3> QED
      BY <3>2, <3>3
  <2>3. CASE both /\ job[a].kind /= "study"
    <3>1. job[a] \in Commands
      BY <1>1, <2>3 DEF Interrupt, Live
    <3>2. study'[a] = study[a] /\ job'[a] = Exited(job[a], FALSE)
      BY <1>1, <2>3 DEF Interrupt, CampaignInv, TypeOK
    <3> QED
      BY <1>1, <1>5, <1>6, <2>3, <3>1, <3>2, SoundExit
  <2> QED
    BY <2>1, <2>2, <2>3
<1>9. Attempted(a)'
  BY <1>3, <1>7, <1>8 DEF Attempted
<1> QED
  BY <1>1, <1>2, <1>3, <1>4, <1>7, <1>9, EndStep

\* Steps of processes that own no attempt afterwards.
LEMMA QuietSteps ==
  ASSUME CampaignInv, NEW o \in Operators,
         KillExecutor(o) \/ Return(o) \/ SealEvidence(o)
           \/ \E a \in Attempts : Preflight(o, a) \/ WriteReport(o, a)
  PROVE  CampaignInv'
<1>1. CASE KillExecutor(o) \/ Return(o) \/ SealEvidence(o)
  <2>1. TypeOK'
    BY <1>1, KillTypes, FinalizerTypes
  <2>2. exec' = [exec EXCEPT ![o] = Idle] /\ UNCHANGED Files
    BY <1>1 DEF KillExecutor, Return, SealEvidence, Files, artifacts
  <2> QED
    BY <2>1, <2>2, IdleType, QuietStep
<1>2. ASSUME NEW a \in Attempts, Preflight(o, a) \/ WriteReport(o, a) PROVE CampaignInv'
  <2>1. TypeOK'
    BY <1>2, PreflightTypes, FinalizerTypes
  <2>2. PICK e : /\ exec' = [exec EXCEPT ![o] = e]
                 /\ e.at \in {"ready", "report"} /\ e.attempt = a
    <3>1. CASE Preflight(o, a)
      <4> DEFINE e == [Idle EXCEPT !.at = "ready", !.attempt = a, !.manifest = frozen.version]
      <4>1. e.at = "ready" /\ e.attempt = a
        BY DEF Idle
      <4>2. exec' = [exec EXCEPT ![o] = e]
        BY <3>1 DEF Preflight
      <4> QED
        BY <4>1, <4>2
    <3>2. CASE WriteReport(o, a)
      <4> DEFINE e == [Idle EXCEPT !.at = "report", !.attempt = a]
      <4>1. e.at = "report" /\ e.attempt = a
        BY DEF Idle
      <4>2. exec' = [exec EXCEPT ![o] = e]
        BY <3>2 DEF WriteReport
      <4> QED
        BY <4>1, <4>2
    <3> QED
      BY <1>2, <3>1, <3>2
  <2>3. UNCHANGED Files
    BY <1>2 DEF Preflight, WriteReport, Files, artifacts
  <2>4. ~Owns(e)
    BY <2>2 DEF Owns, Going
  <2> QED
    BY <2>1, <2>2, <2>3, <2>4, QuietStep
<1> QED
  BY <1>1, <1>2

LEMMA ExecutorSteps ==
  ASSUME CampaignInv, NEW o \in Operators, ExecutorStep(o)
  PROVE  CampaignInv'
BY ClaimStep, OpenStep, RevalidateStep, SpawnStep, SucceededStep, SpawnMetaStep, CloseStep,
   RaiseStep, QuietSteps
DEF ExecutorStep

-----------------------------------------------------------------------------
(* Steps of a command *)

\* What a command's step starts from.
LEMMA CommandStarts ==
  ASSUME CampaignInv, NEW a \in Attempts, job[a] /= None
  PROVE  /\ job[a] \in Commands
         /\ ledger[a] \in Ledgers /\ study[a] \in [Repos -> Studies]
         /\ Sound(a, ledger[a], study[a], meta[a], job[a], killed)
         /\ CommandSound(ledger[a], study[a], meta[a], job[a])
         /\ job[a].kind \in {"study", "export"} =>
              /\ job[a].repo \in Repos /\ study[a][job[a].repo] \in Studies
              /\ RepoSound(a, ledger[a], study[a][job[a].repo], job[a], killed, job[a].repo)
BY DEF CampaignInv, TypeOK, Attempted, Sound, CommandSound

\* A step of a study command makes t of its artifacts and i of itself.
LEMMA StudyStep ==
  ASSUME CampaignInv, NEW a \in Attempts, job[a] \in Commands, job[a].kind = "study",
         NEW i \in Commands, i.kind = "study", i.repo = job[a].repo,
         job' = [job EXCEPT ![a] = i],
         NEW t \in Studies, study' = [study EXCEPT ![a][job[a].repo] = t],
         StudySound(t, i), RepoSound(a, ledger[a], t, i, killed, job[a].repo),
         UNCHANGED Rest
  PROVE  CampaignInv'
<1>1. /\ ledger[a] \in Ledgers /\ study[a] \in [Repos -> Studies] /\ job[a].repo \in Repos
      /\ Sound(a, ledger[a], study[a], meta[a], job[a], killed)
  BY CommandStarts, NoneIsNoCommand
<1> DEFINE s == [study[a] EXCEPT ![job[a].repo] = t]
<1>2. study' = [study EXCEPT ![a] = s]
  OBVIOUS
<1>3. s \in [Repos -> Studies]
  BY <1>1
<1>4. Sound(a, ledger[a], s, meta[a], i, killed)
  BY <1>1, SoundStudyStep
<1> HIDE DEF s
<1>5. job' \in [Attempts -> Commands \cup {None}] /\ study' \in [Attempts -> [Repos -> Studies]]
  BY <1>2, <1>3 DEF CampaignInv, TypeOK
<1>6. TypeOK'
  BY <1>5 DEF CampaignInv, TypeOK, Rest, machine, bundle
<1>7. /\ job'[a] = i /\ study'[a] = s /\ OthersKept(a)
      /\ exec' = exec /\ ledger' = ledger /\ meta' = meta /\ killed' = killed
  BY <1>2 DEF CampaignInv, TypeOK, OthersKept, Rest
<1>8. Attempted(a)'
  BY <1>4, <1>7 DEF Attempted
<1> QED
  BY <1>6, <1>7, <1>8, CommandStep

\* The same when the artifacts stay as they are.
LEMMA StudyOnlyStep ==
  ASSUME CampaignInv, NEW a \in Attempts, job[a] \in Commands, job[a].kind = "study",
         NEW i \in Commands, i.kind = "study", i.repo = job[a].repo,
         job' = [job EXCEPT ![a] = i], UNCHANGED <<study, Rest>>,
         StudySound(study[a][job[a].repo], i),
         RepoSound(a, ledger[a], study[a][job[a].repo], i, killed, job[a].repo)
  PROVE  CampaignInv'
<1>1. /\ study[a] \in [Repos -> Studies] /\ job[a].repo \in Repos
      /\ study \in [Attempts -> [Repos -> Studies]] /\ study[a][job[a].repo] \in Studies
  BY CommandStarts, NoneIsNoCommand DEF CampaignInv, TypeOK
<1> DEFINE t == study[a][job[a].repo]
<1>2. study' = [study EXCEPT ![a][job[a].repo] = t]
  BY <1>1
<1> QED
  BY <1>1, <1>2, StudyStep

LEMMA StartStep ==
  ASSUME CampaignInv, NEW a \in Attempts, StartStudy(a) \/ SeedsMissing(a)
  PROVE  CampaignInv'
<1> DEFINE j == job[a]
           t == [NoStudy EXCEPT !.dir = TRUE, !.plan = frozen.version]
<1>1. /\ j \in Commands /\ j.kind = "study" /\ j.at = "start"
      /\ RepoSound(a, ledger[a], study[a][j.repo], j, killed, j.repo)
      /\ ~study[a][j.repo].dir /\ study[a][j.repo] \in Studies
      /\ CommandSound(ledger[a], study[a], meta[a], j)
  BY CommandStarts DEF StartStudy, SeedsMissing, Studying, PlanRuns
<1>2. PICK i \in Commands :
        /\ job' = [job EXCEPT ![a] = i]
        /\ i.kind = "study" /\ i.repo = j.repo /\ i.at \in {"arm", "exited"} /\ (i.at = "exited" => ~i.ok)
  <2>1. CASE StartStudy(a)
    <3>1. PICK orders \in Schedules(Repeats) :
            job' = [job EXCEPT ![a].at = "arm", ![a].orders = orders]
      BY <2>1 DEF StartStudy
    <3> DEFINE i == [j EXCEPT !.at = "arm", !.orders = orders]
    <3>2. i \in Commands /\ i.kind = "study" /\ i.repo = j.repo /\ i.at = "arm"
      BY <1>1 DEF Commands
    <3>3. job' = [job EXCEPT ![a] = i]
      BY <3>1
    <3> HIDE DEF i, j
    <3> QED BY <3>2, <3>3
  <2>2. CASE SeedsMissing(a)
    BY <1>1, <2>2, ExitedType DEF SeedsMissing
  <2> QED BY <2>1, <2>2
<1>3. frozen.version \in Nat
  BY DEF StartStudy, SeedsMissing, PlanRuns, CampaignInv, TypeOK, Bundles
<1>4. t \in Studies /\ t.dir /\ t.files = {} /\ ~t.turns /\ ~t.workspace
  BY <1>3 DEF NoStudy, Studies
<1>5. study' = [study EXCEPT ![a][j.repo] = t] /\ UNCHANGED Rest
  BY DEF StartStudy, SeedsMissing, SetArtifacts
<1>6. ledger[a].repos[j.repo] /= "SUCCEEDED"
  BY <1>1 DEF CommandSound
<1> HIDE DEF t
<1>7. StudySound(t, i) /\ RepoSound(a, ledger[a], t, i, killed, j.repo)
  BY <1>2, <1>4, <1>6 DEF StudySound, RepoSound
<1> QED
  BY <1>1, <1>2, <1>4, <1>5, <1>7, StudyStep

\* The command exits, and its files stay.
LEMMA ExitStep ==
  ASSUME CampaignInv, NEW a \in Attempts, job[a] \in Commands, NEW ok \in BOOLEAN,
         job' = [job EXCEPT ![a] = Exited(job[a], ok)],
         UNCHANGED <<machine, bundle, exec, ledger, artifacts, evidence>>,
         killed \subseteq killed', killed' \subseteq killed \cup {a}, faults' \in Nat,
         Sound(a, ledger[a], study[a], meta[a], Exited(job[a], ok), killed')
  PROVE  CampaignInv'
<1> DEFINE i == Exited(job[a], ok)
<1>1. i \in Commands /\ i.kind = job[a].kind /\ i.repo = job[a].repo
  BY ExitedType
<1> HIDE DEF i
<1>2. job' = [job EXCEPT ![a] = i]
  BY DEF i
<1>3. job' \in [Attempts -> Commands \cup {None}] /\ killed' \subseteq Attempts
  BY <1>1, <1>2 DEF CampaignInv, TypeOK
<1>4. TypeOK'
  BY <1>3 DEF CampaignInv, TypeOK, machine, bundle, artifacts
<1>5. /\ job'[a] = i /\ OthersKept(a) /\ exec' = exec /\ ledger' = ledger
      /\ study' = study /\ meta' = meta
  BY <1>2 DEF CampaignInv, TypeOK, OthersKept, artifacts
<1>6. Attempted(a)'
  BY <1>5 DEF Attempted, i
<1> QED
  BY <1>1, <1>4, <1>5, <1>6, CommandStep

LEMMA RefuseStep ==
  ASSUME CampaignInv, NEW a \in Attempts, RefuseStudy(a) \/ EndStudy(a)
  PROVE  CampaignInv'
<1> DEFINE j == job[a]
           s == study[a][j.repo]
<1>1. PICK ok \in BOOLEAN :
        /\ job' = [job EXCEPT ![a] = Exited(j, ok)] /\ UNCHANGED <<study, Rest>>
        /\ ok => j.at = "publish" /\ "study" \in s.files
  BY DEF RefuseStudy, EndStudy, Artifacts, Studying
<1>2. /\ j \in Commands /\ j.kind = "study" /\ j.at \in {"start", "publish"}
      /\ CommandSound(ledger[a], study[a], meta[a], j)
      /\ RepoSound(a, ledger[a], s, j, killed, j.repo)
  BY CommandStarts DEF RefuseStudy, EndStudy, Studying
<1> DEFINE i == Exited(j, ok)
<1>3. i \in Commands /\ i.kind = "study" /\ i.repo = j.repo /\ i.at = "exited" /\ i.ok = ok
  BY <1>2, ExitedType
<1> HIDE DEF i
<1>4. StudySound(s, i)
  BY <1>1, <1>2, <1>3 DEF CommandSound, StudySound, All
<1>5. RepoSound(a, ledger[a], s, i, killed, j.repo)
  BY <1>2, <1>3 DEF RepoSound
<1> QED
  BY <1>1, <1>2, <1>3, <1>4, <1>5, StudyOnlyStep DEF i

\* What a step of a running study starts from.
LEMMA StudyStarts ==
  ASSUME CampaignInv, NEW a \in Attempts, job[a] /= None, job[a].kind = "study"
  PROVE  LET j == job[a]  s == study[a][job[a].repo]  l == ledger[a] IN
         /\ j \in Commands /\ s \in Studies /\ j.repo \in Repos
         /\ StudySound(s, j) /\ RepoSound(a, l, s, j, killed, j.repo)
         /\ l.started /\ l.repos[j.repo] \in {"RUNNING", "FAILED"}
BY CommandStarts DEF CommandSound

LEMMA ArmStep ==
  ASSUME CampaignInv, NEW a \in Attempts, CreateArm(a) \/ RunArm(a) \/ FinishArm(a)
  PROVE  CampaignInv'
<1> DEFINE j == job[a]
           s == study[a][j.repo]
           l == ledger[a]
<1>1. /\ j \in Commands /\ j.kind = "study" /\ s \in Studies /\ j.repo \in Repos
      /\ StudySound(s, j) /\ RepoSound(a, l, s, j, killed, j.repo)
      /\ l.started /\ l.repos[j.repo] \in {"RUNNING", "FAILED"}
  BY StudyStarts DEF CreateArm, RunArm, FinishArm, Studying
<1>2. j.at \in {"arm", "turn", "write"} /\ UNCHANGED Rest
  BY DEF CreateArm, RunArm, FinishArm, Studying
<1>3. s.files = {} /\ s.dir
  BY <1>1, <1>2 DEF StudySound
<1>4. CASE CreateArm(a)
  <2> DEFINE i == [j EXCEPT !.at = "turn"]
             t == [s EXCEPT !.workspace = TRUE]
  <2>1. job' = [job EXCEPT ![a] = i] /\ study' = [study EXCEPT ![a][j.repo] = t]
    BY <1>4 DEF CreateArm, SetArtifacts, Artifacts
  <2>2. /\ i \in Commands /\ i.kind = "study" /\ i.repo = j.repo /\ i.at = "turn"
        /\ t \in Studies /\ t.dir /\ t.files = {} /\ t.turns = s.turns
    BY <1>1, <1>3 DEF Commands, Studies
  <2> HIDE DEF i, t
  <2>3. StudySound(t, i) /\ RepoSound(a, l, t, i, killed, j.repo)
    BY <1>1, <2>2 DEF StudySound, RepoSound
  <2> QED
    BY <1>1, <1>2, <2>1, <2>2, <2>3, StudyStep
<1>5. CASE RunArm(a)
  <2> DEFINE i == [j EXCEPT !.at = "write"]
             t == [s EXCEPT !.turns = TRUE]
  <2>1. job' = [job EXCEPT ![a] = i] /\ study' = [study EXCEPT ![a][j.repo] = t]
    BY <1>5 DEF RunArm, SetArtifacts, Artifacts
  <2>2. /\ i \in Commands /\ i.kind = "study" /\ i.repo = j.repo /\ i.at = "write"
        /\ t \in Studies /\ t.dir /\ t.files = {}
    BY <1>1, <1>3 DEF Commands, Studies
  <2> HIDE DEF i, t
  <2>3. StudySound(t, i) /\ RepoSound(a, l, t, i, killed, j.repo)
    BY <1>1, <2>2 DEF StudySound, RepoSound
  <2> QED
    BY <1>1, <1>2, <2>1, <2>2, <2>3, StudyStep
<1>6. CASE FinishArm(a)
  <2> DEFINE at == IF j.slot = NArms THEN "paired" ELSE "arm"
             slot == IF j.slot = NArms THEN 1 ELSE j.slot + 1
             i == [j EXCEPT !.at = at, !.slot = slot]
             t == CleanedUp(s)
  <2>1. job' = [job EXCEPT ![a] = i] /\ study' = [study EXCEPT ![a][j.repo] = t]
    BY <1>6 DEF FinishArm, SetArtifacts, Artifacts
  <2>2. slot \in Nat /\ at \in {"paired", "arm"}
    BY <1>1 DEF Commands
  <2> HIDE DEF slot, at
  <2>3. /\ i \in Commands /\ i.kind = "study" /\ i.repo = j.repo /\ i.at = at
    BY <1>1, <2>2 DEF Commands
  <2>4. t \in Studies /\ t.dir /\ t.files = {} /\ ~t.workspace /\ t.turns = s.turns
    BY <1>1, <1>3, CleanedUpType
  <2> HIDE DEF i, t
  <2>5. StudySound(t, i) /\ RepoSound(a, l, t, i, killed, j.repo)
    BY <1>1, <2>2, <2>3, <2>4 DEF StudySound, RepoSound
  <2> QED
    BY <1>1, <1>2, <2>1, <2>3, <2>4, <2>5, StudyStep
<1> QED
  BY <1>4, <1>5, <1>6

LEMMA RepetitionStep ==
  ASSUME CampaignInv, NEW a \in Attempts, EndRepetition(a)
  PROVE  CampaignInv'
<1> DEFINE j == job[a]
           s == study[a][j.repo]
           l == ledger[a]
           at == IF j.rep = Repeats THEN "publish" ELSE "arm"
           rep == IF j.rep = Repeats THEN j.rep ELSE j.rep + 1
           i == [j EXCEPT !.at = at, !.rep = rep]
<1>1. /\ j \in Commands /\ j.kind = "study" /\ j.at = "paired"
      /\ s \in Studies /\ j.repo \in Repos
      /\ StudySound(s, j) /\ RepoSound(a, l, s, j, killed, j.repo)
  BY StudyStarts DEF EndRepetition, Studying
<1>2. job' = [job EXCEPT ![a] = i] /\ UNCHANGED <<study, Rest>>
  BY DEF EndRepetition
<1>3. rep \in Nat /\ at \in {"publish", "arm"}
  BY <1>1 DEF Commands
<1> HIDE DEF rep, at
<1>4. i \in Commands /\ i.kind = "study" /\ i.repo = j.repo /\ i.at = at
  BY <1>1, <1>3 DEF Commands
<1> HIDE DEF i
<1>5. StudySound(s, i) /\ RepoSound(a, l, s, i, killed, j.repo)
  BY <1>1, <1>3, <1>4 DEF StudySound, RepoSound
<1> QED
  BY <1>1, <1>2, <1>4, <1>5, StudyOnlyStep

LEMMA PublishStep ==
  ASSUME CampaignInv, NEW a \in Attempts, Publish(a)
  PROVE  CampaignInv'
<1> DEFINE j == job[a]
           s == study[a][j.repo]
           l == ledger[a]
           t == [s EXCEPT !.files = @ \cup {NextFile(s)}]
<1>1. /\ j \in Commands /\ j.kind = "study" /\ j.at = "publish"
      /\ s \in Studies /\ j.repo \in Repos
      /\ StudySound(s, j) /\ RepoSound(a, l, s, j, killed, j.repo)
      /\ l.repos[j.repo] \in {"RUNNING", "FAILED"} /\ "study" \notin s.files
  BY StudyStarts DEF Publish, Studying, Artifacts
<1>2. /\ study' = [study EXCEPT ![a][j.repo] = t] /\ UNCHANGED Rest
      /\ job' = [job EXCEPT ![a] = j]
  BY DEF Publish, SetArtifacts, Artifacts, CampaignInv, TypeOK
<1>3. s.files \in {{}, {"provenance"}, {"provenance", "aggregates"}} /\ s.dir
  BY <1>1 DEF StudySound, All
<1>4. s.files \cup {NextFile(s)} \in {{"provenance"}, {"provenance", "aggregates"}, All}
  BY <1>3 DEF NextFile, All
<1>5. /\ t \in Studies /\ t.files = s.files \cup {NextFile(s)} /\ t.dir
      /\ t.turns = s.turns /\ t.workspace = s.workspace
  BY <1>1, <1>3, <1>4 DEF Studies, StudyFiles, All
<1> HIDE DEF t
<1>6. StudySound(t, j)
  BY <1>1, <1>4, <1>5 DEF StudySound
<1>7. RepoSound(a, l, t, j, killed, j.repo)
  BY <1>1, <1>5 DEF RepoSound
<1> QED
  BY <1>1, <1>2, <1>5, <1>6, <1>7, StudyStep

LEMMA StudyRaiseStep ==
  ASSUME CampaignInv, NEW a \in Attempts, StudyRaises(a)
  PROVE  CampaignInv'
<1> DEFINE j == job[a]
           s == study[a][j.repo]
           l == ledger[a]
           i == Exited(j, FALSE)
<1>1. /\ j \in Commands /\ j.kind = "study"
      /\ j.at \in {"arm", "turn", "write", "paired", "publish"}
      /\ s \in Studies /\ j.repo \in Repos
      /\ StudySound(s, j) /\ RepoSound(a, l, s, j, killed, j.repo)
      /\ l.started /\ l.repos[j.repo] \in {"RUNNING", "FAILED"}
  BY StudyStarts DEF StudyRaises, Studying
<1>2. PICK torn \in {{}, {NextFile(s)}} :
        study' = [study EXCEPT ![a][j.repo] =
          CleanedUp([s EXCEPT !.files = @ \cup torn \cup {"failure"},
                              !.turns = @ \/ j.at = "turn"])]
  BY DEF StudyRaises, SetArtifacts, Artifacts
<1> DEFINE u == [s EXCEPT !.files = @ \cup torn \cup {"failure"}, !.turns = @ \/ j.at = "turn"]
           t == CleanedUp(u)
<1>3. u \in Studies /\ u.dir = s.dir
  <2>1. torn \subseteq StudyFiles
    BY DEF NextFile, StudyFiles
  <2>2. s.files \cup torn \cup {"failure"} \in SUBSET StudyFiles
    BY <1>1, <2>1 DEF Studies, StudyFiles
  <2>3. (s.turns \/ j.at = "turn") \in BOOLEAN
    OBVIOUS
  <2> QED
    BY <1>1, <2>2, <2>3 DEF Studies
<1> HIDE DEF u
<1>4. t \in Studies /\ t.dir = s.dir /\ ~t.workspace
  BY <1>3, CleanedUpType
<1>5. i \in Commands /\ i.kind = "study" /\ i.repo = j.repo /\ i.at = "exited" /\ i.ok = FALSE
  BY <1>1, ExitedType
<1>6. s.dir
  BY <1>1 DEF StudySound
<1>7. job' = [job EXCEPT ![a] = i] /\ UNCHANGED Rest
  BY DEF StudyRaises
<1>8. study' = [study EXCEPT ![a][j.repo] = t]
  BY <1>2 DEF u
<1> HIDE DEF t, i
<1>9. StudySound(t, i) /\ RepoSound(a, l, t, i, killed, j.repo)
  BY <1>1, <1>4, <1>5, <1>6 DEF StudySound, RepoSound
<1> QED
  BY <1>1, <1>4, <1>5, <1>7, <1>8, <1>9, StudyStep

\* A step of an export, which writes what a manifest completes.
LEMMA ExportStep ==
  ASSUME CampaignInv, NEW a \in Attempts, WriteTables(a) \/ WriteExportManifest(a)
  PROVE  CampaignInv'
<1> DEFINE j == job[a]
           q == job[a].repo
<1>1. /\ j \in Commands /\ j.kind = "export" /\ q \in Repos
      /\ study[a] \in [Repos -> Studies] /\ study[a][q] \in Studies /\ ledger[a] \in Ledgers
      /\ Sound(a, ledger[a], study[a], meta[a], j, killed)
  BY CommandStarts DEF WriteTables, WriteExportManifest, Running
<1>2. PICK written \in {"part", "whole"}, i \in Commands :
        /\ i.kind = "export" /\ i.repo = q /\ job' = [job EXCEPT ![a] = i]
        /\ study' = [study EXCEPT ![a][q] = [study[a][q] EXCEPT !.exported = written]]
  <2>1. CASE WriteTables(a)
    <3> DEFINE i == [j EXCEPT !.at = "manifest"]
    <3>1. i \in Commands /\ i.kind = "export" /\ i.repo = q
      BY <1>1 DEF Commands
    <3>2. job' = [job EXCEPT ![a] = i]
      BY <2>1 DEF WriteTables
    <3> HIDE DEF i
    <3> QED
      BY <2>1, <3>1, <3>2 DEF WriteTables, SetArtifacts, Artifacts
  <2>2. CASE WriteExportManifest(a)
    <3> DEFINE i == Exited(j, TRUE)
    <3>1. i \in Commands /\ i.kind = "export" /\ i.repo = q
      BY <1>1, ExitedType
    <3>2. job' = [job EXCEPT ![a] = i]
      BY <2>2 DEF WriteExportManifest
    <3> HIDE DEF i
    <3> QED
      BY <2>2, <3>1, <3>2 DEF WriteExportManifest, SetArtifacts, Artifacts
  <2> QED
    BY <2>1, <2>2
<1> DEFINE s == [study[a] EXCEPT ![q].exported = written]
<1>3. study' = [study EXCEPT ![a] = s]
  BY <1>2
<1>4. s \in [Repos -> Studies]
  BY <1>1 DEF Studies
<1>5. Sound(a, ledger[a], s, meta[a], i, killed)
  BY <1>1, <1>2, SoundExportStep
<1> HIDE DEF s
<1>6. job' \in [Attempts -> Commands \cup {None}] /\ study' \in [Attempts -> [Repos -> Studies]]
  BY <1>2, <1>3, <1>4 DEF CampaignInv, TypeOK
<1>7. UNCHANGED Rest
  BY DEF WriteTables, WriteExportManifest
<1>8. TypeOK'
  BY <1>6, <1>7 DEF CampaignInv, TypeOK, Rest, machine, bundle
<1>9. /\ job'[a] = i /\ study'[a] = s /\ OthersKept(a)
      /\ exec' = exec /\ ledger' = ledger /\ meta' = meta /\ killed' = killed
  BY <1>2, <1>3, <1>7 DEF CampaignInv, TypeOK, OthersKept, Rest
<1>10. Attempted(a)'
  BY <1>5, <1>9 DEF Attempted
<1> QED
  BY <1>1, <1>2, <1>8, <1>9, <1>10, CommandStep

LEMMA EffectType ==
  ASSUME NEW n \in 0..NRepos, NEW means \in [1..n -> -1..1],
         NEW effect \in HierarchicalMetrics(means)
  PROVE  effect \in Effects
<1>1. means \in UNION {[1..k -> -1..1] : k \in 0..NRepos}
  OBVIOUS
<1> QED
  BY <1>1 DEF Effects

LEMMA MetaStep ==
  ASSUME CampaignInv, NEW a \in Attempts, Aggregate(a) \/ WriteMetaManifest(a)
  PROVE  CampaignInv'
<1> DEFINE j == job[a]
           l == ledger[a]
<1>1. /\ j \in Commands /\ j.kind = "meta" /\ j.at \in {"start", "manifest"}
      /\ study[a] \in [Repos -> Studies] /\ l \in Ledgers /\ meta[a] \in Metas
      /\ Sound(a, l, study[a], meta[a], j, killed) /\ MetaSound(l, meta[a], j)
  BY CommandStarts DEF Aggregate, WriteMetaManifest, Running, CommandSound, CampaignInv, TypeOK
<1>2. PICK n \in Metas, i \in Commands :
        /\ i.kind = "meta" /\ i.repo = j.repo /\ job' = [job EXCEPT ![a] = i]
        /\ meta' = [meta EXCEPT ![a] = n] /\ MetaSound(l, n, i)
  <2>1. CASE Aggregate(a)
    <3> DEFINE i == [j EXCEPT !.at = "manifest"]
    <3>1. i \in Commands /\ i.kind = "meta" /\ i.repo = j.repo /\ i.at = "manifest"
      BY <1>1 DEF Commands
    <3>2. job' = [job EXCEPT ![a] = i]
      BY <2>1 DEF Aggregate
    <3> HIDE DEF i
    <3>3. PICK effect \in Effects :
            meta' = [meta EXCEPT ![a] = [files |-> "part", plan |-> frozen.version,
                                         effect |-> effect]]
      BY <2>1, EffectType DEF Aggregate
    <3> DEFINE n == [files |-> "part", plan |-> frozen.version, effect |-> effect]
    <3>4. frozen.version \in Nat
      BY <2>1 DEF Aggregate, MetaInputsValid, CampaignInv, TypeOK, Bundles
    <3>5. n \in Metas /\ n.plan = frozen.version
      BY <3>4 DEF Metas
    <3>6. frozen.version = l.plans
      <4>1. Repositories[1] \in Repos
        BY RepoNames
      <4>2. study[a][Repositories[1]].plan = frozen.version
        BY <2>1, <4>1 DEF Aggregate, MetaInputsValid
      <4>3. study[a][Repositories[1]].plan = l.plans
        BY <1>1, <4>1 DEF Sound, RepoSound, MetaSound
      <4> QED
        BY <4>2, <4>3
    <3>7. MetaSound(l, n, i)
      BY <1>1, <3>1, <3>5, <3>6 DEF MetaSound
    <3> QED
      BY <3>1, <3>2, <3>3, <3>5, <3>7
  <2>2. CASE WriteMetaManifest(a)
    <3> DEFINE i == Exited(j, TRUE)
               n == [meta[a] EXCEPT !.files = "whole"]
    <3>1. i \in Commands /\ i.kind = "meta" /\ i.repo = j.repo
      BY <1>1, ExitedType
    <3>2. n \in Metas /\ n.plan = meta[a].plan /\ n.files = "whole"
      BY <1>1 DEF Metas
    <3>3. job' = [job EXCEPT ![a] = i] /\ meta' = [meta EXCEPT ![a] = n]
      BY <2>2 DEF WriteMetaManifest
    <3> HIDE DEF n, i
    <3>4. meta[a].plan = l.plans
      BY <1>1, <2>2 DEF MetaSound, WriteMetaManifest, Running
    <3>5. MetaSound(l, n, i)
      BY <1>1, <3>2, <3>4 DEF MetaSound
    <3> QED
      BY <3>1, <3>2, <3>3, <3>5
  <2> QED
    BY <2>1, <2>2
<1>3. Sound(a, l, study[a], n, i, killed)
  BY <1>1, <1>2, SoundMetaStep
<1>4. job' \in [Attempts -> Commands \cup {None}] /\ meta' \in [Attempts -> Metas]
  BY <1>2 DEF CampaignInv, TypeOK
<1>5. UNCHANGED MetaRest
  BY DEF Aggregate, WriteMetaManifest
<1>6. TypeOK'
  BY <1>4, <1>5 DEF CampaignInv, TypeOK, MetaRest, machine, bundle
<1>7. /\ job'[a] = i /\ meta'[a] = n /\ OthersKept(a)
      /\ exec' = exec /\ ledger' = ledger /\ study' = study /\ killed' = killed
  BY <1>2, <1>5 DEF CampaignInv, TypeOK, OthersKept, MetaRest
<1>8. Attempted(a)'
  BY <1>3, <1>7 DEF Attempted
<1> QED
  BY <1>1, <1>2, <1>6, <1>7, <1>8, CommandStep

LEMMA OfflineStep ==
  ASSUME CampaignInv, NEW a \in Attempts, OfflineRaises(a) \/ KillJob(a)
  PROVE  CampaignInv'
<1>1. /\ job[a] \in Commands /\ ledger[a] \in Ledgers /\ study[a] \in [Repos -> Studies]
      /\ Sound(a, ledger[a], study[a], meta[a], job[a], killed)
  BY CommandStarts DEF OfflineRaises, KillJob, Live
<1>2. /\ killed \subseteq killed' /\ killed' \subseteq killed \cup {a} /\ faults' \in Nat
      /\ job[a].kind /= "study" \/ a \in killed'
  <2>1. CASE OfflineRaises(a)
    BY <2>1, <1>1 DEF OfflineRaises, MetaRest, CampaignInv, TypeOK
  <2>2. CASE KillJob(a)
    BY <2>2 DEF KillJob, Fault, CampaignInv, TypeOK
  <2> QED
    BY <2>1, <2>2
<1>3. /\ job' = [job EXCEPT ![a] = Exited(job[a], FALSE)]
      /\ UNCHANGED <<machine, bundle, exec, ledger, artifacts, evidence>>
  BY DEF OfflineRaises, KillJob, MetaRest, artifacts
<1>4. Sound(a, ledger[a], study[a], meta[a], Exited(job[a], FALSE), killed')
  BY <1>1, <1>2, SoundExit
<1> QED
  BY <1>1, <1>2, <1>3, <1>4, ExitStep

LEMMA JobSteps ==
  ASSUME CampaignInv, NEW a \in Attempts, JobStep(a) \/ KillJob(a)
  PROVE  CampaignInv'
BY StartStep, RefuseStep, ArmStep, RepetitionStep, PublishStep, StudyRaiseStep, ExportStep,
   MetaStep, OfflineStep
DEF JobStep

LEMMA NextCampaign == CampaignInv /\ [Next]_vars => CampaignInv'
<1> SUFFICES ASSUME CampaignInv, [Next]_vars PROVE CampaignInv'
  OBVIOUS
<1>1. CASE (\E thing \in Things : Drift(thing)) \/ Upgrade \/ Freezing \/ RetireFreeze
  <2>1. TypeOK'
    BY <1>1, MachineTypes DEF CampaignInv
  <2>2. UNCHANGED <<exec, Files>>
    BY <1>1 DEF Drift, Upgrade, Freezing, BeginFreeze, ConfigureAndLock, PublishFreeze,
                AbandonFreeze, RetireFreeze, Files, artifacts
  <2> QED
    BY <2>1, <2>2, MachineStep
<1>2. CASE \E o \in Operators :
             \/ ExecutorStep(o) \/ KillExecutor(o)
             \/ \E both \in BOOLEAN : Interrupt(o, both)
             \/ \E a \in Attempts : Preflight(o, a) \/ WriteReport(o, a)
  BY <1>2, ExecutorSteps, InterruptStep, QuietSteps
<1>3. CASE \E a \in Attempts : JobStep(a) \/ KillJob(a)
  BY <1>3, JobSteps
<1>4. CASE UNCHANGED vars
  <2>1. UNCHANGED <<exec, Files>> /\ TypeOK'
    BY <1>4 DEF vars, Files, artifacts, machine, bundle, CampaignInv, TypeOK
  <2> QED
    BY <2>1, MachineStep
<1> QED
  BY <1>1, <1>2, <1>3, <1>4 DEF Next

-----------------------------------------------------------------------------
(* The theorems *)

LEMMA CampaignInvariance == Spec => []CampaignInv
BY InitCampaign, NextCampaign, PTL DEF Spec

\* Every variable of a campaign keeps its type.
THEOREM CampaignTypes == Spec => []TypeOK
<1>1. CampaignInv => TypeOK
  BY DEF CampaignInv
<1> QED
  BY <1>1, CampaignInvariance, PTL

LEMMA InitVersions == Init => Versions
BY DEF Init, Versions, Idle, Owns, Going, NoLedger

\* What a step makes of a ledger's bundles.
LEMMA LedgerVersions ==
  ASSUME CampaignInv, NEW o \in Operators, ExecutorStep(o), ~OpenLedger(o), NEW a \in Attempts,
         ledger'[a].status \in {"RUNNING", "SUCCEEDED", "FAILED"}
  PROVE  /\ ledger[a].status \in {"RUNNING", "SUCCEEDED", "FAILED"}
         /\ ledger'[a].manifest = ledger[a].manifest /\ ledger'[a].plans = ledger[a].plans
<1>0. ledger \in [Attempts -> Ledgers] /\ ledger[a] \in Ledgers
  BY DEF CampaignInv, TypeOK
<1>1. CASE ledger'[a] = ledger[a]
  BY <1>1
<1>2. CASE ClaimAttempt(o)
  BY <1>0, <1>1, <1>2 DEF ClaimAttempt, Ledgers
<1>3. CASE SpawnStudy(o) \/ SpawnExport(o) \/ Return(o) \/ SealEvidence(o)
  BY <1>1, <1>3 DEF SpawnStudy, SpawnExport, Return, SealEvidence
<1>4. CASE Revalidate(o) \/ RepositorySucceeded(o) \/ SpawnMeta(o) \/ CloseLedger(o)
             \/ ExecutorRaises(o)
  <2>1. exec[o].attempt /= a => ledger'[a] = ledger[a]
    BY <1>0, <1>4 DEF Revalidate, RepositorySucceeded, SpawnMeta, CloseLedger, ExecutorRaises
  <2> SUFFICES ASSUME a = exec[o].attempt
               PROVE  /\ ledger[a].status = "RUNNING"
                      /\ ledger'[a].manifest = ledger[a].manifest
                      /\ ledger'[a].plans = ledger[a].plans
    BY <1>1, <2>1
  <2>2. ledger[a].status = "RUNNING"
    BY <1>4, OwnerKnows
    DEF Revalidate, RepositorySucceeded, SpawnMeta, CloseLedger, ExecutorRaises, Ended, Owns,
        Going, Knows
  <2>3. CASE Revalidate(o)
    <3>1. Repo(o) \in Repos /\ ledger'[a] = Started(ledger[a], Repo(o))
      BY <1>0, <2>3, RepoReached DEF Revalidate, Going
    <3> QED BY <1>0, <2>2, <3>1, StartedType
  <2>4. CASE RepositorySucceeded(o) \/ SpawnMeta(o) \/ CloseLedger(o)
    BY <1>0, <2>2, <2>4 DEF RepositorySucceeded, SpawnMeta, CloseLedger, Ledgers
  <2>5. CASE ExecutorRaises(o)
    BY <1>0, <2>2, <2>5, FailedType DEF ExecutorRaises
  <2> QED BY <1>4, <2>3, <2>4, <2>5
<1> QED
  BY <1>2, <1>3, <1>4 DEF ExecutorStep

LEMMA NextVersions == CampaignInv /\ Versions /\ [Next]_vars => Versions'
<1> SUFFICES ASSUME CampaignInv, Versions, [Next]_vars PROVE Versions'
  OBVIOUS
<1>0. /\ exec \in [Operators -> Executors] /\ ledger \in [Attempts -> Ledgers]
      /\ freezes \in Nat /\ frozen \in Bundles \cup {None}
  BY DEF CampaignInv, TypeOK
<1>1. CASE (\E thing \in Things : Drift(thing)) \/ Upgrade \/ Freezing \/ RetireFreeze
  <2>1. UNCHANGED <<exec, ledger>>
    BY <1>1 DEF Drift, Upgrade, Freezing, BeginFreeze, ConfigureAndLock, PublishFreeze,
                AbandonFreeze, RetireFreeze
  <2>2. CASE PublishFreeze
    <3>1. freezes' = freezes + 1 /\ frozen'.version = freezes'
      BY <2>2 DEF PublishFreeze, NewPlans
    <3>2. ASSUME NEW o \in Operators, exec[o].at = "ready" PROVE exec[o].manifest \in 1..freezes'
      BY <1>0, <3>1, <3>2 DEF Versions
    <3> QED BY <1>0, <2>1, <3>1, <3>2 DEF Versions, Owns
  <2>3. CASE ~PublishFreeze
    <3>1. freezes' = freezes /\ frozen' \in {frozen, None}
      BY <1>1, <2>3 DEF Drift, Upgrade, Freezing, BeginFreeze, ConfigureAndLock,
                        AbandonFreeze, RetireFreeze, bundle
    <3> QED BY <2>1, <3>1 DEF Versions, Owns
  <2> QED BY <2>2, <2>3
<1>2. ASSUME NEW o \in Operators, OpenLedger(o) PROVE Versions'
  <2> DEFINE a == exec[o].attempt
             e == [exec[o] EXCEPT !.at = "next", !.next = 1]
             l == [NoLedger EXCEPT !.status = "RUNNING", !.manifest = exec[o].manifest,
                                   !.plans = exec[o].plans]
  <2>1. exec' = [exec EXCEPT ![o] = e] /\ ledger' = [ledger EXCEPT ![a] = l]
        /\ UNCHANGED bundle
    BY <1>2 DEF OpenLedger
  <2>2. exec[o] \in Executors /\ exec[o].manifest \in 1..exec[o].plans
    BY <1>0, <1>2 DEF OpenLedger, Versions, Owns
  <2>3. e.at = "next" /\ e.manifest = exec[o].manifest /\ e.plans = exec[o].plans
    BY <2>2 DEF Executors
  <2>4. l.manifest = exec[o].manifest /\ l.plans = exec[o].plans
    BY DEF NoLedger
  <2> HIDE DEF e, l
  <2>5. ASSUME NEW p \in Operators
        PROVE  /\ exec'[p].at = "ready" => exec'[p].manifest \in 1..freezes'
               /\ Owns(exec'[p]) => exec'[p].manifest \in 1..exec'[p].plans
    <3>1. CASE p = o
      BY <1>0, <2>1, <2>2, <2>3, <3>1
    <3>2. CASE p /= o
      BY <1>0, <2>1, <3>2 DEF Versions, bundle
    <3> QED BY <3>1, <3>2
  <2>6. ASSUME NEW b \in Attempts, ledger'[b].status \in {"RUNNING", "SUCCEEDED", "FAILED"}
        PROVE  ledger'[b].manifest \in 1..ledger'[b].plans
    <3>1. CASE b = a
      BY <1>0, <2>1, <2>2, <2>4, <3>1
    <3>2. CASE b /= a
      BY <1>0, <2>1, <2>6, <3>2 DEF Versions
    <3> QED BY <3>1, <3>2
  <2> QED BY <2>1, <2>5, <2>6 DEF Versions, bundle, Owns
<1>3. ASSUME NEW o \in Operators,
             \/ ExecutorStep(o) /\ ~OpenLedger(o)
             \/ KillExecutor(o) \/ (\E both \in BOOLEAN : Interrupt(o, both))
             \/ \E a \in Attempts : Preflight(o, a) \/ WriteReport(o, a)
      PROVE  Versions'
  <2>1. UNCHANGED bundle
    BY <1>3 DEF ExecutorStep, ClaimAttempt, Revalidate, SpawnStudy, SpawnExport,
                RepositorySucceeded, SpawnMeta, CloseLedger, Return, ExecutorRaises,
                SealEvidence, KillExecutor, Interrupt, Preflight, WriteReport
  <2>2. PICK e \in Executors :
          /\ exec' = [exec EXCEPT ![o] = e]
          /\ e.at = "ready" => e.manifest \in 1..freezes
          /\ Owns(e) => e.manifest \in 1..e.plans
    <3>1. CASE \E a \in Attempts : Preflight(o, a) \/ WriteReport(o, a)
      <4>1. PICK a \in Attempts : Preflight(o, a) \/ WriteReport(o, a)
        BY <3>1
      <4>2. CASE Preflight(o, a)
        <5> DEFINE e == [Idle EXCEPT !.at = "ready", !.attempt = a,
                                     !.manifest = frozen.version]
        <5>1. frozen.version = freezes /\ freezes >= 1
          BY <4>2 DEF Preflight, BundleLoads, Versions
        <5>2. e \in Executors /\ e.at = "ready" /\ e.manifest = frozen.version
          BY <1>0, <5>1 DEF Idle, Executors
        <5>3. exec' = [exec EXCEPT ![o] = e]
          BY <4>2 DEF Preflight
        <5> HIDE DEF e
        <5>4. ~Owns(e) /\ e.manifest \in 1..freezes
          BY <1>0, <5>1, <5>2 DEF Owns, Going
        <5> QED BY <5>2, <5>3, <5>4
      <4>3. CASE WriteReport(o, a)
        <5> DEFINE e == [Idle EXCEPT !.at = "report", !.attempt = a]
        <5>1. e \in Executors /\ e.at = "report" /\ exec' = [exec EXCEPT ![o] = e]
          BY <4>3 DEF WriteReport, Idle, Executors
        <5> HIDE DEF e
        <5> QED BY <5>1 DEF Owns, Going
      <4> QED BY <4>1, <4>2, <4>3
    <3>2. CASE exec' = [exec EXCEPT ![o] = Idle]
      BY <3>2, IdleType
    <3>3. CASE ClaimAttempt(o) /\ exec' /= [exec EXCEPT ![o] = Idle]
      <4> DEFINE e == [exec[o] EXCEPT !.at = "claimed", !.plans = frozen.version]
      <4>1. frozen.version = freezes /\ freezes >= 1 /\ exec' = [exec EXCEPT ![o] = e]
        BY <3>3 DEF ClaimAttempt, BundleLoads, Versions
      <4>2. exec[o].manifest \in 1..freezes
        BY <3>3 DEF ClaimAttempt, Versions
      <4>3. /\ e \in Executors /\ e.at = "claimed" /\ e.manifest = exec[o].manifest
            /\ e.plans = frozen.version
        BY <1>0, <4>1 DEF Executors
      <4> HIDE DEF e
      <4> QED BY <4>1, <4>2, <4>3
    <3>4. CASE RepositorySucceeded(o)
      <4> DEFINE n == exec[o].next + 1
                 e == [exec[o] EXCEPT !.at = "next", !.next = n]
      <4>1. exec' = [exec EXCEPT ![o] = e]
        BY <3>4 DEF RepositorySucceeded
      <4>2. n \in Nat
        BY <1>0 DEF Executors
      <4> HIDE DEF n
      <4>3. /\ e \in Executors /\ e.at = "next" /\ e.manifest = exec[o].manifest
            /\ e.plans = exec[o].plans
        BY <1>0, <4>2 DEF Executors
      <4>4. exec[o].manifest \in 1..exec[o].plans
        BY <3>4 DEF RepositorySucceeded, Ended, Versions, Owns, Going
      <4> HIDE DEF e
      <4> QED BY <4>1, <4>3, <4>4
    <3>5. CASE Revalidate(o) \/ SpawnStudy(o) \/ SpawnExport(o) \/ SpawnMeta(o) \/ CloseLedger(o)
      <4>1. PICK at \in {"spawn", "study", "export", "meta", "closing"} :
              exec' = [exec EXCEPT ![o].at = at]
        BY <3>5 DEF Revalidate, SpawnStudy, SpawnExport, SpawnMeta, CloseLedger
      <4> DEFINE e == [exec[o] EXCEPT !.at = at]
      <4>2. /\ e \in Executors /\ e.at = at /\ e.manifest = exec[o].manifest
            /\ e.plans = exec[o].plans
        BY <1>0 DEF Executors
      <4>3. exec' = [exec EXCEPT ![o] = e]
        BY <4>1
      <4>4. exec[o].manifest \in 1..exec[o].plans
        BY <3>5 DEF Revalidate, SpawnStudy, SpawnExport, SpawnMeta, CloseLedger, Ended,
                    Versions, Owns, Going
      <4> HIDE DEF e
      <4> QED BY <4>2, <4>3, <4>4
    <3>6. CASE Return(o) \/ ExecutorRaises(o) \/ SealEvidence(o) \/ KillExecutor(o)
               \/ (\E both \in BOOLEAN : Interrupt(o, both))
      <4>1. exec' = [exec EXCEPT ![o] = Idle]
        BY <3>6 DEF Return, ExecutorRaises, SealEvidence, KillExecutor, Interrupt
      <4> QED BY <3>2, <4>1
    <3> QED BY <1>3, <3>1, <3>2, <3>3, <3>4, <3>5, <3>6 DEF ExecutorStep
  <2>3. ASSUME NEW p \in Operators
        PROVE  /\ exec'[p].at = "ready" => exec'[p].manifest \in 1..freezes'
               /\ Owns(exec'[p]) => exec'[p].manifest \in 1..exec'[p].plans
    <3>1. CASE p = o
      BY <1>0, <2>1, <2>2, <3>1 DEF bundle
    <3>2. CASE p /= o
      BY <1>0, <2>1, <2>2, <3>2 DEF Versions, bundle
    <3> QED BY <3>1, <3>2
  <2>4. ASSUME NEW b \in Attempts, ledger'[b].status \in {"RUNNING", "SUCCEEDED", "FAILED"}
        PROVE  ledger'[b].manifest \in 1..ledger'[b].plans
    <3>1. CASE ExecutorStep(o) /\ ~OpenLedger(o)
      BY <2>4, <3>1, LedgerVersions DEF Versions
    <3>2. CASE \E both \in BOOLEAN : Interrupt(o, both)
      <4>1. /\ exec[o].attempt \in Attempts
            /\ ledger[exec[o].attempt].status \in {"RUNNING", "SUCCEEDED"}
        BY <3>2, OwnerKnows DEF Interrupt, Executing, Owns, Going, Knows
      <4>2. ledger' = [ledger EXCEPT ![exec[o].attempt] = Failed(ledger[exec[o].attempt])]
        BY <3>2 DEF Interrupt
      <4>3. CASE b = exec[o].attempt
        <5>1. ledger'[b] = Failed(ledger[b]) /\ ledger[b] \in Ledgers
          BY <1>0, <4>2, <4>3
        <5> QED BY <4>1, <4>3, <5>1, FailedType DEF Versions
      <4>4. CASE b /= exec[o].attempt
        BY <1>0, <2>4, <4>2, <4>4 DEF Versions
      <4> QED BY <4>3, <4>4
    <3>3. CASE KillExecutor(o) \/ \E a \in Attempts : Preflight(o, a) \/ WriteReport(o, a)
      BY <2>4, <3>3 DEF KillExecutor, Preflight, WriteReport, Versions
    <3> QED BY <1>3, <3>1, <3>2, <3>3
  <2> QED BY <2>1, <2>3, <2>4 DEF Versions, bundle, Owns
<1>4. CASE \E a \in Attempts : JobStep(a) \/ KillJob(a)
  <2>1. UNCHANGED <<exec, ledger, bundle>>
    BY <1>4 DEF JobStep, StartStudy, SeedsMissing, RefuseStudy, CreateArm, RunArm, FinishArm,
                EndRepetition, Publish, EndStudy, StudyRaises, WriteTables, WriteExportManifest,
                Aggregate, WriteMetaManifest, OfflineRaises, KillJob, Rest, MetaRest
  <2> QED BY <2>1 DEF Versions, bundle, Owns
<1>5. CASE UNCHANGED vars
  BY <1>5 DEF vars, bundle, Versions, Owns
<1>6. CASE \E o \in Operators :
             \/ ExecutorStep(o) \/ KillExecutor(o)
             \/ \E both \in BOOLEAN : Interrupt(o, both)
             \/ \E a \in Attempts : Preflight(o, a) \/ WriteReport(o, a)
  BY <1>2, <1>3, <1>6
<1> QED
  BY <1>1, <1>4, <1>5, <1>6 DEF Next

\* An attempt that SUCCEEDED has every artifact of every study, of the plans
\* its ledger names, which are never older than the bundle it names.
THEOREM WholeSuccess == Spec => []SuccessIsWhole
<1>1. CampaignInv /\ Versions => SuccessIsWhole
  BY DEF CampaignInv, Attempted, Sound, RepoSound, Versions, SuccessIsWhole, All
<1> QED
  BY <1>1, InitVersions, NextVersions, CampaignInvariance, PTL DEF Spec

\* The ledger on disk never denies a provider turn that began.
THEOREM TurnsAreKnown == Spec => []NoHiddenTurns
<1>1. CampaignInv => NoHiddenTurns
  BY DEF CampaignInv, Attempted, Sound, RepoSound, NoHiddenTurns
<1> QED
  BY <1>1, CampaignInvariance, PTL

\* No worktree of an arm outlives its study, unless the study was killed.
THEOREM WorkspacesGo == Spec => []NoWorkspaceLeft
<1>1. CampaignInv => NoWorkspaceLeft
  <2> SUFFICES ASSUME CampaignInv, NEW a \in Attempts, NEW r \in Repos,
                      study[a][r].workspace, a \notin killed
               PROVE  Live(a) /\ job[a].kind = "study" /\ job[a].repo = r
    BY DEF NoWorkspaceLeft
  <2>1. RepoSound(a, ledger[a], study[a][r], job[a], killed, r)
    BY DEF CampaignInv, Attempted, Sound
  <2> QED
    BY <2>1, NoneIsNoCommand DEF RepoSound, Live
<1> QED
  BY <1>1, CampaignInvariance, PTL

\* What a step may do to one attempt: a FAILED ledger stays, a SUCCEEDED one is
\* only rewritten by its own executor, and the artifacts of a SUCCEEDED attempt
\* and of a published study stay.
Final(a) ==
  /\ ledger[a].status = "FAILED" => ledger'[a] = ledger[a]
  /\ ledger[a].status = "SUCCEEDED" =>
       /\ study'[a] = study[a] /\ meta'[a] = meta[a]
       /\ \/ ledger'[a] = ledger[a]
          \/ /\ ledger'[a] = Failed(ledger[a])
             /\ \E o \in Operators : exec[o].attempt = a /\ exec[o].at = "closing"
  /\ \A r \in Repos : "study" \in study[a][r].files =>
       study'[a][r].files = study[a][r].files /\ study'[a][r].plan = study[a][r].plan

LEMMA ExecutorIsFinal ==
  ASSUME CampaignInv, NEW o \in Operators, ExecutorStep(o), NEW a \in Attempts
  PROVE  Final(a)
<1>1. UNCHANGED <<study, meta>>
  BY DEF ExecutorStep, ClaimAttempt, OpenLedger, Revalidate, SpawnStudy, SpawnExport,
         RepositorySucceeded, SpawnMeta, CloseLedger, Return, ExecutorRaises, SealEvidence,
         artifacts
<1>2. ASSUME a /= exec[o].attempt PROVE ledger'[a] = ledger[a]
  BY <1>2 DEF ExecutorStep, ClaimAttempt, OpenLedger, Revalidate, SpawnStudy, SpawnExport,
         RepositorySucceeded, SpawnMeta, CloseLedger, Return, ExecutorRaises, SealEvidence,
         CampaignInv, TypeOK
<1>3. ASSUME a = exec[o].attempt, ledger[a].status \in {"SUCCEEDED", "FAILED"}
      PROVE  ledger'[a] = ledger[a]
  <2>1. ~(exec[o].at \in Going \cup {"claimed"})
    BY <1>3, OwnerKnows DEF Knows, Owns
  <2>2. ClaimAttempt(o) \/ Return(o) \/ SealEvidence(o)
    BY <2>1 DEF ExecutorStep, OpenLedger, Revalidate, SpawnStudy, SpawnExport,
                RepositorySucceeded, SpawnMeta, CloseLedger, ExecutorRaises, Ended, Going
  <2> QED
    BY <1>3, <2>2 DEF ClaimAttempt, Return, SealEvidence
<1> QED
  BY <1>1, <1>2, <1>3 DEF Final

LEMMA InterruptIsFinal ==
  ASSUME CampaignInv, NEW o \in Operators, NEW both \in BOOLEAN, Interrupt(o, both),
         NEW b \in Attempts
  PROVE  Final(b)
<1>1. PICK a \in Attempts :
        /\ a = exec[o].attempt /\ study[a] \in [Repos -> Studies]
        /\ Knows(exec[o], ledger[a], job[a])
  BY OwnerStarts DEF Interrupt, Executing, Owns, Going
<1>2. /\ ledger[a].status = "RUNNING" \/ (ledger[a].status = "SUCCEEDED" /\ exec[o].at = "closing")
      /\ ledger[a].status = "SUCCEEDED" => job[a] = None
      /\ meta' = meta /\ ledger'[a] = Failed(ledger[a])
  BY <1>1 DEF Interrupt, Executing, Knows, Going, CampaignInv, TypeOK
<1>5. ledger[a].status = "SUCCEEDED" => study' = study
  BY <1>1, <1>2 DEF Interrupt, Live
<1>3. CASE b /= a
  <2>1. ledger'[b] = ledger[b] /\ study'[b] = study[b]
    BY <1>1, <1>3 DEF Interrupt, CampaignInv, TypeOK
  <2> QED
    BY <1>2, <2>1 DEF Final
<1>4. CASE b = a
  <2> SUFFICES ASSUME NEW r \in Repos
               PROVE  study'[a][r].files = study[a][r].files /\ study'[a][r].plan = study[a][r].plan
    BY <1>1, <1>2, <1>4, <1>5 DEF Final
  <2>1. CASE both /\ job[a].kind = "study" /\ r = job[a].repo
    <3>1. study'[a][r] = CleanedUp(study[a][r])
      BY <1>1, <2>1 DEF Interrupt, CampaignInv, TypeOK
    <3> QED
      BY <1>1, <3>1, CleanedUpType
  <2>2. CASE ~(both /\ job[a].kind = "study" /\ r = job[a].repo)
    <3>1. study'[a][r] = study[a][r]
      BY <1>1, <2>2 DEF Interrupt, CampaignInv, TypeOK
    <3> QED
      BY <3>1
  <2> QED
    BY <2>1, <2>2
<1> QED
  BY <1>3, <1>4

\* A command's step changes one repository's artifacts, and not those of a
\* published study.
LEMMA CommandIsFinal ==
  ASSUME CampaignInv, NEW a \in Attempts, job[a] /= None, NEW t,
         \/ study' = study
         \/ /\ job[a].repo \in Repos
            /\ study' = [study EXCEPT ![a][job[a].repo] = t]
            /\ "study" \in study[a][job[a].repo].files =>
                 /\ t.files = study[a][job[a].repo].files
                 /\ t.plan = study[a][job[a].repo].plan,
         ledger' = ledger, \A b \in Attempts \ {a} : meta'[b] = meta[b],
         NEW b \in Attempts
  PROVE  Final(b)
<1>1. ledger[a].status /= "SUCCEEDED" /\ study[a] \in [Repos -> Studies]
  BY CommandStarts DEF CommandSound
<1>2. CASE b /= a
  <2>1. study'[b] = study[b] /\ meta'[b] = meta[b]
    BY <1>2 DEF CampaignInv, TypeOK
  <2> QED
    BY <2>1 DEF Final
<1>3. CASE b = a
  <2>1. ASSUME NEW r \in Repos, "study" \in study[a][r].files
        PROVE  study'[a][r].files = study[a][r].files /\ study'[a][r].plan = study[a][r].plan
    BY <1>1, <2>1 DEF CampaignInv, TypeOK
  <2> QED
    BY <1>1, <1>3, <2>1 DEF Final
<1> QED
  BY <1>2, <1>3

LEMMA JobIsFinal ==
  ASSUME CampaignInv, NEW a \in Attempts, JobStep(a) \/ KillJob(a), NEW b \in Attempts
  PROVE  Final(b)
<1> DEFINE s == study[a][job[a].repo]
<1>1. ledger' = ledger /\ job[a] /= None
  BY DEF JobStep, StartStudy, SeedsMissing, RefuseStudy, CreateArm, RunArm, FinishArm, EndRepetition, Publish,
         EndStudy, StudyRaises, WriteTables, WriteExportManifest, Aggregate, WriteMetaManifest,
         OfflineRaises, KillJob, Live, Studying, Running, Rest, MetaRest
<1>2. CASE RefuseStudy(a) \/ EndRepetition(a) \/ EndStudy(a) \/ OfflineRaises(a) \/ KillJob(a)
  <2>1. study' = study /\ meta' = meta
    BY <1>2 DEF RefuseStudy, EndRepetition, EndStudy, OfflineRaises, KillJob, Rest, MetaRest,
                artifacts
  <2> QED
    BY <1>1, <2>1, CommandIsFinal
<1>3. CASE Aggregate(a) \/ WriteMetaManifest(a)
  <2>1. study' = study /\ \A c \in Attempts \ {a} : meta'[c] = meta[c]
    BY <1>3 DEF Aggregate, WriteMetaManifest, MetaRest, CampaignInv, TypeOK
  <2> QED
    BY <1>1, <2>1, CommandIsFinal
<1>4. CASE StartStudy(a) \/ SeedsMissing(a) \/ Publish(a) \/ StudyRaises(a)
  <2>1. job[a].repo \in Repos /\ meta' = meta
    BY <1>1, <1>4, StudyStarts DEF StartStudy, SeedsMissing, Publish, StudyRaises, Studying, Rest
  <2>2. "study" \notin s.files
    <3>1. CASE StartStudy(a) \/ SeedsMissing(a)
      <4>1. ~s.dir /\ RepoSound(a, ledger[a], s, job[a], killed, job[a].repo)
        BY <1>1, <3>1, StudyStarts DEF StartStudy, SeedsMissing, PlanRuns, Studying
      <4> QED
        BY <4>1 DEF RepoSound
    <3>2. CASE Publish(a) \/ StudyRaises(a)
      BY <3>2 DEF Publish, StudyRaises, Artifacts
    <3> QED
      BY <1>4, <3>1, <3>2
  <2>3. \E t : study' = [study EXCEPT ![a][job[a].repo] = t]
    BY <1>4 DEF StartStudy, SeedsMissing, Publish, StudyRaises, SetArtifacts
  <2> QED
    BY <1>1, <2>1, <2>2, <2>3, CommandIsFinal
<1>5. CASE CreateArm(a) \/ RunArm(a) \/ FinishArm(a) \/ WriteTables(a) \/ WriteExportManifest(a)
  <2>1. job[a].repo \in Repos /\ meta' = meta /\ s \in Studies
    BY <1>1, <1>5, CommandStarts
    DEF CreateArm, RunArm, FinishArm, WriteTables, WriteExportManifest, Studying, Running, Rest
  <2>2. PICK t : /\ study' = [study EXCEPT ![a][job[a].repo] = t]
                 /\ t.files = s.files /\ t.plan = s.plan
    <3>1. PICK t \in {[s EXCEPT !.workspace = TRUE], [s EXCEPT !.turns = TRUE], CleanedUp(s),
                      [s EXCEPT !.exported = "part"], [s EXCEPT !.exported = "whole"]} :
            study' = [study EXCEPT ![a][job[a].repo] = t]
      BY <1>5 DEF CreateArm, RunArm, FinishArm, WriteTables, WriteExportManifest, SetArtifacts,
                  Artifacts
    <3>2. t.files = s.files /\ t.plan = s.plan
      BY <2>1, CleanedUpType DEF Studies
    <3> QED
      BY <3>1, <3>2
  <2> QED
    BY <1>1, <2>1, <2>2, CommandIsFinal
<1> QED
  BY <1>2, <1>3, <1>4, <1>5 DEF JobStep

LEMMA StepIsFinal ==
  ASSUME CampaignInv, [Next]_vars, NEW a \in Attempts
  PROVE  Final(a)
<1>1. CASE UNCHANGED <<ledger, study, meta>>
  BY <1>1 DEF Final
<1>2. CASE (\E thing \in Things : Drift(thing)) \/ Upgrade \/ Freezing \/ RetireFreeze
  BY <1>1, <1>2 DEF Drift, Upgrade, Freezing, BeginFreeze, ConfigureAndLock, PublishFreeze,
                    AbandonFreeze, RetireFreeze, artifacts
<1>3. CASE \E o \in Operators :
             KillExecutor(o) \/ \E b \in Attempts : Preflight(o, b) \/ WriteReport(o, b)
  BY <1>1, <1>3 DEF KillExecutor, Preflight, WriteReport, artifacts
<1>4. CASE \E o \in Operators : ExecutorStep(o) \/ \E both \in BOOLEAN : Interrupt(o, both)
  BY <1>4, ExecutorIsFinal, InterruptIsFinal
<1>5. CASE \E b \in Attempts : JobStep(b) \/ KillJob(b)
  BY <1>5, JobIsFinal
<1>6. CASE UNCHANGED vars
  BY <1>1, <1>6 DEF vars, artifacts
<1> QED
  BY <1>2, <1>3, <1>4, <1>5, <1>6 DEF Next

\* A FAILED ledger never changes and a SUCCEEDED one only by an interruption of
\* its own executor; its artifacts and every published study stay, whoever is
\* interrupted or runs on.
THEOREM ResultsStay == Spec => ResultsAreFinal
<1> DEFINE Kept == \A a \in Attempts :
        /\ ledger[a].status = "FAILED" => ledger'[a] = ledger[a]
        /\ ledger[a].status = "SUCCEEDED" =>
             /\ study'[a] = study[a] /\ meta'[a] = meta[a]
             /\ \/ ledger'[a] = ledger[a]
                \/ /\ ledger'[a] = Failed(ledger[a])
                   /\ \E o \in Operators : exec[o].attempt = a /\ exec[o].at = "closing"
        /\ \A r \in Repos : "study" \in study[a][r].files =>
             study'[a][r].files = study[a][r].files /\ study'[a][r].plan = study[a][r].plan
<1>1. CampaignInv /\ [Next]_vars => [Kept]_vars
  BY StepIsFinal DEF Final
<1>2. ResultsAreFinal <=> [][Kept]_vars
  BY DEF ResultsAreFinal
<1> QED
  BY <1>1, <1>2, CampaignInvariance, PTL DEF Spec

-----------------------------------------------------------------------------
(* Numbers, and what a sum and a recursive function give *)

\* A set of numbers has a least one.
LEMMA LeastNumber ==
  ASSUME NEW T \in SUBSET Nat, T /= {}
  PROVE  \E x \in T : \A y \in T : x <= y
<1> DEFINE R == OpToRel(<, Nat)
<1>1. IsWellFoundedOn(R, Nat)
  BY NatLessThanWellFounded
<1>2. \E x \in T : \A y \in T : <<y, x>> \notin R
  <2> HIDE DEF R
  <2> QED BY <1>1, WFMin
<1>3. PICK x \in T : \A y \in T : <<y, x>> \notin R
  BY <1>2
<1>4. ASSUME NEW y \in T PROVE x <= y
  <2>1. <<y, x>> \in Nat \X Nat
    OBVIOUS
  <2>2. ~(<<y, x>>[1] < <<y, x>>[2])
    BY <1>3, <2>1 DEF OpToRel
  <2> QED BY <2>2
<1> QED BY <1>3, <1>4

\* Induction, as a fact about a set.
LEMMA EveryNumber ==
  ASSUME NEW S, 0 \in S, \A n \in Nat : n \in S => n + 1 \in S
  PROVE  Nat \subseteq S
<1> SUFFICES ASSUME Nat \ S /= {} PROVE FALSE
  OBVIOUS
<1>1. PICK m \in Nat \ S : \A y \in Nat \ S : m <= y
  BY LeastNumber
<1>2. m /= 0 /\ m - 1 \in Nat
  BY <1>1
<1>3. m - 1 \in S
  BY <1>1, <1>2
<1>4. (m - 1) + 1 = m
  BY <1>1
<1> QED
  BY <1>1, <1>2, <1>3, <1>4


-----------------------------------------------------------------------------
(* Folds *)

\* An order in which the elements are taken: the last one of every set.
Picks(pick, D) == \A s \in SUBSET D : s /= {} => pick[s] \in s

IsFold(g, D, base, step, pick) ==
  \A s \in SUBSET D :
    g[s] = IF s = {} THEN base ELSE step[<<g[s \ {pick[s]}], pick[s]>>]

\* A fold exists: over a finite set, from any base, by any step, in any order.
LEMMA FoldExists ==
  ASSUME NEW D, IsFiniteSet(D), NEW R, NEW base \in R, NEW step \in [R \X D -> R],
         NEW pick, Picks(pick, D)
  PROVE  \E g \in [SUBSET D -> R] : IsFold(g, D, base, step, pick)
<1> DEFINE Upto(n) == {s \in SUBSET D : Cardinality(s) <= n}
           Folds(n, g) ==
             \A s \in Upto(n) :
               g[s] = IF s = {} THEN base ELSE step[<<g[s \ {pick[s]}], pick[s]>>]
           Good == {n \in Nat : \E g \in [Upto(n) -> R] : Folds(n, g)}
<1>0. \A s \in SUBSET D : IsFiniteSet(s) /\ Cardinality(s) \in Nat /\ Cardinality(s) <= Cardinality(D)
  BY FS_Subset, FS_CardinalityType
<1>1. 0 \in Good
  <2> DEFINE g == [s \in Upto(0) |-> base]
  <2>1. \A s \in Upto(0) : s = {}
    BY <1>0, FS_EmptySet
  <2>2. g \in [Upto(0) -> R] /\ Folds(0, g)
    BY <2>1
  <2> QED BY <2>2
<1>2. ASSUME NEW n \in Nat, n \in Good PROVE n + 1 \in Good
  <2>1. PICK g \in [Upto(n) -> R] : Folds(n, g)
    BY <1>2
  <2>2. ASSUME NEW s \in Upto(n + 1), s /= {}
        PROVE  pick[s] \in s /\ s \ {pick[s]} \in Upto(n)
    <3>1. pick[s] \in s
      BY <2>2 DEF Picks
    <3>2. Cardinality(s \ {pick[s]}) = Cardinality(s) - 1
      BY <3>1, <1>0, FS_RemoveElement
    <3>3. s \ {pick[s]} \in SUBSET D
      OBVIOUS
    <3> QED BY <3>1, <3>2, <3>3, <1>0
  <2> DEFINE h == [s \in Upto(n + 1) |->
                     IF s = {} THEN base ELSE step[<<g[s \ {pick[s]}], pick[s]>>]]
  <2>3. h \in [Upto(n + 1) -> R]
    <3>1. ASSUME NEW s \in Upto(n + 1), s /= {}
          PROVE  step[<<g[s \ {pick[s]}], pick[s]>>] \in R
      <4>1. g[s \ {pick[s]}] \in R
        BY <2>1, <2>2, <3>1
      <4>2. pick[s] \in D
        BY <2>2, <3>1
      <4>3. <<g[s \ {pick[s]}], pick[s]>> \in R \X D
        BY <4>1, <4>2
      <4> QED BY <4>3
    <3> QED BY <3>1
  <2>4. \A s \in Upto(n) : h[s] = g[s] /\ s \in Upto(n + 1)
    <3> TAKE s \in Upto(n)
    <3>1. s \in Upto(n + 1)
      BY <1>0
    <3>2. g[s] = IF s = {} THEN base ELSE step[<<g[s \ {pick[s]}], pick[s]>>]
      BY <2>1
    <3> QED BY <3>1, <3>2
  <2>5. Folds(n + 1, h)
    <3> SUFFICES ASSUME NEW s \in Upto(n + 1)
                 PROVE  h[s] = IF s = {} THEN base
                               ELSE step[<<h[s \ {pick[s]}], pick[s]>>]
      OBVIOUS
    <3>1. CASE s = {}
      BY <3>1
    <3>2. CASE s /= {}
      <4>1. h[s \ {pick[s]}] = g[s \ {pick[s]}]
        BY <3>2, <2>2, <2>4
      <4> QED BY <3>2, <4>1
    <3> QED BY <3>1, <3>2
  <2>6. \E f \in [Upto(n + 1) -> R] : Folds(n + 1, f)
    <3> HIDE DEF h, Folds, Upto
    <3> QED BY <2>3, <2>5
  <2>7. n + 1 \in Nat
    OBVIOUS
  <2> HIDE DEF Folds, Upto
  <2> QED BY <2>6, <2>7
<1>3. Cardinality(D) \in Good
  <2> HIDE DEF Good
  <2>1. Nat \subseteq Good
    BY <1>1, <1>2, EveryNumber
  <2> QED BY <2>1, <1>0, FS_CardinalityType
<1>4. Upto(Cardinality(D)) = SUBSET D
  BY <1>0
<1>5. PICK g \in [SUBSET D -> R] : Folds(Cardinality(D), g)
  BY <1>3, <1>4
<1> QED BY <1>4, <1>5 DEF IsFold

\* What a set without one of its elements has, the set has.
Grows(F, D) == \A s \in SUBSET D : s /= {} => \E x \in s : s \ {x} \in F => s \in F

\* A family of finite sets that has the empty one and grows has them all.
LEMMA EverySubset ==
  ASSUME NEW D, IsFiniteSet(D), NEW F, {} \in F, Grows(F, D)
  PROVE  SUBSET D \subseteq F
<1> DEFINE Good == {n \in Nat : \A s \in SUBSET D : Cardinality(s) = n => s \in F}
<1>0. \A s \in SUBSET D : IsFiniteSet(s) /\ Cardinality(s) \in Nat
  BY FS_Subset, FS_CardinalityType
<1>1. 0 \in Good
  BY <1>0, FS_EmptySet
<1>2. ASSUME NEW n \in Nat, n \in Good PROVE n + 1 \in Good
  <2> SUFFICES ASSUME NEW s \in SUBSET D, Cardinality(s) = n + 1 PROVE s \in F
    OBVIOUS
  <2>1. s /= {}
    BY FS_EmptySet
  <2>2. PICK x \in s : s \ {x} \in F => s \in F
    BY <2>1 DEF Grows
  <2>3. IsFiniteSet(s)
    BY <1>0
  <2>4. Cardinality(s \ {x}) = Cardinality(s) - 1
    BY <2>2, <2>3, FS_RemoveElement
  <2>5. Cardinality(s \ {x}) = n /\ s \ {x} \in SUBSET D
    BY <2>4
  <2> QED BY <2>2, <2>5, <1>2
<1>3. Nat \subseteq Good
  <2> HIDE DEF Good
  <2> QED BY <1>1, <1>2, EveryNumber
<1> QED BY <1>0, <1>3

AnyOf(s) == CHOOSE x \in s : TRUE

\* The sum over the repositories.
SumsOf(g, f) ==
  g = [s \in SUBSET DOMAIN f |->
         IF s = {} THEN 0 ELSE f[AnyOf(s)] + g[s \ {AnyOf(s)}]]

\* A sum of numbers is one.
LEMMA TotalIsNumber ==
  ASSUME NEW n \in Nat, NEW f \in [1..n -> Int]
  PROVE  FoldSeq(+, 0, f) \in Int
<1> DEFINE D == 1..n
           step == [p \in Int \X D |-> f[p[2]] + p[1]]
           pick == [s \in SUBSET D |-> AnyOf(s)]
<1>0. IsFiniteSet(D)
  BY FS_Interval
<1>1. \A s \in SUBSET D : s /= {} => pick[s] \in s /\ pick[s] = AnyOf(s)
  BY DEF AnyOf
<1>2. step \in [Int \X D -> Int]
  OBVIOUS
<1>3. PICK g \in [SUBSET D -> Int] : IsFold(g, D, 0, step, pick)
  <2>1. Picks(pick, D)
    BY <1>1 DEF Picks
  <2>2. 0 \in Int
    OBVIOUS
  <2> HIDE DEF step, pick, D
  <2> QED BY <1>0, <2>1, <2>2, <1>2, FoldExists
<1>4. ASSUME NEW s \in SUBSET D
      PROVE  g[s] = IF s = {} THEN 0 ELSE f[AnyOf(s)] + g[s \ {AnyOf(s)}]
  <2>1. CASE s = {}
    BY <2>1, <1>3 DEF IsFold
  <2>2. CASE s /= {}
    <3>1. AnyOf(s) \in D /\ pick[s] = AnyOf(s) /\ g[s \ {AnyOf(s)}] \in Int
      BY <2>2, <1>1
    <3>2. step[<<g[s \ {AnyOf(s)}], AnyOf(s)>>] = f[AnyOf(s)] + g[s \ {AnyOf(s)}]
      BY <3>1
    <3> HIDE DEF step, pick
    <3>3. g[s] = step[<<g[s \ {pick[s]}], pick[s]>>]
      BY <1>3, <2>2 DEF IsFold
    <3> QED BY <3>1, <3>2, <3>3, <2>2
  <2> QED BY <2>1, <2>2
<1>5. SumsOf(g, f)
  BY <1>4 DEF SumsOf
<1> DEFINE iter == CHOOSE h : SumsOf(h, f)
<1>6. SumsOf(iter, f)
  BY <1>5
<1>7. FoldSeq(+, 0, f) = iter[D]
  BY DEF FoldSeq, FoldFunction, FoldFunctionOnSet, MapThenFoldSet, SumsOf, AnyOf
<1>8. iter[D] \in Int
  <2> DEFINE F == {s \in SUBSET D : iter[s] \in Int}
  <2> HIDE DEF iter
  <2>1. {} \in F
    BY <1>6 DEF SumsOf
  <2>2. ASSUME NEW s \in SUBSET D, s /= {}
        PROVE  AnyOf(s) \in s /\ (s \ {AnyOf(s)} \in F => s \in F)
    <3>1. AnyOf(s) \in s /\ AnyOf(s) \in D
      BY <2>2 DEF AnyOf
    <3>2. iter[s] = f[AnyOf(s)] + iter[s \ {AnyOf(s)}]
      BY <1>6, <2>2 DEF SumsOf
    <3> QED BY <3>1, <3>2
  <2>3. SUBSET D \subseteq F
    <3> HIDE DEF F
    <3>1. Grows(F, D)
      BY <2>2 DEF Grows
    <3> HIDE DEF D
    <3> QED BY <1>0, <2>1, <3>1, EverySubset
  <2> QED BY <2>3
<1> QED
  BY <1>7, <1>8

-----------------------------------------------------------------------------
(* Seeds *)

\* The search is defined: the seeds are those that each step finds.
LEMMA SeedsExist ==
  ASSUME NEW orders, NEW n \in Nat, DOMAIN orders = 1..n
  PROVE  SeedSchedule(orders) =
           [k \in 1..n |->
              NextSeed(orders[k], IF k = 1 THEN BaseSeed ELSE SeedSchedule(orders)[k - 1] + 1)]
<1> DEFINE Cursor(f, k) == IF k = 1 THEN BaseSeed ELSE f[k - 1] + 1
           Upto(f, m) == f = [k \in 1..m |-> NextSeed(orders[k], Cursor(f, k))]
           Good == {m \in Nat : \E f : Upto(f, m)}
<1>1. 0 \in Good
  <2> DEFINE f == [k \in 1..0 |-> 0]
  <2>1. Upto(f, 0)
    OBVIOUS
  <2> HIDE DEF f, Upto
  <2> QED BY <2>1
<1>2. ASSUME NEW m \in Nat, m \in Good PROVE m + 1 \in Good
  <2>1. PICK f : Upto(f, m)
    BY <1>2
  <2> DEFINE g == [k \in 1..(m + 1) |-> NextSeed(orders[k], Cursor(f, k))]
  <2>2. ASSUME NEW k \in 1..(m + 1) PROVE Cursor(g, k) = Cursor(f, k)
    <3>1. CASE k = 1
      BY <3>1
    <3>2. CASE k /= 1
      <4>1. k - 1 \in 1..m /\ k - 1 \in 1..(m + 1)
        BY <3>2
      <4> DEFINE i == k - 1
      <4>2. f[i] = NextSeed(orders[i], Cursor(f, i)) /\ g[i] = NextSeed(orders[i], Cursor(f, i))
        <5> HIDE DEF Cursor, i
        <5>1. i \in 1..m /\ i \in 1..(m + 1)
          BY <4>1 DEF i
        <5> QED BY <2>1, <5>1
      <4> QED BY <3>2, <4>2
    <3> QED BY <3>1, <3>2
  <2>3. g = [k \in 1..(m + 1) |-> NextSeed(orders[k], Cursor(g, k))]
    <3>1. \A k \in 1..(m + 1) : Cursor(g, k) = Cursor(f, k)
      BY <2>2
    <3> HIDE DEF Cursor
    <3> QED BY <3>1
  <2> HIDE DEF g, Cursor
  <2> QED BY <2>3
<1>3. n \in Good
  <2> HIDE DEF Good
  <2> QED BY <1>1, <1>2, EveryNumber
<1>4. \E f : Upto(f, n)
  BY <1>3
<1> QED
  BY <1>4 DEF SeedSchedule

\* What the search finds is a seed from the cursor on.
LEMMA SeedIsFound ==
  ASSUME NEW order, NEW c \in Int, NEW s \in DOMAIN Shuffle, s >= c, ShuffledOrder(s) = order
  PROVE  NextSeed(order, c) \in Int /\ NextSeed(order, c) >= c
<1> DEFINE T == {t - c : t \in {t \in DOMAIN Shuffle : t >= c /\ ShuffledOrder(t) = order}}
<1>1. T \in SUBSET Nat /\ s - c \in T
  BY SeedsAreNumbers
<1>2. PICK d \in T : \A y \in T : d <= y
  BY <1>1, LeastNumber
<1>3. PICK t \in DOMAIN Shuffle : t >= c /\ ShuffledOrder(t) = order /\ d = t - c
  BY <1>2
<1>4. ASSUME NEW u \in DOMAIN Shuffle, u >= c, ShuffledOrder(u) = order PROVE t <= u
  <2>1. u - c \in T
    BY <1>4
  <2>2. t - c <= u - c
    BY <2>1, <1>2, <1>3
  <2> QED BY <2>2, SeedsAreNumbers
<1>5. \E v \in DOMAIN Shuffle :
        /\ v >= c /\ ShuffledOrder(v) = order
        /\ \A u \in DOMAIN Shuffle : u >= c /\ ShuffledOrder(u) = order => v <= u
  BY <1>3, <1>4
<1> QED
  BY <1>5, SeedsAreNumbers DEF NextSeed

\* No seed comes twice.
LEMMA SeedsApart ==
  ASSUME NEW orders, NEW n \in Nat, DOMAIN orders = 1..n, SeedsFound(orders)
  PROVE  IsInjective(SeedSchedule(orders))
<1> DEFINE s == SeedSchedule(orders)
           Cursor(k) == IF k = 1 THEN BaseSeed ELSE s[k - 1] + 1
<1>1. DOMAIN s = 1..n /\ \A k \in 1..n : s[k] = NextSeed(orders[k], Cursor(k))
  <2>1. s = [k \in 1..n |-> NextSeed(orders[k], Cursor(k))]
    BY SeedsExist
  <2> HIDE DEF s, Cursor
  <2> QED BY <2>1
<1>2. ASSUME NEW k \in 1..n, Cursor(k) \in Int
      PROVE  s[k] \in Int /\ s[k] >= Cursor(k)
  <2>1. PICK t \in DOMAIN Shuffle : t >= Cursor(k) /\ ShuffledOrder(t) = orders[k]
    BY DEF SeedsFound
  <2> HIDE DEF Cursor, s
  <2>2. NextSeed(orders[k], Cursor(k)) \in Int /\ NextSeed(orders[k], Cursor(k)) >= Cursor(k)
    BY <1>2, <2>1, SeedIsFound
  <2> QED BY <2>2, <1>1
<1> HIDE DEF s
<1> DEFINE Typed == {m \in Nat : m + 1 \in 1..n => s[m + 1] \in Int}
<1>3. Nat \subseteq Typed
  <2>1. 0 \in Typed
    <3> SUFFICES ASSUME 1 \in 1..n PROVE s[1] \in Int
      OBVIOUS
    <3>1. Cursor(1) \in Int
      BY SeedsAreNumbers
    <3> QED BY <3>1, <1>2
  <2>2. ASSUME NEW m \in Nat, m \in Typed PROVE m + 1 \in Typed
    <3> DEFINE k == m + 2
    <3> SUFFICES ASSUME k \in 1..n PROVE s[k] \in Int
      BY (m + 1) + 1 = m + 2
    <3>1. m + 1 \in 1..n /\ k - 1 = m + 1 /\ k /= 1
      OBVIOUS
    <3>2. s[m + 1] \in Int
      BY <2>2, <3>1
    <3> HIDE DEF k
    <3>3. Cursor(k) \in Int
      BY <3>1, <3>2
    <3> HIDE DEF Cursor
    <3> QED BY <3>3, <1>2
  <2> HIDE DEF Typed
  <2> QED BY <2>1, <2>2, EveryNumber
<1>4. ASSUME NEW k \in 1..n PROVE s[k] \in Int
  <2>1. k - 1 \in Typed /\ (k - 1) + 1 = k
    BY <1>3
  <2> QED BY <2>1
<1>5. ASSUME NEW k \in 1..n, k /= 1 PROVE k - 1 \in 1..n /\ s[k] > s[k - 1]
  <2>1. k - 1 \in 1..n
    BY <1>5
  <2>2. s[k - 1] \in Int
    BY <2>1, <1>4
  <2>3. Cursor(k) \in Int /\ Cursor(k) = s[k - 1] + 1
    BY <2>2, <1>5
  <2>4. s[k] >= Cursor(k)
    BY <2>3, <1>2
  <2> QED BY <2>1, <2>2, <2>3, <2>4, <1>4
<1> HIDE DEF Cursor
<1> DEFINE Apart == {d \in Nat : \A k \in 1..n : k + (d + 1) \in 1..n => s[k] < s[k + (d + 1)]}
<1>6. Nat \subseteq Apart
  <2>1. 0 \in Apart
    <3> SUFFICES ASSUME NEW k \in 1..n, k + 1 \in 1..n PROVE s[k] < s[k + 1]
      OBVIOUS
    <3> DEFINE m == k + 1
    <3>1. m \in 1..n /\ m /= 1 /\ m - 1 = k
      OBVIOUS
    <3> HIDE DEF m
    <3>2. s[m] > s[m - 1] /\ s[m] \in Int /\ s[k] \in Int
      BY <3>1, <1>4, <1>5
    <3>3. s[k] < s[m]
      BY <3>1, <3>2
    <3> QED BY <3>3 DEF m
  <2>2. ASSUME NEW d \in Nat, d \in Apart PROVE d + 1 \in Apart
    <3> SUFFICES ASSUME NEW k \in 1..n, k + ((d + 1) + 1) \in 1..n
                 PROVE  s[k] < s[k + ((d + 1) + 1)]
      OBVIOUS
    <3> DEFINE m == k + ((d + 1) + 1)
               i == k + (d + 1)
    <3>1. m \in 1..n /\ m /= 1 /\ m - 1 = i /\ i \in 1..n
      OBVIOUS
    <3>2. s[k] < s[i]
      BY <2>2, <3>1
    <3> HIDE DEF m, i
    <3>3. s[m] > s[m - 1] /\ s[m] \in Int /\ s[k] \in Int /\ s[i] \in Int
      BY <3>1, <1>4, <1>5
    <3>4. s[k] < s[m]
      BY <3>1, <3>2, <3>3
    <3> QED BY <3>4 DEF m
  <2> HIDE DEF Apart
  <2> QED BY <2>1, <2>2, EveryNumber
<1>7. ASSUME NEW k \in 1..n, NEW m \in 1..n, k < m PROVE s[k] < s[m]
  <2> DEFINE d == m - k - 1
  <2>1. d \in Nat /\ k + (d + 1) = m
    BY <1>7
  <2>2. d \in Apart
    BY <2>1, <1>6
  <2> HIDE DEF d
  <2> QED BY <2>1, <2>2
<1>8. ASSUME NEW k \in 1..n, NEW m \in 1..n, s[k] = s[m] PROVE k = m
  <2>1. s[k] \in Int /\ s[m] \in Int
    BY <1>4
  <2>2. ~(k < m) /\ ~(m < k)
    BY <2>1, <1>7, <1>8
  <2> QED BY <2>2
<1>9. IsInjective(s)
  BY <1>1, <1>8 DEF IsInjective
<1> QED
  BY <1>9 DEF s

-----------------------------------------------------------------------------
(* Division *)

\* What div and mod are.
LEMMA DivMod ==
  ASSUME NEW k \in Nat, NEW n \in Nat, n > 0
  PROVE  /\ k \div n \in Nat /\ k % n \in 0..(n - 1)
         /\ k = n * (k \div n) + (k % n)
OBVIOUS

\* Quotient and remainder are unique ...
LEMMA SameQuotient ==
  ASSUME NEW n \in Nat, n > 0, NEW q \in Nat, NEW t \in Nat,
         NEW r \in 0..(n - 1), NEW s \in 0..(n - 1), n * q + r = n * t + s
  PROVE  q = t /\ r = s
<1>1. n * (q - t) = s - r
  OBVIOUS
<1>2. ~(q - t >= 1)
  <2> SUFFICES ASSUME q - t >= 1 PROVE FALSE
    OBVIOUS
  <2>1. n * (q - t) >= n
    OBVIOUS
  <2> QED BY <1>1, <2>1
<1>3. ~(t - q >= 1)
  <2> SUFFICES ASSUME t - q >= 1 PROVE FALSE
    OBVIOUS
  <2>1. n * (t - q) >= n
    OBVIOUS
  <2>2. n * (t - q) = r - s
    BY <1>1
  <2> QED BY <2>1, <2>2
<1> QED
  BY <1>1, <1>2, <1>3

\* ... so they can be read off.
LEMMA DivOf ==
  ASSUME NEW n \in Nat, n > 0, NEW q \in Nat, NEW r \in 0..(n - 1)
  PROVE  (n * q + r) \div n = q /\ (n * q + r) % n = r
<1> DEFINE k == n * q + r
<1>1. k \in Nat
  OBVIOUS
<1> HIDE DEF k
<1>2. k \div n \in Nat /\ k % n \in 0..(n - 1) /\ k = n * (k \div n) + (k % n)
  BY <1>1, DivMod
<1>3. n * q + r = n * (k \div n) + (k % n)
  BY <1>2 DEF k
<1>4. q = k \div n /\ r = k % n
  BY <1>2, <1>3, SameQuotient
<1> QED
  BY <1>4 DEF k

\* A summand cancels under mod.
LEMMA ModCancels ==
  ASSUME NEW n \in Nat, n > 0, NEW c \in Nat, NEW i \in 0..(n - 1), NEW j \in 0..(n - 1),
         (c + i) % n = (c + j) % n
  PROVE  i = j
<1> DEFINE q == (c + i) \div n
           t == (c + j) \div n
           r == (c + i) % n
<1>1. q \in Nat /\ t \in Nat /\ r \in 0..(n - 1) /\ c + i = n * q + r /\ c + j = n * t + r
  BY DivMod
<1> HIDE DEF q, t, r
<1>2. n * (q - t) = i - j
  BY <1>1
<1>3. ~(q - t >= 1)
  <2> SUFFICES ASSUME q - t >= 1 PROVE FALSE
    OBVIOUS
  <2>1. n * (q - t) >= n
    BY <1>1
  <2> QED BY <1>2, <2>1
<1>4. ~(t - q >= 1)
  <2> SUFFICES ASSUME t - q >= 1 PROVE FALSE
    OBVIOUS
  <2>1. n * (t - q) >= n
    BY <1>1
  <2>2. n * (t - q) = j - i
    BY <1>1, <1>2
  <2> QED BY <2>1, <2>2
<1>5. q = t
  BY <1>1, <1>3, <1>4
<1> QED
  BY <1>1, <1>5

-----------------------------------------------------------------------------
(* The schedule *)

\* The treatments, and the orders of all of them.
Arms == ToSet(Manifests)
Lists == {f \in [Places -> Arms] : IsInjective(f)}

\* Manifests and labels are lists of all treatments.
LEMMA ArmsTyped ==
  /\ NArms \in Nat /\ NArms >= 2 /\ Places = 1..NArms
  /\ SortedArms \in Lists /\ Manifests \in Lists
<1>1. NArms \in Nat /\ NArms >= 2 /\ Places = 1..NArms
  BY ArmsAssumption DEF NArms, Places
<1>2. Manifests \in [Places -> Arms] /\ SortedArms \in [Places -> Arms]
  BY ArmsAssumption DEF NArms, Places, Arms
<1> QED
  BY <1>1, <1>2, ArmsAssumption DEF Lists

\* There are as many treatments as places.
LEMMA ArmsCounted == IsFiniteSet(Arms) /\ Cardinality(Arms) = NArms
                     /\ IsFiniteSet(Places) /\ Cardinality(Places) = NArms
<1>1. IsFiniteSet(Places) /\ Cardinality(Places) = NArms
  BY ArmsTyped, FS_Interval
<1>2. Manifests \in Surjection(Places, Arms) /\ Manifests \in Injection(Places, Arms)
  BY ArmsTyped, ArmsAssumption DEF Lists, Injection, Surjection, Arms, ToSet, NArms, IsInjective
<1> QED
  BY <1>1, <1>2, FS_Surjection

\* A shuffled list is a list of all treatments ...
LEMMA ArrangedLists ==
  ASSUME NEW p \in Permuted
  PROVE  Arrange(SortedArms, p) \in Lists
BY ArmsTyped DEF Arrange, Lists, Permuted, IsInjective

\* ... and so is one that is turned round.
LEMMA ReversedLists ==
  ASSUME NEW list \in Lists
  PROVE  Reverse(list) \in Lists
<1>1. list \in Seq(Arms) /\ Len(list) = NArms
  <2>1. list \in [1..NArms -> Arms] /\ NArms \in Nat
    BY ArmsTyped DEF Lists
  <2> QED BY <2>1
<1>2. Reverse(list) = [i \in Places |-> list[(NArms - i) + 1]]
  BY <1>1, ArmsTyped DEF Reverse
<1>3. \A i \in Places : (NArms - i) + 1 \in Places
  BY ArmsTyped
<1>4. Reverse(list) \in [Places -> Arms]
  BY <1>2, <1>3 DEF Lists
<1>5. ASSUME NEW i \in Places, NEW j \in Places, Reverse(list)[i] = Reverse(list)[j]
      PROVE  i = j
  <2>1. list[(NArms - i) + 1] = list[(NArms - j) + 1]
    BY <1>2, <1>5
  <2>2. (NArms - i) + 1 = (NArms - j) + 1
    BY <2>1, <1>3 DEF Lists, IsInjective
  <2> QED BY <2>2, ArmsTyped
<1> QED
  BY <1>4, <1>5 DEF Lists, IsInjective

\* What a rotation has at a place.
LEMMA RotatedPlaces ==
  ASSUME NEW list \in Lists, NEW i \in 0..(NArms - 1)
  PROVE  /\ Rotation(list, i) \in [Places -> Arms]
         /\ \A p \in Places : /\ ((p - 1 + i) % NArms) + 1 \in Places
                              /\ Rotation(list, i)[p] = list[((p - 1 + i) % NArms) + 1]
<1>1. ASSUME NEW p \in Places PROVE ((p - 1 + i) % NArms) + 1 \in Places
  <2>1. p - 1 + i \in Nat
    BY ArmsTyped
  <2>2. (p - 1 + i) % NArms \in 0..(NArms - 1)
    BY <2>1, ArmsTyped, DivMod
  <2> QED BY <2>2, ArmsTyped
<1> QED
  BY <1>1 DEF Rotation, Lists

\* The rows of a block differ at every place.
LEMMA RotationsDiffer ==
  ASSUME NEW list \in Lists, NEW i \in 0..(NArms - 1), NEW j \in 0..(NArms - 1),
         NEW p \in Places, Rotation(list, i)[p] = Rotation(list, j)[p]
  PROVE  i = j
<1> DEFINE u == ((p - 1 + i) % NArms) + 1
           v == ((p - 1 + j) % NArms) + 1
<1>1. u \in Places /\ v \in Places /\ list[u] = list[v]
  BY RotatedPlaces
<1>2. u = v
  <2> HIDE DEF u, v
  <2> QED BY <1>1 DEF Lists, IsInjective
<1> DEFINE c == p - 1
<1>3. c \in Nat /\ p - 1 + i = c + i /\ p - 1 + j = c + j
  BY ArmsTyped
<1>4. (c + i) % NArms \in Int /\ (c + j) % NArms \in Int
  <2>1. c + i \in Nat /\ c + j \in Nat
    BY <1>3, ArmsTyped
  <2> HIDE DEF c
  <2> QED BY <2>1, ArmsTyped, DivMod
<1> HIDE DEF c
<1>5. (c + i) % NArms = (c + j) % NArms
  <2>1. u = ((c + i) % NArms) + 1 /\ v = ((c + j) % NArms) + 1
    BY <1>3
  <2> HIDE DEF u, v
  <2> QED BY <2>1, <1>2, <1>4
<1> QED
  BY <1>3, <1>5, ArmsTyped, ModCancels

\* Larger numbers have larger quotients.
LEMMA DivMonotone ==
  ASSUME NEW n \in Nat, n > 0, NEW a \in Nat, NEW b \in Nat, a <= b
  PROVE  a \div n <= b \div n
<1> DEFINE q == a \div n
           t == b \div n
           r == a % n
           s == b % n
<1>1. q \in Nat /\ t \in Nat /\ r \in 0..(n - 1) /\ s \in 0..(n - 1)
      /\ a = n * q + r /\ b = n * t + s
  BY DivMod
<1> HIDE DEF q, t, r, s
<1>2. ~(q - t >= 1)
  <2> SUFFICES ASSUME q - t >= 1 PROVE FALSE
    OBVIOUS
  <2>1. n * (q - t) >= n
    BY <1>1
  <2>2. n * (q - t) = n * q - n * t
    BY <1>1
  <2> QED BY <1>1, <2>1, <2>2
<1>3. q <= t
  BY <1>1, <1>2
<1> QED
  BY <1>3 DEF q, t

\* n orders in which a treatment has a place at most once in a block.
BlockOf(k) == (k - 1) \div NArms

Crossed(n, orders) ==
  /\ orders \in [1..n -> [Places -> Arms]]
  /\ \A k, m \in 1..n, p \in Places :
       BlockOf(k) = BlockOf(m) /\ orders[k][p] = orders[m][p] => k = m

\* Crossover blocks are rotations of one order, or of the same backwards.
LEMMA BlocksOfSchedule ==
  ASSUME NEW orders \in Schedules(Repeats)
  PROVE  \E list, row :
           /\ \A b \in Nat : b <= BlockOf(Repeats) => list[b] \in Lists /\ row[b] \in Permuted
           /\ orders = [k \in 1..Repeats |->
                Rotation(list[BlockOf(k)], row[BlockOf(k)][((k - 1) % NArms) + 1] - 1)]
<1> DEFINE blocks == BlockOf(Repeats) + 1
           turns == (BlockOf(Repeats) \div 2) + 1
<1>1. PICK bases \in [1..turns -> {Arrange(SortedArms, p) : p \in Permuted}],
           rows \in [1..blocks -> Permuted] : orders = BalancedOrders(bases, rows, Repeats)
  <2>1. BlockOf(Repeats) \in Nat
    BY CampaignAssumption, ArmsTyped, DivMod DEF BlockOf
  <2>2. turns = ((blocks - 1) \div 2) + 1
    BY <2>1
  <2> QED BY <2>2 DEF Schedules, BlockOf
<1> DEFINE base(b) == bases[(b \div 2) + 1]
           list == [b \in Nat |-> IF b % 2 = 0 THEN base(b) ELSE Reverse(base(b))]
           row == [b \in Nat |-> rows[b + 1]]
<1>2. BlockOf(Repeats) \in Nat
  BY CampaignAssumption, ArmsTyped, DivMod DEF BlockOf
<1>3. ASSUME NEW b \in Nat, b <= BlockOf(Repeats)
      PROVE  list[b] \in Lists /\ row[b] \in Permuted
  <2>1. b \div 2 <= BlockOf(Repeats) \div 2
    BY <1>2, <1>3, DivMonotone
  <2>2. (b \div 2) + 1 \in 1..turns /\ b + 1 \in 1..blocks
    BY <1>2, <1>3, <2>1
  <2>3. base(b) \in Lists
    BY <2>2, ArrangedLists
  <2>4. Reverse(base(b)) \in Lists
    BY <2>3, ReversedLists
  <2> QED
    BY <2>2, <2>3, <2>4
<1>4. ASSUME NEW k \in 1..Repeats PROVE BlockOf(k) \in Nat /\ k - 1 \in Nat
  BY CampaignAssumption, ArmsTyped, DivMod DEF BlockOf
<1>5. orders = [k \in 1..Repeats |->
        Rotation(list[BlockOf(k)], row[BlockOf(k)][((k - 1) % NArms) + 1] - 1)]
  <2>1. ASSUME NEW k \in 1..Repeats
        PROVE  /\ list[BlockOf(k)] = (IF BlockOf(k) % 2 = 0 THEN base(BlockOf(k))
                                      ELSE Reverse(base(BlockOf(k))))
               /\ row[BlockOf(k)] = rows[BlockOf(k) + 1]
    BY <1>4
  <2>2. orders = [k \in 1..Repeats |->
          Rotation(IF BlockOf(k) % 2 = 0 THEN base(BlockOf(k)) ELSE Reverse(base(BlockOf(k))),
                   rows[BlockOf(k) + 1][((k - 1) % NArms) + 1] - 1)]
    BY <1>1 DEF BalancedOrders, BlockOf
  <2> HIDE DEF list, row, base
  <2> QED BY <2>1, <2>2
<1> HIDE DEF list, row
<1> QED
  BY <1>3, <1>5

\* In a drawn schedule no treatment has a place twice in a block.
LEMMA ScheduleCrossed ==
  ASSUME NEW orders \in Schedules(Repeats)
  PROVE  Crossed(Repeats, orders)
<1>1. PICK list, row :
        /\ \A b \in Nat : b <= BlockOf(Repeats) => list[b] \in Lists /\ row[b] \in Permuted
        /\ orders = [k \in 1..Repeats |->
             Rotation(list[BlockOf(k)], row[BlockOf(k)][((k - 1) % NArms) + 1] - 1)]
  BY BlocksOfSchedule
<1> DEFINE slot(k) == ((k - 1) % NArms) + 1
           index(k) == row[BlockOf(k)][slot(k)] - 1
<1>2. ASSUME NEW k \in 1..Repeats
      PROVE  /\ BlockOf(k) \in Nat /\ slot(k) \in Places
             /\ k - 1 = NArms * BlockOf(k) + (slot(k) - 1)
             /\ list[BlockOf(k)] \in Lists /\ row[BlockOf(k)] \in Permuted
             /\ index(k) \in 0..(NArms - 1)
             /\ orders[k] = Rotation(list[BlockOf(k)], index(k))
  <2>1. k - 1 \in Nat /\ Repeats - 1 \in Nat /\ k - 1 <= Repeats - 1
    BY CampaignAssumption
  <2>2. /\ BlockOf(k) \in Nat /\ (k - 1) % NArms \in 0..(NArms - 1)
        /\ k - 1 = NArms * BlockOf(k) + ((k - 1) % NArms)
    <3> DEFINE c == k - 1
    <3> HIDE DEF c
    <3>1. c \in Nat
      BY <2>1 DEF c
    <3>2. /\ c \div NArms \in Nat /\ c % NArms \in 0..(NArms - 1)
          /\ c = NArms * (c \div NArms) + (c % NArms)
      BY <3>1, ArmsTyped, DivMod
    <3> QED BY <3>2 DEF BlockOf, c
  <2>3. slot(k) \in Places /\ slot(k) - 1 = (k - 1) % NArms
    BY <2>2, ArmsTyped
  <2>4. BlockOf(k) <= BlockOf(Repeats)
    BY <2>1, ArmsTyped, DivMonotone DEF BlockOf
  <2>5. list[BlockOf(k)] \in Lists /\ row[BlockOf(k)] \in Permuted
    BY <1>1, <2>2, <2>4
  <2> HIDE DEF slot
  <2>6. row[BlockOf(k)][slot(k)] \in 1..NArms
    BY <2>3, <2>5, ArmsTyped DEF Permuted
  <2>7. index(k) \in 0..(NArms - 1)
    BY <2>6, ArmsTyped
  <2>8. orders[k] = Rotation(list[BlockOf(k)], index(k))
    BY <1>1 DEF slot
  <2> HIDE DEF index
  <2> QED BY <2>2, <2>3, <2>5, <2>7, <2>8
<1> HIDE DEF index
<1>3. orders \in [1..Repeats -> [Places -> Arms]]
  <2>1. \A k \in 1..Repeats : orders[k] \in [Places -> Arms]
    BY <1>2, RotatedPlaces
  <2> QED BY <2>1, <1>1
<1>4. ASSUME NEW k \in 1..Repeats, NEW m \in 1..Repeats, NEW p \in Places,
             BlockOf(k) = BlockOf(m), orders[k][p] = orders[m][p]
      PROVE  k = m
  <2>1. index(k) = index(m)
    BY <1>2, <1>4, RotationsDiffer
  <2>2. row[BlockOf(k)][slot(k)] = row[BlockOf(k)][slot(m)]
    <3> HIDE DEF slot
    <3> DEFINE q == row[BlockOf(k)]
    <3>0. q \in [Places -> Places] /\ slot(k) \in Places /\ slot(m) \in Places
      BY <1>2 DEF Permuted
    <3> HIDE DEF q
    <3>1. q[slot(k)] \in 1..NArms /\ q[slot(m)] \in 1..NArms /\ NArms \in Nat
      BY <3>0, ArmsTyped
    <3>2. index(k) = q[slot(k)] - 1 /\ index(m) = q[slot(m)] - 1
      BY <1>4 DEF index, q
    <3> DEFINE u == q[slot(k)]
               v == q[slot(m)]
    <3>3. u = v
      <4>1. u \in Int /\ v \in Int
        BY <3>1
      <4>2. u - 1 = v - 1
        BY <2>1, <3>2
      <4> HIDE DEF u, v
      <4> QED BY <4>1, <4>2
    <3> QED BY <3>3 DEF q
  <2> HIDE DEF slot
  <2>3. slot(k) = slot(m)
    BY <2>2, <1>2, <1>4 DEF Permuted, IsInjective
  <2>4. k - 1 = m - 1
    BY <1>2, <1>4, <2>3
  <2> QED
    BY <2>4
<1> QED
  BY <1>3, <1>4 DEF Crossed

-----------------------------------------------------------------------------
(* Balance *)

\* Every whole block has every treatment at every place.
LEMMA WholeBlocks ==
  ASSUME NEW n \in Nat, n > 0, NEW orders, Crossed(n, orders), NEW b \in Nat, NArms * (b + 1) <= n,
         NEW x \in Arms, NEW p \in Places
  PROVE  \E k \in 1..n : BlockOf(k) = b /\ orders[k][p] = x
<1> DEFINE f == [i \in Places |-> orders[NArms * b + i][p]]
<1>1. ASSUME NEW i \in Places
      PROVE  NArms * b + i \in 1..n /\ BlockOf(NArms * b + i) = b
  <2>1. i - 1 \in 0..(NArms - 1)
    BY ArmsTyped
  <2>2. NArms * b \in Nat /\ NArms * (b + 1) = NArms * b + NArms
    BY ArmsTyped
  <2>3. NArms * b + i \in 1..n
    BY <2>1, <2>2, ArmsTyped
  <2>4. (NArms * b + (i - 1)) \div NArms = b
    BY <2>1, ArmsTyped, DivOf
  <2>5. (NArms * b + i) - 1 = NArms * b + (i - 1)
    BY <2>2, <2>1, ArmsTyped
  <2> QED
    BY <2>3, <2>4, <2>5 DEF BlockOf
<1>2. f \in [Places -> Arms]
  BY <1>1 DEF Crossed
<1>3. ASSUME NEW i \in Places, NEW j \in Places, f[i] = f[j] PROVE i = j
  <2>1. NArms * b + i = NArms * b + j
    <3>1. orders[NArms * b + i][p] = orders[NArms * b + j][p]
      BY <1>3
    <3> QED BY <1>1, <3>1 DEF Crossed
  <2>2. NArms * b \in Nat
    BY ArmsTyped
  <2> QED BY <2>1, <2>2, ArmsTyped
<1> HIDE DEF f
<1>4. f \in Injection(Places, Arms)
  BY <1>2, <1>3 DEF Injection, IsInjective
<1>5. f \in Surjection(Places, Arms)
  BY <1>4, ArmsCounted, FS_Injection
<1>6. PICK i \in Places : f[i] = x
  BY <1>5 DEF Surjection
<1> QED
  BY <1>1, <1>6 DEF f

\* A treatment has a place once in each whole block, and perhaps in the last.
LEMMA TimesOfBlocks ==
  ASSUME NEW n \in Nat, n > 0, NEW orders, Crossed(n, orders), NEW x \in Arms, NEW p \in Places
  PROVE  TimesAt(orders, x, p) \in (n \div NArms)..(BlockOf(n) + 1)
<1> DEFINE K == {k \in 1..n : orders[k][p] = x}
           last == BlockOf(n)
           whole == n \div NArms
           f == [k \in K |-> BlockOf(k)]
           g == [b \in 1..whole |-> CHOOSE k \in K : BlockOf(k) = b - 1]
<1>1. TimesAt(orders, x, p) = Cardinality(K) /\ IsFiniteSet(K)
  <2>1. DOMAIN orders = 1..n
    BY DEF Crossed
  <2>2. IsFiniteSet(1..n) /\ K \in SUBSET (1..n)
    BY FS_Interval
  <2> QED BY <2>1, <2>2, FS_Subset DEF TimesAt
<1>2. last \in Nat /\ whole \in Nat /\ NArms * whole <= n
  <2>1. n \in Nat /\ n - 1 \in Nat
    OBVIOUS
  <2>2. /\ n \div NArms \in Nat /\ n % NArms \in 0..(NArms - 1)
        /\ n = NArms * (n \div NArms) + (n % NArms)
    BY <2>1, ArmsTyped, DivMod
  <2>3. (n - 1) \div NArms \in Nat
    BY <2>1, ArmsTyped, DivMod
  <2> QED
    BY <2>1, <2>2, <2>3, ArmsTyped DEF BlockOf
<1>3. f \in Injection(K, 0..last)
  <2>1. ASSUME NEW k \in K PROVE BlockOf(k) \in 0..last
    <3>1. k - 1 \in Nat /\ n - 1 \in Nat /\ k - 1 <= n - 1
      OBVIOUS
    <3>2. (k - 1) \div NArms \in Nat
      BY <3>1, ArmsTyped, DivMod
    <3>3. BlockOf(k) <= last
      BY <3>1, ArmsTyped, DivMonotone DEF BlockOf
    <3> QED BY <3>2, <3>3, <1>2 DEF BlockOf
  <2>2. \A k, m \in K : f[k] = f[m] => k = m
    BY DEF Crossed
  <2> QED BY <2>1, <2>2 DEF Injection, IsInjective
<1>4. g \in Injection(1..whole, K)
  <2>1. ASSUME NEW b \in 1..whole PROVE g[b] \in K /\ BlockOf(g[b]) = b - 1
    <3>1. b - 1 \in Nat /\ (b - 1) + 1 = b
      BY <1>2
    <3>2. NArms * ((b - 1) + 1) <= n
      <4>1. NArms * b <= NArms * whole
        BY <1>2, ArmsTyped
      <4> QED BY <3>1, <4>1, <1>2, ArmsTyped
    <3>3. \E k \in 1..n : BlockOf(k) = b - 1 /\ orders[k][p] = x
      BY <3>1, <3>2, WholeBlocks
    <3>4. \E k \in K : BlockOf(k) = b - 1
      BY <3>3
    <3> HIDE DEF K
    <3> QED BY <3>4
  <2>2. \A b, c \in 1..whole : g[b] = g[c] => b = c
    <3> TAKE b, c \in 1..whole
    <3> HAVE g[b] = g[c]
    <3>1. b - 1 = c - 1
      BY <2>1
    <3> QED BY <3>1, <1>2
  <2> HIDE DEF K
  <2>3. g \in [1..whole -> K]
    BY <2>1
  <2> HIDE DEF g
  <2> QED BY <2>2, <2>3 DEF Injection, IsInjective
<1> HIDE DEF K, f, g, last, whole
<1>5. Cardinality(K) <= last + 1
  <2>1. IsFiniteSet(0..last) /\ Cardinality(0..last) = last + 1
    BY <1>2, FS_Interval
  <2> QED BY <1>3, <2>1, FS_Injection
<1>6. whole <= Cardinality(K)
  <2>1. Cardinality(1..whole) = whole
    BY <1>2, FS_Interval
  <2> QED BY <1>1, <1>4, <2>1, FS_Injection
<1>7. Cardinality(K) \in Nat
  BY <1>1, FS_CardinalityType
<1>8. TimesAt(orders, x, p) \in whole..(last + 1)
  BY <1>1, <1>2, <1>5, <1>6, <1>7
<1> QED
  BY <1>8 DEF whole, last

\* Two treatments have a place equally often, up to an unfinished block.
LEMMA CrossedIsBalanced ==
  ASSUME NEW n \in Nat, n > 0, NEW orders, Crossed(n, orders), NEW x \in Arms, NEW y \in Arms, NEW p \in Places
  PROVE  LET gap == TimesAt(orders, x, p) - TimesAt(orders, y, p)
         IN  gap \in -1..1 /\ (n % NArms = 0 => gap = 0)
<1> DEFINE last == BlockOf(n)
           whole == n \div NArms
           t == TimesAt(orders, x, p)
           u == TimesAt(orders, y, p)
<1>1. t \in whole..(last + 1) /\ u \in whole..(last + 1)
  BY TimesOfBlocks
<1>2. /\ whole \in Nat /\ last \in Nat /\ last <= whole
      /\ n % NArms = 0 => last + 1 = whole
  <2> DEFINE r == n % NArms
             s == (n - 1) % NArms
  <2>1. n \in Nat /\ n - 1 \in Nat /\ n - 1 <= n
    OBVIOUS
  <2>2. whole \in Nat /\ r \in 0..(NArms - 1) /\ n = NArms * whole + r
    BY <2>1, ArmsTyped, DivMod
  <2>3. last \in Nat /\ s \in 0..(NArms - 1) /\ n - 1 = NArms * last + s
    BY <2>1, ArmsTyped, DivMod DEF BlockOf
  <2>4. last <= whole
    BY <2>1, ArmsTyped, DivMonotone DEF BlockOf
  <2> HIDE DEF last, whole, r, s
  <2>5. ASSUME r = 0 PROVE last + 1 = whole
    <3>1. NArms * last + s = NArms * (whole - 1) + (NArms - 1)
      BY <2>1, <2>2, <2>3, <2>5, ArmsTyped
    <3>2. whole - 1 \in Nat
      <4>1. whole /= 0
        BY <2>2, <2>5, ArmsTyped
      <4> QED BY <4>1, <2>2
    <3>3. last = whole - 1
      <4> DEFINE v == whole - 1
                 m == NArms - 1
      <4>1. v \in Nat /\ m \in 0..(NArms - 1) /\ NArms * last + s = NArms * v + m
        BY <3>1, <3>2, ArmsTyped
      <4> HIDE DEF v, m
      <4>2. last = v
        BY <4>1, <2>3, ArmsTyped, SameQuotient
      <4> QED BY <4>2 DEF v
    <3> QED BY <3>3, <2>2
  <2> QED BY <2>2, <2>3, <2>4, <2>5 DEF r
<1> HIDE DEF last, whole
<1>3. t \in Int /\ u \in Int
  BY <1>1, <1>2
<1> HIDE DEF t, u
<1>4. t - u \in -1..1 /\ (n % NArms = 0 => t - u = 0)
  BY <1>1, <1>2, <1>3
<1> QED
  BY <1>4 DEF t, u

-----------------------------------------------------------------------------
(* The schedule that a study has drawn, and what of it has run *)

Drawn(j) ==
  /\ j.kind = "study" /\ j.at = "start" => j.rep = 1
  /\ j.kind = "study" /\ j.at \in {"arm", "turn", "write", "paired", "publish"} =>
       /\ j.orders \in Schedules(Repeats) /\ SeedsFound(j.orders) /\ j.rep \in 1..Repeats
       /\ \A k \in 1..Repeats :
            k < j.rep \/ j.at = "publish" => Executed(j.orders)[k] = j.orders[k]

ScheduleInv == \A a \in Attempts : job[a] \in Commands => Drawn(job[a])

\* What may become of the command of an attempt.
LEMMA CommandChanges ==
  ASSUME CampaignInv, [Next]_vars, NEW a \in Attempts
  PROVE  \/ job'[a] \in {job[a], None}
         \/ ledger[a].status = "RUNNING" /\ \E kind, r : job'[a] = Command(kind, r)
         \/ job[a] /= None /\ \E ok : job'[a] = Exited(job[a], ok)
         \/ StartStudy(a) \/ CreateArm(a) \/ RunArm(a) \/ FinishArm(a) \/ EndRepetition(a)
         \/ WriteTables(a) \/ Aggregate(a)
<1>0. job \in [Attempts -> Commands \cup {None}]
  BY DEF CampaignInv, TypeOK
<1>1. CASE UNCHANGED job
  BY <1>1
<1>2. CASE (\E thing \in Things : Drift(thing)) \/ Upgrade \/ Freezing \/ RetireFreeze
  BY <1>1, <1>2 DEF Drift, Upgrade, Freezing, BeginFreeze, ConfigureAndLock, PublishFreeze,
                    AbandonFreeze, RetireFreeze
<1>3. CASE \E o \in Operators :
             KillExecutor(o) \/ \E b \in Attempts : Preflight(o, b) \/ WriteReport(o, b)
  BY <1>1, <1>3 DEF KillExecutor, Preflight, WriteReport
<1>4. ASSUME NEW o \in Operators, ExecutorStep(o)
      PROVE  \/ job'[a] \in {job[a], None}
             \/ ledger[a].status = "RUNNING" /\ \E kind, r : job'[a] = Command(kind, r)
  <2>1. CASE ClaimAttempt(o) \/ OpenLedger(o) \/ Revalidate(o) \/ Return(o) \/ SealEvidence(o)
    BY <2>1, <1>1 DEF ClaimAttempt, OpenLedger, Revalidate, Return, SealEvidence
  <2>2. CASE SpawnStudy(o) \/ SpawnExport(o) \/ SpawnMeta(o)
    <3> DEFINE b == exec[o].attempt
    <3>1. \/ job' = [job EXCEPT ![b] = Command("study", Repo(o))]
          \/ job' = [job EXCEPT ![b] = Command("export", Repo(o))]
          \/ job' = [job EXCEPT ![b] = Command("meta", None)]
      BY <2>2 DEF SpawnStudy, SpawnExport, SpawnMeta
    <3>2. ledger[b].status = "RUNNING"
      BY <2>2, OwnerKnows DEF SpawnStudy, SpawnExport, SpawnMeta, Ended, Owns, Going, Knows
    <3> HIDE DEF b
    <3> QED BY <3>1, <3>2, <1>0
  <2>3. CASE RepositorySucceeded(o) \/ CloseLedger(o) \/ ExecutorRaises(o)
    <3>1. PICK b : job' = [job EXCEPT ![b] = None]
      BY <2>3 DEF RepositorySucceeded, CloseLedger, ExecutorRaises
    <3> QED BY <3>1, <1>0
  <2> QED BY <1>4, <2>1, <2>2, <2>3 DEF ExecutorStep
<1>5. ASSUME NEW o \in Operators, NEW both \in BOOLEAN, Interrupt(o, both)
      PROVE  job'[a] = job[a] \/ (job[a] /= None /\ \E ok : job'[a] = Exited(job[a], ok))
  <2>1. \/ job' = job
        \/ /\ job[exec[o].attempt] /= None
           /\ job' = [job EXCEPT ![exec[o].attempt] = Exited(job[exec[o].attempt], FALSE)]
    BY <1>5 DEF Interrupt, Live
  <2> QED BY <2>1, <1>0
<1>6. ASSUME NEW b \in Attempts, JobStep(b) \/ KillJob(b)
      PROVE  \/ job'[a] = job[a]
             \/ job[a] /= None /\ \E ok : job'[a] = Exited(job[a], ok)
             \/ StartStudy(a) \/ CreateArm(a) \/ RunArm(a) \/ FinishArm(a) \/ EndRepetition(a)
             \/ WriteTables(a) \/ Aggregate(a)
  <2>1. CASE Publish(b)
    BY <2>1, <1>1 DEF Publish
  <2>2. CASE \/ SeedsMissing(b) \/ RefuseStudy(b) \/ EndStudy(b) \/ StudyRaises(b)
             \/ WriteExportManifest(b) \/ WriteMetaManifest(b) \/ OfflineRaises(b) \/ KillJob(b)
    <3>1. PICK ok : job' = [job EXCEPT ![b] = Exited(job[b], ok)]
      BY <2>2 DEF SeedsMissing, RefuseStudy, EndStudy, StudyRaises, WriteExportManifest,
                  WriteMetaManifest, OfflineRaises, KillJob
    <3>2. job[b] /= None
      BY <2>2 DEF SeedsMissing, RefuseStudy, EndStudy, StudyRaises, WriteExportManifest,
                  WriteMetaManifest, OfflineRaises, KillJob, Studying, Running, Live
    <3> QED BY <3>1, <3>2, <1>0
  <2>3. CASE \/ StartStudy(b) \/ CreateArm(b) \/ RunArm(b) \/ FinishArm(b) \/ EndRepetition(b)
             \/ WriteTables(b) \/ Aggregate(b)
    <3>1. CASE a = b
      BY <2>3, <3>1
    <3>2. CASE a /= b
      <4>1. \E i : job' = [job EXCEPT ![b] = i]
        <5>1. CASE StartStudy(b)
          <6>1. PICK orders : job' = [job EXCEPT ![b].at = "arm", ![b].orders = orders]
            BY <5>1 DEF StartStudy
          <6>2. job' = [job EXCEPT ![b] = [job[b] EXCEPT !.at = "arm", !.orders = orders]]
            BY <6>1
          <6> QED BY <6>2
        <5>2. CASE FinishArm(b) \/ EndRepetition(b)
          BY <5>2 DEF FinishArm, EndRepetition
        <5>3. CASE CreateArm(b) \/ RunArm(b) \/ WriteTables(b) \/ Aggregate(b)
          BY <5>3 DEF CreateArm, RunArm, WriteTables, Aggregate
        <5> QED BY <2>3, <5>1, <5>2, <5>3
      <4> QED BY <3>2, <4>1, <1>0
    <3> QED BY <3>1, <3>2
  <2> QED BY <1>6, <2>1, <2>2, <2>3 DEF JobStep
<1>7. CASE UNCHANGED vars
  BY <1>1, <1>7 DEF vars
<1> QED
  BY <1>2, <1>3, <1>4, <1>5, <1>6, <1>7 DEF Next

LEMMA InitSchedule == Init => ScheduleInv
<1> SUFFICES ASSUME Init, NEW a \in Attempts PROVE job[a] \notin Commands
  BY DEF ScheduleInv
<1> QED BY NoneIsNoCommand DEF Init

LEMMA NextSchedule ==
  CampaignInv /\ ScheduleInv /\ [Next]_vars => ScheduleInv'
<1> SUFFICES ASSUME CampaignInv, ScheduleInv, [Next]_vars,
                    NEW a \in Attempts, job'[a] \in Commands
             PROVE  Drawn(job'[a])
  BY DEF ScheduleInv
<1> DEFINE j == job[a]
           i == job'[a]
<1>0. job \in [Attempts -> Commands \cup {None}]
  BY DEF CampaignInv, TypeOK
<1>1. CASE i \in {j, None}
  BY <1>1, NoneIsNoCommand DEF ScheduleInv
<1>2. CASE \E kind, r : i = Command(kind, r)
  BY <1>2 DEF Command, Drawn
<1>3. CASE j /= None /\ \E ok : i = Exited(j, ok)
  <2>1. PICK ok : i = Exited(j, ok)
    BY <1>3
  <2>2. i.at = "exited"
    BY <2>1 DEF Exited, Command
  <2> QED BY <2>2 DEF Drawn
<1>4. CASE StartStudy(a)
  <2>1. PICK orders \in Schedules(Repeats) :
          SeedsFound(orders) /\ job' = [job EXCEPT ![a].at = "arm", ![a].orders = orders]
    BY <1>4 DEF StartStudy
  <2>2. j \in Commands /\ j.kind = "study" /\ j.at = "start" /\ j.rep = 1
    BY <1>4, <1>0 DEF StartStudy, Studying, ScheduleInv, Drawn
  <2>3. i = [j EXCEPT !.at = "arm", !.orders = orders]
    BY <2>1, <1>0
  <2>4. i.at = "arm" /\ i.orders = orders /\ i.rep = 1
    BY <2>2, <2>3 DEF Commands
  <2> HIDE DEF i, j
  <2>5. i.rep \in 1..Repeats /\ \A k \in 1..Repeats : ~(k < i.rep)
    BY <2>4, CampaignAssumption
  <2>6. Drawn(i)
    BY <2>1, <2>4, <2>5 DEF Drawn
  <2> QED BY <2>6 DEF i
<1>5. CASE CreateArm(a) \/ RunArm(a) \/ FinishArm(a)
  <2>1. /\ j \in Commands /\ j.kind = "study" /\ j.at \in {"arm", "turn", "write"}
        /\ Drawn(j)
    BY <1>5, <1>0 DEF CreateArm, RunArm, FinishArm, Studying, ScheduleInv
  <2>2. PICK at \in {"arm", "turn", "write", "paired"} :
          \E slot : i = [j EXCEPT !.at = at, !.slot = slot]
    <3>1. CASE CreateArm(a)
      <4>1. i = [j EXCEPT !.at = "turn"]
        BY <3>1, <1>0 DEF CreateArm
      <4>2. i = [j EXCEPT !.at = "turn", !.slot = j.slot]
        BY <2>1, <4>1 DEF Commands
      <4> QED BY <4>2
    <3>2. CASE RunArm(a)
      <4>1. i = [j EXCEPT !.at = "write"]
        BY <3>2, <1>0 DEF RunArm
      <4>2. i = [j EXCEPT !.at = "write", !.slot = j.slot]
        BY <2>1, <4>1 DEF Commands
      <4> QED BY <4>2
    <3>3. CASE FinishArm(a)
      BY <3>3, <1>0 DEF FinishArm
    <3> QED BY <1>5, <3>1, <3>2, <3>3
  <2>3. i.orders = j.orders /\ i.rep = j.rep /\ i.at = at
    BY <2>1, <2>2 DEF Commands
  <2> QED BY <2>1, <2>3 DEF Drawn
<1>6. CASE EndRepetition(a)
  <2>1. /\ j \in Commands /\ j.kind = "study" /\ j.at = "paired" /\ Drawn(j)
        /\ Executed(j.orders)[j.rep] = j.orders[j.rep]
    BY <1>6, <1>0 DEF EndRepetition, Studying, ScheduleInv
  <2>2. i = [j EXCEPT !.at = IF j.rep = Repeats THEN "publish" ELSE "arm",
                      !.rep = IF j.rep = Repeats THEN j.rep ELSE j.rep + 1]
    BY <1>6, <1>0 DEF EndRepetition
  <2>3. /\ i.orders = j.orders /\ i.at = (IF j.rep = Repeats THEN "publish" ELSE "arm")
        /\ i.rep = (IF j.rep = Repeats THEN j.rep ELSE j.rep + 1)
    BY <2>1, <2>2 DEF Commands
  <2>4. /\ j.orders \in Schedules(Repeats) /\ SeedsFound(j.orders) /\ j.rep \in 1..Repeats
        /\ \A k \in 1..Repeats : k < j.rep => Executed(j.orders)[k] = j.orders[k]
    BY <2>1 DEF Drawn
  <2> HIDE DEF i, j
  <2>5. i.rep \in 1..Repeats
    BY <2>3, <2>4, CampaignAssumption
  <2>6. ASSUME NEW k \in 1..Repeats, k < i.rep \/ i.at = "publish"
        PROVE  Executed(i.orders)[k] = i.orders[k]
    <3>1. k < j.rep \/ k = j.rep
      BY <2>3, <2>4, <2>6, CampaignAssumption
    <3> QED BY <3>1, <2>1, <2>3, <2>4
  <2>7. i.at \in {"publish", "arm"}
    BY <2>3
  <2>8. Drawn(i)
    BY <2>3, <2>4, <2>5, <2>6, <2>7 DEF Drawn
  <2> QED BY <2>8 DEF i
<1>7. CASE WriteTables(a) \/ Aggregate(a)
  <2>1. j \in Commands /\ j.kind \in {"export", "meta"} /\ i = [j EXCEPT !.at = "manifest"]
    BY <1>7, <1>0 DEF WriteTables, Aggregate, Running
  <2>2. i.kind \in {"export", "meta"}
    BY <2>1 DEF Commands
  <2> QED BY <2>2 DEF Drawn
<1> QED
  BY <1>1, <1>2, <1>3, <1>4, <1>5, <1>6, <1>7, CommandChanges

\* In every first part of a study, every treatment ran as often as every other
\* at every place, up to an unfinished block, and no two repetitions share a seed.
THEOREM OrdersBalance == Spec => []OrdersAreBalanced
<1>1. CampaignInv /\ ScheduleInv => OrdersAreBalanced
  <2> SUFFICES ASSUME CampaignInv, ScheduleInv, NEW a \in Attempts, Studying(a, "publish")
               PROVE  LET ran == Executed(job[a].orders)
                          seeds == SeedSchedule(job[a].orders)
                      IN  /\ \A n \in 1..Repeats, x, y \in Arms, p \in Places :
                               LET first == [k \in 1..n |-> ran[k]]
                                   gap == TimesAt(first, x, p) - TimesAt(first, y, p)
                               IN  gap \in -1..1 /\ (n % NArms = 0 => gap = 0)
                          /\ IsInjective(seeds)
    BY DEF OrdersAreBalanced, Arms
  <2> DEFINE orders == job[a].orders
  <2>1. /\ orders \in Schedules(Repeats) /\ SeedsFound(orders)
        /\ \A k \in 1..Repeats : Executed(orders)[k] = orders[k]
    <3>1. job[a] \in Commands
      BY DEF Studying, CampaignInv, TypeOK
    <3>2. Drawn(job[a])
      BY <3>1 DEF ScheduleInv
    <3> QED BY <3>2 DEF Drawn, Studying
  <2> HIDE DEF orders
  <2>2. Crossed(Repeats, orders)
    BY <2>1, ScheduleCrossed
  <2>3. Executed(orders) = orders
    <3>1. /\ orders = [k \in 1..Repeats |-> orders[k]]
          /\ Executed(orders) = [k \in 1..Repeats |-> Executed(orders)[k]]
      BY <2>2 DEF Crossed, Executed
    <3> HIDE DEF Executed
    <3>2. [k \in 1..Repeats |-> Executed(orders)[k]] = [k \in 1..Repeats |-> orders[k]]
      BY <2>1
    <3> QED BY <3>1, <3>2
  <2>4. IsInjective(SeedSchedule(orders))
    <3>1. DOMAIN orders = 1..Repeats
      BY <2>2 DEF Crossed
    <3> QED BY <3>1, <2>1, SeedsApart, CampaignAssumption
  <2>5. ASSUME NEW n \in 1..Repeats, NEW x \in Arms, NEW y \in Arms, NEW p \in Places
        PROVE  LET first == [k \in 1..n |-> orders[k]]
                   gap == TimesAt(first, x, p) - TimesAt(first, y, p)
               IN  gap \in -1..1 /\ (n % NArms = 0 => gap = 0)
    <3> DEFINE first == [k \in 1..n |-> orders[k]]
    <3>1. Crossed(n, first)
      BY <2>2, CampaignAssumption DEF Crossed
    <3>2. n \in Nat /\ n > 0
      BY CampaignAssumption
    <3> HIDE DEF first
    <3>3. LET gap == TimesAt(first, x, p) - TimesAt(first, y, p)
          IN  gap \in -1..1 /\ (n % NArms = 0 => gap = 0)
      BY <3>1, <3>2, CrossedIsBalanced
    <3> QED BY <3>3 DEF first
  <2> QED BY <2>3, <2>4, <2>5 DEF orders
<1> QED
  BY <1>1, InitSchedule, NextSchedule, CampaignInvariance, PTL DEF Spec

-----------------------------------------------------------------------------
(* The effect of a meta-study, and the claim that is read from it *)

\* An estimate and an interval, which need not hold it.
Interval(e) ==
  /\ e.repos \in Nat /\ e.mean \in Int /\ e.lower \in Int /\ e.upper \in Int
  /\ e.lower <= e.upper

\* The effects with n repositories and an estimate.
Around(n, total) ==
  LET Effect(l, u) == [repos |-> n, mean |-> total, lower |-> l, upper |-> u]
  IN  IF n <= 1 THEN {Effect(total, total)}
      ELSE {e \in {Effect(l, u) : l \in -n..n, u \in -n..n} : e.lower <= e.upper}

LEMMA EffectsAreIntervals ==
  ASSUME NEW n \in Nat, NEW means \in [1..n -> -1..1],
         NEW effect \in HierarchicalMetrics(means)
  PROVE  Interval(effect)
<1> DEFINE total == Total(means)
<1>1. total \in Int
  <2>1. means \in [1..n -> Int]
    OBVIOUS
  <2> QED BY <2>1, TotalIsNumber DEF Total
<1>2. effect \in Around(n, total)
  <2>1. HierarchicalMetrics(means) = Around(Len(means), total)
    BY DEF HierarchicalMetrics, Around
  <2>2. Len(means) = n
    OBVIOUS
  <2> HIDE DEF total
  <2> QED BY <2>1, <2>2
<1> HIDE DEF total
<1>3. CASE n <= 1
  BY <1>1, <1>2, <1>3 DEF Around, Interval
<1>4. CASE ~(n <= 1)
  <2>1. PICK l \in -n..n, u \in -n..n :
          /\ effect = [repos |-> n, mean |-> total, lower |-> l, upper |-> u]
          /\ effect.lower <= effect.upper
    BY <1>2, <1>4 DEF Around
  <2> QED BY <1>1, <2>1 DEF Interval
<1> QED
  BY <1>3, <1>4

\* Where the comparator sorts first, the effect changes sign and its ends
\* change places; where B7 does, it stays.
LEMMA ClaimIsOriented ==
  ASSUME NEW e, Interval(e), NEW higher \in BOOLEAN
  PROVE  LET below == e.repos > 0 /\ e.upper < 0
             above == e.repos > 0 /\ e.lower > 0
             B7Higher == IF SortedArms[1] = B7 THEN above ELSE below
             B7Lower == IF SortedArms[1] = B7 THEN below ELSE above
             good == IF higher THEN B7Higher ELSE B7Lower
             bad == IF higher THEN B7Lower ELSE B7Higher
             claim == OrientMetric(SortedArms[1], e, higher)
         IN  /\ claim \in {"favors_B7", "favors_comparator"} <=> below \/ above
             /\ e.lower <= e.mean /\ e.mean <= e.upper =>
                  /\ claim = "favors_B7" <=> good
                  /\ claim = "favors_comparator" <=> bad
<1> DEFINE Claim(mean, lower, upper) ==
             IF e.repos = 0 THEN "unobserved"
             ELSE IF lower <= 0 /\ 0 <= upper THEN "uncertain"
             ELSE IF (higher /\ mean > 0) \/ (~higher /\ mean < 0) THEN "favors_B7"
             ELSE "favors_comparator"
           sign == IF SortedArms[1] = B7 THEN 1 ELSE -1
           mean == sign * e.mean
           lower == IF sign > 0 THEN e.lower ELSE -e.upper
           upper == IF sign > 0 THEN e.upper ELSE -e.lower
<1>1. /\ e.repos \in Nat /\ e.mean \in Int /\ e.lower \in Int /\ e.upper \in Int
      /\ e.lower <= e.upper
  BY DEF Interval
<1>2. OrientMetric(SortedArms[1], e, higher) = Claim(mean, lower, upper)
  BY DEF OrientMetric
<1>3. CASE SortedArms[1] = B7
  <2>1. sign = 1
    BY <1>3
  <2> HIDE DEF sign
  <2>2. mean = e.mean /\ lower = e.lower /\ upper = e.upper
    BY <1>1, <2>1
  <2> HIDE DEF mean, lower, upper
  <2> QED BY <1>1, <1>2, <1>3, <2>2
<1>4. CASE SortedArms[1] /= B7
  <2>1. sign = -1
    BY <1>4
  <2> HIDE DEF sign
  <2>2. mean = -e.mean /\ lower = -e.upper /\ upper = -e.lower
    BY <1>1, <2>1
  <2> HIDE DEF mean, lower, upper
  <2> QED BY <1>1, <1>2, <1>4, <2>2
<1> QED
  BY <1>3, <1>4

\* What the last two stages of an attempt know.
Oriented(a) ==
  /\ meta[a].files /= "none" => Interval(meta[a].effect)
  /\ job[a] \in Commands /\ job[a].kind = "meta" /\ job[a].at = "manifest" =>
       Interval(meta[a].effect)
  /\ evidence[a].files /= "none" =>
       /\ ledger[a].status \in {"SUCCEEDED", "FAILED"} /\ job[a] = None
       /\ meta[a].files /= "none" /\ evidence[a].higher \in BOOLEAN
       /\ evidence[a].claim
            = OrientMetric(SortedArms[1], meta[a].effect, evidence[a].higher)

ClaimInv ==
  /\ \A a \in Attempts : Oriented(a)
  /\ \A o \in Operators : exec[o].at = "report" =>
       exec[o].attempt \in Attempts /\ evidence[exec[o].attempt].files /= "none"

LEMMA InitClaims == Init => ClaimInv
<1> SUFFICES ASSUME Init PROVE ClaimInv
  OBVIOUS
<1>1. ASSUME NEW a \in Attempts PROVE Oriented(a)
  BY NoneIsNoCommand DEF Init, Oriented, NoMeta, NoEvidence
<1>2. ASSUME NEW o \in Operators PROVE exec[o].at /= "report"
  BY DEF Init, Idle
<1> QED
  BY <1>1, <1>2 DEF ClaimInv

\* Who writes the evidence, and who the meta-study.
LEMMA EvidenceChanges ==
  ASSUME CampaignInv, [Next]_vars
  PROVE  \/ /\ evidence' = evidence
            /\ \A o \in Operators : exec'[o].at = "report" => exec'[o] = exec[o]
         \/ \E o \in Operators : SealEvidence(o) \/ \E a \in Attempts : WriteReport(o, a)
<1>0. exec \in [Operators -> Executors]
  BY DEF CampaignInv, TypeOK
<1>1. CASE UNCHANGED <<exec, evidence>>
  BY <1>1
<1>2. CASE (\E thing \in Things : Drift(thing)) \/ Upgrade \/ Freezing \/ RetireFreeze
  BY <1>1, <1>2 DEF Drift, Upgrade, Freezing, BeginFreeze, ConfigureAndLock, PublishFreeze,
                    AbandonFreeze, RetireFreeze
<1>3. ASSUME NEW o \in Operators,
             \/ ExecutorStep(o) /\ ~SealEvidence(o)
             \/ KillExecutor(o) \/ (\E both \in BOOLEAN : Interrupt(o, both))
             \/ \E a \in Attempts : Preflight(o, a)
      PROVE  /\ evidence' = evidence
             /\ \E e : exec' = [exec EXCEPT ![o] = e] /\ e.at /= "report"
  <2>0. Idle.at = "idle"
    BY DEF Idle
  <2>1. CASE KillExecutor(o) \/ \E both \in BOOLEAN : Interrupt(o, both)
    <3>1. exec' = [exec EXCEPT ![o] = Idle] /\ evidence' = evidence
      BY <2>1 DEF KillExecutor, Interrupt
    <3> QED BY <2>0, <3>1
  <2>2. CASE \E a \in Attempts : Preflight(o, a)
    <3>1. PICK a \in Attempts : Preflight(o, a)
      BY <2>2
    <3> DEFINE e == [Idle EXCEPT !.at = "ready", !.attempt = a, !.manifest = frozen.version]
    <3>2. e.at = "ready" /\ exec' = [exec EXCEPT ![o] = e] /\ evidence' = evidence
      BY <3>1 DEF Preflight, Idle
    <3> HIDE DEF e
    <3> QED BY <3>2
  <2>3. CASE ClaimAttempt(o)
    <3> DEFINE e == [exec[o] EXCEPT !.at = "claimed", !.plans = frozen.version]
    <3>1. e.at = "claimed"
      BY <1>0 DEF Executors
    <3>2. (exec' = [exec EXCEPT ![o] = e] \/ exec' = [exec EXCEPT ![o] = Idle]) /\ evidence' = evidence
      BY <2>3 DEF ClaimAttempt
    <3> HIDE DEF e
    <3> QED BY <3>1, <3>2 DEF Idle
  <2>4. CASE OpenLedger(o)
    <3> DEFINE e == [exec[o] EXCEPT !.at = "next", !.next = 1]
    <3>1. e.at = "next" /\ exec' = [exec EXCEPT ![o] = e] /\ evidence' = evidence
      BY <1>0, <2>4 DEF Executors, OpenLedger
    <3> HIDE DEF e
    <3> QED BY <3>1
  <2>5. CASE RepositorySucceeded(o)
    <3> DEFINE e == [exec[o] EXCEPT !.at = "next", !.next = @ + 1]
    <3>1. e.at = "next" /\ exec' = [exec EXCEPT ![o] = e] /\ evidence' = evidence
      BY <1>0, <2>5 DEF Executors, RepositorySucceeded
    <3> HIDE DEF e
    <3> QED BY <3>1
  <2>6. CASE Revalidate(o) \/ SpawnStudy(o) \/ SpawnExport(o) \/ SpawnMeta(o) \/ CloseLedger(o)
    <3>1. PICK at \in {"spawn", "study", "export", "meta", "closing"} :
            exec' = [exec EXCEPT ![o].at = at] /\ evidence' = evidence
      BY <2>6 DEF Revalidate, SpawnStudy, SpawnExport, SpawnMeta, CloseLedger
    <3> DEFINE e == [exec[o] EXCEPT !.at = at]
    <3>2. e.at = at /\ exec' = [exec EXCEPT ![o] = e]
      BY <1>0, <3>1 DEF Executors
    <3> HIDE DEF e
    <3> QED BY <3>1, <3>2
  <2>7. CASE Return(o) \/ ExecutorRaises(o)
    <3>1. exec' = [exec EXCEPT ![o] = Idle] /\ evidence' = evidence
      BY <2>7 DEF Return, ExecutorRaises
    <3> QED BY <2>0, <3>1
  <2> QED
    BY <1>3, <2>1, <2>2, <2>3, <2>4, <2>5, <2>6, <2>7 DEF ExecutorStep
<1>4. CASE \E a \in Attempts : JobStep(a) \/ KillJob(a)
  <2>1. UNCHANGED <<exec, evidence>>
    BY <1>4 DEF JobStep, StartStudy, SeedsMissing, RefuseStudy, CreateArm, RunArm, FinishArm,
                EndRepetition, Publish, EndStudy, StudyRaises, WriteTables, WriteExportManifest,
                Aggregate, WriteMetaManifest, OfflineRaises, KillJob, Rest, MetaRest
  <2> QED BY <1>1, <2>1
<1>5. CASE UNCHANGED vars
  BY <1>1, <1>5 DEF vars
<1>6. ASSUME NEW o \in Operators,
             \/ ExecutorStep(o) /\ ~SealEvidence(o)
             \/ KillExecutor(o) \/ (\E both \in BOOLEAN : Interrupt(o, both))
             \/ \E a \in Attempts : Preflight(o, a)
      PROVE  /\ evidence' = evidence
             /\ \A p \in Operators : exec'[p].at = "report" => exec'[p] = exec[p]
  BY <1>0, <1>3, <1>6
<1> QED
  BY <1>1, <1>2, <1>4, <1>5, <1>6 DEF Next, ExecutorStep

\* The effect of an attempt changes when its meta-study is aggregated.
LEMMA EffectChanges ==
  ASSUME CampaignInv, [Next]_vars, NEW a \in Attempts
  PROVE  \/ meta'[a] = meta[a]
         \/ WriteMetaManifest(a) \/ Aggregate(a)
<1>1. CASE meta' = meta
  BY <1>1
<1>2. CASE (\E thing \in Things : Drift(thing)) \/ Upgrade \/ Freezing \/ RetireFreeze
  BY <1>1, <1>2 DEF Drift, Upgrade, Freezing, BeginFreeze, ConfigureAndLock, PublishFreeze,
                    AbandonFreeze, RetireFreeze, artifacts
<1>3. CASE \E o \in Operators :
             \/ ExecutorStep(o) \/ KillExecutor(o)
             \/ \E both \in BOOLEAN : Interrupt(o, both)
             \/ \E b \in Attempts : Preflight(o, b) \/ WriteReport(o, b)
  BY <1>1, <1>3 DEF ExecutorStep, ClaimAttempt, OpenLedger, Revalidate, SpawnStudy, SpawnExport,
                    RepositorySucceeded, SpawnMeta, CloseLedger, Return, ExecutorRaises,
                    SealEvidence, KillExecutor, Interrupt, Preflight, WriteReport, artifacts
<1>4. ASSUME NEW b \in Attempts, JobStep(b) \/ KillJob(b)
      PROVE  \/ meta'[a] = meta[a]
             \/ WriteMetaManifest(a) \/ Aggregate(a)
  <2>1. CASE WriteMetaManifest(b) \/ Aggregate(b)
    BY <2>1 DEF WriteMetaManifest, Aggregate, CampaignInv, TypeOK
  <2>2. CASE ~(WriteMetaManifest(b) \/ Aggregate(b))
    BY <1>1, <1>4, <2>2
    DEF JobStep, StartStudy, SeedsMissing, RefuseStudy, CreateArm, RunArm, FinishArm,
        EndRepetition, Publish, EndStudy, StudyRaises, WriteTables, WriteExportManifest,
        OfflineRaises, KillJob, Rest, MetaRest, artifacts
  <2> QED BY <2>1, <2>2
<1>5. CASE UNCHANGED vars
  BY <1>1, <1>5 DEF vars, artifacts
<1> QED
  BY <1>2, <1>3, <1>4, <1>5 DEF Next

\* The meta-study records an effect.
LEMMA AggregatedEffect ==
  ASSUME CampaignInv, NEW a \in Attempts, Aggregate(a)
  PROVE  Interval(meta'[a].effect)
<1>1. PICK n \in 0..NRepos : \E means \in [1..n -> -1..1] :
        \E effect \in HierarchicalMetrics(means) :
          meta' = [meta EXCEPT ![a] = [files |-> "part", plan |-> frozen.version,
                                       effect |-> effect]]
  BY DEF Aggregate
<1>6. PICK means \in [1..n -> -1..1] :
        \E effect \in HierarchicalMetrics(means) :
          meta' = [meta EXCEPT ![a] = [files |-> "part", plan |-> frozen.version,
                                       effect |-> effect]]
  BY <1>1
<1>2. PICK effect \in HierarchicalMetrics(means) :
        meta' = [meta EXCEPT ![a] = [files |-> "part", plan |-> frozen.version,
                                     effect |-> effect]]
  BY <1>6
<1>3. n \in Nat
  BY RepoNames
<1>4. Interval(effect)
  BY <1>3, EffectsAreIntervals
<1>5. meta'[a].effect = effect
  BY <1>2 DEF CampaignInv, TypeOK
<1> QED
  BY <1>4, <1>5

LEMMA NextClaims ==
  CampaignInv /\ ClaimInv /\ [Next]_vars => ClaimInv'
<1> SUFFICES ASSUME CampaignInv, ClaimInv, [Next]_vars PROVE ClaimInv'
  OBVIOUS
<1>0. /\ exec \in [Operators -> Executors] /\ meta \in [Attempts -> Metas]
      /\ job \in [Attempts -> Commands \cup {None}]
      /\ evidence \in [Attempts -> [files : {"none", "part", "whole"}, higher : BOOLEAN,
                                    claim : Claims \cup {None}]]
  BY DEF CampaignInv, TypeOK
<1>1. ASSUME NEW a \in Attempts
      PROVE  /\ meta'[a].files /= "none" => Interval(meta'[a].effect)
             /\ job'[a] \in Commands /\ job'[a].kind = "meta" /\ job'[a].at = "manifest" =>
                  Interval(meta'[a].effect)
  <2>0. Oriented(a)
    BY DEF ClaimInv
  <2>1. CASE Aggregate(a)
    BY <2>1, AggregatedEffect
  <2>2. CASE WriteMetaManifest(a)
    <3>1. job[a] \in Commands /\ job[a].kind = "meta" /\ job[a].at = "manifest"
      BY <1>0, <2>2 DEF WriteMetaManifest, Running
    <3>2. meta'[a].effect = meta[a].effect
      BY <1>0, <2>2 DEF WriteMetaManifest, Metas
    <3> QED BY <2>0, <3>1, <3>2 DEF Oriented
  <2>3. CASE meta'[a] = meta[a] /\ ~Aggregate(a)
    <3>1. ASSUME job'[a] \in Commands, job'[a].kind = "meta", job'[a].at = "manifest"
          PROVE  job'[a] = job[a]
      <4>1. CASE job'[a] \in {job[a], None}
        BY <3>1, <4>1, NoneIsNoCommand
      <4>2. CASE \E kind, r : job'[a] = Command(kind, r)
        BY <3>1, <4>2 DEF Command
      <4>3. CASE \E ok : job'[a] = Exited(job[a], ok)
        BY <3>1, <4>3 DEF Exited, Command
      <4>4. CASE \/ StartStudy(a) \/ CreateArm(a) \/ RunArm(a) \/ FinishArm(a) \/ EndRepetition(a)
                 \/ WriteTables(a)
        <5>1. job[a] \in Commands /\ job[a].kind \in {"study", "export"}
          BY <4>4, <1>0 DEF StartStudy, CreateArm, RunArm, FinishArm, EndRepetition, WriteTables,
                            Studying, Running
        <5>2. job'[a].kind = job[a].kind
          <6>1. CASE StartStudy(a)
            <7>1. PICK orders : job' = [job EXCEPT ![a].at = "arm", ![a].orders = orders]
              BY <6>1 DEF StartStudy
            <7> QED BY <7>1, <5>1, <1>0 DEF Commands
          <6>2. CASE CreateArm(a) \/ RunArm(a) \/ WriteTables(a)
            BY <6>2, <5>1, <1>0 DEF CreateArm, RunArm, WriteTables, Commands
          <6>3. CASE FinishArm(a) \/ EndRepetition(a)
            BY <6>3, <5>1, <1>0 DEF FinishArm, EndRepetition, Commands
          <6> QED BY <4>4, <6>1, <6>2, <6>3
        <5> QED BY <3>1, <5>1, <5>2
      <4> QED BY <2>3, <4>1, <4>2, <4>3, <4>4, CommandChanges
    <3> QED BY <2>0, <2>3, <3>1 DEF Oriented
  <2> QED BY <2>1, <2>2, <2>3, EffectChanges
<1>2. ASSUME NEW a \in Attempts, ledger[a].status \in {"SUCCEEDED", "FAILED"}, job[a] = None
      PROVE  /\ ledger'[a].status \in {"SUCCEEDED", "FAILED"} /\ job'[a] = None
             /\ meta'[a] = meta[a]
  <2>1. ledger'[a] = ledger[a] \/ ledger'[a] = Failed(ledger[a])
    BY <1>2, StepIsFinal DEF Final
  <2>2. ledger[a] \in Ledgers
    BY DEF CampaignInv, TypeOK
  <2>3. Failed(ledger[a]).status = "FAILED"
    BY <2>2 DEF Failed, Ledgers
  <2>4. meta'[a] = meta[a]
    BY <1>2, EffectChanges DEF Aggregate, WriteMetaManifest, Running
  <2>5. job'[a] = None
    BY <1>2, CommandChanges DEF StartStudy, CreateArm, RunArm, FinishArm, EndRepetition,
                                WriteTables, Aggregate, Studying, Running
  <2> QED BY <1>2, <2>1, <2>3, <2>4, <2>5
<1>3. CASE /\ evidence' = evidence
           /\ \A o \in Operators : exec'[o].at = "report" => exec'[o] = exec[o]
  <2>1. ASSUME NEW a \in Attempts PROVE Oriented(a)'
    <3>1. Oriented(a)
      BY DEF ClaimInv
    <3> QED BY <1>1, <1>2, <1>3, <3>1 DEF Oriented
  <2> QED BY <2>1, <1>3 DEF ClaimInv
<1>4. ASSUME NEW o \in Operators, SealEvidence(o) PROVE ClaimInv'
  <2> DEFINE b == exec[o].attempt
             n == [evidence[b] EXCEPT !.files = "whole"]
  <2>1. b \in Attempts /\ evidence[b].files /= "none" /\ Oriented(b)
    BY <1>4 DEF SealEvidence, ClaimInv
  <2>2. n.files = "whole" /\ n.higher = evidence[b].higher /\ n.claim = evidence[b].claim
    BY <1>0, <2>1
  <2>3. evidence' = [evidence EXCEPT ![b] = n]
    BY <1>4 DEF SealEvidence
  <2>4. \A p \in Operators : exec'[p].at = "report" => exec'[p] = exec[p]
    BY <1>0, <1>4 DEF SealEvidence, Idle
  <2> HIDE DEF n
  <2>5. ASSUME NEW a \in Attempts
        PROVE  /\ evidence'[a].files /= "none" => evidence[a].files /= "none"
               /\ evidence[a].files /= "none" => evidence'[a].files /= "none"
               /\ evidence'[a].higher = evidence[a].higher
               /\ evidence'[a].claim = evidence[a].claim
    BY <1>0, <2>1, <2>2, <2>3
  <2>6. ASSUME NEW a \in Attempts PROVE Oriented(a)'
    <3>1. Oriented(a)
      BY DEF ClaimInv
    <3> QED BY <1>1, <1>2, <2>5, <3>1 DEF Oriented
  <2> QED BY <2>4, <2>5, <2>6 DEF ClaimInv
<1>5. ASSUME NEW o \in Operators, NEW b \in Attempts, WriteReport(o, b) PROVE ClaimInv'
  <2>1. PICK higher \in BOOLEAN : evidence' = [evidence EXCEPT ![b] =
          [files |-> "part", higher |-> higher,
           claim |-> OrientMetric(SortedArms[1], meta[b].effect, higher)]]
    BY <1>5 DEF WriteReport
  <2> DEFINE n == [files |-> "part", higher |-> higher,
                   claim |-> OrientMetric(SortedArms[1], meta[b].effect, higher)]
             e == [Idle EXCEPT !.at = "report", !.attempt = b]
  <2>2. /\ evidence' = [evidence EXCEPT ![b] = n] /\ n.files = "part" /\ n.higher = higher
        /\ n.claim = OrientMetric(SortedArms[1], meta[b].effect, higher)
    BY <2>1
  <2>3. exec' = [exec EXCEPT ![o] = e] /\ e.attempt = b
    BY <1>5 DEF WriteReport, Idle
  <2>4. /\ ledger[b].status = "SUCCEEDED" /\ job[b] = None /\ meta[b].files /= "none"
        /\ ledger' = ledger /\ job' = job /\ meta' = meta
    BY <1>5 DEF WriteReport, Finalizable, MetaVerified, artifacts, CampaignInv, Attempted, Sound
  <2> HIDE DEF n, e
  <2>5. ASSUME NEW a \in Attempts PROVE Oriented(a)'
    <3>1. Oriented(a)
      BY DEF ClaimInv
    <3>2. CASE a = b
      <4>1. evidence'[a] = n
        BY <1>0, <2>2, <3>2
      <4> QED BY <1>1, <2>2, <2>4, <3>2, <4>1 DEF Oriented
    <3>3. CASE a /= b
      <4>1. evidence'[a] = evidence[a]
        BY <1>0, <2>2, <3>3
      <4> QED BY <1>1, <1>2, <3>1, <4>1 DEF Oriented
    <3> QED BY <3>2, <3>3
  <2>6. \A a \in Attempts : evidence[a].files /= "none" => evidence'[a].files /= "none"
    BY <1>0, <2>2
  <2>7. ASSUME NEW p \in Operators, exec'[p].at = "report"
        PROVE  exec'[p].attempt \in Attempts /\ evidence'[exec'[p].attempt].files /= "none"
    <3>1. CASE p = o
      BY <1>0, <2>2, <2>3, <3>1
    <3>2. CASE p /= o
      <4>1. exec'[p] = exec[p]
        BY <1>0, <2>3, <3>2
      <4> QED BY <2>6, <2>7, <4>1 DEF ClaimInv
    <3> QED BY <3>1, <3>2
  <2> QED BY <2>5, <2>7 DEF ClaimInv
<1> QED
  BY <1>3, <1>4, <1>5, EvidenceChanges

\* A claim is made exactly where the interval excludes zero, and favors the
\* treatment on whose side the whole interval lies as long as it holds the
\* estimate, whichever of the two labels sorts first.
THEOREM ClaimsOriented == Spec => []ClaimsAreOriented
<1>1. ClaimInv => ClaimsAreOriented
  <2> SUFFICES ASSUME ClaimInv, NEW a \in Attempts, evidence[a].files /= "none"
               PROVE  LET e == meta[a].effect
                          below == e.repos > 0 /\ e.upper < 0
                          above == e.repos > 0 /\ e.lower > 0
                          B7Higher == IF SortedArms[1] = B7 THEN above ELSE below
                          B7Lower == IF SortedArms[1] = B7 THEN below ELSE above
                          good == IF evidence[a].higher THEN B7Higher ELSE B7Lower
                          bad == IF evidence[a].higher THEN B7Lower ELSE B7Higher
                      IN  /\ evidence[a].claim \in {"favors_B7", "favors_comparator"}
                               <=> below \/ above
                          /\ e.lower <= e.mean /\ e.mean <= e.upper =>
                               /\ evidence[a].claim = "favors_B7" <=> good
                               /\ evidence[a].claim = "favors_comparator" <=> bad
    BY DEF ClaimsAreOriented
  <2> DEFINE e == meta[a].effect
             higher == evidence[a].higher
  <2>1. /\ Interval(e) /\ higher \in BOOLEAN
        /\ evidence[a].claim = OrientMetric(SortedArms[1], e, higher)
    BY DEF ClaimInv, Oriented
  <2> HIDE DEF e, higher
  <2>2. LET below == e.repos > 0 /\ e.upper < 0
            above == e.repos > 0 /\ e.lower > 0
            B7Higher == IF SortedArms[1] = B7 THEN above ELSE below
            B7Lower == IF SortedArms[1] = B7 THEN below ELSE above
            good == IF higher THEN B7Higher ELSE B7Lower
            bad == IF higher THEN B7Lower ELSE B7Higher
            claim == OrientMetric(SortedArms[1], e, higher)
        IN  /\ claim \in {"favors_B7", "favors_comparator"} <=> below \/ above
            /\ e.lower <= e.mean /\ e.mean <= e.upper =>
                 /\ claim = "favors_B7" <=> good
                 /\ claim = "favors_comparator" <=> bad
    BY <2>1, ClaimIsOriented
  <2> QED BY <2>1, <2>2 DEF e, higher
<1> QED
  BY <1>1, InitClaims, NextClaims, CampaignInvariance, PTL DEF Spec

=============================================================================
