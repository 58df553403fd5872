------------------------- MODULE MemoryPlane_proofs -------------------------
(***************************************************************************)
(* What the memory plane promises over conflicts, maintenance, crashes and *)
(* rebuilds, for logs of any length and any number of topics and crashes.  *)
(***************************************************************************)
EXTENDS MemoryPlane, FiniteSetTheorems, SequenceTheorems, TLAPS

Statuses == {"active", "superseded", "disputed", "archived"}

Memories ==
  [type : Types, at : Nat, until : Int \cup {None}, status : Statuses,
   confidence : Nat, importance : Nat, reuse : Nat,
   topic : Topics \cup {None}, polarity : BOOLEAN, supersedes : Names \cup {None}]

Entries    == Names \X Memories
Candidates == [id : Names, memory : Memories]
Jobs == [at : {"idle", "candidate", "row", "index", "event"}, candidates : Seq(Candidates),
         known : SUBSET Names, writes : Seq(Entries)]

MemoryTypes ==
  /\ version \in Nat /\ crashes \in Nat
  /\ IsFiniteSet(Ids) /\ Ids \subseteq Names /\ rows \in [Ids -> Memories]
  /\ log \in Seq(Entries)
  /\ lexical \subseteq Names /\ vector \subseteq Names
  /\ torn \subseteq Names /\ revived \subseteq Names
  /\ job \in Jobs

(***************************************************************************)
(* The inductive invariant.                                                *)
(***************************************************************************)

\* A memory and its id fit: the id has its type and its event, which is older
\* than the end of its validity and younger than what it replaces.
Fits(id, m) ==
  /\ m.at = id[2] /\ Valid(m)
  /\ m.type = IF id[1] = "consolidated" THEN "procedure" ELSE id[1]
  /\ m.status = "active" => m.until = None
  /\ m.supersedes /= None =>
       /\ m.type = "decision" /\ m.supersedes[1] = "decision"
       /\ m.supersedes[2] < m.at

Active == {id \in Ids : rows[id].status = "active"}

\* Two memories that may be in force together.
Compatible(a, m, b, o) ==
  /\ m.supersedes /= b /\ o.supersedes /= a
  /\ ~(/\ m.type = "assumption" /\ o.type = "assumption"
       /\ m.topic = o.topic /\ m.polarity /= o.polarity)

RowsFit == \A id \in Ids : Fits(id, rows[id]) /\ id[2] <= version

\* Entry k is the last one of id in the entries l; each id of l has one.
IsLast(l, id, k) ==
  k \in DOMAIN l /\ l[k][1] = id /\ \A j \in DOMAIN l : l[j][1] = id => j <= k
HasLast(l) == \A i \in DOMAIN l : \E k \in DOMAIN l : IsLast(l, l[i][1], k)

LogFits ==
  /\ HasLast(log)
  /\ \A i \in DOMAIN log : Fits(log[i][1], log[i][2]) /\ log[i][1][2] < version

\* The candidates of an event are new, and younger than every row.
CandidatesAreNew ==
  \A k \in DOMAIN job.candidates :
    LET c == job.candidates[k] IN
    /\ Fits(c.id, c.memory) /\ c.memory.status = "active" /\ c.memory.at <= version
    /\ c.id \notin Ids
    /\ \A id \in Ids : id[2] <= c.memory.at
    /\ \A w \in DOMAIN job.writes :
         job.writes[w][1] /= c.id /\ job.writes[w][1][2] <= c.memory.at
    /\ \A l \in DOMAIN job.candidates : l /= k =>
         job.candidates[l].id /= c.id /\ job.candidates[l].memory.at = c.memory.at

\* While candidates are left, what is in force is known.
KnownIsCurrent ==
  job.candidates /= <<>> =>
    /\ Active \subseteq job.known
    /\ job.known \subseteq Ids \cup {job.writes[k][1] : k \in DOMAIN job.writes}
    /\ \A k \in DOMAIN job.writes :
         job.writes[k][2].status = "active" => job.writes[k][1] \in job.known

\* What is left to be saved: each id once, what is replaced or disputed first.
WritesFit ==
  /\ job.at \in {"idle", "candidate"} <=> job.writes = <<>>
  /\ job.at = "idle" => job.candidates = <<>>
  /\ \A k \in DOMAIN job.writes :
       LET id == job.writes[k][1]  m == job.writes[k][2] IN
       /\ Fits(id, m) /\ id[2] <= version
       /\ \A l \in DOMAIN job.writes : l /= k => job.writes[l][1] /= id
       /\ (k > 1 \/ job.at = "row") /\ id \in Ids => id \in Active \cup torn
       /\ k < Len(job.writes) => m.status /= "active"
       /\ m.status = "active" =>
            \A b \in Active : (\A l \in 1..(k - 1) : job.writes[l][1] /= b) =>
                                Compatible(id, m, b, rows[b])

\* The row under way is in the table.
RowIsWritten ==
  job.at \in {"index", "event"} => Write[1] \in Ids /\ rows[Write[1]] = Write[2]

MemoryInv ==
  /\ MemoryTypes
  /\ RowsFit /\ LogFits
  /\ CandidatesAreNew /\ KnownIsCurrent /\ WritesFit /\ RowIsWritten
  /\ RowsAreRecorded /\ NoConflictingKnowledge

-----------------------------------------------------------------------------
(* The log *)

\* What a rebuild makes of the entries l.
Replay(l) ==
  [id \in {l[i][1] : i \in DOMAIN l} |->
     LET last == CHOOSE i \in DOMAIN l :
                   l[i][1] = id /\ \A j \in DOMAIN l : l[j][1] = id => j <= i
     IN l[last][2]]

LEMMA RebuiltIsReplay == Rebuilt = Replay(log) /\ Rebuilt' = Replay(log')
BY DEF Rebuilt, Replay

\* A rebuild gives each id of the log what its last entry has.
LEMMA ReplayIsLast ==
  ASSUME NEW l \in Seq(Entries), NEW id, NEW k, IsLast(l, id, k)
  PROVE  id \in DOMAIN Replay(l) /\ Replay(l)[id] = l[k][2]
<1>1. id \in {l[i][1] : i \in DOMAIN l}
  BY DEF IsLast
<1> DEFINE last == CHOOSE i \in DOMAIN l :
                     l[i][1] = id /\ \A j \in DOMAIN l : l[j][1] = id => j <= i
<1>2. last \in DOMAIN l /\ l[last][1] = id
      /\ \A j \in DOMAIN l : l[j][1] = id => j <= last
  BY DEF IsLast
<1>3. last = k
  <2>1. last <= k /\ k <= last
    BY <1>2 DEF IsLast
  <2>2. last \in Nat /\ k \in Nat
    BY <1>2 DEF IsLast
  <2> QED BY <2>1, <2>2
<1>4. Replay(l)[id] = l[last][2]
  BY <1>1 DEF Replay
<1> QED BY <1>1, <1>3, <1>4 DEF Replay

\* What a rebuild knows is in a last entry.
LEMMA ReplayHasLast ==
  ASSUME NEW l \in Seq(Entries), HasLast(l), NEW id \in DOMAIN Replay(l)
  PROVE  \E k \in DOMAIN l : IsLast(l, id, k) /\ Replay(l)[id] = l[k][2]
<1>1. PICK i \in DOMAIN l : l[i][1] = id
  BY DEF Replay
<1>2. PICK k \in DOMAIN l : IsLast(l, id, k)
  BY <1>1 DEF HasLast
<1> QED BY <1>2, ReplayIsLast

\* An entry that is appended changes what its own id is rebuilt to.
LEMMA ReplayGrows ==
  ASSUME NEW l \in Seq(Entries), HasLast(l), NEW w \in Entries
  PROVE  LET m == Append(l, w) IN
         /\ HasLast(m)
         /\ DOMAIN Replay(m) = DOMAIN Replay(l) \cup {w[1]}
         /\ Replay(m)[w[1]] = w[2]
         /\ \A id \in DOMAIN Replay(l) \ {w[1]} : Replay(m)[id] = Replay(l)[id]
<1> DEFINE m == Append(l, w)
           n == Len(l) + 1
<1>1. /\ m \in Seq(Entries) /\ n \in DOMAIN m /\ m[n] = w
      /\ \A i \in DOMAIN l : i \in DOMAIN m /\ m[i] = l[i]
      /\ \A i \in DOMAIN m : i <= n /\ (i \in DOMAIN l \/ i = n)
  OBVIOUS
<1> HIDE DEF m, n
<1>2. IsLast(m, w[1], n)
  BY <1>1 DEF IsLast
<1>3. ASSUME NEW id, id /= w[1], NEW k \in DOMAIN l, IsLast(l, id, k)
      PROVE  IsLast(m, id, k)
  BY <1>1, <1>3 DEF IsLast
<1>4. HasLast(m)
  <2> SUFFICES ASSUME NEW i \in DOMAIN m
               PROVE  \E k \in DOMAIN m : IsLast(m, m[i][1], k)
    BY DEF HasLast
  <2>1. CASE m[i][1] = w[1]
    BY <2>1, <1>1, <1>2
  <2>2. CASE m[i][1] /= w[1]
    <3>1. i \in DOMAIN l /\ m[i] = l[i]
      BY <2>2, <1>1
    <3>2. PICK k \in DOMAIN l : IsLast(l, l[i][1], k)
      BY <3>1 DEF HasLast
    <3> QED BY <3>1, <3>2, <2>2, <1>1, <1>3
  <2> QED BY <2>1, <2>2
<1>5. DOMAIN Replay(m) = DOMAIN Replay(l) \cup {w[1]}
  <2>1. {m[i][1] : i \in DOMAIN m} = {l[i][1] : i \in DOMAIN l} \cup {w[1]}
    BY <1>1
  <2> QED BY <2>1 DEF Replay
<1>6. Replay(m)[w[1]] = w[2]
  BY <1>1, <1>2, ReplayIsLast
<1>7. ASSUME NEW id \in DOMAIN Replay(l) \ {w[1]}
      PROVE  Replay(m)[id] = Replay(l)[id]
  <2>1. PICK k \in DOMAIN l : IsLast(l, id, k) /\ Replay(l)[id] = l[k][2]
    BY ReplayHasLast
  <2>2. Replay(m)[id] = m[k][2]
    BY <1>1, <1>3, <2>1, ReplayIsLast
  <2> QED BY <2>1, <2>2, <1>1
<1> QED BY <1>4, <1>5, <1>6, <1>7 DEF m

-----------------------------------------------------------------------------
(* Steps that leave the table and the log alone *)

LEMMA JobFields ==
  ASSUME MemoryTypes
  PROVE  /\ job.at \in {"idle", "candidate", "row", "index", "event"}
         /\ job.candidates \in Seq(Candidates) /\ job.known \subseteq Names
         /\ job.writes \in Seq(Entries)
BY DEF MemoryTypes, Jobs

\* Names and memories have the fields the invariant speaks of.
LEMMA MemoryFields ==
  ASSUME NEW m \in Memories
  PROVE  /\ m.type \in Types /\ m.at \in Nat /\ m.until \in Int \cup {None}
         /\ m.status \in Statuses /\ m.supersedes \in Names \cup {None}
BY DEF Memories

LEMMA IdleTypes == IdleJob \in Jobs
BY DEF IdleJob, Jobs

LEMMA Initial == Init => MemoryInv
<1> SUFFICES ASSUME Init PROVE MemoryInv
  OBVIOUS
<1> USE DEF Init
<1>0. Ids = {} /\ log = <<>> /\ DOMAIN log = {}
  BY DEF Ids
<1>1. MemoryTypes
  <2>1. IsFiniteSet(Ids)
    BY <1>0, FS_EmptySet
  <2> QED BY <1>0, <2>1, IdleTypes DEF MemoryTypes
<1>2. RowsFit /\ LogFits
  BY <1>0 DEF RowsFit, LogFits, HasLast
<1>3. CandidatesAreNew /\ KnownIsCurrent /\ WritesFit /\ RowIsWritten
  BY DEF CandidatesAreNew, KnownIsCurrent, WritesFit, RowIsWritten, IdleJob
<1>4. RowsAreRecorded
  <2>1. DOMAIN Rebuilt = {}
    BY <1>0 DEF Rebuilt
  <2> QED BY <1>0, <2>1 DEF RowsAreRecorded, IdleJob
<1>5. NoConflictingKnowledge
  BY <1>0 DEF NoConflictingKnowledge
<1> QED BY <1>1, <1>2, <1>3, <1>4, <1>5 DEF MemoryInv

\* The table, the log and what is torn stay: so does what is said of them.
LEMMA StoresKept ==
  ASSUME MemoryInv, UNCHANGED <<rows, log, torn, revived>>, version' \in Nat,
         version <= version'
  PROVE  /\ RowsFit' /\ LogFits' /\ NoConflictingKnowledge'
         /\ Ids' = Ids /\ Active' = Active /\ DOMAIN Rebuilt' = DOMAIN Rebuilt
         /\ Rebuilt' = Rebuilt
<1>1. Ids' = Ids /\ Active' = Active /\ Rebuilt' = Rebuilt
  BY DEF Ids, Active, Rebuilt
<1>2. NoConflictingKnowledge'
  BY DEF MemoryInv, NoConflictingKnowledge, Ids
<1>3. RowsFit'
  <2>1. \A id \in Ids : id[2] \in Nat
    BY DEF MemoryInv, MemoryTypes, Names
  <2> QED BY <2>1, <1>1 DEF MemoryInv, RowsFit, MemoryTypes
<1>4. LogFits'
  <2>1. \A i \in DOMAIN log : log[i][1][2] \in Nat
    BY DEF MemoryInv, MemoryTypes, Names, Entries
  <2> QED BY <2>1 DEF MemoryInv, LogFits, MemoryTypes
<1> QED BY <1>1, <1>2, <1>3, <1>4

LEMMA Stutter == MemoryInv /\ UNCHANGED vars => MemoryInv'
<1> SUFFICES ASSUME MemoryInv, UNCHANGED vars PROVE MemoryInv'
  OBVIOUS
<1>0. UNCHANGED <<version, rows, log, lexical, vector, job, torn, revived, crashes>>
  BY DEF vars, stores
<1>1. /\ RowsFit' /\ LogFits' /\ NoConflictingKnowledge'
      /\ Ids' = Ids /\ Active' = Active /\ Rebuilt' = Rebuilt
  BY <1>0, StoresKept DEF MemoryInv, MemoryTypes
<1>2. MemoryTypes'
  BY <1>0, <1>1 DEF MemoryInv, MemoryTypes
<1>3. CandidatesAreNew' /\ KnownIsCurrent'
  BY <1>0, <1>1 DEF MemoryInv, CandidatesAreNew, KnownIsCurrent
<1>4. WritesFit' /\ RowIsWritten'
  BY <1>0, <1>1 DEF MemoryInv, WritesFit, RowIsWritten, Write
<1>5. RowsAreRecorded'
  BY <1>0, <1>1 DEF MemoryInv, RowsAreRecorded, BeingSaved, Write
<1> QED BY <1>1, <1>2, <1>3, <1>4, <1>5 DEF MemoryInv

LEMMA IndexesStep == MemoryInv /\ UpdateIndexes => MemoryInv'
<1> SUFFICES ASSUME MemoryInv, UpdateIndexes PROVE MemoryInv'
  OBVIOUS
<1>0. /\ job.at = "index" /\ job' = [job EXCEPT !.at = "event"]
      /\ UNCHANGED <<version, rows, log, torn, revived, crashes>>
  BY DEF UpdateIndexes
<1>1. /\ job' \in Jobs /\ job'.at = "event" /\ job'.candidates = job.candidates
      /\ job'.known = job.known /\ job'.writes = job.writes
  BY <1>0 DEF MemoryInv, MemoryTypes, Jobs
<1>2. /\ RowsFit' /\ LogFits' /\ NoConflictingKnowledge'
      /\ Ids' = Ids /\ Active' = Active /\ Rebuilt' = Rebuilt
  BY <1>0, StoresKept DEF MemoryInv, MemoryTypes
<1>3. Write[1] \in Names
  <2>1. job.writes \in Seq(Entries) /\ job.writes /= <<>>
    BY <1>0 DEF MemoryInv, MemoryTypes, Jobs, WritesFit
  <2> QED BY <2>1 DEF Write, Entries
<1>4. MemoryTypes'
  BY <1>0, <1>1, <1>2, <1>3
  DEF MemoryInv, MemoryTypes, UpdateIndexes, WithDocument, WithVector, WithoutVector
<1>5. CandidatesAreNew' /\ KnownIsCurrent'
  BY <1>0, <1>1, <1>2 DEF MemoryInv, CandidatesAreNew, KnownIsCurrent
<1>6. WritesFit'
  BY <1>0, <1>1, <1>2 DEF MemoryInv, WritesFit
<1>7. RowIsWritten'
  BY <1>0, <1>1, <1>2 DEF MemoryInv, RowIsWritten, Write
<1>8. RowsAreRecorded'
  BY <1>0, <1>1, <1>2 DEF MemoryInv, RowsAreRecorded, BeingSaved, Write
<1> QED BY <1>2, <1>4, <1>5, <1>6, <1>7, <1>8 DEF MemoryInv

\* No job is left: nothing is to be said of it.
LEMMA IdleSound ==
  ASSUME job' = IdleJob
  PROVE  CandidatesAreNew' /\ KnownIsCurrent' /\ WritesFit' /\ RowIsWritten'
BY DEF IdleJob, CandidatesAreNew, KnownIsCurrent, WritesFit, RowIsWritten

LEMMA DoneStep == MemoryInv /\ Done => MemoryInv'
<1> SUFFICES ASSUME MemoryInv, Done PROVE MemoryInv'
  OBVIOUS
<1>0. job.at = "candidate" /\ job' = IdleJob /\ UNCHANGED <<stores, torn, revived, crashes>>
  BY DEF Done
<1>1. /\ RowsFit' /\ LogFits' /\ NoConflictingKnowledge'
      /\ Ids' = Ids /\ Active' = Active /\ Rebuilt' = Rebuilt
  BY <1>0, StoresKept DEF MemoryInv, MemoryTypes, stores
<1>2. MemoryTypes'
  BY <1>0, <1>1, IdleTypes DEF MemoryInv, MemoryTypes, stores
<1>3. RowsAreRecorded'
  BY <1>0, <1>1 DEF MemoryInv, RowsAreRecorded, BeingSaved, IdleJob, stores
<1> QED BY <1>0, <1>1, <1>2, <1>3, IdleSound DEF MemoryInv

LEMMA CrashStep == MemoryInv /\ Crash => MemoryInv'
<1> SUFFICES ASSUME MemoryInv, Crash PROVE MemoryInv'
  OBVIOUS
<1>0. /\ job' = IdleJob /\ vector' = {} /\ crashes' = crashes + 1
      /\ torn' = torn \cup BeingSaved /\ UNCHANGED <<version, rows, log, lexical, revived>>
  BY DEF Crash, BeingSaved
<1>1. Ids' = Ids /\ Rebuilt' = Rebuilt
  BY <1>0 DEF Ids, Rebuilt
<1>2. RowsFit' /\ LogFits' /\ NoConflictingKnowledge'
  BY <1>0, <1>1 DEF MemoryInv, RowsFit, LogFits, NoConflictingKnowledge
<1>3. BeingSaved \subseteq Names
  BY DEF MemoryInv, RowIsWritten, BeingSaved, MemoryTypes
<1>4. MemoryTypes'
  BY <1>0, <1>1, <1>3, IdleTypes DEF MemoryInv, MemoryTypes
<1>5. RowsAreRecorded'
  <2>1. BeingSaved' = {} /\ job'.at = "idle"
    BY <1>0 DEF BeingSaved, IdleJob
  <2> QED BY <1>0, <1>1, <2>1 DEF MemoryInv, RowsAreRecorded
<1> QED BY <1>0, <1>2, <1>4, <1>5, IdleSound DEF MemoryInv

LEMMA RebuildIndexesStep == MemoryInv /\ RebuildIndexes => MemoryInv'
<1> SUFFICES ASSUME MemoryInv, RebuildIndexes PROVE MemoryInv'
  OBVIOUS
<1>0. UNCHANGED <<version, rows, log, job, torn, revived, crashes>>
  BY DEF RebuildIndexes
<1>1. /\ RowsFit' /\ LogFits' /\ NoConflictingKnowledge'
      /\ Ids' = Ids /\ Active' = Active /\ Rebuilt' = Rebuilt
  BY <1>0, StoresKept DEF MemoryInv, MemoryTypes
<1>2. MemoryTypes'
  BY <1>0, <1>1 DEF MemoryInv, MemoryTypes, RebuildIndexes
<1>3. CandidatesAreNew' /\ KnownIsCurrent'
  BY <1>0, <1>1 DEF MemoryInv, CandidatesAreNew, KnownIsCurrent
<1>4. WritesFit' /\ RowIsWritten'
  BY <1>0, <1>1 DEF MemoryInv, WritesFit, RowIsWritten, Write
<1>5. RowsAreRecorded'
  BY <1>0, <1>1 DEF MemoryInv, RowsAreRecorded, BeingSaved, Write
<1> QED BY <1>1, <1>2, <1>3, <1>4, <1>5 DEF MemoryInv

-----------------------------------------------------------------------------
(* Observing an event *)

\* What an event may give as candidates.
New(m) ==
  /\ m \in Memories /\ m.at = version + 1 /\ m.status = "active" /\ m.until = None
  /\ m.supersedes /= None =>
       m.type = "decision" /\ m.supersedes \in Ids /\ m.supersedes[1] = "decision"

LEMMA NumberedFits ==
  ASSUME MemoryInv, NEW memories \in Seq(Memories), \A k \in DOMAIN memories : New(memories[k])
  PROVE  /\ Numbered(memories) \in Seq(Candidates)
         /\ \A k \in DOMAIN Numbered(memories) :
              LET c == Numbered(memories)[k] IN
              /\ c.id = <<c.memory.type, version + 1, k>> /\ New(c.memory)
              /\ Fits(c.id, c.memory)
<1> DEFINE all == Numbered(memories)
<1>0. version \in Nat
  BY DEF MemoryInv, MemoryTypes
<1>1. DOMAIN all = 1..Len(memories) /\ Len(memories) \in Nat /\ DOMAIN memories = DOMAIN all
  BY DEF Numbered
<1>2. ASSUME NEW k \in DOMAIN all
      PROVE  /\ all[k].id = <<memories[k].type, version + 1, k>> /\ all[k].memory = memories[k]
             /\ all[k] \in Candidates
  <2>0. memories[k] \in Memories /\ k \in Nat
    BY <1>1, <1>2
  <2>1. memories[k].type \in Types
    BY <2>0 DEF Memories
  <2>2. all[k] = [id |-> <<memories[k].type, version + 1, k>>, memory |-> memories[k]]
    BY <1>1, <1>2 DEF Numbered
  <2> QED BY <2>0, <2>1, <2>2, <1>0 DEF Candidates, Names
<1>3. all \in Seq(Candidates)
  <2>1. all = [k \in 1..Len(memories) |-> all[k]]
    BY <1>1 DEF Numbered
  <2>2. \A k \in 1..Len(memories) : all[k] \in Candidates
    BY <1>1, <1>2
  <2> HIDE DEF all
  <2> QED BY <1>1, <2>1, <2>2
<1>4. ASSUME NEW k \in DOMAIN all
      PROVE  Fits(all[k].id, all[k].memory)
  <2> DEFINE m == memories[k]
  <2>1. all[k].id = <<m.type, version + 1, k>> /\ all[k].memory = m /\ New(m)
    BY <1>1, <1>2, <1>4
  <2>2. m.at = version + 1 /\ m.type \in Types /\ m.until = None
    BY <2>1 DEF New, Memories
  <2>3. m.supersedes /= None => m.supersedes[2] < m.at
    BY <2>1, <2>2, <1>0 DEF New, MemoryInv, RowsFit, MemoryTypes, Names
  <2> HIDE DEF m
  <2> QED BY <2>1, <2>2, <2>3, <1>0 DEF Fits, Valid, New, Types
<1> QED BY <1>1, <1>2, <1>3, <1>4

LEMMA ObserveStep ==
  ASSUME MemoryInv, NEW memories \in Seq(Memories), \A k \in DOMAIN memories : New(memories[k]),
         Observe(Numbered(memories))
  PROVE  MemoryInv'
<1> DEFINE all == Numbered(memories)
<1>0. /\ job.at = "idle" /\ version' = version + 1
      /\ UNCHANGED <<rows, log, lexical, vector, torn, revived, crashes>>
      /\ job' = [at |-> "candidate", candidates |-> all,
                 known |-> ActiveAt(version + 1), writes |-> <<>>]
  BY DEF Observe, MayBegin
<1>1. /\ all \in Seq(Candidates)
      /\ \A k \in DOMAIN all : /\ all[k].id = <<all[k].memory.type, version + 1, k>>
                               /\ New(all[k].memory) /\ Fits(all[k].id, all[k].memory)
  BY NumberedFits
<1> HIDE DEF all
<1>2. version \in Nat /\ version' \in Nat /\ version <= version'
  BY <1>0 DEF MemoryInv, MemoryTypes
<1>3. /\ RowsFit' /\ LogFits' /\ NoConflictingKnowledge'
      /\ Ids' = Ids /\ Active' = Active /\ Rebuilt' = Rebuilt
  BY <1>0, <1>2, StoresKept
<1>4. ActiveAt(version + 1) = Active
  <2>1. \A id \in Active : ValidAt(rows[id], version + 1)
    BY <1>2 DEF MemoryInv, RowsFit, Fits, Active, ValidAt, MemoryTypes, Names
  <2> QED BY <2>1 DEF ActiveAt, Active
<1>5. Active \subseteq Ids /\ Ids \subseteq Names
  BY DEF Active, MemoryInv, MemoryTypes
<1>6. job' \in Jobs
  BY <1>0, <1>1, <1>4, <1>5 DEF Jobs
<1>7. MemoryTypes'
  BY <1>0, <1>2, <1>3, <1>6 DEF MemoryInv, MemoryTypes
<1>8. CandidatesAreNew'
  <2>1. ASSUME NEW k \in DOMAIN all
        PROVE  /\ all[k].memory.at = version + 1 /\ all[k].memory.status = "active"
               /\ all[k].id[2] = version + 1 /\ all[k].id[3] = k
    BY <1>1, <2>1 DEF New
  <2>2. \A id \in Ids : id[2] \in Nat /\ id[2] <= version
    BY <1>5 DEF MemoryInv, RowsFit, Names
  <2>3. \A k \in DOMAIN all : all[k].id \notin Ids
    BY <2>1, <2>2, <1>2
  <2>4. \A k \in DOMAIN all, l \in DOMAIN all : l /= k => all[l].id /= all[k].id
    BY <2>1
  <2>5. \A k \in DOMAIN all, id \in Ids : id[2] <= all[k].memory.at
    BY <2>1, <2>2, <1>2
  <2> QED BY <1>0, <1>1, <1>2, <1>3, <2>1, <2>3, <2>4, <2>5 DEF CandidatesAreNew
<1>9. KnownIsCurrent'
  BY <1>0, <1>3, <1>4, <1>5 DEF KnownIsCurrent
<1>10. WritesFit' /\ RowIsWritten'
  BY <1>0 DEF WritesFit, RowIsWritten
<1>11. RowsAreRecorded'
  BY <1>0, <1>3 DEF MemoryInv, RowsAreRecorded, BeingSaved
<1> QED BY <1>3, <1>7, <1>8, <1>9, <1>10, <1>11 DEF MemoryInv

\* What CandidateExtractor builds is new.
LEMMA ExtractedIsNew ==
  ASSUME MemoryInv
  PROVE  LET at == version + 1 IN
         /\ New(Constraint(at)) /\ New(Failure(at)) /\ New(Procedure(at)) /\ New(Summary(at))
         /\ \A old \in {id \in Ids : id[1] = "decision"} \cup {None} : New(Decision(at, old))
         /\ \A topic \in Topics, polarity \in BOOLEAN, q \in Qualities :
              New(Assumption(at, topic, polarity, q))
<1> DEFINE at == version + 1
<1>0. at \in Nat /\ Ids \subseteq Names
  BY DEF MemoryInv, MemoryTypes
<1> HIDE DEF at
<1>1. ASSUME NEW type \in Types, NEW c \in Nat, NEW i \in Nat, NEW r \in Nat
      PROVE  /\ Memory(type, at, c, i, r) \in Memories
             /\ Memory(type, at, c, i, r).at = at
             /\ Memory(type, at, c, i, r).type = type
             /\ Memory(type, at, c, i, r).status = "active"
             /\ Memory(type, at, c, i, r).until = None
             /\ Memory(type, at, c, i, r).supersedes = None
  BY <1>0 DEF Memory, Memories, Statuses
<1>2. New(Constraint(at)) /\ New(Failure(at)) /\ New(Procedure(at)) /\ New(Summary(at))
  <2>1. ASSUME NEW type \in Types, NEW i \in Nat, NEW r \in Nat
        PROVE  New(Memory(type, at, 100, i, r))
    BY <2>1, <1>1 DEF New, at
  <2>2. {"constraint", "failure", "procedure", "summary"} \subseteq Types
    BY DEF Types
  <2> QED BY <2>1, <2>2 DEF Constraint, Failure, Procedure, Summary
<1>3. ASSUME NEW old \in {id \in Ids : id[1] = "decision"} \cup {None}
      PROVE  New(Decision(at, old))
  <2> DEFINE m == Memory("decision", at, 100, 90, 85)
  <2>1. /\ m \in Memories /\ m.at = at /\ m.type = "decision" /\ m.status = "active"
        /\ m.until = None
    BY <1>1 DEF Types
  <2> HIDE DEF m
  <2>2. Decision(at, old) = [m EXCEPT !.supersedes = old]
    BY DEF Decision, m
  <2> QED BY <2>1, <2>2, <1>0 DEF New, at, Memories
<1>4. ASSUME NEW topic \in Topics, NEW polarity \in BOOLEAN, NEW q \in Qualities
      PROVE  New(Assumption(at, topic, polarity, q))
  <2> DEFINE m == Memory("assumption", at, Confidence(q, 70), Importance(q, 65),
                         Importance(q, 60))
  <2>0. Confidence(q, 70) \in Nat /\ Importance(q, 65) \in Nat /\ Importance(q, 60) \in Nat
    BY DEF Confidence, Importance, Qualities
  <2>1. /\ m \in Memories /\ m.at = at /\ m.type = "assumption" /\ m.status = "active"
        /\ m.until = None /\ m.supersedes = None
    <3>1. "assumption" \in Types /\ 70 \in Nat
      BY DEF Types
    <3> HIDE DEF Types
    <3> QED BY <1>1, <2>0, <3>1 DEF m
  <2> HIDE DEF m
  <2>2. Assumption(at, topic, polarity, q) = [m EXCEPT !.topic = topic, !.polarity = polarity]
    BY DEF Assumption, m
  <2> QED BY <2>1, <2>2 DEF New, at, Memories
<1> QED BY <1>2, <1>3, <1>4 DEF at

LEMMA EventsStep ==
  MemoryInv /\ (ConstraintAdded \/ GateFailed \/ TaskCompleted \/ GateAccepted) => MemoryInv'
<1> SUFFICES ASSUME MemoryInv, ConstraintAdded \/ GateFailed \/ TaskCompleted \/ GateAccepted
             PROVE  MemoryInv'
  OBVIOUS
<1> DEFINE at == version + 1
<1>1. ASSUME NEW m, New(m), Observe(Numbered(<<m>>)) PROVE MemoryInv'
  <2>1. <<m>> \in Seq(Memories) /\ DOMAIN <<m>> = {1} /\ <<m>>[1] = m
    BY <1>1 DEF New
  <2> QED BY <2>1, <1>1, ObserveStep
<1>2. ASSUME NEW m, NEW n, New(m), New(n), Observe(Numbered(<<m, n>>)) PROVE MemoryInv'
  <2>1. <<m, n>> \in Seq(Memories) /\ DOMAIN <<m, n>> = {1, 2}
        /\ <<m, n>>[1] = m /\ <<m, n>>[2] = n
    BY <1>2 DEF New
  <2> QED BY <2>1, <1>2, ObserveStep
<1>3. CASE ConstraintAdded \/ GateFailed \/ TaskCompleted
  BY <1>3, <1>1, ExtractedIsNew DEF ConstraintAdded, GateFailed, TaskCompleted
<1>4. CASE GateAccepted
  <2>1. CASE \E old \in {id \in Ids : id[1] = "decision"} \cup {None} :
               Observe(Numbered(<<Decision(at, old), Summary(at)>>))
    BY <2>1, <1>2, ExtractedIsNew
  <2>2. CASE \E topic \in Topics, polarity \in BOOLEAN, q \in Qualities :
               Observe(Numbered(<<Assumption(at, topic, polarity, q)>>))
    BY <2>2, <1>1, ExtractedIsNew
  <2>3. CASE \E topic \in Topics :
               Observe(Numbered(<<Assumption(at, topic, TRUE, "default"),
                                  Assumption(at, topic, FALSE, "default")>>))
    BY <2>3, <1>2, ExtractedIsNew DEF Qualities
  <2>4. CASE Observe(Numbered(<<Procedure(at)>>))
    BY <2>4, <1>1, ExtractedIsNew
  <2> QED BY <1>4, <2>1, <2>2, <2>3, <2>4 DEF GateAccepted
<1> QED BY <1>3, <1>4

-----------------------------------------------------------------------------
(* The steps of a save *)

\* What is in force together is compatible, in both directions.
LEMMA ConflictForm ==
  NoConflictingKnowledge <=>
    \A a \in Active \ revived, b \in Active \ revived : Compatible(a, rows[a], b, rows[b])
<1>1. Active = {id \in Ids : rows[id].status = "active"}
  BY DEF Active
<1> QED BY <1>1 DEF NoConflictingKnowledge, Compatible

LEMMA ConflictFormNext ==
  NoConflictingKnowledge' <=>
    \A a \in Active' \ revived', b \in Active' \ revived' :
      Compatible(a, rows'[a], b, rows'[b])
<1>1. Active' = {id \in Ids' : rows'[id].status = "active"}
  BY DEF Active
<1> QED BY <1>1 DEF NoConflictingKnowledge, Compatible

LEMMA CompatibleSymmetric ==
  ASSUME NEW a, NEW m, NEW b, NEW o, Compatible(a, m, b, o)
  PROVE  Compatible(b, o, a, m)
BY DEF Compatible

LEMMA CompatibleWithItself ==
  ASSUME NEW id \in Names, NEW m \in Memories, Fits(id, m)
  PROVE  Compatible(id, m, id, m)
<1>1. m.supersedes /= id
  <2>1. CASE m.supersedes = None
    BY <2>1, NoneIsNoName
  <2>2. CASE m.supersedes /= None
    <3>1. m.supersedes[2] < m.at /\ m.at = id[2] /\ id[2] \in Nat
      BY <2>2 DEF Fits, Names
    <3> QED BY <3>1
  <2> QED BY <2>1, <2>2
<1> QED BY <1>1 DEF Compatible

LEMMA NothingLeft ==
  ASSUME NEW S, NEW s \in Seq(S)
  PROVE  s = <<>> <=> Len(s) = 0
BY EmptySeq

\* What is being saved: the first of the writes.
LEMMA WriteIsFirst ==
  ASSUME MemoryInv, job.writes /= <<>>
  PROVE  /\ Write = job.writes[1] /\ 1 \in DOMAIN job.writes /\ Write \in Entries
         /\ Write[1] \in Names /\ Write[2] \in Memories
         /\ Fits(Write[1], Write[2]) /\ Write[1][2] \in Nat /\ Write[1][2] <= version
<1>1. job.writes \in Seq(Entries)
  BY DEF MemoryInv, MemoryTypes, Jobs
<1>2. Write = job.writes[1] /\ 1 \in DOMAIN job.writes /\ Write \in Entries
  BY <1>1 DEF Write
<1>3. Write[1] \in Names /\ Write[2] \in Memories /\ Write[1][2] \in Nat
  BY <1>2 DEF Entries, Names
<1>4. Fits(Write[1], Write[2]) /\ Write[1][2] <= version
  BY <1>2 DEF MemoryInv, WritesFit
<1> QED BY <1>2, <1>3, <1>4

LEMMA SaveRowStep == MemoryInv /\ SaveRow => MemoryInv'
<1> SUFFICES ASSUME MemoryInv, SaveRow PROVE MemoryInv'
  OBVIOUS
<1> DEFINE i == Write[1]
           m == Write[2]
<1>0. /\ job.at = "row" /\ rows' = Put(rows, i, m) /\ job' = [job EXCEPT !.at = "index"]
      /\ UNCHANGED <<version, log, lexical, vector, torn, revived, crashes>>
  BY DEF SaveRow
<1>1. /\ job' \in Jobs /\ job'.at = "index" /\ job'.candidates = job.candidates
      /\ job'.known = job.known /\ job'.writes = job.writes
  BY <1>0 DEF MemoryInv, MemoryTypes, Jobs
<1>2. job.writes /= <<>>
  BY <1>0 DEF MemoryInv, WritesFit
<1>3. /\ Write = job.writes[1] /\ 1 \in DOMAIN job.writes
      /\ i \in Names /\ m \in Memories /\ Fits(i, m) /\ i[2] \in Nat /\ i[2] <= version
  BY <1>2, WriteIsFirst
<1>4. Write' = Write
  BY <1>1 DEF Write
<1> HIDE DEF i, m
<1>5. /\ Ids' = Ids \cup {i} /\ rows'[i] = m
      /\ \A id \in Ids : id /= i => rows'[id] = rows[id]
      /\ rows' \in [Ids' -> Memories]
  BY <1>0, <1>3 DEF Put, Ids, MemoryInv, MemoryTypes
<1>6. Active' = IF m.status = "active" THEN Active \cup {i} ELSE Active \ {i}
  BY <1>5 DEF Active
<1>7. i \in Ids => i \in Active \cup torn
  BY <1>0, <1>3 DEF MemoryInv, WritesFit, i
<1>8. MemoryTypes'
  <2>1. IsFiniteSet(Ids')
    BY <1>5, FS_AddElement DEF MemoryInv, MemoryTypes
  <2> QED BY <1>0, <1>1, <1>3, <1>5, <2>1 DEF MemoryInv, MemoryTypes
<1>9. RowsFit' /\ LogFits'
  BY <1>0, <1>3, <1>5 DEF MemoryInv, RowsFit, LogFits
<1>10. CandidatesAreNew'
  <2> SUFFICES ASSUME NEW k \in DOMAIN job.candidates
               PROVE  /\ job.candidates[k].id \notin Ids'
                      /\ \A id \in Ids' : id[2] <= job.candidates[k].memory.at
    BY <1>0, <1>1 DEF MemoryInv, CandidatesAreNew
  <2>1. i /= job.candidates[k].id /\ i[2] <= job.candidates[k].memory.at
    BY <1>3 DEF MemoryInv, CandidatesAreNew, i
  <2> QED BY <2>1, <1>5 DEF MemoryInv, CandidatesAreNew
<1>11. KnownIsCurrent'
  <2> SUFFICES ASSUME job.candidates /= <<>>
               PROVE  /\ Active' \subseteq job.known
                      /\ job.known \subseteq Ids' \cup {job.writes[k][1] : k \in DOMAIN job.writes}
    BY <1>1 DEF MemoryInv, KnownIsCurrent
  <2>1. m.status = "active" => i \in job.known
    BY <1>3 DEF MemoryInv, KnownIsCurrent, i, m
  <2> QED BY <2>1, <1>5, <1>6 DEF MemoryInv, KnownIsCurrent
<1>12. WritesFit'
  <2>1. job.writes \in Seq(Entries)
    BY DEF MemoryInv, MemoryTypes, Jobs
  <2>2. ASSUME NEW k \in DOMAIN job.writes, k > 1, job.writes[k][1] \in Ids'
        PROVE  job.writes[k][1] \in Active' \cup torn'
    <3>1. job.writes[k][1] /= i
      BY <1>3, <2>2 DEF MemoryInv, WritesFit, i
    <3>2. job.writes[k][1] \in Active \cup torn
      BY <3>1, <2>2, <1>5 DEF MemoryInv, WritesFit
    <3> QED BY <3>1, <3>2, <1>0, <1>6
  <2>3. ASSUME NEW k \in DOMAIN job.writes, job.writes[k][2].status = "active",
               NEW b \in Active', \A l \in 1..(k - 1) : job.writes[l][1] /= b
        PROVE  Compatible(job.writes[k][1], job.writes[k][2], b, rows'[b])
    <3>1. CASE b \in Active /\ b /= i
      <4>1. Compatible(job.writes[k][1], job.writes[k][2], b, rows[b])
        BY <3>1, <2>3 DEF MemoryInv, WritesFit
      <4> QED BY <4>1, <3>1, <1>5 DEF Active
    <3>2. CASE b = i
      <4>1. m.status = "active"
        BY <3>2, <2>3, <1>6
      <4>2. k = 1
        <5>1. k \in Nat /\ k <= Len(job.writes) /\ Len(job.writes) \in Nat
          BY <2>1
        <5>2. ~(1 < Len(job.writes))
          BY <4>1, <1>3 DEF MemoryInv, WritesFit, m
        <5> QED BY <5>1, <5>2, <2>1
      <4> QED BY <4>2, <3>2, <1>3, <1>5, CompatibleWithItself DEF i, m
    <3> QED BY <3>1, <3>2, <2>3, <1>6
  <2> QED BY <1>0, <1>1, <1>2, <2>2, <2>3 DEF MemoryInv, WritesFit
<1>13. RowIsWritten'
  BY <1>4, <1>5 DEF RowIsWritten, i, m
<1>14. RowsAreRecorded'
  <2>1. Rebuilt' = Rebuilt
    BY <1>0 DEF Rebuilt
  <2>2. BeingSaved' = {i} /\ BeingSaved = {}
    BY <1>0, <1>1, <1>4 DEF BeingSaved, i
  <2> QED BY <1>0, <1>1, <1>5, <2>1, <2>2 DEF MemoryInv, RowsAreRecorded
<1>15. NoConflictingKnowledge'
  <2> SUFFICES ASSUME NEW a \in Active' \ revived, NEW b \in Active' \ revived
               PROVE  Compatible(a, rows'[a], b, rows'[b])
    BY <1>0, ConflictFormNext
  <2>1. ASSUME NEW c \in Active, c /= i
        PROVE  rows'[c] = rows[c]
    BY <2>1, <1>5 DEF Active
  <2>2. ASSUME NEW c \in Active, m.status = "active" PROVE Compatible(i, m, c, rows[c])
    BY <1>3, <2>2 DEF MemoryInv, WritesFit, i, m
  <2>3. CASE a /= i /\ b /= i
    BY <2>1, <2>3, <1>6, ConflictForm DEF MemoryInv
  <2>4. CASE a = i /\ b = i
    BY <2>4, <1>3, <1>5, CompatibleWithItself
  <2>5. CASE a = i /\ b /= i
    BY <2>1, <2>2, <2>5, <1>5, <1>6
  <2>6. CASE a /= i /\ b = i
    BY <2>1, <2>2, <2>6, <1>5, <1>6, CompatibleSymmetric
  <2> QED BY <2>3, <2>4, <2>5, <2>6
<1> QED BY <1>8, <1>9, <1>10, <1>11, <1>12, <1>13, <1>14, <1>15 DEF MemoryInv

LEMMA AppendEventStep == MemoryInv /\ AppendEvent => MemoryInv'
<1> SUFFICES ASSUME MemoryInv, AppendEvent PROVE MemoryInv'
  OBVIOUS
<1> DEFINE i == Write[1]
           m == Write[2]
           rest == Tail(job.writes)
<1>0. /\ job.at = "event" /\ version' = version + 1 /\ log' = Append(log, Write)
      /\ job' = [job EXCEPT !.at = IF Len(job.writes) = 1 THEN "candidate" ELSE "row",
                            !.writes = rest]
      /\ UNCHANGED <<rows, lexical, vector, torn, revived, crashes>>
  BY DEF AppendEvent
<1>1. job.writes \in Seq(Entries) /\ job.writes /= <<>>
  BY <1>0 DEF MemoryInv, MemoryTypes, Jobs, WritesFit
<1>2. /\ Write = job.writes[1] /\ 1 \in DOMAIN job.writes /\ Write \in Entries
      /\ i \in Names /\ m \in Memories /\ Fits(i, m) /\ i[2] \in Nat /\ i[2] <= version
  BY <1>1, WriteIsFirst
<1>3. i \in Ids /\ rows[i] = m
  BY <1>0 DEF MemoryInv, RowIsWritten
<1>4. /\ rest \in Seq(Entries) /\ Len(rest) = Len(job.writes) - 1
      /\ Len(job.writes) \in Nat \ {0}
      /\ \A k \in DOMAIN rest : /\ k \in Nat \ {0} /\ k + 1 \in DOMAIN job.writes
                                /\ rest[k] = job.writes[k + 1]
      /\ \A k \in DOMAIN job.writes : k = 1 \/ (k - 1 \in DOMAIN rest /\ job.writes[k] = rest[k - 1])
      /\ rest = <<>> <=> Len(job.writes) = 1
  <2>1. /\ rest \in Seq(Entries) /\ Len(rest) = Len(job.writes) - 1
        /\ Len(job.writes) \in Nat \ {0}
    BY <1>1
  <2>2. \A k \in DOMAIN rest : /\ k \in Nat \ {0} /\ k + 1 \in DOMAIN job.writes
                                /\ rest[k] = job.writes[k + 1]
    BY <1>1
  <2>3. ASSUME NEW k \in DOMAIN job.writes, k /= 1
        PROVE  k - 1 \in DOMAIN rest /\ job.writes[k] = rest[k - 1]
    BY <1>1, <2>3
  <2> HIDE DEF rest
  <2>4. rest = <<>> <=> Len(job.writes) = 1
    <3>1. rest = <<>> <=> Len(rest) = 0
      BY <2>1, NothingLeft
    <3>2. Len(rest) = 0 <=> Len(job.writes) = 1
      BY <2>1
    <3> QED BY <3>1, <3>2
  <2> QED BY <2>1, <2>2, <2>3, <2>4
<1> HIDE DEF i, m, rest
<1>5. /\ job' \in Jobs /\ job'.candidates = job.candidates
      /\ job'.known = job.known /\ job'.writes = rest
      /\ job'.at = IF rest = <<>> THEN "candidate" ELSE "row"
  BY <1>0, <1>4 DEF MemoryInv, MemoryTypes, Jobs
<1>6. Ids' = Ids /\ Active' = Active /\ version \in Nat
  BY <1>0 DEF Ids, Active, MemoryInv, MemoryTypes
<1>7. log \in Seq(Entries)
  BY DEF MemoryInv, MemoryTypes
<1>8. MemoryTypes'
  BY <1>0, <1>2, <1>5, <1>6, <1>7 DEF MemoryInv, MemoryTypes
<1>9. RowsFit'
  BY <1>0, <1>6 DEF MemoryInv, RowsFit, MemoryTypes, Names
<1>10. LogFits'
  <2>1. HasLast(log')
    BY <1>0, <1>2, <1>7, ReplayGrows DEF MemoryInv, LogFits
  <2>2. ASSUME NEW k \in DOMAIN log'
        PROVE  Fits(log'[k][1], log'[k][2]) /\ log'[k][1][2] < version'
    <3>1. CASE k \in DOMAIN log
      <4>1. log'[k] = log[k] /\ log[k] \in Entries
        BY <3>1, <1>0, <1>7
      <4>2. Fits(log[k][1], log[k][2]) /\ log[k][1][2] < version /\ log[k][1][2] \in Nat
        BY <3>1, <4>1 DEF MemoryInv, LogFits, Entries, Names
      <4> QED BY <4>1, <4>2, <1>0, <1>6
    <3>2. CASE k \notin DOMAIN log
      <4>1. log'[k] = Write
        BY <3>2, <2>2, <1>0, <1>2, <1>7
      <4> QED BY <4>1, <1>0, <1>2, <1>6 DEF i, m
    <3> QED BY <3>1, <3>2
  <2> QED BY <2>1, <2>2 DEF LogFits
<1>11. CandidatesAreNew'
  <2>0. job.candidates \in Seq(Candidates)
    BY DEF MemoryInv, MemoryTypes, Jobs
  <2>1. \A k \in DOMAIN job.candidates : job.candidates[k].memory.at \in Nat
    <3>1. \A k \in DOMAIN job.candidates : job.candidates[k] \in Candidates
      BY <2>0
    <3>2. \A c \in Candidates : c.memory.at \in Nat
      BY DEF Candidates, Memories
    <3> QED BY <3>1, <3>2
  <2>2. ASSUME NEW k \in DOMAIN job.candidates, NEW w \in DOMAIN rest
        PROVE  /\ rest[w][1] /= job.candidates[k].id
               /\ rest[w][1][2] <= job.candidates[k].memory.at
    BY <1>4 DEF MemoryInv, CandidatesAreNew
  <2> QED BY <1>0, <1>5, <1>6, <2>1, <2>2 DEF MemoryInv, CandidatesAreNew
<1>12. KnownIsCurrent'
  <2> SUFFICES ASSUME job.candidates /= <<>>
               PROVE  /\ job.known \subseteq Ids \cup {rest[k][1] : k \in DOMAIN rest}
                      /\ \A k \in DOMAIN rest :
                           rest[k][2].status = "active" => rest[k][1] \in job.known
    BY <1>5, <1>6 DEF MemoryInv, KnownIsCurrent
  <2>1. ASSUME NEW id \in job.known PROVE id \in Ids \cup {rest[k][1] : k \in DOMAIN rest}
    <3>1. CASE \E k \in DOMAIN job.writes : id = job.writes[k][1]
      BY <3>1, <1>2, <1>3, <1>4 DEF i
    <3> QED BY <2>1, <3>1 DEF MemoryInv, KnownIsCurrent
  <2>2. \A k \in DOMAIN rest : rest[k][2].status = "active" => rest[k][1] \in job.known
    BY <1>4 DEF MemoryInv, KnownIsCurrent
  <2> QED BY <2>1, <2>2
<1>13. WritesFit'
  <2> SUFFICES ASSUME NEW k \in DOMAIN rest
               PROVE  LET id == rest[k][1]  n == rest[k][2] IN
                      /\ Fits(id, n) /\ id[2] <= version'
                      /\ \A l \in DOMAIN rest : l /= k => rest[l][1] /= id
                      /\ id \in Ids => id \in Active \cup torn
                      /\ k < Len(rest) => n.status /= "active"
                      /\ n.status = "active" =>
                           \A b \in Active : (\A l \in 1..(k - 1) : rest[l][1] /= b) =>
                                               Compatible(id, n, b, rows[b])
    BY <1>0, <1>5, <1>6 DEF WritesFit
  <2> DEFINE id == rest[k][1]
             n == rest[k][2]
  <2>1. /\ k + 1 \in DOMAIN job.writes /\ rest[k] = job.writes[k + 1] /\ k + 1 > 1 /\ k \in Nat \ {0}
        /\ k + 1 <= Len(job.writes)
    BY <1>1, <1>4
  <2>2. Fits(id, n) /\ id[2] <= version /\ id[2] \in Nat
    BY <2>1, <1>1 DEF MemoryInv, WritesFit, Entries, Names
  <2>3. \A l \in DOMAIN rest : l /= k => rest[l][1] /= id
    BY <2>1, <1>4 DEF MemoryInv, WritesFit
  <2>4. id \in Ids => id \in Active \cup torn
    BY <2>1 DEF MemoryInv, WritesFit
  <2>5. k < Len(rest) => n.status /= "active"
    BY <2>1, <1>4 DEF MemoryInv, WritesFit
  <2>6. ASSUME n.status = "active", NEW b \in Active, \A l \in 1..(k - 1) : rest[l][1] /= b
        PROVE  Compatible(id, n, b, rows[b])
    <3>1. b /= i
      <4>1. m.status /= "active"
        BY <2>1, <1>2 DEF MemoryInv, WritesFit, m
      <4> QED BY <4>1, <1>3 DEF Active
    <3>2. ASSUME NEW l \in 1..((k + 1) - 1) PROVE job.writes[l][1] /= b
      <4>1. CASE l = 1
        BY <4>1, <3>1, <1>2 DEF i
      <4>2. CASE l /= 1
        <5>1. l - 1 \in 1..(k - 1) /\ l \in DOMAIN job.writes
          BY <4>2, <2>1, <1>1
        <5> QED BY <5>1, <4>2, <2>6, <1>4
      <4> QED BY <4>1, <4>2
    <3> QED BY <3>2, <2>1, <2>6 DEF MemoryInv, WritesFit
  <2> QED BY <2>2, <2>3, <2>4, <2>5, <2>6, <1>0, <1>6
<1>14. RowIsWritten'
  BY <1>5 DEF RowIsWritten
<1>15. RowsAreRecorded'
  <2>1. BeingSaved = {i} /\ BeingSaved' = {}
    BY <1>0, <1>5 DEF BeingSaved, i
  <2>2. /\ DOMAIN Rebuilt' = DOMAIN Rebuilt \cup {i} /\ Rebuilt'[i] = m
        /\ \A id \in DOMAIN Rebuilt \ {i} : Rebuilt'[id] = Rebuilt[id]
    BY <1>0, <1>2, <1>7, ReplayGrows, RebuiltIsReplay DEF MemoryInv, LogFits, i, m
  <2>3. job'.at = "row" => Valid(Write'[2])
    <3>1. CASE rest /= <<>>
      <4>1. 1 \in DOMAIN rest /\ Write' = rest[1] /\ rest[1] = job.writes[2] /\ 2 \in DOMAIN job.writes
        BY <3>1, <1>4, <1>5 DEF Write
      <4> QED BY <4>1 DEF MemoryInv, WritesFit, Fits
    <3> QED BY <3>1, <1>5
  <2>4. ASSUME NEW id \in (Ids' \cup DOMAIN Rebuilt') \ (torn' \cup BeingSaved')
        PROVE  id \in Ids' \cap DOMAIN Rebuilt' /\ rows'[id] = Rebuilt'[id]
    <3>1. CASE id = i
      BY <3>1, <2>2, <1>0, <1>3, <1>6
    <3>2. CASE id /= i
      <4>1. id \in (Ids \cup DOMAIN Rebuilt) \ (torn \cup BeingSaved)
        BY <3>2, <2>1, <2>2, <2>4, <1>0, <1>6
      <4> QED BY <4>1, <3>2, <2>2, <1>0, <1>6 DEF MemoryInv, RowsAreRecorded
    <3> QED BY <3>1, <3>2
  <2> QED BY <2>3, <2>4 DEF RowsAreRecorded
<1>16. NoConflictingKnowledge'
  BY <1>0, <1>6, ConflictForm, ConflictFormNext DEF MemoryInv
<1> QED BY <1>8, <1>9, <1>10, <1>11, <1>12, <1>13, <1>14, <1>15, <1>16 DEF MemoryInv

-----------------------------------------------------------------------------
(* Maintenance *)

LEMMA RebuildStep == MemoryInv /\ RebuildFromEvents => MemoryInv'
<1> SUFFICES ASSUME MemoryInv, RebuildFromEvents PROVE MemoryInv'
  OBVIOUS
<1>0. /\ job.at = "idle" /\ rows' = Rebuilt /\ torn' = {} /\ revived' = revived \cup torn
      /\ UNCHANGED <<version, log, job, crashes>>
  BY DEF RebuildFromEvents
<1>1. log \in Seq(Entries) /\ HasLast(log)
  BY DEF MemoryInv, MemoryTypes, LogFits
<1>2. Ids' = DOMAIN Rebuilt /\ Rebuilt' = Rebuilt /\ job.writes = <<>> /\ job.candidates = <<>>
  BY <1>0 DEF Ids, Rebuilt, MemoryInv, WritesFit
<1>3. ASSUME NEW id \in DOMAIN Rebuilt
      PROVE  \E k \in DOMAIN log : log[k][1] = id /\ log[k] \in Entries /\ Rebuilt[id] = log[k][2]
  BY <1>1, <1>3, ReplayHasLast, RebuiltIsReplay DEF IsLast
<1>4. IsFiniteSet(DOMAIN Rebuilt)
  <2>1. IsFiniteSet(DOMAIN log)
    BY <1>1, FS_Interval
  <2>2. IsFiniteSet({log[k][1] : k \in DOMAIN log})
    <3> DEFINE T == {log[k][1] : k \in DOMAIN log}
               f == [k \in DOMAIN log |-> log[k][1]]
    <3>1. f \in Surjection(DOMAIN log, T)
      BY DEF Surjection
    <3> QED BY <2>1, <3>1, FS_Surjection DEF ExistsSurjection
  <2> QED BY <2>2 DEF Rebuilt
<1>5. \A id \in DOMAIN Rebuilt : id \in Names /\ Rebuilt[id] \in Memories
  BY <1>3 DEF Entries
<1>6. Rebuilt = [id \in DOMAIN Rebuilt |-> Rebuilt[id]]
  BY DEF Rebuilt
<1>7. MemoryTypes'
  <2>1. rows' \in [Ids' -> Memories] /\ Ids' \subseteq Names
    BY <1>0, <1>2, <1>5, <1>6
  <2>2. lexical' \subseteq Names /\ vector' \subseteq Names
    BY <1>5 DEF RebuildFromEvents
  <2> QED BY <1>0, <1>2, <1>4, <2>1, <2>2 DEF MemoryInv, MemoryTypes
<1>8. RowsFit' /\ LogFits'
  <2>1. ASSUME NEW id \in DOMAIN Rebuilt
        PROVE  Fits(id, Rebuilt[id]) /\ id[2] <= version
    <3>1. PICK k \in DOMAIN log : log[k][1] = id /\ log[k] \in Entries /\ Rebuilt[id] = log[k][2]
      BY <1>3
    <3>2. Fits(id, Rebuilt[id]) /\ id[2] < version /\ id[2] \in Nat
      BY <3>1 DEF MemoryInv, LogFits, Entries, Names
    <3> QED BY <3>2 DEF MemoryInv, MemoryTypes
  <2> QED BY <2>1, <1>0, <1>2 DEF MemoryInv, RowsFit, LogFits
<1>9. CandidatesAreNew' /\ KnownIsCurrent' /\ WritesFit' /\ RowIsWritten'
  BY <1>0, <1>2 DEF CandidatesAreNew, KnownIsCurrent, WritesFit, RowIsWritten
<1>10. RowsAreRecorded'
  BY <1>0, <1>2 DEF RowsAreRecorded
<1>11. NoConflictingKnowledge'
  <2>1. BeingSaved = {}
    BY <1>0 DEF BeingSaved
  <2>2. ASSUME NEW c \in Active' \ revived'
        PROVE  c \in Active \ revived /\ rows'[c] = rows[c]
    <3>1. c \in DOMAIN Rebuilt /\ c \notin torn /\ c \notin revived /\ rows'[c].status = "active"
      BY <2>2, <1>0, <1>2 DEF Active
    <3>2. c \in Ids /\ rows[c] = Rebuilt[c]
      BY <3>1, <2>1 DEF MemoryInv, RowsAreRecorded
    <3> QED BY <3>1, <3>2, <1>0 DEF Active
  <2> QED BY <2>2, ConflictForm, ConflictFormNext DEF MemoryInv
<1> QED BY <1>7, <1>8, <1>9, <1>10, <1>11 DEF MemoryInv

LEMMA MaintenanceJob ==
  ASSUME NEW writes \in Seq(Entries)
  PROVE  [at |-> "row", candidates |-> <<>>, known |-> {}, writes |-> writes] \in Jobs
BY DEF Jobs

\* A job of maintenance begins: what it writes fits, and no candidate is left.
LEMMA MaintenanceStep ==
  ASSUME MemoryInv, MayBegin, UNCHANGED <<stores, torn, revived, crashes>>,
         NEW writes \in Seq(Entries) \ {<<>>},
         job' = [IdleJob EXCEPT !.at = "row", !.writes = writes],
         \A k \in DOMAIN writes :
           LET id == writes[k][1]  m == writes[k][2] IN
           /\ Fits(id, m) /\ id[2] <= version
           /\ \A l \in DOMAIN writes : l /= k => writes[l][1] /= id
           /\ id \in Ids => id \in Active \cup torn
           /\ k < Len(writes) => m.status /= "active"
           /\ m.status = "active" => \A b \in Active : Compatible(id, m, b, rows[b])
  PROVE  MemoryInv'
<1>0. /\ job' = [at |-> "row", candidates |-> <<>>, known |-> {}, writes |-> writes]
      /\ job'.at = "row" /\ job'.candidates = <<>> /\ job'.writes = writes
  BY DEF IdleJob
<1>1. /\ RowsFit' /\ LogFits' /\ NoConflictingKnowledge'
      /\ Ids' = Ids /\ Active' = Active /\ Rebuilt' = Rebuilt
  BY StoresKept DEF stores, MemoryInv, MemoryTypes
<1>2. MemoryTypes'
  <2>1. job' \in Jobs
    BY <1>0, MaintenanceJob
  <2> QED BY <1>1, <2>1 DEF stores, MemoryInv, MemoryTypes
<1>3. CandidatesAreNew' /\ KnownIsCurrent' /\ RowIsWritten'
  BY <1>0 DEF CandidatesAreNew, KnownIsCurrent, RowIsWritten
<1>4. WritesFit'
  BY <1>0, <1>1 DEF stores, WritesFit
<1>5. RowsAreRecorded'
  <2>1. BeingSaved' = {} /\ BeingSaved = {}
    BY <1>0 DEF BeingSaved, MayBegin
  <2>2. Valid(Write'[2])
    <3>1. Write' = writes[1] /\ 1 \in DOMAIN writes
      BY <1>0 DEF Write
    <3> QED BY <3>1 DEF Fits
  <2> QED BY <1>0, <1>1, <2>1, <2>2 DEF stores, MemoryInv, RowsAreRecorded
<1> QED BY <1>1, <1>2, <1>3, <1>4, <1>5 DEF MemoryInv

LEMMA ConsolidateStep == MemoryInv /\ Consolidate => MemoryInv'
<1> SUFFICES ASSUME MemoryInv, Consolidate PROVE MemoryInv'
  OBVIOUS
<1> DEFINE i == <<"consolidated", version, 1>>
           m == Memory("procedure", version, 95, 85, 90)
<1>0. /\ MayBegin /\ Cardinality(Failures) >= Recurring
      /\ job' = [IdleJob EXCEPT !.at = "row", !.writes = << <<i, m>> >>]
      /\ UNCHANGED <<stores, torn, revived, crashes>>
  BY DEF Consolidate
<1>1. version \in Nat /\ version > 0
  <2>1. version \in Nat
    BY DEF MemoryInv, MemoryTypes
  <2>2. Failures /= {}
    BY <1>0, FS_EmptySet, BoundsNatural
  <2>3. PICK id \in Ids : TRUE
    BY <2>2 DEF Failures
  <2>4. id[2] <= version /\ id[2] > 0 /\ id[2] \in Nat
    BY DEF MemoryInv, RowsFit, Fits, Valid, MemoryTypes, Names
  <2> QED BY <2>1, <2>4
<1>2. /\ m \in Memories /\ m.at = version /\ m.type = "procedure" /\ m.until = None
      /\ m.supersedes = None
  BY <1>1 DEF Memory, Memories, Types, Statuses
<1>3. i \in Names /\ i[1] = "consolidated" /\ i[2] = version
  BY <1>1 DEF Names
<1> HIDE DEF m, i
<1>4. Fits(i, m)
  BY <1>1, <1>2, <1>3 DEF Fits, Valid
<1>5. i \in Ids => i \in torn
  <2> SUFFICES ASSUME i \in Ids, i \notin torn PROVE FALSE
    OBVIOUS
  <2>1. i \in DOMAIN Rebuilt
    BY <1>0 DEF MayBegin, BeingSaved, MemoryInv, RowsAreRecorded
  <2>2. PICK k \in DOMAIN log : log[k][1] = i
    BY <2>1 DEF Rebuilt
  <2> QED BY <2>2, <1>1, <1>3 DEF MemoryInv, LogFits
<1>6. ASSUME NEW b \in Active PROVE Compatible(i, m, b, rows[b])
  <2>1. b \in Names /\ rows[b] \in Memories /\ Fits(b, rows[b])
    BY DEF Active, MemoryInv, MemoryTypes, RowsFit
  <2>2. m.supersedes /= b
    BY <2>1, <1>2, NoneIsNoName
  <2>3. rows[b].supersedes /= i
    BY <2>1, <1>3, NoneIsNoName DEF Fits
  <2> QED BY <2>2, <2>3, <1>2 DEF Compatible
<1> DEFINE writes == << <<i, m>> >>
<1>7. /\ writes \in Seq(Entries) \ {<<>>} /\ DOMAIN writes = {1} /\ Len(writes) = 1
      /\ writes[1][1] = i /\ writes[1][2] = m
  BY <1>2, <1>3 DEF Entries
<1>8. job' = [IdleJob EXCEPT !.at = "row", !.writes = writes]
  BY <1>0
<1> HIDE DEF writes
<1>9. ASSUME NEW k \in DOMAIN writes
      PROVE  LET id == writes[k][1]  n == writes[k][2] IN
             /\ Fits(id, n) /\ id[2] <= version
             /\ \A l \in DOMAIN writes : l /= k => writes[l][1] /= id
             /\ id \in Ids => id \in Active \cup torn
             /\ k < Len(writes) => n.status /= "active"
             /\ n.status = "active" => \A b \in Active : Compatible(id, n, b, rows[b])
  <2>1. k = 1
    BY <1>7, <1>9
  <2>2. \A l \in DOMAIN writes : l = k
    BY <1>7, <2>1
  <2> QED BY <2>1, <2>2, <1>1, <1>3, <1>4, <1>5, <1>6, <1>7
<1> QED BY <1>0, <1>7, <1>8, <1>9, MaintenanceStep

\* The orders of a finite set list each of its members once.
LEMMA OrdersList ==
  ASSUME NEW S, IsFiniteSet(S), NEW order \in Orders(S)
  PROVE  LET n == Cardinality(S) IN
         /\ n \in Nat /\ DOMAIN order = 1..n /\ order \in Seq(S) /\ Len(order) = n
         /\ \A k \in 1..n : order[k] \in S
         /\ \A k \in 1..n, l \in 1..n : order[k] = order[l] => k = l
         /\ \A x \in S : \E k \in 1..n : order[k] = x
<1> DEFINE n == Cardinality(S)
<1>1. n \in Nat
  BY FS_CardinalityType
<1> HIDE DEF n
<1>2. order \in [1..n -> S] /\ IsInjective(order) /\ \A x \in S : \E k \in 1..n : order[k] = x
  BY DEF Orders, Bijection, Injection, Surjection, n
<1>3. \A k \in 1..n, l \in 1..n : order[k] = order[l] => k = l
  BY <1>2 DEF IsInjective
<1> QED BY <1>1, <1>2, <1>3 DEF n

LEMMA ArchiveStep == MemoryInv /\ Archive => MemoryInv'
<1> SUFFICES ASSUME MemoryInv, Archive PROVE MemoryInv'
  OBVIOUS
<1>0. MayBegin /\ LowValue(version) /= {} /\ UNCHANGED <<stores, torn, revived, crashes>>
  BY DEF Archive
<1> DEFINE S == LowValue(version)
<1>1. PICK order \in Orders(S) :
        job' = [IdleJob EXCEPT !.at = "row",
         !.writes = [k \in DOMAIN order |->
                       <<order[k], [rows[order[k]] EXCEPT !.status = "archived"]>>]]
  BY DEF Archive
<1>2. S \subseteq Active /\ Active \subseteq Ids /\ S \subseteq Ids
  BY DEF LowValue, ActiveAt, Active
<1>3. IsFiniteSet(S)
  BY <1>2, FS_Subset DEF MemoryInv, MemoryTypes
<1> HIDE DEF S
<1> DEFINE n == Cardinality(S)
           writes == [k \in DOMAIN order |->
                        <<order[k], [rows[order[k]] EXCEPT !.status = "archived"]>>]
<1>4. /\ n \in Nat /\ DOMAIN order = 1..n
      /\ \A k \in 1..n : order[k] \in S
      /\ \A k \in 1..n, l \in 1..n : order[k] = order[l] => k = l
      /\ \A x \in S : \E k \in 1..n : order[k] = x
  BY <1>3, OrdersList
<1>5. ASSUME NEW id \in S
      PROVE  LET m == [rows[id] EXCEPT !.status = "archived"] IN
             m \in Memories /\ Fits(id, m) /\ m.status = "archived" /\ id \in Names /\ id[2] <= version
  <2>1. /\ rows[id] \in Memories /\ Fits(id, rows[id]) /\ id \in Names /\ id[2] <= version
    BY <1>2 DEF MemoryInv, MemoryTypes, RowsFit
  <2> DEFINE m == [rows[id] EXCEPT !.status = "archived"]
  <2>2. /\ m \in Memories /\ m.status = "archived" /\ m.at = rows[id].at /\ m.type = rows[id].type
        /\ m.until = rows[id].until /\ m.supersedes = rows[id].supersedes
    BY <2>1 DEF Memories, Statuses
  <2> HIDE DEF m
  <2>3. Fits(id, m)
    BY <2>1, <2>2 DEF Fits, Valid
  <2> QED BY <2>1, <2>2, <2>3 DEF m
<1>6. ASSUME NEW k \in 1..n
      PROVE  /\ writes[k] = <<order[k], [rows[order[k]] EXCEPT !.status = "archived"]>>
             /\ writes[k] \in Entries /\ order[k] \in S
  <2>1. writes[k] = <<order[k], [rows[order[k]] EXCEPT !.status = "archived"]>> /\ order[k] \in S
    BY <1>4
  <2>2. order[k] \in Names /\ [rows[order[k]] EXCEPT !.status = "archived"] \in Memories
    BY <2>1, <1>5
  <2> QED BY <2>1, <2>2 DEF Entries
<1>7. writes = [k \in 1..n |-> writes[k]]
  BY <1>4
<1>8. job' = [IdleJob EXCEPT !.at = "row", !.writes = writes]
  BY <1>1
<1>9. n /= 0
  BY <1>0, <1>4 DEF S
<1> HIDE DEF writes, n
<1>10. writes \in Seq(Entries) /\ Len(writes) = n /\ DOMAIN writes = 1..n /\ writes /= <<>>
  BY <1>4, <1>6, <1>7, <1>9
<1>11. ASSUME NEW k \in DOMAIN writes
       PROVE  LET id == writes[k][1]  m == writes[k][2] IN
              /\ Fits(id, m) /\ id[2] <= version
              /\ \A l \in DOMAIN writes : l /= k => writes[l][1] /= id
              /\ id \in Ids => id \in Active \cup torn
              /\ m.status /= "active"
  <2>1. order[k] \in S /\ writes[k] = <<order[k], [rows[order[k]] EXCEPT !.status = "archived"]>>
    BY <1>6, <1>10, <1>11
  <2>2. ASSUME NEW l \in DOMAIN writes, l /= k PROVE writes[l][1] /= order[k]
    BY <2>2, <1>4, <1>6, <1>10
  <2> DEFINE m == [rows[order[k]] EXCEPT !.status = "archived"]
  <2>3. Fits(order[k], m) /\ m.status /= "active" /\ order[k][2] <= version /\ order[k] \in Active
    BY <2>1, <1>2, <1>5
  <2>4. writes[k][1] = order[k] /\ writes[k][2] = m
    BY <2>1
  <2> HIDE DEF m
  <2> QED BY <2>2, <2>3, <2>4
<1> QED BY <1>0, <1>8, <1>10, <1>11, MaintenanceStep

-----------------------------------------------------------------------------
(* Taking a candidate *)

\* The candidates that are left when the first is taken.
LEMMA CandidateIsFirst ==
  ASSUME MemoryInv, job.candidates /= <<>>
  PROVE  LET c == Head(job.candidates)  rest == Tail(job.candidates) IN
         /\ c \in Candidates /\ c.id \in Names /\ c.memory \in Memories
         /\ c = job.candidates[1] /\ 1 \in DOMAIN job.candidates
         /\ rest \in Seq(Candidates)
         /\ \A k \in DOMAIN rest : /\ k + 1 \in DOMAIN job.candidates /\ k + 1 /= 1
                                   /\ k \in Nat /\ rest[k] = job.candidates[k + 1]
<1> DEFINE c == Head(job.candidates)
           rest == Tail(job.candidates)
<1>1. job.candidates \in Seq(Candidates)
  BY DEF MemoryInv, MemoryTypes, Jobs
<1>2. c = job.candidates[1] /\ 1 \in DOMAIN job.candidates /\ c \in Candidates
  BY <1>1
<1>3. rest \in Seq(Candidates)
  BY <1>1
<1>4. \A k \in DOMAIN rest : /\ k + 1 \in DOMAIN job.candidates /\ k + 1 /= 1
                             /\ k \in Nat /\ rest[k] = job.candidates[k + 1]
  BY <1>1
<1>5. c.id \in Names /\ c.memory \in Memories
  BY <1>2 DEF Candidates
<1> QED BY <1>2, <1>3, <1>4, <1>5

\* What is left of the candidates stays new, whatever the first leads to.
LEMMA RestIsNew ==
  ASSUME MemoryInv, job.candidates /= <<>>
  PROVE  LET c == Head(job.candidates)  rest == Tail(job.candidates) IN
         \A k \in DOMAIN rest :
           LET d == rest[k] IN
           /\ Fits(d.id, d.memory) /\ d.memory.status = "active" /\ d.memory.at <= version
           /\ d.id \notin Ids /\ \A id \in Ids : id[2] <= d.memory.at
           /\ d.id /= c.id /\ c.memory.at = d.memory.at
           /\ \A l \in DOMAIN rest : l /= k =>
                rest[l].id /= d.id /\ rest[l].memory.at = d.memory.at
<1> DEFINE c == Head(job.candidates)
           rest == Tail(job.candidates)
<1>1. /\ c = job.candidates[1] /\ 1 \in DOMAIN job.candidates
      /\ \A k \in DOMAIN rest : /\ k + 1 \in DOMAIN job.candidates /\ k + 1 /= 1
                                /\ k \in Nat /\ rest[k] = job.candidates[k + 1]
  BY CandidateIsFirst
<1> HIDE DEF c, rest
<1> SUFFICES ASSUME NEW k \in DOMAIN rest
             PROVE  LET d == rest[k] IN
           /\ Fits(d.id, d.memory) /\ d.memory.status = "active" /\ d.memory.at <= version
           /\ d.id \notin Ids /\ \A id \in Ids : id[2] <= d.memory.at
           /\ d.id /= c.id /\ c.memory.at = d.memory.at
           /\ \A l \in DOMAIN rest : l /= k =>
                rest[l].id /= d.id /\ rest[l].memory.at = d.memory.at
  BY DEF c, rest
<1>2. k + 1 \in DOMAIN job.candidates /\ k + 1 /= 1 /\ rest[k] = job.candidates[k + 1]
  BY <1>1
<1>3. ASSUME NEW l \in DOMAIN rest, l /= k
      PROVE  l + 1 \in DOMAIN job.candidates /\ l + 1 /= k + 1 /\ rest[l] = job.candidates[l + 1]
  BY <1>1, <1>3
<1> QED BY <1>1, <1>2, <1>3 DEF MemoryInv, CandidatesAreNew

\* The gate refuses the candidate.
LEMMA RefusedStep ==
  ASSUME MemoryInv, job.at = "candidate", job.candidates /= <<>>,
         UNCHANGED <<stores, torn, revived, crashes>>,
         job' = [job EXCEPT !.candidates = Tail(@)]
  PROVE  MemoryInv'
<1> DEFINE rest == Tail(job.candidates)
<1>1. rest \in Seq(Candidates)
  BY CandidateIsFirst
<1>2. /\ job' \in Jobs /\ job'.at = "candidate" /\ job'.candidates = rest
      /\ job'.known = job.known /\ job'.writes = job.writes
  BY <1>1 DEF MemoryInv, MemoryTypes, Jobs
<1>3. job.writes = <<>>
  BY DEF MemoryInv, WritesFit
<1>4. /\ RowsFit' /\ LogFits' /\ NoConflictingKnowledge'
      /\ Ids' = Ids /\ Active' = Active /\ Rebuilt' = Rebuilt
  BY StoresKept DEF stores, MemoryInv, MemoryTypes
<1>5. MemoryTypes'
  BY <1>2, <1>4 DEF stores, MemoryInv, MemoryTypes
<1>6. CandidatesAreNew'
  BY <1>2, <1>3, <1>4, RestIsNew DEF stores, CandidatesAreNew
<1>7. KnownIsCurrent'
  BY <1>2, <1>4 DEF stores, MemoryInv, KnownIsCurrent
<1>8. WritesFit' /\ RowIsWritten'
  BY <1>2, <1>3 DEF WritesFit, RowIsWritten
<1>9. RowsAreRecorded'
  BY <1>2, <1>4 DEF stores, MemoryInv, RowsAreRecorded, BeingSaved
<1> QED BY <1>4, <1>5, <1>6, <1>7, <1>8, <1>9 DEF MemoryInv

\* What becomes of a memory in force that a candidate m replaces or disputes.
Replaced(id, old, m) ==
  IF id \in old THEN Supersede(rows[id], m) ELSE Dispute(rows[id])

LEMMA ReplacedFits ==
  ASSUME MemoryInv, NEW m \in Memories, NEW c \in Names, Fits(c, m), m.at <= version,
         NEW known, NEW id \in known \cap Active,
         id \in SupersededBy(m, known) \cup ContradictedBy(m, known)
  PROVE  LET n == Replaced(id, SupersededBy(m, known), m) IN
         /\ n \in Memories /\ n.status /= "active" /\ Fits(id, n)
         /\ id \in Names /\ id[2] <= version
<1> DEFINE o == rows[id]
           n == Replaced(id, SupersededBy(m, known), m)
<1>1. /\ id \in Names /\ id \in Ids /\ o \in Memories /\ Fits(id, o) /\ id[2] <= version
      /\ o.status = "active"
  BY DEF Active, MemoryInv, MemoryTypes, RowsFit
<1>2. m.at \in Nat /\ o.at \in Nat
  BY <1>1 DEF Memories
<1>3. CASE id \in SupersededBy(m, known)
  <2>1. n = Supersede(o, m) /\ m.supersedes = id
    BY <1>3 DEF Replaced, SupersededBy
  <2>2. id[2] < m.at
    BY <2>1, <1>1, NoneIsNoName DEF Fits
  <2> HIDE DEF o, n
  <2>3. /\ n \in Memories /\ n.status = "superseded" /\ n.until = m.at - 1 /\ n.at = o.at
        /\ n.type = o.type /\ n.supersedes = o.supersedes
    <3>1. m.at - 1 \in Int /\ "superseded" \in Statuses
      BY <1>2 DEF Statuses
    <3>2. n = [o EXCEPT !.status = "superseded", !.until = m.at - 1]
      BY <2>1 DEF Supersede
    <3> HIDE DEF Statuses
    <3> QED BY <3>1, <3>2, <1>1 DEF Memories
  <2>4. Valid(n)
    BY <2>2, <2>3, <1>1, <1>2 DEF Valid, Fits
  <2>5. Fits(id, n)
    BY <2>3, <2>4, <1>1 DEF Fits
  <2> QED BY <2>3, <2>5, <1>1 DEF n
<1>4. CASE id \notin SupersededBy(m, known)
  <2>1. n = Dispute(o)
    BY <1>4 DEF Replaced
  <2> HIDE DEF o, n
  <2>2. /\ n \in Memories /\ n.status = "disputed" /\ n.until = o.until /\ n.at = o.at
        /\ n.type = o.type /\ n.supersedes = o.supersedes
    BY <2>1, <1>1 DEF Dispute, Memories, Statuses
  <2>3. Fits(id, n)
    BY <2>2, <1>1 DEF Fits, Valid
  <2> QED BY <2>2, <2>3, <1>1 DEF n
<1> QED BY <1>3, <1>4

\* A candidate that contradicts nothing known, and replaces all it says it
\* replaces, is compatible with the rest of what is in force.
LEMMA NewIsCompatible ==
  ASSUME MemoryInv, NEW c \in Names, NEW m \in Memories, Fits(c, m), c \notin Ids,
         \A id \in Ids : id[2] <= m.at,
         NEW known, Active \subseteq known, ContradictedBy(m, known) = {},
         NEW b \in Active, b \notin SupersededBy(m, known)
  PROVE  Compatible(c, m, b, rows[b])
<1> DEFINE o == rows[b]
<1>1. /\ b \in Names /\ b \in Ids /\ o \in Memories /\ Fits(b, o) /\ o.status = "active"
      /\ b \in known
  BY DEF Active, MemoryInv, MemoryTypes, RowsFit
<1> HIDE DEF o
<1>2. m.supersedes /= b
  <2> SUFFICES ASSUME m.supersedes = b PROVE FALSE
    OBVIOUS
  <2>1. m.type = "decision" /\ b[1] = "decision"
    BY <1>1, NoneIsNoName DEF Fits
  <2>2. o.type = "decision"
    BY <2>1, <1>1 DEF Fits
  <2> QED BY <2>1, <2>2, <1>1 DEF SupersededBy, o
<1>3. o.supersedes /= c
  <2> SUFFICES ASSUME o.supersedes = c PROVE FALSE
    OBVIOUS
  <2>1. c[2] < o.at /\ o.at = b[2]
    BY <1>1, NoneIsNoName DEF Fits
  <2>2. b[2] <= m.at /\ m.at = c[2]
    BY <1>1 DEF Fits
  <2>3. c[2] \in Nat /\ b[2] \in Nat
    BY <1>1 DEF Names
  <2> QED BY <2>1, <2>2, <2>3
<1>4. ~(/\ m.type = "assumption" /\ o.type = "assumption"
        /\ m.topic = o.topic /\ m.polarity /= o.polarity)
  BY <1>1 DEF ContradictedBy, o
<1> QED BY <1>2, <1>3, <1>4 DEF Compatible, o

\* The writes that save candidate c, as s, after what it replaces or disputes.
Saves(writes, c, s, old, against) ==
  LET n == Len(writes) IN
  /\ writes \in Seq(Entries) /\ n > 0 /\ writes[n] = <<c.id, s>>
  /\ \A k \in 1..(n - 1) : /\ writes[k][1] \in old \cup against
                           /\ writes[k][2] = Replaced(writes[k][1], old, c.memory)
  /\ \A k \in 1..(n - 1), l \in 1..(n - 1) : writes[k][1] = writes[l][1] => k = l
  /\ \A id \in old \cup against : \E k \in 1..(n - 1) : writes[k][1] = id

\* The entries that TakeCandidate puts in an order are such writes.
LEMMA OrderSaves ==
  ASSUME NEW S, IsFiniteSet(S), NEW order \in Orders(S), NEW old, NEW against, S = old \cup against,
         NEW c, NEW s, <<c.id, s>> \in Entries,
         \A id \in S : <<id, Replaced(id, old, c.memory)>> \in Entries
  PROVE  Saves(Append([k \in DOMAIN order |-> <<order[k], Replaced(order[k], old, c.memory)>>],
                      <<c.id, s>>), c, s, old, against)
<1> DEFINE n == Cardinality(S)
           first == [k \in DOMAIN order |-> <<order[k], Replaced(order[k], old, c.memory)>>]
           writes == Append(first, <<c.id, s>>)
<1>1. /\ n \in Nat /\ DOMAIN order = 1..n
      /\ \A k \in 1..n : order[k] \in S
      /\ \A k \in 1..n, l \in 1..n : order[k] = order[l] => k = l
      /\ \A x \in S : \E k \in 1..n : order[k] = x
  <2>1. IsFiniteSet(S) /\ order \in Orders(S)
    OBVIOUS
  <2> QED BY ONLY <2>1, OrdersList
<1> HIDE DEF n
<1>2. \A k \in 1..n : /\ first[k] = <<order[k], Replaced(order[k], old, c.memory)>>
                      /\ first[k] \in Entries
  BY <1>1
<1>3. first = [k \in 1..n |-> first[k]]
  BY <1>1
<1> HIDE DEF first
<1>4. first \in Seq(Entries) /\ Len(first) = n
  BY <1>1, <1>2, <1>3
<1>5. /\ writes \in Seq(Entries) /\ Len(writes) = n + 1 /\ writes[n + 1] = <<c.id, s>>
      /\ \A k \in 1..n : writes[k] = first[k]
  BY <1>1, <1>4
<1> HIDE DEF writes
<1>6. /\ Len(writes) > 0 /\ (n + 1) - 1 = n /\ writes[Len(writes)] = <<c.id, s>>
      /\ 1..(Len(writes) - 1) = 1..n
  BY <1>1, <1>5
<1>7. ASSUME NEW k \in 1..n
      PROVE  /\ writes[k][1] = order[k] /\ writes[k][1] \in S
             /\ writes[k][2] = Replaced(writes[k][1], old, c.memory)
  BY <1>1, <1>2, <1>5
<1>8. Saves(writes, c, s, old, against)
  BY <1>1, <1>5, <1>6, <1>7 DEF Saves
<1> QED BY <1>8 DEF writes, first

\* The candidate passes the gate: what it replaces or disputes is saved in some
\* order, and then the candidate.
LEMMA AcceptedStep ==
  ASSUME MemoryInv, job.at = "candidate", job.candidates /= <<>>,
         UNCHANGED <<stores, torn, revived, crashes>>,
         NEW c, c = Head(job.candidates),
         NEW old, old = SupersededBy(c.memory, job.known),
         NEW against, against = ContradictedBy(c.memory, job.known),
         NEW saved, saved \in Memories, Fits(c.id, saved),
         saved.status = "active" => saved = c.memory /\ against = {},
         NEW writes, Saves(writes, c, saved, old, against),
         job' \in Jobs, job'.at = "row", job'.candidates = Tail(job.candidates),
         job'.known = job.known \cup {c.id}, job'.writes = writes
  PROVE  MemoryInv'
<1> DEFINE rest == Tail(job.candidates)
           n == Len(writes)
           m == c.memory
<1>1. /\ c.id \in Names /\ m \in Memories /\ c = job.candidates[1] /\ 1 \in DOMAIN job.candidates
      /\ rest \in Seq(Candidates)
  BY CandidateIsFirst
<1>2. /\ Fits(c.id, m) /\ m.status = "active" /\ m.at <= version /\ c.id \notin Ids
      /\ c.id[2] = m.at /\ m.at \in Nat
      /\ \A id \in Ids : id[2] <= m.at
  BY <1>1 DEF MemoryInv, CandidatesAreNew, Fits, Memories
<1>3. job.writes = <<>>
  BY DEF MemoryInv, WritesFit
<1>4. Active \subseteq job.known /\ job.known \subseteq Ids /\ Active \subseteq Ids /\ Ids \subseteq Names
  BY <1>3 DEF MemoryInv, MemoryTypes, KnownIsCurrent, Active
<1>5. /\ writes \in Seq(Entries) /\ n \in Nat \ {0} /\ writes[n] = <<c.id, saved>>
      /\ DOMAIN writes = 1..n /\ n \in DOMAIN writes /\ 1 \in DOMAIN writes
  BY DEF Saves
<1>6. old \subseteq Active /\ against \subseteq Active /\ Active \subseteq job.known
  BY <1>4 DEF SupersededBy, ContradictedBy, Active
<1>7. ASSUME NEW k \in 1..(n - 1)
      PROVE  /\ writes[k][1] \in Active /\ writes[k][1] \in Ids
             /\ writes[k][2].status /= "active"
             /\ Fits(writes[k][1], writes[k][2]) /\ writes[k][1][2] <= version
             /\ writes[k][1][2] <= m.at
  <2> DEFINE id == writes[k][1]
  <2>1. id \in old \cup against /\ writes[k][2] = Replaced(id, old, m)
    BY DEF Saves
  <2> HIDE DEF id
  <2>2. id \in job.known \cap Active /\ id \in Ids
    BY <2>1, <1>4, <1>6
  <2>3. LET r == Replaced(id, old, m) IN r.status /= "active" /\ Fits(id, r) /\ id[2] <= version
    BY <2>1, <2>2, <1>1, <1>2, ReplacedFits
  <2> QED BY <2>1, <2>2, <2>3, <1>2 DEF id
<1>8. ASSUME NEW k \in DOMAIN writes
      PROVE  k \in 1..(n - 1) \/ (k = n /\ writes[k][1] = c.id /\ writes[k][2] = saved)
  BY <1>5
<1>9. ASSUME NEW k \in DOMAIN writes, NEW l \in DOMAIN writes, k /= l
      PROVE  writes[k][1] /= writes[l][1]
  <2>1. CASE k = n \/ l = n
    BY <2>1, <1>2, <1>7, <1>8, <1>9
  <2>2. CASE k /= n /\ l /= n
    BY <2>2, <1>8, <1>9 DEF Saves
  <2> QED BY <2>1, <2>2
<1> HIDE DEF rest, n, m
<1>10. /\ RowsFit' /\ LogFits' /\ NoConflictingKnowledge' /\ UNCHANGED <<version, torn>>
       /\ Ids' = Ids /\ Active' = Active /\ Rebuilt' = Rebuilt /\ rows' = rows
  BY StoresKept DEF stores, MemoryInv, MemoryTypes
<1>11. MemoryTypes'
  BY <1>10 DEF stores, MemoryInv, MemoryTypes
<1>12. CandidatesAreNew'
  <2>1. ASSUME NEW k \in DOMAIN rest, NEW w \in DOMAIN writes
        PROVE  writes[w][1] /= rest[k].id /\ writes[w][1][2] <= rest[k].memory.at
    <3>1. rest[k].id \notin Ids /\ rest[k].id /= c.id /\ m.at = rest[k].memory.at
      BY RestIsNew DEF rest, m
    <3>2. CASE w \in 1..(n - 1)
      BY <3>1, <3>2, <1>7
    <3>3. CASE w = n /\ writes[w][1] = c.id
      BY <3>1, <3>3, <1>2
    <3> QED BY <3>2, <3>3, <1>8
  <2>2. \A k \in DOMAIN rest :
           LET d == rest[k] IN
           /\ Fits(d.id, d.memory) /\ d.memory.status = "active" /\ d.memory.at <= version
           /\ d.id \notin Ids /\ \A id \in Ids : id[2] <= d.memory.at
           /\ \A l \in DOMAIN rest : l /= k =>
                rest[l].id /= d.id /\ rest[l].memory.at = d.memory.at
    BY RestIsNew DEF rest
  <2> QED BY <2>1, <2>2, <1>10 DEF CandidatesAreNew, rest
<1>13. KnownIsCurrent'
  <2>1. job.known \cup {c.id} \subseteq Ids \cup {writes[k][1] : k \in DOMAIN writes}
    <3>1. n \in DOMAIN writes /\ writes[n][1] = c.id
      BY <1>5
    <3> QED BY <3>1, <1>4
  <2>2. ASSUME NEW k \in DOMAIN writes, writes[k][2].status = "active"
        PROVE  writes[k][1] \in job.known \cup {c.id}
    BY <2>2, <1>7, <1>8
  <2> QED BY <2>1, <2>2, <1>4, <1>10 DEF KnownIsCurrent
<1>14. WritesFit'
  <2> SUFFICES ASSUME NEW k \in DOMAIN writes
               PROVE  /\ Fits(writes[k][1], writes[k][2]) /\ writes[k][1][2] <= version
                      /\ writes[k][1] \in Ids => writes[k][1] \in Active \cup torn
                      /\ k < Len(writes) => writes[k][2].status /= "active"
                      /\ writes[k][2].status = "active" =>
                           \A b \in Active : (\A l \in 1..(k - 1) : writes[l][1] /= b) =>
                                               Compatible(writes[k][1], writes[k][2], b, rows[b])
    BY <1>5, <1>9, <1>10 DEF WritesFit
  <2>1. CASE k \in 1..(n - 1)
    BY <2>1, <1>7
  <2>2. CASE k = n /\ writes[k][1] = c.id /\ writes[k][2] = saved
    <3>1. c.id[2] <= version /\ ~(k < Len(writes))
      BY <2>2, <1>2, <1>5 DEF n
    <3>2. ASSUME saved.status = "active", NEW b \in Active, \A l \in 1..(k - 1) : writes[l][1] /= b
          PROVE  Compatible(c.id, saved, b, rows[b])
      <4>1. saved = m /\ against = {}
        BY <3>2 DEF m
      <4>2. b \notin old
        BY <2>2, <3>2 DEF Saves, n
      <4> QED BY <4>1, <4>2, <1>1, <1>2, <1>4, NewIsCompatible DEF m
    <3> QED BY <2>2, <3>1, <3>2, <1>2
  <2> QED BY <2>1, <2>2, <1>8
<1>15. RowIsWritten'
  BY DEF RowIsWritten
<1>16. RowsAreRecorded'
  <2>1. BeingSaved' = {} /\ BeingSaved = {}
    BY DEF BeingSaved
  <2>2. Valid(Write'[2])
    <3>1. Write' = writes[1]
      BY <1>5 DEF Write
    <3> QED BY <3>1, <1>5, <1>14 DEF WritesFit, Fits
  <2> QED BY <1>10, <2>1, <2>2 DEF stores, MemoryInv, RowsAreRecorded
<1> QED BY <1>10, <1>11, <1>12, <1>13, <1>14, <1>15, <1>16 DEF MemoryInv

\* A candidate that contradicts something is saved as disputed.
LEMMA SavedFits ==
  ASSUME NEW id \in Names, NEW m \in Memories, Fits(id, m), NEW against,
         NEW saved, saved = IF against = {} THEN m ELSE Dispute(m)
  PROVE  /\ saved \in Memories /\ Fits(id, saved)
         /\ saved.status = "active" => saved = m /\ against = {}
<1>1. CASE against = {}
  BY <1>1
<1>2. CASE against /= {}
  <2>1. saved = [m EXCEPT !.status = "disputed"]
    BY <1>2 DEF Dispute
  <2>2. /\ saved \in Memories /\ saved.status = "disputed" /\ saved.until = m.until
        /\ saved.at = m.at /\ saved.type = m.type /\ saved.supersedes = m.supersedes
    BY <2>1 DEF Memories, Statuses
  <2>3. Fits(id, saved)
    BY <2>2 DEF Fits, Valid
  <2> QED BY <2>2, <2>3
<1> QED BY <1>1, <1>2

LEMMA TakeCandidateStep == MemoryInv /\ TakeCandidate => MemoryInv'
<1> SUFFICES ASSUME MemoryInv, TakeCandidate PROVE MemoryInv'
  OBVIOUS
<1> DEFINE c == Head(job.candidates)
           m == c.memory
           old == SupersededBy(m, job.known)
           against == ContradictedBy(m, job.known)
           saved == IF against = {} THEN m ELSE Dispute(m)
           rest == Tail(job.candidates)
           S == old \cup against
<1>1. /\ job.at = "candidate" /\ job.candidates /= <<>>
      /\ UNCHANGED <<stores, torn, revived, crashes>>
  BY DEF TakeCandidate
<1>2. CASE ~PassesGate(m)
  <2>1. job' = [job EXCEPT !.candidates = Tail(@)]
    BY <1>2 DEF TakeCandidate
  <2> QED BY <2>1, <1>1, RefusedStep
<1>3. CASE PassesGate(m)
  <2> DEFINE Writes(order) ==
        Append([k \in DOMAIN order |-> <<order[k], Replaced(order[k], old, c.memory)>>],
               <<c.id, saved>>)
  <2>1. PICK order \in Orders(S) :
          job' = [job EXCEPT !.candidates = rest, !.at = "row", !.known = job.known \cup {c.id},
                    !.writes = Writes(order)]
    BY <1>3 DEF TakeCandidate, Replaced
  <2>2. /\ rest \in Seq(Candidates) /\ c.id \in Names /\ m \in Memories /\ Fits(c.id, m)
        /\ m.at <= version /\ job \in Jobs /\ job.known \cup {c.id} \in SUBSET Names
    <3>1. /\ rest \in Seq(Candidates) /\ c.id \in Names /\ m \in Memories
          /\ c = job.candidates[1] /\ 1 \in DOMAIN job.candidates
      BY <1>1, CandidateIsFirst
    <3>2. job \in Jobs /\ job.known \subseteq Names
      BY DEF MemoryInv, MemoryTypes, Jobs
    <3>3. Fits(c.id, m) /\ m.at <= version
      BY <3>1 DEF MemoryInv, CandidatesAreNew
    <3> QED BY <3>1, <3>2, <3>3
  <2>3. S \subseteq Active /\ S \subseteq job.known /\ Active \subseteq Ids
    <3>1. job.writes = <<>> /\ job.known \subseteq Ids
      BY <1>1 DEF MemoryInv, WritesFit, KnownIsCurrent
    <3>2. S \subseteq {id \in job.known : rows[id].status = "active"}
      BY DEF SupersededBy, ContradictedBy
    <3> HIDE DEF S
    <3> QED BY <3>1, <3>2 DEF Active
  <2>4. IsFiniteSet(S)
    BY <2>3, FS_Subset DEF MemoryInv, MemoryTypes
  <2>5. saved \in Memories /\ Fits(c.id, saved)
        /\ (saved.status = "active" => saved = m /\ against = {})
    <3>1. saved = IF against = {} THEN m ELSE Dispute(m)
      OBVIOUS
    <3> HIDE DEF saved, against, m, c
    <3> QED BY <2>2, <3>1, SavedFits
  <2>6. ASSUME NEW id \in S PROVE <<id, Replaced(id, old, m)>> \in Entries
    <3>1. id \in Names /\ Replaced(id, old, m) \in Memories
      BY <2>2, <2>3, ReplacedFits
    <3> QED BY <3>1 DEF Entries
  <2> DEFINE writes == Writes(order)
  <2>7. Saves(writes, c, saved, old, against)
    <3>1. <<c.id, saved>> \in Entries
      BY <2>2, <2>5 DEF Entries
    <3> HIDE DEF saved
    <3> QED BY <2>4, <2>6, <3>1, OrderSaves
  <2>8. writes \in Seq(Entries)
    BY <2>7 DEF Saves
  <2> DEFINE known == job.known \cup {c.id}
  <2>9. job' = [job EXCEPT !.candidates = rest, !.at = "row", !.known = known, !.writes = writes]
    BY <2>1
  <2>10. known \in SUBSET Names
    BY <2>2
  <2> HIDE DEF writes, known, rest
  <2>11. /\ job' \in Jobs /\ job'.at = "row" /\ job'.candidates = rest
         /\ job'.known = known /\ job'.writes = writes
    BY <2>2, <2>8, <2>9, <2>10 DEF Jobs
  <2> QED BY <2>5, <2>7, <2>11, <1>1, AcceptedStep DEF known, rest
<1> QED BY <1>2, <1>3

-----------------------------------------------------------------------------
(* The theorems *)

LEMMA MemoryStep == MemoryInv /\ [Next]_vars => MemoryInv'
<1> SUFFICES ASSUME MemoryInv, [Next]_vars PROVE MemoryInv'
  OBVIOUS
<1>1. CASE ConstraintAdded \/ GateFailed \/ GateAccepted \/ TaskCompleted
  BY <1>1, EventsStep
<1>2. CASE TakeCandidate \/ Done
  BY <1>2, TakeCandidateStep, DoneStep
<1>3. CASE SaveRow \/ UpdateIndexes \/ AppendEvent
  BY <1>3, SaveRowStep, IndexesStep, AppendEventStep
<1>4. CASE Consolidate \/ Archive \/ RebuildIndexes \/ RebuildFromEvents
  BY <1>4, ConsolidateStep, ArchiveStep, RebuildIndexesStep, RebuildStep
<1>5. CASE Crash
  BY <1>5, CrashStep
<1>6. CASE UNCHANGED vars
  BY <1>6, Stutter
<1> QED BY <1>1, <1>2, <1>3, <1>4, <1>5, <1>6 DEF Next

LEMMA MemoryInvariance == Spec => []MemoryInv
BY Initial, MemoryStep, PTL DEF Spec

\* The variables of the memory plane keep their types.
THEOREM MemoryKeepsTypes == Spec => []MemoryTypes
<1>1. MemoryInv => MemoryTypes
  BY DEF MemoryInv
<1> QED BY <1>1, MemoryInvariance, PTL

\* However saves, maintenance, crashes and rebuilds follow each other, what
\* the log rebuilds is what the table has, but for what a crash has torn.
THEOREM TableIsRecorded == Spec => []RowsAreRecorded
<1>1. MemoryInv => RowsAreRecorded
  BY DEF MemoryInv
<1> QED BY <1>1, MemoryInvariance, PTL

\* At no moment are two memories in force that contradict each other, or of
\* which one replaces the other.
THEOREM KnowledgeAgrees == Spec => []NoConflictingKnowledge
<1>1. MemoryInv => NoConflictingKnowledge
  BY DEF MemoryInv
<1> QED BY <1>1, MemoryInvariance, PTL

(* The indexes *)

\* What is still to be brought up to date.
ToBeIndexed == IF job.at = "index" THEN {Write[1]} ELSE {}

\* The indexes lag behind the table by the memory that is being saved, and by
\* what a crash has torn.
IndexInv ==
  /\ vector \subseteq Active \cup ToBeIndexed
  /\ Active \subseteq lexical \cup ToBeIndexed \cup torn

\* Where the table, the indexes and what is torn stay, a job may begin or end.
LEMMA IndexesKept ==
  ASSUME IndexInv, UNCHANGED <<rows, lexical, vector, torn>>,
         ToBeIndexed = {}, job'.at /= "index"
  PROVE  IndexInv'
BY DEF IndexInv, Active, Ids, ToBeIndexed

\* The row is committed, its indexes are not.
LEMMA SaveRowIndexes ==
  ASSUME MemoryInv, IndexInv, SaveRow
  PROVE  IndexInv'
<1>1. /\ job.at = "row" /\ rows' = Put(rows, Write[1], Write[2])
      /\ job' = [job EXCEPT !.at = "index"] /\ UNCHANGED <<lexical, vector, torn>>
  BY DEF SaveRow
<1>2. job'.at = "index" /\ job'.writes = job.writes
  BY <1>1 DEF MemoryInv, MemoryTypes, Jobs
<1>3. ToBeIndexed = {} /\ ToBeIndexed' = {Write[1]}
  BY <1>1, <1>2 DEF ToBeIndexed, Write
<1>4. \A id : id /= Write[1] => (id \in Active' <=> id \in Active)
  BY <1>1 DEF Put, Active, Ids
<1> QED
  BY <1>1, <1>3, <1>4 DEF IndexInv

\* The indexes are brought up to date with the row.
LEMMA UpdateIndexesIndexes ==
  ASSUME MemoryInv, IndexInv, UpdateIndexes
  PROVE  IndexInv'
<1>1. /\ job.at = "index" /\ job' = [job EXCEPT !.at = "event"]
      /\ UNCHANGED <<rows, torn>>
      /\ IF Write[2].status = "active"
         THEN lexical' = lexical \cup {Write[1]} /\ vector' = vector \cup {Write[1]}
         ELSE vector' = vector \ {Write[1]} /\ lexical' = lexical
  BY DEF UpdateIndexes, WithDocument, WithVector, WithoutVector
<1>2. job'.at = "event"
  BY <1>1 DEF MemoryInv, MemoryTypes, Jobs
<1>3. ToBeIndexed = {Write[1]} /\ ToBeIndexed' = {} /\ Active' = Active
  BY <1>1, <1>2 DEF ToBeIndexed, Active, Ids
<1>4. Write[1] \in Active <=> Write[2].status = "active"
  BY <1>1 DEF MemoryInv, RowIsWritten, Active
<1> QED
  BY <1>1, <1>3, <1>4 DEF IndexInv

\* A rebuild gives the indexes what it gives the table.
LEMMA RebuildIndexesAll ==
  ASSUME MemoryInv, RebuildIndexes \/ RebuildFromEvents
  PROVE  IndexInv'
<1>1. CASE RebuildIndexes
  BY <1>1 DEF RebuildIndexes, IndexInv, Active, Ids
<1>2. CASE RebuildFromEvents
  <2>1. Active' = {id \in DOMAIN Rebuilt : Rebuilt[id].status = "active"}
    BY <1>2 DEF RebuildFromEvents, Active, Ids
  <2>2. ASSUME NEW id \in Active' PROVE id \in lexical'
    <3>1. PICK k \in DOMAIN log : IsLast(log, id, k) /\ Rebuilt[id] = log[k][2]
      BY <2>1, ReplayHasLast, RebuiltIsReplay DEF MemoryInv, MemoryTypes, LogFits
    <3> QED
      BY <1>2, <2>1, <3>1 DEF RebuildFromEvents, IsLast
  <2> QED
    BY <1>2, <2>1, <2>2 DEF RebuildFromEvents, IndexInv
<1> QED
  BY <1>1, <1>2

LEMMA IndexStep == MemoryInv /\ IndexInv /\ [Next]_vars => IndexInv'
<1> SUFFICES ASSUME MemoryInv, IndexInv, [Next]_vars PROVE IndexInv'
  OBVIOUS
<1>0. job \in Jobs
  BY DEF MemoryInv, MemoryTypes
<1>1. CASE ConstraintAdded \/ GateFailed \/ GateAccepted \/ TaskCompleted
  <2>1. \E candidates : Observe(candidates)
    BY <1>1 DEF ConstraintAdded, GateFailed, GateAccepted, TaskCompleted
  <2>2. job.at = "idle" /\ job'.at = "candidate" /\ UNCHANGED <<rows, lexical, vector, torn>>
    BY <2>1 DEF Observe, MayBegin
  <2> QED
    BY <2>2, IndexesKept DEF ToBeIndexed
<1>2. CASE TakeCandidate \/ Done
  <2>1. job.at = "candidate" /\ UNCHANGED <<rows, lexical, vector, torn>>
    BY <1>2 DEF TakeCandidate, Done, stores
  <2>2. job'.at /= "index"
    <3>1. CASE Done
      BY <3>1 DEF Done, IdleJob
    <3>2. CASE TakeCandidate
      <4>1. \/ \E rest : job' = [job EXCEPT !.candidates = rest]
            \/ \E rest, known, writes :
                 job' = [job EXCEPT !.candidates = rest, !.at = "row", !.known = known,
                                    !.writes = writes]
        BY <3>2 DEF TakeCandidate
      <4> QED
        BY <1>0, <2>1, <4>1 DEF Jobs
    <3> QED
      BY <1>2, <3>1, <3>2
  <2> QED
    BY <2>1, <2>2, IndexesKept DEF ToBeIndexed
<1>3. CASE AppendEvent
  <2>1. job.at = "event" /\ job'.at /= "index" /\ UNCHANGED <<rows, lexical, vector, torn>>
    BY <1>0, <1>3 DEF AppendEvent, Jobs
  <2> QED
    BY <2>1, IndexesKept DEF ToBeIndexed
<1>4. CASE Consolidate \/ Archive
  <2>1. job.at = "idle" /\ job'.at = "row" /\ UNCHANGED <<rows, lexical, vector, torn>>
    BY <1>4 DEF Consolidate, Archive, MayBegin, IdleJob, stores
  <2> QED
    BY <2>1, IndexesKept DEF ToBeIndexed
<1>5. CASE Crash
  <2>1. /\ job'.at = "idle" /\ vector' = {} /\ UNCHANGED <<rows, lexical>>
        /\ torn \cup ToBeIndexed \subseteq torn'
    BY <1>5 DEF Crash, IdleJob, ToBeIndexed
  <2> QED
    BY <2>1 DEF IndexInv, Active, Ids, ToBeIndexed
<1>6. CASE UNCHANGED vars
  BY <1>6 DEF vars, stores, IndexInv, Active, Ids, ToBeIndexed, Write
<1> QED
  BY <1>1, <1>2, <1>3, <1>4, <1>5, <1>6, SaveRowIndexes, UpdateIndexesIndexes,
     RebuildIndexesAll DEF Next

\* What is in force scores above nought however old it is.
LEMMA ActiveScores ==
  ASSUME NEW m \in Memories, NEW v \in Nat, m.at <= v, m.status = "active", NEW linked
  PROVE  Score(m, v, 60, linked) > 0
<1>1. m.at \in Nat /\ m.confidence \in Nat
  BY DEF Memories
<1> DEFINE fresh == IF v - m.at < 2000 THEN (120 * (2000 - (v - m.at))) \div 2000 ELSE 0
           sure == (9 * m.confidence) \div 10
           rank == IF m.type \in {"constraint", "failure"} THEN 100 ELSE 25
           durable == IF m.type \in {"constraint", "decision"} THEN 75 ELSE 0
           link == IF linked THEN 130 ELSE 0
<1>2. fresh \in Nat
  <2>1. CASE v - m.at < 2000
    BY <1>1, <2>1
  <2>2. CASE ~(v - m.at < 2000)
    BY <2>2
  <2> QED BY <2>1, <2>2
<1>3. sure \in Nat
  BY <1>1
<1>4. Score(m, v, 60, linked) = 60 + 50 + rank + durable + fresh + link + sure - 0
  BY DEF Score
<1>5. rank \in Nat /\ durable \in Nat /\ link \in Nat
  OBVIOUS
<1> HIDE DEF fresh, sure, rank, durable, link
<1> QED BY <1>2, <1>3, <1>4, <1>5

\* A search that meets the words of what is in force finds it.
LEMMA ActiveIsFound ==
  ASSUME MemoryInv, NEW dependencies, NEW id \in Active, id \in lexical,
         EligibleForGeneric(rows[id], dependencies)
  PROVE  id \in Retrieved(version, dependencies, lexical, {})
<1> DEFINE m == rows[id]
           linked == m.at \in dependencies
<1>1. /\ id \in Ids /\ m.status = "active" /\ m \in Memories /\ m.at <= version
      /\ m.until = None /\ version \in Nat
  BY DEF Active, MemoryInv, MemoryTypes, RowsFit, Fits
<1>2. PassesHardFilters(m, version)
  BY <1>1 DEF PassesHardFilters, ValidAt
<1>3. Score(m, version, 60, linked) > 0
  <2> HIDE DEF m, linked
  <2> QED BY ONLY <1>1, ActiveScores
<1> QED BY <1>1, <1>2, <1>3 DEF Retrieved

LEMMA SearchFollows == MemoryInv /\ IndexInv => SearchFollowsTable
<1> SUFFICES ASSUME MemoryInv, IndexInv PROVE SearchFollowsTable
  OBVIOUS
<1>1. ToBeIndexed \subseteq BeingSaved
  BY DEF ToBeIndexed, BeingSaved
<1>2. \A id \in vector \ BeingSaved : id \in Ids /\ rows[id].status = "active"
  BY <1>1 DEF IndexInv, Active
<1>3. ASSUME NEW dependencies \in {{}, {1}}, NEW id \in Ids \ (torn \cup BeingSaved),
             rows[id].status = "active", EligibleForGeneric(rows[id], dependencies)
      PROVE  id \in Retrieved(version, dependencies, lexical, {})
  <2>1. id \in Active /\ id \in lexical
    BY <1>1, <1>3 DEF IndexInv, Active
  <2> QED
    BY <1>3, <2>1, ActiveIsFound
<1> QED
  BY <1>2, <1>3 DEF SearchFollowsTable

\* However saves, maintenance, restarts and rebuilds follow each other, no vector
\* is that of a memory no longer in force, and a search that meets the words of
\* what is in force finds it, unless a crash had torn its save.
THEOREM IndexesFollow == Spec => []SearchFollowsTable
<1>1. Init => IndexInv
  BY DEF Init, IndexInv, Active, Ids
<1> QED
  BY <1>1, IndexStep, SearchFollows, MemoryInvariance, PTL DEF Spec

\* What was replaced, disputed or archived never comes into force again, but
\* by a rebuild of what a crash has torn.
THEOREM NothingResurrected == Spec => NoResurrection
<1> DEFINE Kept == \A id \in Ids :
                     (rows[id].status /= "active" /\ id \notin torn) =>
                       id \in DOMAIN rows' /\ rows'[id].status = rows[id].status
<1>1. MemoryInv /\ [Next]_vars => [Kept]_vars
  <2> SUFFICES ASSUME MemoryInv, Next, NEW id \in Ids, rows[id].status /= "active", id \notin torn
               PROVE  id \in DOMAIN rows' /\ rows'[id].status = rows[id].status
    OBVIOUS
  <2>1. CASE SaveRow
    <3>1. /\ job.at = "row" /\ rows' = Put(rows, Write[1], Write[2])
      BY <2>1 DEF SaveRow
    <3>2. job.writes /= <<>>
      BY <3>1 DEF MemoryInv, WritesFit
    <3>3. Write = job.writes[1] /\ 1 \in DOMAIN job.writes
      BY <3>2, WriteIsFirst
    <3>4. id /= Write[1]
      BY <3>1, <3>3 DEF MemoryInv, WritesFit, Active
    <3> QED BY <3>1, <3>4 DEF Put, Ids
  <2>2. CASE RebuildFromEvents
    <3>1. rows' = Rebuilt /\ BeingSaved = {}
      BY <2>2 DEF RebuildFromEvents, BeingSaved
    <3> QED BY <3>1 DEF MemoryInv, RowsAreRecorded
  <2>3. CASE UNCHANGED rows
    BY <2>3 DEF Ids
  <2> QED BY <2>1, <2>2, <2>3 DEF Next, ConstraintAdded, GateFailed, GateAccepted, TaskCompleted,
        Observe, TakeCandidate, Done, UpdateIndexes, AppendEvent, Consolidate, Archive,
        RebuildIndexes, Crash, stores
<1>2. NoResurrection <=> [][Kept]_vars
  BY DEF NoResurrection
<1> QED BY <1>1, <1>2, MemoryInvariance, PTL DEF Spec
=============================================================================
