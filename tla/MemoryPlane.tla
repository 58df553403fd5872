----------------------------- MODULE MemoryPlane -----------------------------
(***************************************************************************)
(* The memory plane (memory/*.py): memories derived from events of the     *)
(* log, kept as rows of a database of their own, materialized as events,   *)
(* indexed, and retrieved for the contexts of agents.                      *)
(*                                                                         *)
(* One event is processed at a time (the callers hold the integration      *)
(* lock).  A memory is saved in three steps that nothing binds together:   *)
(* its row is committed, its indexes are brought up to date, and the event *)
(* that materializes it is appended to the log.  The process may die       *)
(* between any two of them.  The vector index lives in the process.        *)
(*                                                                         *)
(* Scores are in hundredths.                                               *)
(***************************************************************************)
EXTENDS Integers, Sequences, FiniteSets, Functions

CONSTANTS
  Topics,       \* what assumptions are about
  MaxVersion,   \* bound on the length of the log
  MaxCrashes,   \* how often the process dies
  Recurring,    \* how many failures make a procedure: 3 in the code
  None

ASSUME BoundsNatural == {MaxVersion, MaxCrashes} \subseteq Nat /\ Recurring \in Nat \ {0}

\* The ids of memories: their type, the id of their event, and a number.
Types == {"constraint", "failure", "decision", "assumption", "procedure", "summary"}
Names == (Types \cup {"consolidated"}) \X Nat \X Nat

ASSUME NoneIsNoName == None \notin Names

VARIABLES
  version,    \* id of the last event of the log
  rows,       \* the table memories: a function on the ids it has
  log,        \* memory.materialized events, in order: <<id, row>>
  lexical,    \* ids with a document in the lexical index
  vector,     \* ids with a vector
  job,        \* what process_event, consolidate, archive or rebuild has left
  torn,       \* history: ids whose row was committed without its event
  revived,    \* history: torn ids when the table was rebuilt
  crashes

stores == <<version, rows, log, lexical, vector>>
vars   == <<stores, job, torn, revived, crashes>>

Ids == DOMAIN rows

Put(f, id, row) == [i \in DOMAIN f \cup {id} |-> IF i = id THEN row ELSE f[i]]

IdleJob == [at |-> "idle", candidates |-> <<>>, known |-> {}, writes |-> <<>>]

-----------------------------------------------------------------------------
(* Memories *)

\* What the agent says of its own assumptions: nothing, or low numbers in
\* place of the defaults.
Qualities == {"default", "slight", "weak"}

Confidence(quality, default) ==
  CASE quality = "default" -> default [] quality = "slight" -> 40 [] OTHER -> 0
Importance(quality, default) == IF quality = "default" THEN default ELSE 0

\* A memory as CandidateExtractor builds it: `at` is the id of its event.
Memory(type, at, confidence, importance, reuse) ==
  [type |-> type, at |-> at, until |-> None, status |-> "active",
   confidence |-> confidence, importance |-> importance, reuse |-> reuse,
   topic |-> None, polarity |-> TRUE, supersedes |-> None]

\* extract_from_event for a constraint and for a failed gate.
Constraint(at) == Memory("constraint", at, 100, 95, 95)
Failure(at)    == Memory("failure", at, 100, 85, 80)

\* extract_from_event for gate.accepted: the decisions of the submission ...
Decision(at, supersedes) ==
  [Memory("decision", at, 100, 90, 85) EXCEPT !.supersedes = supersedes]

\* ... and its assumptions.
Assumption(at, topic, polarity, quality) ==
  [Memory("assumption", at, Confidence(quality, 70), Importance(quality, 65),
          Importance(quality, 60))
     EXCEPT !.topic = topic, !.polarity = polarity]

\* ... its procedures and its summary.
Procedure(at) == Memory("procedure", at, 100, 80, 85)
Summary(at)   == Memory("summary", at, 100, 70, 60)

\* MemoryWriteGate.evaluate with the defaults of its callers: novelty 1,
\* reach 0.5, no redundancy, a small memory.
WriteScore(m) ==
  (IF m.type \in {"decision", "constraint"} THEN 200 ELSE 0)
  + (IF m.type = "failure" THEN 150 ELSE 0)
  + 75 + (12 * m.reuse) \div 10 + 100 + (8 * m.confidence) \div 10 - 1

PassesGate(m) == WriteScore(m) >= 200

\* ProvenanceVerifier.validate_memory: invariant I5.
Valid(m) == m.at > 0 /\ (m.until /= None => m.until >= m.at)

\* ProvenanceVerifier.is_valid_at_version.
ValidAt(m, v) == m.at <= v /\ (m.until /= None => m.until >= v)

ActiveAt(v) == {id \in Ids : rows[id].status = "active" /\ ValidAt(rows[id], v)}

\* detect_conflicts: T1, an explicit supersession by id and type ...
SupersededBy(m, known) ==
  {id \in known : /\ rows[id].status = "active"
                  /\ m.type \in {"decision", "constraint"}
                  /\ rows[id].type = m.type
                  /\ m.supersedes = id}

\* ... and T2, assumptions on one topic that say the opposite.
ContradictedBy(m, known) ==
  {id \in known : /\ rows[id].status = "active"
                  /\ m.type = "assumption" /\ rows[id].type = "assumption"
                  /\ m.topic = rows[id].topic
                  /\ m.polarity /= rows[id].polarity}

\* apply_supersession.
Supersede(older, newer) ==
  [older EXCEPT !.status = "superseded", !.until = newer.at - 1]

Dispute(m) == [m EXCEPT !.status = "disputed"]

\* compute_keep_score at version v: nothing counts accesses.
KeepScore(m, v) ==
  IF m.type \in {"constraint", "decision"} /\ m.status = "active"
  THEN 99900 ELSE m.importance + m.reuse + m.confidence - (v - m.at + 9) \div 10

LowValue(v) == {id \in ActiveAt(v) : KeepScore(rows[id], v) < 50}

\* Any order of a set, as a sequence.
Orders(S) == Bijection(1..Cardinality(S), S)

-----------------------------------------------------------------------------
(* Processing one event *)

MayBegin == job.at = "idle" /\ version < MaxVersion

\* An event is appended; its candidates get its id and a number each, and the
\* active memories valid at it are read once, before the first candidate.
Observe(candidates) ==
  /\ MayBegin
  /\ version' = version + 1
  /\ job' = [at |-> "candidate", candidates |-> candidates,
             known |-> ActiveAt(version + 1), writes |-> <<>>]
  /\ UNCHANGED <<rows, log, lexical, vector, torn, revived, crashes>>

Numbered(memories) ==
  [i \in DOMAIN memories |->
     [id |-> <<memories[i].type, version + 1, i>>, memory |-> memories[i]]]

ConstraintAdded == Observe(Numbered(<<Constraint(version + 1)>>))

GateFailed == Observe(Numbered(<<Failure(version + 1)>>))

TaskCompleted == Observe(Numbered(<<Summary(version + 1)>>))

\* A submission replaces a decision that exists, or states an assumption
\* twice over, or sums up.
GateAccepted ==
  LET at == version + 1 IN
  \/ \E old \in {id \in Ids : id[1] = "decision"} \cup {None} :
       Observe(Numbered(<<Decision(at, old), Summary(at)>>))
  \/ \E topic \in Topics, polarity \in BOOLEAN, q \in Qualities :
       Observe(Numbered(<<Assumption(at, topic, polarity, q)>>))
  \/ \E topic \in Topics :
       Observe(Numbered(<<Assumption(at, topic, TRUE, "default"),
                          Assumption(at, topic, FALSE, "default")>>))
  \/ Observe(Numbered(<<Procedure(at)>>))

\* Mutant: the new memory is saved before those it replaces or disputes.
TakeCandidate_NewFirst ==
  /\ job.at = "candidate" /\ job.candidates /= <<>>
  /\ LET c       == Head(job.candidates)
         m       == c.memory
         old     == SupersededBy(m, job.known)
         against == ContradictedBy(m, job.known)
     IN \E order \in Orders(old \cup against) :
          job' = [job EXCEPT
            !.candidates = Tail(@), !.at = "row", !.known = @ \cup {c.id},
            !.writes = <<<<c.id, m>>>> \o
                       [i \in DOMAIN order |->
                          <<order[i], IF order[i] \in old
                                      THEN Supersede(rows[order[i]], m)
                                      ELSE Dispute(rows[order[i]])>>]]
  /\ UNCHANGED <<stores, torn, revived, crashes>>

\* One turn of process_event's loop: what the next candidate leads to be
\* saved, the memories it replaces or disputes first.
TakeCandidate ==
  /\ job.at = "candidate" /\ job.candidates /= <<>>
  /\ LET c       == Head(job.candidates)
         m       == c.memory
         refused == ~PassesGate(m)
         old     == SupersededBy(m, job.known)
         against == ContradictedBy(m, job.known)
         saved   == IF against = {} THEN m ELSE Dispute(m)
         rest    == [job EXCEPT !.candidates = Tail(@)]
     IN IF refused
        THEN job' = rest
        ELSE \E order \in Orders(old \cup against) :
               job' = [rest EXCEPT
                 !.at = "row", !.known = @ \cup {c.id},
                 !.writes =
                   Append([i \in DOMAIN order |->
                             <<order[i], IF order[i] \in old
                                         THEN Supersede(rows[order[i]], m)
                                         ELSE Dispute(rows[order[i]])>>],
                          <<c.id, saved>>)]
  /\ UNCHANGED <<stores, torn, revived, crashes>>

Done ==
  /\ job.at = "candidate" /\ job.candidates = <<>>
  /\ job' = IdleJob
  /\ UNCHANGED <<stores, torn, revived, crashes>>

-----------------------------------------------------------------------------
(* save_memory *)

Write == Head(job.writes)

SaveRow ==
  /\ job.at = "row" /\ Valid(Write[2])
  /\ rows' = Put(rows, Write[1], Write[2])
  /\ job' = [job EXCEPT !.at = "index"]
  /\ UNCHANGED <<version, log, lexical, vector, torn, revived, crashes>>

\* LexicalIndex.index_document and the vectors of VectorIndex.
WithDocument(id) == lexical \cup {id}
WithVector(id)    == vector \cup {id}
WithoutVector(id) == vector \ {id}

\* Mutant: only what is in force touches the indexes.
UpdateIndexes_KeepsVector ==
  /\ job.at = "index"
  /\ IF Write[2].status = "active"
     THEN lexical' = WithDocument(Write[1]) /\ vector' = WithVector(Write[1])
     ELSE UNCHANGED <<lexical, vector>>
  /\ job' = [job EXCEPT !.at = "event"]
  /\ UNCHANGED <<version, rows, log, torn, revived, crashes>>

\* _index_memory: the document of a memory that is no longer active stays.
UpdateIndexes ==
  /\ job.at = "index"
  /\ IF Write[2].status = "active"
     THEN lexical' = WithDocument(Write[1]) /\ vector' = WithVector(Write[1])
     ELSE vector' = WithoutVector(Write[1]) /\ UNCHANGED lexical
  /\ job' = [job EXCEPT !.at = "event"]
  /\ UNCHANGED <<version, rows, log, torn, revived, crashes>>

\* Mutant: a replaced memory is materialized as it was created.
AppendEvent_Stale ==
  /\ job.at = "event"
  /\ version' = version + 1
  /\ log' = Append(log, <<Write[1], [Write[2] EXCEPT !.status = "active"]>>)
  /\ job' = [job EXCEPT !.at = IF Len(job.writes) = 1 THEN "candidate" ELSE "row",
                        !.writes = Tail(@)]
  /\ UNCHANGED <<rows, lexical, vector, torn, revived, crashes>>

\* memory.materialized.
AppendEvent ==
  /\ job.at = "event"
  /\ version' = version + 1
  /\ log' = Append(log, Write)
  /\ job' = [job EXCEPT !.at = IF Len(job.writes) = 1 THEN "candidate" ELSE "row",
                        !.writes = Tail(@)]
  /\ UNCHANGED <<rows, lexical, vector, torn, revived, crashes>>

-----------------------------------------------------------------------------
(* Maintenance *)

Failures == {id \in Ids : rows[id].type = "failure" /\ rows[id].status = "active"}

\* consolidate: recurring failures make a procedure; they stay active.
Consolidate ==
  /\ MayBegin
  /\ Cardinality(Failures) >= Recurring
  /\ job' = [IdleJob EXCEPT !.at = "row",
               !.writes = << <<<<"consolidated", version, 1>>,
                               Memory("procedure", version, 95, 85, 90)>> >>]
  /\ UNCHANGED <<stores, torn, revived, crashes>>

\* archive_low_value: each is saved in turn.
Archive ==
  /\ MayBegin
  /\ LowValue(version) /= {}
  /\ \E order \in Orders(LowValue(version)) :
       job' = [IdleJob EXCEPT !.at = "row",
         !.writes = [i \in DOMAIN order |->
                       <<order[i], [rows[order[i]] EXCEPT !.status = "archived"]>>]]
  /\ UNCHANGED <<stores, torn, revived, crashes>>

\* rebuild_indexes_from_memories.
RebuildIndexes ==
  /\ job.at = "idle"
  /\ lexical' = {id \in Ids : rows[id].status = "active"}
  /\ vector' = {id \in Ids : rows[id].status = "active"}
  /\ UNCHANGED <<version, rows, log, job, torn, revived, crashes>>

\* Mutant: the first event of an id counts.
Rebuilt_First ==
  [id \in {log[i][1] : i \in DOMAIN log} |->
     LET first == CHOOSE i \in DOMAIN log :
                    log[i][1] = id /\ \A j \in DOMAIN log : log[j][1] = id => i <= j
     IN log[first][2]]

\* What rebuild_from_events makes of the log: the last event of an id counts.
Rebuilt ==
  [id \in {log[i][1] : i \in DOMAIN log} |->
     LET last == CHOOSE i \in DOMAIN log :
                   log[i][1] = id /\ \A j \in DOMAIN log : log[j][1] = id => j <= i
     IN log[last][2]]

\* rebuild_from_events: every save without a new event.
RebuildFromEvents ==
  /\ job.at = "idle"
  /\ rows' = Rebuilt
  /\ vector' = {id \in DOMAIN Rebuilt : Rebuilt[id].status = "active"}
  /\ lexical' = {id \in DOMAIN Rebuilt :
                   \E i \in DOMAIN log : log[i][1] = id /\ log[i][2].status = "active"}
  /\ torn' = {} /\ revived' = revived \cup torn
  /\ UNCHANGED <<version, log, job, crashes>>

\* The process dies: the rest of the job is never taken up again.
Crash ==
  /\ crashes < MaxCrashes
  /\ crashes' = crashes + 1
  /\ job' = IdleJob
  /\ vector' = {}
  /\ torn' = IF job.at \in {"index", "event"} THEN torn \cup {Write[1]} ELSE torn
  /\ UNCHANGED <<version, rows, log, lexical, revived>>

-----------------------------------------------------------------------------
(* Retrieval (context/retrieval.py, ranking.py) *)

\* passes_hard_filters.
PassesHardFilters(m, v) ==
  m.status \notin {"superseded", "archived", "deleted"} /\ ValidAt(m, v)

\* score_candidate without matching files or symbols; linked: whether the
\* memory is tagged with a dependency of the task.
Score(m, v, relevance, linked) ==
  relevance
  + 50 + (IF m.type \in {"constraint", "failure"} THEN 100 ELSE 25)
  + (IF m.type \in {"constraint", "decision"} THEN 75 ELSE 0)
  + (IF v - m.at < 2000 THEN (120 * (2000 - (v - m.at))) \div 2000 ELSE 0)
  + (IF linked THEN 130 ELSE 0)
  + (9 * m.confidence) \div 10
  - (IF m.status = "disputed" THEN 200 ELSE 0)

\* _eligible_for_generic_retrieval: summaries come from dependencies only,
\* when the task has any.  A memory's task is that of its event.
EligibleForGeneric(m, dependencies) ==
  m.type = "summary" /\ dependencies /= {} => m.at \in dependencies

\* retrieve(): three routes over the active memories, two over the indexes.
Retrieved(v, dependencies, lexicalHits, vectorHits) ==
  LET scores(id, relevance) ==
        /\ PassesHardFilters(rows[id], v)
        /\ Score(rows[id], v, relevance, rows[id].at \in dependencies) > 0
      direct ==
        {id \in ActiveAt(v) :
           \/ rows[id].type \in {"constraint", "decision"} /\ scores(id, 100)
           \/ rows[id].at \in dependencies /\ scores(id, 80)
           \/ rows[id].type \in {"failure", "procedure"} /\ scores(id, 70)}
      searched(hits, relevance) ==
        {id \in hits \cap Ids : /\ EligibleForGeneric(rows[id], dependencies)
                                /\ scores(id, relevance)}
  IN direct \cup searched(lexicalHits, 60) \cup searched(vectorHits, 50)

-----------------------------------------------------------------------------
Init ==
  /\ version = 0 /\ rows = [id \in {} |-> None] /\ log = <<>>
  /\ lexical = {} /\ vector = {}
  /\ job = IdleJob /\ torn = {} /\ revived = {} /\ crashes = 0

Next ==
  \/ ConstraintAdded \/ GateFailed \/ GateAccepted \/ TaskCompleted
  \/ TakeCandidate \/ Done \/ SaveRow \/ UpdateIndexes \/ AppendEvent
  \/ Consolidate \/ Archive \/ RebuildIndexes \/ RebuildFromEvents \/ Crash

Spec == Init /\ [][Next]_vars

-----------------------------------------------------------------------------
(* Properties *)

BeingSaved == IF job.at \in {"index", "event"} THEN {Write[1]} ELSE {}

\* README.md: memory is rebuildable from the authoritative log.  Outside a
\* save, what the events rebuild is what the table has, for every memory
\* whose save no crash has torn (lifecycle.py:128 commits the row first).
RowsAreRecorded ==
  /\ \A id \in (Ids \cup DOMAIN Rebuilt) \ (torn \cup BeingSaved) :
       /\ id \in Ids \cap DOMAIN Rebuilt
       /\ rows[id] = Rebuilt[id]
  /\ job.at = "row" => Valid(Write[2])

\* At no moment, crashes and rebuilds included, are two active assumptions
\* contradictory, or a decision active beside the one that replaces it.  Only
\* what a crash had torn comes back with a rebuild as if nothing had been.
NoConflictingKnowledge ==
  LET current == {id \in Ids : rows[id].status = "active"} \ revived IN
  \A a \in current, b \in current :
    /\ rows[b].supersedes /= a
    /\ ~(/\ rows[a].type = "assumption" /\ rows[b].type = "assumption"
         /\ rows[a].topic = rows[b].topic
         /\ rows[a].polarity /= rows[b].polarity)

\* Both searches take their best hits first, five vectors and ten documents, and
\* look at the rows only afterwards (retrieval.py:102-130).  No vector is that of a
\* replaced, disputed or archived memory, which would take the place of one in
\* force; and what is in force is found by a search that meets its words, unless
\* a crash had torn its save.  It is so after any saves, restarts and rebuilds.
SearchFollowsTable ==
  /\ \A id \in vector \ BeingSaved : id \in Ids /\ rows[id].status = "active"
  /\ \A dependencies \in {{}, {1}} : \A id \in Ids \ (torn \cup BeingSaved) :
       rows[id].status = "active" /\ EligibleForGeneric(rows[id], dependencies) =>
         id \in Retrieved(version, dependencies, lexical, {})

\* What was replaced, disputed or archived never becomes active again: no
\* later candidate, maintenance or rebuild resurrects it, except a rebuild of
\* what a crash has torn.
NoResurrection ==
  [][\A id \in Ids :
       (rows[id].status /= "active" /\ id \notin torn) =>
         id \in DOMAIN rows' /\ rows'[id].status = rows[id].status]_vars

=============================================================================
