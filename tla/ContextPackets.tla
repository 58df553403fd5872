--------------------------- MODULE ContextPackets ---------------------------
(***************************************************************************)
(* The packet an agent works from: BudgetAllocator, ContextCompiler and    *)
(* StalenessDetector (context/).  Texts are their number of tokens, shares *)
(* ten-thousandths, risks hundredths, staleness tenths.                    *)
(***************************************************************************)
EXTENDS Naturals, Sequences, FiniteSets, SequencesExt

Buckets == {"decisions", "assumptions", "failures", "procedures", "episodes"}

\* allocate: the share of each class for a low, a middle and a high risk.
Share(class, risk) ==
  LET by(low, middle, high) ==
        IF risk < 30 THEN low ELSE IF risk > 70 THEN high ELSE middle
  IN CASE class = "authoritative" -> by(1550, 1250, 1250)
       [] class = "decisions"     -> by(833, 833, 633)
       [] class = "assumptions"   -> by(633, 833, 633)
       [] class = "failures"      -> by(633, 833, 1233)
       [] class = "procedures"    -> by(833, 833, 633)
       [] class = "episodes"      -> by(18, 418, 118)

Cap(class, risk, total) == (total * Share(class, risk)) \div 10000

CapSum(risk, total) ==
  SumFunction([class \in Buckets \cup {"authoritative"} |-> Cap(class, risk, total)])

\* What rounding leaves goes to code.
CodeCap(risk, total) == total - CapSum(risk, total)

\* The bucket of a memory type.
Bucket(type) ==
  CASE type \in {"decision", "constraint", "fact"} -> "decisions"
    [] type = "assumption"                         -> "assumptions"
    [] type = "failure"                            -> "failures"
    [] type = "procedure"                          -> "procedures"
    [] type \in {"summary", "episode"}             -> "episodes"

\* The types that have none.
Unclassified == {"code_surface", "artifact"}

Memory ==
  [id : Nat, size : Nat \ {0}, from : Nat, until : Nat,
   type : {"decision", "constraint", "fact", "assumption", "failure", "procedure",
           "summary", "episode"} \cup Unclassified,
   status : {"active", "disputed", "superseded", "deleted", "archived"}]

\* _memory_is_stale; until 0: no valid_to_event.
MemoryIsStale(m, version) ==
  \/ m.status \in {"superseded", "deleted", "archived"}
  \/ m.from > version
  \/ m.until /= 0 /\ m.until < version

EmptyPacket(remaining) ==
  [used |-> [b \in Buckets |-> 0], memories |-> {}, code |-> 0,
   remaining |-> remaining, disputed |-> {}]

\* Mutant: the cap of the class is the only limit of a memory.
Add_ClassCapOnly(packet, m, risk, total) ==
  LET b == Bucket(m.type) IN
  IF packet.used[b] + m.size > Cap(b, risk, total) THEN packet
  ELSE [packet EXCEPT !.used[b] = @ + m.size, !.memories = @ \cup {m.id},
          !.remaining = IF @ > m.size THEN @ - m.size ELSE 0]

\* A candidate goes in when its class and the packet have room, a disputed one
\* too.
Add(packet, m, risk, total) ==
  LET b == Bucket(m.type) IN
  IF packet.used[b] + m.size > Cap(b, risk, total) \/ m.size > packet.remaining
  THEN packet
  ELSE [packet EXCEPT !.used[b] = @ + m.size, !.remaining = @ - m.size,
                      !.memories = @ \cup {m.id},
                      !.disputed = IF m.status = "disputed" THEN @ \cup {m.id} ELSE @]

\* One turn of the loop over the candidates, for those that retrieval still
\* finds.
Consider(packet, m, gone, risk, total, version) ==
  IF m.id \in gone \/ MemoryIsStale(m, version) \/ m.type \in Unclassified THEN packet
  ELSE Add(packet, m, risk, total)

\* _declared_files: what exists, inside the repository and outside its
\* private directories.
DeclaredFiles(files, exists) == files \cap exists

\* _code_evidence: files in order, the last one cut to what is left.
TakeFile(used, size, budget) ==
  used + (IF size <= budget - used THEN size ELSE budget - used)

CodeEvidence(sizes, budget) ==
  FoldLeft(LAMBDA used, size : TakeFile(used, size, budget), 0, sizes)

\* Memories as retrieved, into what the authoritative text has left.
Packed(found, gone, risk, total, room, version) ==
  FoldLeft(LAMBDA p, m : Consider(p, m, gone, risk, total, version),
           EmptyPacket(room), found)

\* compile: authoritative text first, then memories, then code.
Compile(authoritative, found, gone, sizes, risk, total, version) ==
  LET packed == Packed(found, gone, risk, total, total - authoritative, version)
      room   == IF packed.remaining < CodeCap(risk, total)
                THEN packed.remaining ELSE CodeCap(risk, total)
      code   == CodeEvidence(sizes, room)
  IN [packed EXCEPT !.code = code, !.remaining = @ - code]

-----------------------------------------------------------------------------
\* _is_own_execution_event, by the events of a run: not context.policy_measured.
OwnExecution == {"context.compiled", "task.dispatched", "task.submitted",
                 "budget.consumed", "lease.granted", "lease.released", "session"}

\* What one event adds to the relevant events of a submission of task t by an
\* agent.
Relevant(event, t, agent, deps, files) ==
  IF event.task = t /\ event.kind \in OwnExecution THEN 0
  ELSE (IF \/ event.task = t /\ event.actor /= agent
           \/ event.task \in deps THEN 1 ELSE 0)
       + (IF event.files \cap files /= {} THEN 1 ELSE 0)
       + (IF event.kind = "project.constraint_added" THEN 1 ELSE 0)

\* evaluate_submission: the score of the drift since dispatch and of what
\* became of the memories of the packet.
StalenessScore(relevant, dependencies, superseded, disputed) ==
  LET raw == 3 * relevant + 4 * dependencies + 5 * superseded + 4 * disputed
  IN IF raw < 10 THEN raw ELSE 10

\* Mutants of the gate's threshold and of its side.
TooStale_AtTwelve(score) == score > 12

\* IntegrationGate: G0_STALE above 0.8, exactly 0.8 passes.
TooStale(score) == score > 8
=============================================================================
