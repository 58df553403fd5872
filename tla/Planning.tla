------------------------------ MODULE Planning ------------------------------
(***************************************************************************)
(* DeterministicPlanner (application/planner.py): an objective and the     *)
(* files it declares become a list of tasks.  A path is its directories    *)
(* and what its name says it is; files of a task are a set; risks are in   *)
(* hundredths.                                                             *)
(***************************************************************************)
EXTENDS Naturals, Sequences, FiniteSets, SequencesExt

CONSTANTS
  Files,         \* declared paths: [dirs : Seq(STRING), name : {"code", "test", "text"}]
  Alphabetical   \* top-level directories, sorted

\* _kind: a test by its name or a directory, then documentation.
Kind(path) ==
  IF path.name = "test" \/ "tests" \in Range(path.dirs) THEN "test"
  ELSE IF path.name = "text" \/ "docs" \in Range(path.dirs) THEN "docs"
  ELSE "implementation"

\* _group_key: the top-level directory.
Group(path) == IF path.dirs = <<>> THEN "root" ELSE Head(path.dirs)

OfKind(kind, files) == {f \in files : Kind(f) = kind}

\* The modules with source files, each in its place.
SourceModules == {Group(f) : f \in OfKind("implementation", Files)}
ASSUME AlphabeticalListsModules ==
  /\ Alphabetical \in Seq(SourceModules) /\ IsInjective(Alphabetical)
  /\ SourceModules = Range(Alphabetical)

Larger(a, b) == IF a >= b THEN a ELSE b
Smaller(a, b) == IF a <= b THEN a ELSE b

SourceTask(n, files, risk) ==
  [key |-> <<"impl", n>>, type |-> "implementation", deps |-> {}, files |-> files,
   caps |-> {"implementation"}, risk |-> risk]

\* The task of the next top-level module, when it has source files.
TakeGroup(tasks, g, files, risk) ==
  LET source == {f \in OfKind("implementation", files) : Group(f) = g}
  IN IF source = {} THEN tasks
     ELSE Append(tasks, SourceTask(Len(tasks) + 1, source, risk))

SourceTasks(files, risk) ==
  FoldLeft(LAMBDA tasks, g : TakeGroup(tasks, g, files, risk), <<>>, Alphabetical)

\* Documentation and tests wait for all the source tasks.
Specialist(key, kind, files, keys, risk) ==
  IF OfKind(kind, files) = {} THEN <<>>
  ELSE <<[key |-> <<key, 0>>, type |-> kind, deps |-> keys,
          files |-> OfKind(kind, files), caps |-> {kind}, risk |-> risk]>>

Decomposed(files, risk) ==
  LET source == SourceTasks(files, risk)
      keys   == {source[i].key : i \in DOMAIN source}
  IN IF files = {}
     THEN <<[key |-> <<"implementation", 0>>, type |-> "implementation", deps |-> {},
             files |-> {}, caps |-> {"implementation"}, risk |-> risk]>>
     ELSE source
          \o Specialist("docs", "docs", files, keys,
                        Larger(10, IF risk > 15 THEN risk - 15 ELSE 0))
          \o Specialist("tests", "test", files, keys, Smaller(100, risk + 10))

\* The tasks from the last permitted one on become one task.
Tail_(tasks, max) ==
  LET head  == SubSeq(tasks, 1, max - 1)
      tail  == Range(SubSeq(tasks, max, Len(tasks)))
      types == {t.type : t \in tail}
  IN [key   |-> <<"tail", 0>>,
      type  |-> IF Cardinality(types) = 1 THEN CHOOSE k \in types : TRUE
                ELSE "implementation",
      deps  |-> (UNION {t.deps : t \in tail}) \cap {t.key : t \in Range(head)},
      files |-> UNION {t.files : t \in tail},
      caps  |-> IF Cardinality(types) = 1 THEN UNION {t.caps : t \in tail} ELSE {},
      risk  |-> CHOOSE r \in {t.risk : t \in tail} : \A t \in tail : t.risk <= r]

\* Mutant: the tail keeps what all of its tasks wait for.
Compacted_DropsDeps(tasks, max) ==
  IF Len(tasks) <= max THEN tasks
  ELSE Append(SubSeq(tasks, 1, max - 1), [Tail_(tasks, max) EXCEPT !.deps = tasks[max].deps])

Compacted(tasks, max) ==
  IF Len(tasks) <= max THEN tasks
  ELSE Append(SubSeq(tasks, 1, max - 1), Tail_(tasks, max))

Plan(files, risk, max) == Compacted(Decomposed(files, risk), max)
=============================================================================
