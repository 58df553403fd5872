----------------------------- MODULE MCDispatch -----------------------------
(* Five paths, a generalist, a tester and the mock agent. *)
EXTENDS Dispatch

MCFiles ==
  {[dirs |-> <<>>, name |-> "code"], [dirs |-> <<"api">>, name |-> "code"],
   [dirs |-> <<"api", "docs">>, name |-> "text"], [dirs |-> <<"tests">>, name |-> "test"]}
MCAlphabetical == <<"api", "root">>

MCAgents == 1..3
MCProfile ==
  << [provider |-> "codex", role |-> "implementation", enabled |-> TRUE,
      override |-> FALSE, caps |-> {"implementation", "test"}, limit |-> 1,
      quality |-> 10, cost |-> 10],
     [provider |-> "opencode", role |-> "test", enabled |-> TRUE,
      override |-> FALSE, caps |-> {"test"}, limit |-> 2, quality |-> 10, cost |-> 10],
     [provider |-> "mock", role |-> "general", enabled |-> TRUE,
      override |-> FALSE, caps |-> {"implementation", "test", "docs"}, limit |-> 4,
      quality |-> 10, cost |-> 10] >>

\* Two decisions of which one fits, two assumptions that may contradict each other.
MCFound(id, type, size, now) ==
  [id |-> id, type |-> type, size |-> size, status |-> now, from |-> 0, until |-> 0]
MCRetrievals ==
  { << MCFound(1, "decision", 2, "active"), MCFound(2, "assumption", 1, "disputed"),
       MCFound(3, "procedure", 1, "active"), MCFound(5, "artifact", 1, "active"),
       MCFound(4, "decision", 2, "active"), MCFound(6, "assumption", 1, second) >>
    : second \in {"active", "disputed"} }
MCSizes == <<6, 30>>
=============================================================================
