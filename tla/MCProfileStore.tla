---------------------------- MODULE MCProfileStore ----------------------------
(* A small instance of ProfileStore for TLC: two models of which one has two  *)
(* engines, and three runtimes that differ in models and schema.              *)
EXTENDS ProfileStore

MCModels == {"m1", "m2"}
MCEngines == {"e1", "e2"}
MCRuntimes == {"r1", "r2", "r3"}
MCSettings == {<<"k1", 1>>, <<"k1", 2>>}

MCCompatible == [m1 |-> {"e1", "e2"}, m2 |-> {"e1"}]
MCEngineOf == [r1 |-> "e1", r2 |-> "e1", r3 |-> "e2"]
MCServes == [r1 |-> {"m1"}, r2 |-> {"m1", "m2"}, r3 |-> {"m1"}]
MCAccepts == [r1 |-> MCSettings, r2 |-> {<<"k1", 1>>}, r3 |-> {}]
MCApplies == [k1 |-> {"e1"}]

\* One profile, without a pin or pinned to the runtime of its model only.
MCInitial ==
  {[a |-> [model |-> "m1", engine |-> "e1", pin |-> pin, role |-> "Primary",
           overrides |-> {}],
    b |-> None] : pin \in {None, "r1"}}
===============================================================================
