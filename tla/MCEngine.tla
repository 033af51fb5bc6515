------------------------------ MODULE MCEngine ------------------------------
(* Small instances of Engine for TLC.                                      *)
EXTENDS Engine, TLC

CONSTANTS
  c1, c2,          \* contents
  j1, j1s, j2,     \* JSON payloads; j1 and j1s encode c1, j1 canonically
  x3, w3, c3,      \* a payload that is not JSON, its wrapper and its content
  o1, o2,          \* outputs
  r1, r2, s1, t1

MCBytes == {j1, j1s, j2, x3, w3}

MCJSON == {j1, j1s, j2, w3}

MCContents == {c1, c2, c3}

MCParse == (j1 :> c1) @@ (j1s :> c1) @@ (j2 :> c2) @@ (x3 :> c3) @@ (w3 :> c3)

MCMarshal == (c1 :> j1) @@ (c2 :> j2) @@ (c3 :> w3)

MCDominos == {"a", "b"}

MCCommands == {"pure", "other", "impure", "broken"}

\* "pure" and "other" are different functions, "impure" is none, "broken"
\* always fails.
MCProduces(c, v, o) ==
  CASE c = "pure"   -> o = IF v \in {c1, o1, <<o1, c1>>} THEN o1 ELSE o2
    [] c = "other"  -> o = IF v \in {c1, o1, <<o1, c1>>} THEN o2 ELSE o1
    [] c = "impure" -> TRUE
    [] c = "broken" -> FALSE

Diamond ==
  [snap |-> s1, mode |-> "inline", catalog |-> <<"a", "b">>, chain |-> <<"a", "b">>,
   inputs |-> ("a" :> Absent) @@ ("b" :> <<"a", "snapshot">>) @@ ("" :> Absent),
   dependsOn |-> ("a" :> {}) @@ ("b" :> {"a", "snapshot", ""}) @@ ("" :> {}),
   command |-> ("a" :> "pure") @@ ("b" :> "pure") @@ ("" :> "pure"),
   deterministic |-> TRUE, isolated |-> TRUE]

Single == [Diamond EXCEPT !.chain = <<"a">>]

MCWF ==
  [impureCli |-> [Diamond EXCEPT !.mode = "cli", !.command["a"] = "impure"],
   oneRef   |-> [Single EXCEPT !.mode = "ref"],
   oneInline |-> Single,
   impureRef |-> [Single EXCEPT !.mode = "ref", !.command["a"] = "impure"],
   impureInline |-> [Single EXCEPT !.command["a"] = "impure"],
   edited   |-> [Single EXCEPT !.command["a"] = "other"],
   future   |-> [Diamond EXCEPT !.chain = <<"b", "a">>],
   backward |-> [Diamond EXCEPT !.inputs["b"] = Absent, !.dependsOn["a"] = {"b"}],
   late     |-> [Diamond EXCEPT !.mode = "ref", !.isolated = FALSE, !.command["b"] = "impure"],
   twice    |-> [Diamond EXCEPT !.catalog = <<"a", "a">>],
   unnamed  |-> [Diamond EXCEPT !.catalog = <<"a", "b", "">>],
   broken   |-> [Diamond EXCEPT !.command["b"] = "broken"]]

\* The cfg's set of workflows selects from MCWF.
MCWorkflowDefs == [w \in Workflows |-> MCWF[w]]

\* A file a person formatted.
MCInitSource == [s \in Snaps |-> j1s]

MCSpecEdits ==
  {[time |-> t, sealed |-> TRUE] : t \in Times \cup {Absent}}
    \cup {[time |-> t1, sealed |-> FALSE]}

\* The time slice is edited, or the spec without it.
MCTimeEdits == {[time |-> t1, sealed |-> TRUE]}

RunSymmetry == Permutations(Runs)
=============================================================================
