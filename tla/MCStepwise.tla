----------------------------- MODULE MCStepwise -----------------------------
(* A small instance of Stepwise for TLC.                                   *)
EXTENDS Stepwise, TLC

CONSTANTS
  m1, m2,       \* managers, the second without leader election
  c1, c2,       \* contents
  j1, j2, k1,   \* JSON payloads: k1 is j1 written otherwise, j2 a piece of j1
  cut,          \* another piece of j1, not JSON
  o1, o2        \* outputs

MCSteady == {m1}

\* The second manager only ever gets to the first domino.
MCTakes == (m1 :> {"a", "b"}) @@ (m2 :> {"a"})

MCParse == (j1 :> c1) @@ (k1 :> c1) @@ (j2 :> c2) @@ (cut :> c2)

MCMarshal == (c1 :> j1) @@ (c2 :> j2)

MCPrefixes == (j1 :> {cut, j2}) @@ (j2 :> {}) @@ (k1 :> {}) @@ (cut :> {})

\* The file is reformatted, replaced by one that is not JSON, or removed.
MCSourceWrites == {k1, cut, Absent}

\* "pure" and "other" are functions, "impure" is none.
MCProduces(c, v, o) ==
  CASE c = "pure"   -> o = IF v = c1 THEN o1 ELSE o2
    [] c = "other"  -> o = IF v = c1 THEN o2 ELSE o1
    [] c = "impure" -> TRUE
    [] c = "julia"  -> FALSE

MCCommand == ("a" :> "impure") @@ ("b" :> "pure")

MCDependsOn == ("a" :> <<>>) @@ ("b" :> <<"a">>)

MCInputsOf == ("a" :> Absent) @@ ("b" :> <<"a", "snapshot">>)
=============================================================================
