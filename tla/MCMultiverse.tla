---------------------------- MODULE MCMultiverse ----------------------------
\* Instances of Multiverse for TLC.
EXTENDS Multiverse

Rule(key, values) == [key |-> key, values |-> values]
Universe(name, rules) == [name |-> name, partitions |-> rules]
Table(slices, universes, default) ==
  [timeSliceRoutes |-> slices, universes |-> universes, defaultUniverse |-> default]
Event(id, slice, multiverse, partitions, replica) ==
  [id |-> id, timeSlice |-> slice, multiverse |-> multiverse, partitions |-> partitions,
   replica |-> replica]

NoLabels == [k \in {} |-> ""]
Desk(d)  == [k \in {"desk"} |-> d]

\* fx goes to "a" by partition, the close of day to "b", all else to "b".
Desks   == Table(<<[timeSlice |-> "eod", universe |-> "b"]>>,
                 <<Universe("a", <<Rule("desk", {"fx"})>>), Universe("b", <<>>)>>, "b")
\* Two universes claim fx.
Overlap == Table(<<>>, <<Universe("a", <<Rule("desk", {"fx"})>>),
                         Universe("b", <<Rule("desk", {"fx", "rates"})>>)>>, "a")

MCUniverses == {"a", "b"}

Fx    == Event("fx", "noon", "", Desk("fx"), "wf-fx")
Rates == Event("rates", "eod", "", Desk("rates"), "wf-rates")
Close == Event("close", "eod", "m", NoLabels, "wf-close")

ThreeEvents == {Fx, Rates, Close}
OneEvent    == {Fx}

OneMultiverse == {"m"}

SpecsOne     == [m \in {"m"} |-> {Desks}]
SpecsOverlap == [m \in {"m"} |-> {Desks, Overlap}]
=============================================================================
