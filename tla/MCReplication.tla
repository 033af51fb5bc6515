---------------------------- MODULE MCReplication ----------------------------
(* Instances of Replication for TLC: three workflows on one snapshot.      *)
EXTENDS Replication

Result(domino, input, output, reused) ==
  [domino |-> domino, input |-> input, output |-> output, reused |-> reused]

\* c's price has another output than a's on the same input, on another store.
\* b and c share a store, and b's price has another input than c's.
MCRows ==
  [a |-> <<Result("price", "in", "out", FALSE)>>,
   b |-> <<Result("load", "in", "out", TRUE), Result("price", "other", "out", FALSE)>>,
   c |-> <<Result("price", "in", "else", FALSE)>>]

MCSource == [a |-> "left", b |-> "right", c |-> "right"]

\* An inline snapshot is exported as it was sealed, a referenced one is not.
MCExported == [a |-> "empty", b |-> "sealed", c |-> "sealed"]

\* a replicates over Kafka, b over the bus, and c directly.
MCMode == [a |-> "cdc", b |-> "cdc", c |-> "direct"]

MCTransport == [a |-> "kafka", b |-> "memory", c |-> "memory"]

\* The default group is named after the replica.
OwnGroup == [w \in Workflows |-> w]
=============================================================================
