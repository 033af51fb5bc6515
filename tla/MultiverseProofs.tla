--------------------------- MODULE MultiverseProofs ---------------------------
(***************************************************************************)
(* Proofs about Multiverse, for any Multiverses, routing tables, events and *)
(* bounds.                                                                 *)
(***************************************************************************)
EXTENDS Multiverse, SequenceTheorems, WellFoundedInduction, TLAPS

-----------------------------------------------------------------------------
(* Routing and the list of routed events                                   *)

\* A nonempty set of naturals has a least element.
LEMMA LeastNatural ==
  ASSUME NEW T, T \subseteq Nat, T # {}
  PROVE  \E k \in T : \A j \in T : k <= j
<1>1. PICK k \in T : \A j \in T : ~(<<j, k>> \in OpToRel(<, Nat))
  BY WFMin, NatLessThanWellFounded
<1>2. \A j \in T : ~(j < k)
  BY <1>1 DEF OpToRel
<1> QED BY <1>2

\* Resolve returns a universe or the error.
LEMMA ResolveRange ==
  ASSUME NEW s \in Tables, NEW e
  PROVE  Resolve(s, e) \in Universes \cup {NoRoute}
<1> DEFINE overrides == {k \in DOMAIN s.timeSliceRoutes :
                           /\ s.timeSliceRoutes[k].timeSlice # ""
                           /\ s.timeSliceRoutes[k].timeSlice = e.timeSlice}
           matches == {k \in DOMAIN s.universes :
                         matchesPartitions(s.universes[k].partitions, e.partitions)}
           first == CHOOSE k \in overrides : \A j \in overrides : k <= j
<1>1. /\ DOMAIN s.timeSliceRoutes \subseteq Nat
      /\ \A k \in DOMAIN s.timeSliceRoutes : s.timeSliceRoutes[k].universe \in Universes
      /\ \A k \in DOMAIN s.universes : s.universes[k].name \in Universes
      /\ s.defaultUniverse \in Universes \cup {""}
  BY TableAssumption DEF Tables
<1>2. overrides \subseteq DOMAIN s.timeSliceRoutes /\ overrides \subseteq Nat
  BY <1>1
<1>3. matches \subseteq DOMAIN s.universes
  OBVIOUS
<1>4. Resolve(s, e) = IF overrides # {} THEN s.timeSliceRoutes[first].universe
                      ELSE IF \E j, k \in matches : j # k THEN NoRoute
                      ELSE IF matches # {} THEN s.universes[CHOOSE k \in matches : TRUE].name
                      ELSE IF s.defaultUniverse # "" THEN s.defaultUniverse
                      ELSE NoRoute
  BY DEF Resolve
<1> HIDE DEF overrides, matches
<1>5. overrides # {} => first \in overrides
  BY <1>2, LeastNatural
<1>6. matches # {} => (CHOOSE k \in matches : TRUE) \in matches
  OBVIOUS
<1> HIDE DEF first
<1> QED BY <1>1, <1>2, <1>3, <1>4, <1>5, <1>6

\* No two entries of a list share an id.
Distinct(list) == \A j, k \in DOMAIN list : list[j].id = list[k].id => j = k

Has(list, id) == \E k \in DOMAIN list : list[k].id = id

\* What appendRoutedEvent does to a list within its limit.
LEMMA AppendRouted ==
  ASSUME NEW list \in Seq(Entries), NEW record \in Entries,
         Len(list) <= RoutedCap, Distinct(list)
  PROVE  LET out == appendRoutedEvent(list, record) IN
         /\ out \in Seq(Entries)
         /\ Len(out) <= RoutedCap
         /\ Distinct(out)
         /\ Has(out, record.id)
         /\ Len(list) = RoutedCap => Len(out) = RoutedCap
         /\ \A id : Has(list, id) => Has(out, id) \/ Len(out) = RoutedCap
         /\ \/ out = list
            \/ /\ out # <<>>
               /\ SubSeq(out, 1, Len(out) - 1) = IF Len(list) < RoutedCap THEN list ELSE Tail(list)
<1> DEFINE n == Len(list)
           long == Append(list, record)
           out == appendRoutedEvent(list, record)
<1>0. RoutedCap \in Nat /\ RoutedCap > 0 /\ n \in Nat /\ DOMAIN list = 1..n
  BY BoundAssumption
<1>n. n \in Nat /\ n = Len(list)
  BY <1>0
<1> HIDE DEF n
<1>1. CASE Has(list, record.id)
  <2>1. out = list
    BY <1>1 DEF Has, appendRoutedEvent
  <2> QED BY <1>1, <2>1
<1>2. CASE ~Has(list, record.id) /\ n < RoutedCap
  <2>1. long \in Seq(Entries) /\ Len(long) = n + 1 /\ DOMAIN long = 1..(n + 1)
    BY <1>n, <1>0
  <2>2. long[n + 1] = record /\ \A k \in 1..n : long[k] = list[k]
    BY <1>n, <1>0
  <2>3. out = long
    BY <1>n, <1>0, <1>2, <2>1 DEF Has, appendRoutedEvent
  <2>4. Distinct(long)
    <3> SUFFICES ASSUME NEW j \in 1..(n + 1), NEW k \in 1..(n + 1), long[j].id = long[k].id
                 PROVE  j = k
      BY <2>1 DEF Distinct
    <3>1. \A i \in 1..n : list[i].id # record.id
      BY <1>n, <1>0, <1>2 DEF Has
    <3>2. (j \in 1..n \/ j = n + 1) /\ (k \in 1..n \/ k = n + 1)
      BY <1>n, <1>0
    <3> QED BY <1>n, <1>0, <2>2, <3>1, <3>2 DEF Distinct
  <2>5. Has(long, record.id) /\ \A id : Has(list, id) => Has(long, id)
    <3>1. 1..n \subseteq 1..(n + 1) /\ n + 1 \in 1..(n + 1)
      BY <1>n, <1>0
    <3> QED BY <1>n, <1>0, <2>1, <2>2, <3>1 DEF Has
  <2>6. SubSeq(long, 1, Len(long) - 1) = list
    <3>1. Len(long) - 1 = n
      BY <2>1, <1>0, <1>n
    <3>2. SubSeq(long, 1, n) \in Seq(Entries) /\ Len(SubSeq(long, 1, n)) = n
           /\ \A k \in 1..n : SubSeq(long, 1, n)[k] = long[k]
      BY <2>1, <1>0, <1>n, SubSeqProperties, SMTT(30)
    <3> QED BY <3>1, <3>2, <2>2, <1>0, <1>n, SeqEqual
  <2>7. long # <<>>
    BY <2>1, <1>0, <1>n
  <2> QED BY <1>n, <1>0, <1>2, <2>1, <2>3, <2>4, <2>5, <2>6, <2>7
<1>3. CASE ~Has(list, record.id) /\ n = RoutedCap
  <2>1. long \in Seq(Entries) /\ Len(long) = n + 1
    BY <1>n, <1>0
  <2>2. long[n + 1] = record /\ \A k \in 1..n : long[k] = list[k]
    BY <1>n, <1>0
  <2>3. out = Tail(long)
    BY <1>n, <1>0, <1>3, <2>1 DEF Has, appendRoutedEvent
  <2>4. long # <<>>
    BY <2>1, <1>0, <1>n
  <2>5. /\ Tail(long) \in Seq(Entries) /\ Len(Tail(long)) = n
        /\ DOMAIN Tail(long) = 1..n
        /\ \A k \in 1..n : Tail(long)[k] = long[k + 1]
    BY <2>1, <2>4, <1>0, <1>n, HeadTailProperties
  <2>6. \A k \in 1..n : k + 1 \in 1..n \/ k = n
    BY <1>n
  <2>7. Tail(long)[n] = record /\ \A k \in 1..n : k # n => Tail(long)[k] = list[k + 1]
    BY <2>2, <2>5, <2>6, <1>0, <1>n, <1>3
  <2>8. Distinct(Tail(long))
    <3> SUFFICES ASSUME NEW j \in 1..n, NEW k \in 1..n, Tail(long)[j].id = Tail(long)[k].id
                 PROVE  j = k
      BY <2>5 DEF Distinct
    <3>1. \A i \in 1..n : list[i].id # record.id
      BY <1>n, <1>0, <1>3 DEF Has
    <3>2. CASE j = n /\ k = n
      BY <3>2
    <3>3. CASE j = n /\ k # n
      BY <3>1, <3>3, <2>6, <2>7
    <3>4. CASE j # n /\ k = n
      BY <3>1, <3>4, <2>6, <2>7
    <3>5. CASE j # n /\ k # n
      <4>1. j + 1 \in 1..n /\ k + 1 \in 1..n
        BY <3>5, <2>6
      <4>2. list[j + 1].id = list[k + 1].id
        BY <3>5, <2>7
      <4>3. j + 1 = k + 1
        BY <4>1, <4>2, <1>0, <1>n DEF Distinct
      <4> QED BY <4>3
    <3> QED BY <3>2, <3>3, <3>4, <3>5
  <2>9. Has(Tail(long), record.id)
    <3>1. n \in 1..n
      BY <1>0, <1>n, <1>3
    <3>2. n \in DOMAIN Tail(long) /\ Tail(long)[n].id = record.id
      BY <3>1, <2>5, <2>7
    <3> QED BY <3>2 DEF Has
  <2>10. Tail(long) # <<>> /\ SubSeq(Tail(long), 1, Len(Tail(long)) - 1) = Tail(list)
    <3>0. list # <<>>
      BY <1>n, <1>0, <1>3
    <3>1. /\ Tail(list) \in Seq(Entries) /\ Len(Tail(list)) = n - 1
          /\ \A k \in 1..(n - 1) : Tail(list)[k] = list[k + 1]
      BY <3>0, <1>0, <1>n, HeadTailProperties
    <3>2. /\ SubSeq(Tail(long), 1, n - 1) \in Seq(Entries)
          /\ Len(SubSeq(Tail(long), 1, n - 1)) = n - 1
          /\ \A k \in 1..(n - 1) : SubSeq(Tail(long), 1, n - 1)[k] = Tail(long)[k]
      BY <2>5, <1>0, <1>n, <1>3, SubSeqProperties, SMTT(30)
    <3>3. \A k \in 1..(n - 1) : k \in 1..n /\ k # n
      BY <1>n
    <3>4. \A k \in 1..(n - 1) : SubSeq(Tail(long), 1, n - 1)[k] = Tail(list)[k]
      BY <3>1, <3>2, <3>3, <2>7
    <3>5. SubSeq(Tail(long), 1, n - 1) = Tail(list)
      BY <3>1, <3>2, <3>4, SeqEqual
    <3>6. Tail(long) # <<>>
      BY <2>5, <1>0, <1>n, <1>3
    <3> QED BY <3>5, <3>6, <2>5
  <2> QED BY <1>n, <1>0, <1>3, <2>3, <2>5, <2>8, <2>9, <2>10
<1> QED BY <1>n, <1>0, <1>1, <1>2, <1>3

-----------------------------------------------------------------------------
(* The inductive invariant.  A copy that is still fresh is the object; an  *)
(* object that exists has a table; a delivery past its first step has a    *)
(* handler and a route.                                                    *)

HeldInv ==
  /\ \A m \in Multiverses : mv[m].exists => mv[m].uid > 0 /\ mv[m].spec \in Tables
  /\ reconcile.of # None => reconcile.copy.exists /\ reconcile.copy.uid > 0 /\ reconcile.copy.spec \in Tables
  /\ reconcile.fresh => reconcile.of # None /\ reconcile.copy = mv[reconcile.of]
  /\ delivery.pc # "idle" => delivery.event \in Events
  /\ delivery.pc \in {"handle", "update", "create"} => delivery.queue # <<>>
  /\ delivery.pc \in {"update", "create"} =>
       /\ delivery.copy.exists /\ delivery.copy.uid > 0 /\ delivery.copy.spec \in Tables
       /\ Resolve(Head(delivery.queue).spec, delivery.event) # NoRoute
  /\ delivery.fresh => delivery.pc = "update" /\ delivery.copy = mv[Head(delivery.queue).of]

TypeInv == TypeOK /\ HeldInv

LEMMA TypeInit == Init => TypeInv
<1> SUFFICES ASSUME Init PROVE TypeInv
  OBVIOUS
<1>1. 0 \in 0 .. MaxCreations /\ <<>> \in Seq(Entries)
  BY BoundAssumption
<1>2. Absent \in Objects /\ Absent.exists = FALSE
  BY <1>1 DEF Absent, Gone, Object, Objects
<1> HIDE DEF Absent
<1>3. TypeOK
  BY <1>2, BoundAssumption DEF Init, TypeOK, IdleReconcile, IdleDelivery, Handlers
<1>4. HeldInv
  BY <1>2 DEF Init, HeldInv, IdleReconcile, IdleDelivery
<1> QED BY <1>3, <1>4 DEF TypeInv

\* An object that a write may put in place.
Storable(object) ==
  object \in Objects /\ (object.exists => object.uid > 0 /\ object.spec \in Tables)

LEMMA NewStorable ==
  ASSUME NEW u \in 0 .. MaxCreations
  PROVE  /\ Storable(Gone(u)) /\ ~Gone(u).exists /\ Gone(u).uid = u /\ Gone(u).routed = <<>>
         /\ \A s \in Tables : u > 0 => /\ Storable(Object(TRUE, u, s))
                                       /\ Object(TRUE, u, s).uid = u
                                       /\ Object(TRUE, u, s).routed = <<>>
<1>1. <<>> \in Seq(Entries)
  OBVIOUS
<1> QED BY <1>1 DEF Gone, Object, Objects, Storable

\* Any write of a storable object, whatever copies others hold.
LEMMA WriteTyped ==
  ASSUME TypeInv, NEW m \in Multiverses, NEW object, Storable(object), Write(m, object),
         UNCHANGED <<replicas, handlers, seen, workflow>>,
         subscribed' \subseteq Multiverses, spent' \in [edits : 0 .. MaxEdits, reruns : 0 .. MaxReruns, faults : 0 .. MaxFaults]
  PROVE  TypeInv'
<1>1. mv' \in [Multiverses -> Objects] /\ mv'[m] = object /\ \A n \in Multiverses : n # m => mv'[n] = mv[n]
  BY DEF TypeInv, TypeOK, Write, Storable
<1>2. /\ reconcile'.of = reconcile.of /\ reconcile'.copy = reconcile.copy
      /\ reconcile'.fresh = (reconcile.fresh /\ reconcile.of # m)
      /\ reconcile' \in [of : Multiverses \cup {None}, copy : Objects, fresh : BOOLEAN]
  BY DEF TypeInv, TypeOK, Write, OutdatedReconcile
<1>3. /\ delivery'.event = delivery.event /\ delivery'.pc = delivery.pc
      /\ delivery'.queue = delivery.queue /\ delivery'.copy = delivery.copy
      /\ delivery'.fresh = (delivery.fresh /\ (delivery.queue = <<>> \/ Head(delivery.queue).of # m))
      /\ delivery' \in [event : Events \cup {None}, queue : Seq(Handlers), copy : Objects, fresh : BOOLEAN,
                   pc : {"idle", "publish", "handle", "update", "create"}]
  BY DEF TypeInv, TypeOK, Write, OutdatedDelivery
<1>4. TypeOK'
  BY <1>1, <1>2, <1>3 DEF TypeInv, TypeOK
<1>5. HeldInv'
  <2>1. \A n \in Multiverses : mv'[n].exists => mv'[n].uid > 0 /\ mv'[n].spec \in Tables
    BY <1>1 DEF TypeInv, HeldInv, Storable
  <2>2. reconcile'.fresh => reconcile'.of # None /\ reconcile'.copy = mv'[reconcile'.of]
    BY <1>1, <1>2 DEF TypeInv, TypeOK, HeldInv
  <2>3. delivery'.fresh => delivery'.pc = "update" /\ delivery'.copy = mv'[Head(delivery'.queue).of]
    <3> SUFFICES ASSUME delivery'.fresh
                 PROVE  delivery'.pc = "update" /\ delivery'.copy = mv'[Head(delivery'.queue).of]
      OBVIOUS
    <3>1. delivery.fresh /\ delivery.pc = "update" /\ delivery.queue # <<>> /\ Head(delivery.queue).of # m
      BY <1>3 DEF TypeInv, HeldInv
    <3>2. Head(delivery.queue) \in Handlers
      BY <3>1, HeadTailProperties DEF TypeInv, TypeOK
    <3>3. Head(delivery.queue).of \in Multiverses
      BY <3>2 DEF Handlers
    <3> QED BY <1>1, <1>3, <3>1, <3>3 DEF TypeInv, HeldInv
  <2> QED BY <1>2, <1>3, <2>1, <2>2, <2>3 DEF TypeInv, HeldInv
<1> QED BY <1>4, <1>5 DEF TypeInv

\* What TypeInv says of a delivery, and of a reconcile, that holds no fresh copy.
DeliveryOK(d) ==
  /\ d \in [event : Events \cup {None}, queue : Seq(Handlers), copy : Objects, fresh : BOOLEAN,
            pc : {"idle", "publish", "handle", "update", "create"}]
  /\ d.pc # "idle" => d.event \in Events
  /\ d.pc \in {"handle", "update", "create"} => d.queue # <<>>
  /\ d.pc \in {"update", "create"} =>
       /\ d.copy.exists /\ d.copy.uid > 0 /\ d.copy.spec \in Tables
       /\ Resolve(Head(d.queue).spec, d.event) # NoRoute

LEMMA IdleTyped ==
  /\ Absent \in Objects
  /\ DeliveryOK(IdleDelivery) /\ ~IdleDelivery.fresh
  /\ IdleReconcile \in [of : Multiverses \cup {None}, copy : Objects, fresh : BOOLEAN]
  /\ IdleReconcile.of = None /\ ~IdleReconcile.fresh
<1>1. 0 \in 0 .. MaxCreations /\ <<>> \in Seq(Entries) /\ <<>> \in Seq(Handlers)
  BY BoundAssumption
<1>2. Absent \in Objects
  BY <1>1 DEF Absent, Gone, Object, Objects
<1> HIDE DEF Absent
<1> QED BY <1>1, <1>2 DEF DeliveryOK, IdleDelivery, IdleReconcile

LEMMA DeliveryIs ==
  ASSUME TypeInv
  PROVE  DeliveryOK(delivery)
BY DEF TypeInv, TypeOK, HeldInv, DeliveryOK

LEMMA RemainingTyped ==
  ASSUME TypeInv, NEW queue \in Seq(Handlers), delivery.event \in Events
  PROVE  DeliveryOK(Remaining(queue)) /\ ~Remaining(queue).fresh
<1>1. CASE queue = <<>>
  BY <1>1, IdleTyped DEF Remaining
<1>2. CASE queue # <<>>
  <2>1. Remaining(queue) = [IdleDelivery EXCEPT !.event = delivery.event, !.pc = "handle", !.queue = queue]
    BY <1>2 DEF Remaining
  <2>2. Remaining(queue) = [event |-> delivery.event, pc |-> "handle", queue |-> queue,
                            copy |-> Absent, fresh |-> FALSE]
    BY <2>1 DEF IdleDelivery
  <2>3. Absent \in Objects
    BY IdleTyped
  <2> HIDE DEF Absent
  <2> QED BY <1>2, <2>2, <2>3 DEF DeliveryOK
<1> QED BY <1>1, <1>2

\* The handler at the head of a queue.
LEMMA HeadHandler ==
  ASSUME TypeInv, delivery.queue # <<>>
  PROVE  /\ Head(delivery.queue) \in Handlers
         /\ Head(delivery.queue).of \in Multiverses
         /\ Head(delivery.queue).spec \in Tables
         /\ Tail(delivery.queue) \in Seq(Handlers)
<1>1. Head(delivery.queue) \in Handlers /\ Tail(delivery.queue) \in Seq(Handlers)
  BY HeadTailProperties DEF TypeInv, TypeOK
<1> QED BY <1>1 DEF Handlers

\* Steps of a delivery that write no Multiverse.
LEMMA DeliveryStep ==
  ASSUME TypeInv, DeliveryOK(delivery'),
         delivery'.fresh => delivery'.pc = "update" /\ delivery'.copy = mv[Head(delivery'.queue).of],
         UNCHANGED <<mv, reconcile, subscribed, handlers>>,
         replicas' \subseteq [name : {e.replica : e \in Events} \X Universes, id : Ids,
                             owner : Multiverses, uid : 1 .. MaxCreations],
         seen' \subseteq Ids, workflow' \in [Events -> {"Running", "Completed"}],
         spent' \in [edits : 0 .. MaxEdits, reruns : 0 .. MaxReruns, faults : 0 .. MaxFaults]
  PROVE  TypeInv'
<1>1. TypeOK'
  BY DEF TypeInv, TypeOK, DeliveryOK
<1>2. HeldInv'
  BY DEF TypeInv, HeldInv, DeliveryOK
<1> QED BY <1>1, <1>2 DEF TypeInv

-----------------------------------------------------------------------------
(* Every action keeps the types.                                           *)

LEMMA SpentGrows ==
  ASSUME TypeInv
  PROVE  /\ spent \in [edits : 0 .. MaxEdits, reruns : 0 .. MaxReruns, faults : 0 .. MaxFaults]
         /\ spent.edits < MaxEdits => [spent EXCEPT !.edits = @ + 1] \in
              [edits : 0 .. MaxEdits, reruns : 0 .. MaxReruns, faults : 0 .. MaxFaults]
         /\ spent.reruns < MaxReruns => [spent EXCEPT !.reruns = @ + 1] \in
              [edits : 0 .. MaxEdits, reruns : 0 .. MaxReruns, faults : 0 .. MaxFaults]
         /\ spent.faults < MaxFaults => [spent EXCEPT !.faults = @ + 1] \in
              [edits : 0 .. MaxEdits, reruns : 0 .. MaxReruns, faults : 0 .. MaxFaults]
<1> DEFINE Spents == [edits : 0 .. MaxEdits, reruns : 0 .. MaxReruns, faults : 0 .. MaxFaults]
<1>1. spent \in Spents
  BY DEF TypeInv, TypeOK
<1>2. \A n \in Nat : \A k \in 0 .. n : k < n => k + 1 \in 0 .. n
  OBVIOUS
<1>3. spent.edits \in 0 .. MaxEdits /\ spent.reruns \in 0 .. MaxReruns /\ spent.faults \in 0 .. MaxFaults
  BY <1>1
<1>4. /\ spent.edits < MaxEdits => spent.edits + 1 \in 0 .. MaxEdits
      /\ spent.reruns < MaxReruns => spent.reruns + 1 \in 0 .. MaxReruns
      /\ spent.faults < MaxFaults => spent.faults + 1 \in 0 .. MaxFaults
  BY <1>2, <1>3, BoundAssumption
<1> QED BY <1>1, <1>4

LEMMA UserTyped ==
  ASSUME TypeInv, NEW m \in Multiverses,
         Create(m) \/ Edit(m) \/ Delete(m) \/ AddFinalizer(m) \/ finalizeMultiverse(m)
  PROVE  TypeInv'
<1>0. /\ mv[m] \in Objects /\ subscribed \subseteq Multiverses
      /\ mv[m].exists => mv[m].uid > 0 /\ mv[m].spec \in Tables
      /\ Specs[m] \subseteq Tables
  BY DEF TypeInv, TypeOK, HeldInv, Tables
<1>1. CASE Create(m)
  <2>1. PICK s \in Specs[m] : Write(m, Object(TRUE, mv[m].uid + 1, s))
    BY <1>1 DEF Create
  <2>2. mv[m].uid + 1 \in 0 .. MaxCreations /\ mv[m].uid + 1 > 0
    <3>1. mv[m].uid \in 0 .. MaxCreations /\ mv[m].uid < MaxCreations
      BY <1>0, <1>1 DEF Create, Objects
    <3> QED BY <3>1, BoundAssumption
  <2>3. Storable(Object(TRUE, mv[m].uid + 1, s))
    BY <1>0, <2>2, NewStorable
  <2> QED BY <1>0, <1>1, <2>1, <2>3, WriteTyped, SpentGrows DEF Create
<1>2. CASE Edit(m)
  <2>1. PICK s \in Specs[m] : Write(m, [mv[m] EXCEPT !.spec = s])
    BY <1>2 DEF Edit
  <2>2. Storable([mv[m] EXCEPT !.spec = s])
    BY <1>0 DEF Objects, Storable
  <2> QED BY <1>0, <1>2, <2>1, <2>2, WriteTyped, SpentGrows DEF Edit
<1>3. CASE Delete(m)
  <2>1. Storable(Gone(mv[m].uid)) /\ Storable([mv[m] EXCEPT !.deleting = TRUE])
    BY <1>0, NewStorable DEF Objects, Storable
  <2> QED BY <1>0, <1>3, <2>1, WriteTyped, SpentGrows DEF Delete
<1>4. CASE AddFinalizer(m)
  <2>1. Storable([mv[m] EXCEPT !.finalizer = TRUE])
    BY <1>0 DEF Objects, Storable
  <2> QED BY <1>0, <1>4, <2>1, WriteTyped, SpentGrows DEF AddFinalizer
<1>5. CASE finalizeMultiverse(m)
  <2>1. Storable(Gone(mv[m].uid))
    BY <1>0, NewStorable DEF Objects
  <2> QED BY <1>0, <1>5, <2>1, WriteTyped, SpentGrows DEF finalizeMultiverse
<1> QED BY <1>1, <1>2, <1>3, <1>4, <1>5

LEMMA ReconcileTyped ==
  ASSUME TypeInv,
         ReconcileWrite \/ failMultiverse \/ \E m \in Multiverses : ReconcileRead(m)
  PROVE  TypeInv'
<1>0. /\ mv \in [Multiverses -> Objects] /\ DeliveryOK(delivery)
      /\ reconcile \in [of : Multiverses \cup {None}, copy : Objects, fresh : BOOLEAN]
  BY DeliveryIs DEF TypeInv, TypeOK
<1>1. ASSUME NEW m \in Multiverses, ReconcileRead(m) PROVE TypeInv'
  <2>1. reconcile' = [of |-> m, copy |-> mv[m], fresh |-> TRUE] /\ m # None /\ mv[m].exists
    BY <1>1, ErrorAssumption DEF ReconcileRead
  <2>2. TypeOK'
    BY <1>0, <1>1, <2>1 DEF ReconcileRead, TypeInv, TypeOK
  <2>3. HeldInv'
    BY <1>0, <1>1, <2>1 DEF ReconcileRead, TypeInv, HeldInv
  <2> QED BY <2>2, <2>3 DEF TypeInv
<1>2. ASSUME NEW p \in {"", "Active", "Degraded"}, reconcile.of # None, reconcile.fresh,
             mv' = [mv EXCEPT ![reconcile.of] = [reconcile.copy EXCEPT !.phase = p]],
             delivery' = OutdatedDelivery(reconcile.of), reconcile' = IdleReconcile,
             UNCHANGED <<replicas, seen, workflow>>,
             subscribed' \subseteq Multiverses, handlers' \in Seq(Handlers),
             spent' \in [edits : 0 .. MaxEdits, reruns : 0 .. MaxReruns, faults : 0 .. MaxFaults]
      PROVE  TypeInv'
  <2>1. PICK m \in Multiverses : m = reconcile.of
    BY <1>0, <1>2
  <2>2. [reconcile.copy EXCEPT !.phase = p] \in Objects
    BY <1>0, <1>2 DEF Objects
  <2>3. /\ [reconcile.copy EXCEPT !.phase = p].exists /\ [reconcile.copy EXCEPT !.phase = p].uid > 0
        /\ [reconcile.copy EXCEPT !.phase = p].spec \in Tables
    BY <1>0, <1>2 DEF Objects, TypeInv, HeldInv
  <2>4. PICK o \in Objects : o = [reconcile.copy EXCEPT !.phase = p]
    BY <2>2
  <2>5. mv' = [mv EXCEPT ![m] = o] /\ delivery' = OutdatedDelivery(m)
    BY <1>2, <2>1, <2>4
  <2>6. /\ mv' \in [Multiverses -> Objects] /\ mv'[m] = o
        /\ \A n \in Multiverses : n # m => mv'[n] = mv[n]
    BY <1>0, <2>5
  <2>7. /\ delivery'.event = delivery.event /\ delivery'.pc = delivery.pc
        /\ delivery'.queue = delivery.queue /\ delivery'.copy = delivery.copy
        /\ delivery'.fresh = (delivery.fresh /\ (delivery.queue = <<>> \/ Head(delivery.queue).of # m))
        /\ delivery' \in [event : Events \cup {None}, queue : Seq(Handlers), copy : Objects, fresh : BOOLEAN,
                     pc : {"idle", "publish", "handle", "update", "create"}]
    BY <2>5 DEF TypeInv, TypeOK, OutdatedDelivery
  <2>8. TypeOK'
    BY <1>2, <2>6, <2>7, IdleTyped DEF TypeInv, TypeOK
  <2>9. \A n \in Multiverses : mv'[n].exists => mv'[n].uid > 0 /\ mv'[n].spec \in Tables
    BY <2>3, <2>4, <2>6 DEF TypeInv, HeldInv
  <2>10. delivery'.fresh => delivery'.pc = "update" /\ delivery'.copy = mv'[Head(delivery'.queue).of]
    <3> SUFFICES ASSUME delivery'.fresh
                 PROVE  delivery'.pc = "update" /\ delivery'.copy = mv'[Head(delivery'.queue).of]
      OBVIOUS
    <3>1. delivery.fresh /\ delivery.pc = "update" /\ delivery.queue # <<>> /\ Head(delivery.queue).of # m
      BY <2>7 DEF TypeInv, HeldInv
    <3>2. Head(delivery.queue).of \in Multiverses
      BY <3>1, HeadHandler
    <3> QED BY <2>6, <2>7, <3>1, <3>2 DEF TypeInv, HeldInv
  <2>11. HeldInv'
    BY <1>2, <2>7, <2>9, <2>10, IdleTyped DEF TypeInv, HeldInv
  <2> QED BY <2>8, <2>11 DEF TypeInv
<1>3. ASSUME UNCHANGED <<mv, replicas, delivery, subscribed, handlers, seen, workflow>>,
             reconcile' = IdleReconcile,
             spent' \in [edits : 0 .. MaxEdits, reruns : 0 .. MaxReruns, faults : 0 .. MaxFaults]
      PROVE  TypeInv'
  <2>1. TypeOK'
    BY <1>3, IdleTyped DEF TypeInv, TypeOK
  <2>2. HeldInv'
    BY <1>3, IdleTyped DEF TypeInv, HeldInv
  <2> QED BY <2>1, <2>2 DEF TypeInv
<1>4. ASSUME ReconcileWrite PROVE TypeInv'
  <2>1. CASE ~reconcile.fresh
    BY <1>3, <1>4, <2>1, SpentGrows DEF ReconcileWrite, Accepted
  <2>2. CASE reconcile.fresh
    <3>1. PICK kafka \in BOOLEAN :
            /\ ~kafka => spent.faults < MaxFaults
            /\ mv' = [mv EXCEPT ![reconcile.of] = [reconcile.copy EXCEPT !.phase =
                        IF ~kafka \/ @ = "Degraded" THEN "Degraded" ELSE "Active"]]
            /\ spent' = [spent EXCEPT !.faults = IF kafka THEN @ ELSE @ + 1]
      BY <1>4, <2>2 DEF ReconcileWrite, Accepted
    <3>2. PICK p \in {"", "Active", "Degraded"} :
            p = IF ~kafka \/ reconcile.copy.phase = "Degraded" THEN "Degraded" ELSE "Active"
      OBVIOUS
    <3>3. mv' = [mv EXCEPT ![reconcile.of] = [reconcile.copy EXCEPT !.phase = p]]
      BY <3>1, <3>2
    <3>4. spent' \in [edits : 0 .. MaxEdits, reruns : 0 .. MaxReruns, faults : 0 .. MaxFaults]
      <4>1. CASE kafka
        BY <3>1, <4>1, SpentGrows
      <4>2. CASE ~kafka
        BY <3>1, <4>2, SpentGrows
      <4> QED BY <4>1, <4>2
    <3>5. /\ reconcile.of # None /\ delivery' = OutdatedDelivery(reconcile.of)
          /\ reconcile' = IdleReconcile /\ UNCHANGED <<replicas, seen, workflow>>
          /\ ensureSubscription(reconcile.of, reconcile.copy)
      BY <1>4, <2>2 DEF ReconcileWrite, Accepted
    <3>6. subscribed' \subseteq Multiverses /\ handlers' \in Seq(Handlers)
      <4>1. reconcile.of \in Multiverses /\ reconcile.copy.spec \in Tables
        BY <1>0, <3>5 DEF TypeInv, HeldInv
      <4>2. [of |-> reconcile.of, spec |-> reconcile.copy.spec] \in Handlers
        BY <4>1 DEF Handlers
      <4>3. PICK h \in Handlers : h = [of |-> reconcile.of, spec |-> reconcile.copy.spec]
        BY <4>2
      <4>4. handlers \in Seq(Handlers) /\ subscribed \subseteq Multiverses
        BY DEF TypeInv, TypeOK
      <4>5. Append(handlers, h) \in Seq(Handlers)
        BY <4>4, AppendProperties
      <4> QED BY <3>5, <4>1, <4>3, <4>4, <4>5 DEF ensureSubscription
    <3> QED BY <1>2, <2>2, <3>3, <3>4, <3>5, <3>6
  <2> QED BY <2>1, <2>2
<1>5. ASSUME failMultiverse PROVE TypeInv'
  <2>1. CASE ~reconcile.fresh
    BY <1>3, <1>5, <2>1, SpentGrows DEF failMultiverse, Accepted
  <2>2. CASE reconcile.fresh
    <3>1. subscribed \subseteq Multiverses /\ handlers \in Seq(Handlers)
      BY DEF TypeInv, TypeOK
    <3> QED BY <1>2, <1>5, <2>2, <3>1, SpentGrows DEF failMultiverse, Accepted
  <2> QED BY <2>1, <2>2
<1> QED BY <1>1, <1>4, <1>5

\* The entry a handler records, and the object it writes it to.
LEMMA UpdateFacts ==
  ASSUME TypeInv, RecordedOnce, HandleUpdate, delivery.fresh
  PROVE  LET h == Head(delivery.queue)
             record == [id |-> delivery.event.id, target |-> Resolve(h.spec, delivery.event)]
         IN /\ h.of \in Multiverses /\ mv[h.of] = delivery.copy /\ mv[h.of].exists
            /\ record \in Entries
            /\ Len(mv[h.of].routed) <= RoutedCap /\ Distinct(mv[h.of].routed)
            /\ mv[h.of].routed \in Seq(Entries)
            /\ mv' = [mv EXCEPT ![h.of] =
                        [delivery.copy EXCEPT !.routed = appendRoutedEvent(mv[h.of].routed, record)]]
            /\ reconcile' = OutdatedReconcile(h.of)
            /\ delivery' = [delivery EXCEPT !.pc = "create", !.fresh = FALSE]
            /\ UNCHANGED <<replicas, subscribed, handlers, seen, workflow, spent>>
<1> DEFINE h == Head(delivery.queue)
           record == [id |-> delivery.event.id, target |-> Resolve(h.spec, delivery.event)]
<1>1. delivery.pc = "update" /\ DeliveryOK(delivery)
  BY DeliveryIs DEF HandleUpdate
<1>2. delivery.queue # <<>> /\ delivery.event \in Events /\ Resolve(h.spec, delivery.event) # NoRoute
      /\ delivery.copy.exists /\ delivery.copy = mv[h.of]
  BY <1>1 DEF DeliveryOK, TypeInv, HeldInv
<1>3. h.of \in Multiverses /\ h.spec \in Tables
  BY <1>2, HeadHandler
<1>4. Resolve(h.spec, delivery.event) \in Universes
  BY <1>2, <1>3, ResolveRange
<1>5. record \in Entries
  BY <1>2, <1>4 DEF Entries, Ids
<1>6. Len(mv[h.of].routed) <= RoutedCap /\ Distinct(mv[h.of].routed)
  BY <1>3 DEF RecordedOnce, Distinct
<1>7. mv[h.of].routed \in Seq(Entries)
  <2>1. mv[h.of] \in Objects
    BY <1>3 DEF TypeInv, TypeOK
  <2> QED BY <2>1 DEF Objects
<1>8. /\ mv' = [mv EXCEPT ![h.of] = [delivery.copy EXCEPT !.routed = appendRoutedEvent(@, record)]]
      /\ reconcile' = OutdatedReconcile(h.of)
      /\ delivery' = [delivery EXCEPT !.pc = "create", !.fresh = FALSE]
      /\ UNCHANGED <<replicas, subscribed, handlers, seen, workflow, spent>>
  BY DEF HandleUpdate, Accepted
<1>9. delivery.copy.routed = mv[h.of].routed
  BY <1>2
<1> QED BY <1>2, <1>3, <1>5, <1>6, <1>7, <1>8, <1>9

LEMMA UpdateTyped ==
  ASSUME TypeInv, RecordedOnce, HandleUpdate
  PROVE  TypeInv'
<1>1. CASE ~delivery.fresh
  <2>1. delivery' = IdleDelivery /\ UNCHANGED <<mv, reconcile, replicas, subscribed, handlers, seen, workflow, spent>>
    BY <1>1 DEF HandleUpdate, UpdateRefused, Accepted
  <2> QED BY <2>1, IdleTyped, DeliveryStep, SpentGrows DEF TypeInv, TypeOK
<1>2. CASE delivery.fresh
  <2>0. DeliveryOK(delivery) /\ delivery.pc = "update" /\ delivery.queue # <<>>
    BY DeliveryIs DEF HandleUpdate, DeliveryOK
  <2>1. PICK m \in Multiverses : m = Head(delivery.queue).of
    BY <2>0, HeadHandler
  <2>2. PICK record \in Entries :
          record = [id |-> delivery.event.id, target |-> Resolve(Head(delivery.queue).spec, delivery.event)]
    BY <1>2, UpdateFacts
  <2>3. /\ mv[m] = delivery.copy /\ mv[m] \in Objects /\ mv[m].uid > 0 /\ mv[m].spec \in Tables
        /\ mv' = [mv EXCEPT ![m] = [mv[m] EXCEPT !.routed = appendRoutedEvent(mv[m].routed, record)]]
        /\ appendRoutedEvent(mv[m].routed, record) \in Seq(Entries)
        /\ reconcile' = OutdatedReconcile(m)
        /\ delivery' = [delivery EXCEPT !.pc = "create", !.fresh = FALSE]
        /\ UNCHANGED <<replicas, subscribed, handlers, seen, workflow, spent>>
    BY <1>2, <2>1, <2>2, UpdateFacts, AppendRouted DEF TypeInv, TypeOK, HeldInv
  <2>4. PICK out \in Seq(Entries) : out = appendRoutedEvent(mv[m].routed, record)
    BY <2>3
  <2>5. PICK o \in Objects : o = [mv[m] EXCEPT !.routed = out]
    BY <2>3 DEF Objects
  <2>6. o.uid > 0 /\ o.spec \in Tables
    BY <2>3, <2>5 DEF Objects
  <2>7. /\ mv' \in [Multiverses -> Objects] /\ mv'[m] = o
        /\ \A n \in Multiverses : n # m => mv'[n] = mv[n]
    BY <2>3, <2>4, <2>5 DEF TypeInv, TypeOK
  <2>8. /\ reconcile'.of = reconcile.of /\ reconcile'.copy = reconcile.copy
        /\ reconcile'.fresh = (reconcile.fresh /\ reconcile.of # m)
        /\ reconcile' \in [of : Multiverses \cup {None}, copy : Objects, fresh : BOOLEAN]
    BY <2>3 DEF TypeInv, TypeOK, OutdatedReconcile
  <2>9. /\ delivery'.event = delivery.event /\ delivery'.pc = "create" /\ ~delivery'.fresh
        /\ delivery'.queue = delivery.queue /\ delivery'.copy = delivery.copy
        /\ delivery' \in [event : Events \cup {None}, queue : Seq(Handlers), copy : Objects, fresh : BOOLEAN,
                     pc : {"idle", "publish", "handle", "update", "create"}]
    BY <2>3 DEF TypeInv, TypeOK
  <2>10. TypeOK'
    BY <2>3, <2>7, <2>8, <2>9 DEF TypeInv, TypeOK
  <2>11. \A n \in Multiverses : mv'[n].exists => mv'[n].uid > 0 /\ mv'[n].spec \in Tables
    BY <2>6, <2>7 DEF TypeInv, HeldInv
  <2>12. reconcile'.fresh => reconcile'.of # None /\ reconcile'.copy = mv'[reconcile'.of]
    BY <2>7, <2>8 DEF TypeInv, TypeOK, HeldInv
  <2>13. HeldInv'
    BY <2>0, <2>8, <2>9, <2>11, <2>12 DEF TypeInv, HeldInv, DeliveryOK
  <2> QED BY <2>10, <2>13 DEF TypeInv
<1> QED BY <1>1, <1>2

LEMMA DeliveryTyped ==
  ASSUME TypeInv,
         \/ \E e \in Events : Complete(e) \/ Rerun(e)
         \/ Publish \/ HandleSkip \/ HandleGet \/ ensureReadReplica
         \/ HandlerFails \/ Collect \/ Restart
  PROVE  TypeInv'
<1>0. /\ DeliveryOK(delivery)
      /\ handlers \in Seq(Handlers) /\ seen \subseteq Ids /\ workflow \in [Events -> {"Running", "Completed"}]
      /\ replicas \subseteq [name : {e.replica : e \in Events} \X Universes, id : Ids,
                             owner : Multiverses, uid : 1 .. MaxCreations]
      /\ mv \in [Multiverses -> Objects]
  BY DeliveryIs DEF TypeInv, TypeOK
<1>1. ASSUME NEW e \in Events, Complete(e) PROVE TypeInv'
  <2>1. delivery' = [IdleDelivery EXCEPT !.event = e, !.pc = "publish"]
    BY <1>1 DEF Complete, publishSnapshotEvent
  <2>2. delivery' = [event |-> e, pc |-> "publish", queue |-> <<>>, copy |-> Absent, fresh |-> FALSE]
    BY <2>1 DEF IdleDelivery
  <2>3. Absent \in Objects
    BY IdleTyped
  <2>4. DeliveryOK(delivery') /\ ~delivery'.fresh
    <3> HIDE DEF Absent
    <3> QED BY <2>2, <2>3 DEF DeliveryOK
  <2> QED BY <1>0, <1>1, <2>4, DeliveryStep, SpentGrows DEF Complete
<1>2. ASSUME NEW e \in Events, Rerun(e) PROVE TypeInv'
  <2>1. delivery' = delivery /\ workflow' \in [Events -> {"Running", "Completed"}]
    BY <1>0, <1>2 DEF Rerun
  <2> QED BY <1>0, <1>2, <2>1, DeliveryStep, SpentGrows DEF Rerun, TypeInv, HeldInv
<1>3. ASSUME Publish PROVE TypeInv'
  <2>1. delivery.event \in Events /\ delivery.event.id \in Ids
    BY <1>0, <1>3 DEF Publish, DeliveryOK, Ids
  <2>2. DeliveryOK(delivery') /\ ~delivery'.fresh
    BY <1>0, <1>3, <2>1, IdleTyped, RemainingTyped DEF Publish
  <2>3. seen' \subseteq Ids
    BY <1>0, <1>3, <2>1 DEF Publish
  <2> QED BY <1>0, <1>3, <2>2, <2>3, DeliveryStep, SpentGrows DEF Publish
<1>4. ASSUME HandleSkip PROVE TypeInv'
  <2>1. delivery.event \in Events /\ delivery.queue # <<>>
    BY <1>0, <1>4 DEF HandleSkip, DeliveryOK
  <2>2. DeliveryOK(delivery') /\ ~delivery'.fresh
    BY <1>4, <2>1, HeadHandler, RemainingTyped DEF HandleSkip
  <2> QED BY <1>0, <1>4, <2>2, DeliveryStep, SpentGrows DEF HandleSkip
<1>5. ASSUME HandleGet PROVE TypeInv'
  <2>1. delivery.event \in Events /\ delivery.queue # <<>>
        /\ Resolve(Head(delivery.queue).spec, delivery.event) # NoRoute
    BY <1>0, <1>5 DEF HandleGet, DeliveryOK, NotMine
  <2>2. PICK m \in Multiverses : m = Head(delivery.queue).of
    BY <2>1, HeadHandler
  <2>3. CASE ~mv[m].exists
    <3>1. delivery' = IdleDelivery
      BY <1>5, <2>2, <2>3 DEF HandleGet
    <3> QED BY <1>0, <1>5, <3>1, IdleTyped, DeliveryStep, SpentGrows DEF HandleGet
  <2>4. CASE mv[m].exists
    <3>1. PICK lagging \in BOOLEAN :
            delivery' = [delivery EXCEPT !.pc = "update", !.copy = mv[m], !.fresh = ~lagging]
      BY <1>5, <2>2, <2>4 DEF HandleGet
    <3>2. mv[m] \in Objects /\ mv[m].uid > 0 /\ mv[m].spec \in Tables
      BY <1>0, <2>4 DEF TypeInv, HeldInv
    <3>3. /\ delivery' \in [event : Events \cup {None}, queue : Seq(Handlers), copy : Objects, fresh : BOOLEAN,
                       pc : {"idle", "publish", "handle", "update", "create"}]
          /\ delivery'.pc = "update" /\ delivery'.copy = mv[m]
          /\ delivery'.queue = delivery.queue /\ delivery'.event = delivery.event
      BY <1>0, <3>1, <3>2 DEF DeliveryOK
    <3>4. DeliveryOK(delivery')
      BY <2>1, <2>4, <3>2, <3>3 DEF DeliveryOK
    <3> QED BY <1>0, <1>5, <2>2, <3>3, <3>4, DeliveryStep, SpentGrows DEF HandleGet
  <2> QED BY <2>3, <2>4
<1>6. ASSUME ensureReadReplica PROVE TypeInv'
  <2>1. /\ delivery.event \in Events /\ delivery.queue # <<>>
        /\ Resolve(Head(delivery.queue).spec, delivery.event) # NoRoute
        /\ delivery.copy \in Objects /\ delivery.copy.uid > 0
    BY <1>0, <1>6 DEF ensureReadReplica, DeliveryOK
  <2>2. Head(delivery.queue).of \in Multiverses /\ Head(delivery.queue).spec \in Tables
    BY <2>1, HeadHandler
  <2>3. Resolve(Head(delivery.queue).spec, delivery.event) \in Universes
    BY <2>1, <2>2, ResolveRange
  <2>4. delivery.copy.uid \in 1 .. MaxCreations
    <3>1. delivery.copy.uid \in 0 .. MaxCreations
      BY <2>1 DEF Objects
    <3> QED BY <2>1, <3>1, BoundAssumption
  <2>5. [name |-> <<delivery.event.replica, Resolve(Head(delivery.queue).spec, delivery.event)>>,
         id |-> delivery.event.id, owner |-> Head(delivery.queue).of, uid |-> delivery.copy.uid]
          \in [name : {e.replica : e \in Events} \X Universes, id : Ids,
              owner : Multiverses, uid : 1 .. MaxCreations]
    <3>1. delivery.event.id \in Ids /\ delivery.event.replica \in {e.replica : e \in Events}
      BY <2>1 DEF Ids
    <3>2. <<delivery.event.replica, Resolve(Head(delivery.queue).spec, delivery.event)>>
             \in {e.replica : e \in Events} \X Universes
      BY <2>3, <3>1
    <3> QED BY <2>2, <2>4, <3>1, <3>2
  <2>6. replicas' \subseteq [name : {e.replica : e \in Events} \X Universes, id : Ids,
                            owner : Multiverses, uid : 1 .. MaxCreations]
    BY <1>0, <1>6, <2>5, Zenon DEF ensureReadReplica
  <2>7. DeliveryOK(delivery') /\ ~delivery'.fresh
    BY <1>6, <2>1, HeadHandler, RemainingTyped DEF ensureReadReplica
  <2> QED BY <1>0, <1>6, <2>6, <2>7, DeliveryStep, SpentGrows DEF ensureReadReplica
<1>7. ASSUME HandlerFails PROVE TypeInv'
  BY <1>0, <1>7, IdleTyped, DeliveryStep, SpentGrows DEF HandlerFails
<1>8. ASSUME Collect PROVE TypeInv'
  <2>1. replicas' \subseteq replicas /\ delivery' = delivery
    BY <1>8 DEF Collect
  <2> QED BY <1>0, <1>8, <2>1, DeliveryStep, SpentGrows DEF Collect, TypeInv, HeldInv
<1>9. ASSUME Restart PROVE TypeInv'
  <2>1. TypeOK'
    BY <1>0, <1>9, IdleTyped, SpentGrows DEF Restart, TypeInv, TypeOK, DeliveryOK
  <2>2. HeldInv'
    BY <1>9, IdleTyped DEF Restart, TypeInv, HeldInv, DeliveryOK
  <2> QED BY <2>1, <2>2 DEF TypeInv
<1> QED BY <1>1, <1>2, <1>3, <1>4, <1>5, <1>6, <1>7, <1>8, <1>9

-----------------------------------------------------------------------------
(* What a step can do to a Multiverse.                                     *)

Same(m) == mv'[m].exists = mv[m].exists /\ mv'[m].uid = mv[m].uid

Keeps(m) == Same(m) /\ mv'[m].routed = mv[m].routed

Goes(m) == ~mv'[m].exists /\ mv'[m].uid = mv[m].uid /\ mv'[m].routed = <<>>

Comes(m) == ~mv[m].exists /\ mv'[m].uid = mv[m].uid + 1 /\ mv'[m].routed = <<>>

Records(m) ==
  /\ Same(m)
  /\ HandleUpdate /\ delivery.fresh /\ m = Head(delivery.queue).of
  /\ \E record \in Entries :
       record.id = delivery.event.id /\ mv'[m].routed = appendRoutedEvent(mv[m].routed, record)

LEMMA Evolution ==
  ASSUME TypeInv, RecordedOnce, [Next]_vars, NEW m \in Multiverses
  PROVE  Keeps(m) \/ Goes(m) \/ Comes(m) \/ Records(m)
<1>0. mv \in [Multiverses -> Objects] /\ mv[m] \in Objects
  BY DEF TypeInv, TypeOK
<1>1. ASSUME UNCHANGED mv PROVE Keeps(m)
  BY <1>1 DEF Keeps, Same
<1>2. ASSUME NEW n \in Multiverses, NEW o, Write(n, o),
             \/ o.exists = mv[n].exists /\ o.uid = mv[n].uid /\ o.routed = mv[n].routed
             \/ ~o.exists /\ o.uid = mv[n].uid /\ o.routed = <<>>
             \/ ~mv[n].exists /\ o.uid = mv[n].uid + 1 /\ o.routed = <<>>
      PROVE  Keeps(m) \/ Goes(m) \/ Comes(m)
  <2>1. mv'[n] = o /\ (m # n => mv'[m] = mv[m])
    BY <1>0, <1>2 DEF Write
  <2> QED BY <1>2, <2>1 DEF Keeps, Same, Goes, Comes
<1>3. ASSUME NEW n \in Multiverses, Create(n) PROVE Comes(m) \/ Keeps(m) \/ Goes(m)
  <2>1. PICK s \in Specs[n] : Write(n, Object(TRUE, mv[n].uid + 1, s))
    BY <1>3 DEF Create
  <2>2. /\ Object(TRUE, mv[n].uid + 1, s).uid = mv[n].uid + 1
        /\ Object(TRUE, mv[n].uid + 1, s).routed = <<>>
    BY DEF Object
  <2> QED BY <1>2, <1>3, <2>1, <2>2 DEF Create
<1>4. ASSUME NEW n \in Multiverses, Edit(n) PROVE Comes(m) \/ Keeps(m) \/ Goes(m)
  <2>1. PICK s \in Specs[n] : Write(n, [mv[n] EXCEPT !.spec = s])
    BY <1>4 DEF Edit
  <2>2. mv[n] \in Objects
    BY <1>0
  <2>3. /\ [mv[n] EXCEPT !.spec = s].exists = mv[n].exists
        /\ [mv[n] EXCEPT !.spec = s].uid = mv[n].uid
        /\ [mv[n] EXCEPT !.spec = s].routed = mv[n].routed
    BY <2>2 DEF Objects
  <2> QED BY <1>2, <2>1, <2>3
<1>5. ASSUME NEW n \in Multiverses PROVE
        /\ ~Gone(mv[n].uid).exists /\ Gone(mv[n].uid).uid = mv[n].uid /\ Gone(mv[n].uid).routed = <<>>
        /\ [mv[n] EXCEPT !.deleting = TRUE].exists = mv[n].exists
        /\ [mv[n] EXCEPT !.deleting = TRUE].uid = mv[n].uid
        /\ [mv[n] EXCEPT !.deleting = TRUE].routed = mv[n].routed
        /\ [mv[n] EXCEPT !.finalizer = TRUE].exists = mv[n].exists
        /\ [mv[n] EXCEPT !.finalizer = TRUE].uid = mv[n].uid
        /\ [mv[n] EXCEPT !.finalizer = TRUE].routed = mv[n].routed
  <2>1. mv[n] \in Objects
    BY <1>0
  <2> QED BY <2>1 DEF Gone, Object, Objects
<1>6. ASSUME NEW n \in Multiverses, Delete(n) PROVE Comes(m) \/ Keeps(m) \/ Goes(m)
  BY <1>2, <1>5, <1>6 DEF Delete
<1>7. ASSUME NEW n \in Multiverses, AddFinalizer(n) PROVE Comes(m) \/ Keeps(m) \/ Goes(m)
  BY <1>2, <1>5, <1>7 DEF AddFinalizer
<1>8. ASSUME NEW n \in Multiverses, finalizeMultiverse(n) PROVE Comes(m) \/ Keeps(m) \/ Goes(m)
  BY <1>2, <1>5, <1>8 DEF finalizeMultiverse
<1>9. ASSUME NEW p, reconcile.of # None, reconcile.fresh,
             mv' = [mv EXCEPT ![reconcile.of] = [reconcile.copy EXCEPT !.phase = p]]
      PROVE  Keeps(m)
  <2>1. PICK n \in Multiverses : n = reconcile.of
    BY <1>9 DEF TypeInv, TypeOK
  <2>2. reconcile.copy = mv[n] /\ mv[n] \in Objects
    BY <1>0, <1>9, <2>1 DEF TypeInv, HeldInv
  <2>3. PICK o : o = [mv[n] EXCEPT !.phase = p]
    OBVIOUS
  <2>4. o.exists = mv[n].exists /\ o.uid = mv[n].uid /\ o.routed = mv[n].routed
    BY <2>2, <2>3 DEF Objects
  <2>5. mv'[n] = o /\ (m # n => mv'[m] = mv[m])
    BY <1>0, <1>9, <2>1, <2>2, <2>3
  <2> QED BY <2>4, <2>5 DEF Keeps, Same
<1>10. ASSUME ReconcileWrite PROVE Keeps(m)
  <2>1. CASE ~reconcile.fresh
    BY <1>1, <1>10, <2>1 DEF ReconcileWrite, Accepted
  <2>2. CASE reconcile.fresh
    <3>1. PICK kafka \in BOOLEAN :
            mv' = [mv EXCEPT ![reconcile.of] = [reconcile.copy EXCEPT !.phase =
                        IF ~kafka \/ @ = "Degraded" THEN "Degraded" ELSE "Active"]]
      BY <1>10, <2>2 DEF ReconcileWrite, Accepted
    <3>2. PICK p : p = IF ~kafka \/ reconcile.copy.phase = "Degraded" THEN "Degraded" ELSE "Active"
      OBVIOUS
    <3>3. mv' = [mv EXCEPT ![reconcile.of] = [reconcile.copy EXCEPT !.phase = p]]
      BY <3>1, <3>2
    <3> QED BY <1>9, <1>10, <2>2, <3>3 DEF ReconcileWrite
  <2> QED BY <2>1, <2>2
<1>11. ASSUME failMultiverse PROVE Keeps(m)
  <2>1. CASE ~reconcile.fresh
    BY <1>1, <1>11, <2>1 DEF failMultiverse, Accepted
  <2>2. CASE reconcile.fresh
    BY <1>9, <1>11, <2>2 DEF failMultiverse, Accepted
  <2> QED BY <2>1, <2>2
<1>12. ASSUME HandleUpdate PROVE Keeps(m) \/ Records(m)
  <2>1. CASE ~delivery.fresh
    BY <1>1, <1>12, <2>1 DEF HandleUpdate, Accepted
  <2>2. CASE delivery.fresh
    <3>1. PICK n \in Multiverses : n = Head(delivery.queue).of
      BY <1>12, <2>2, UpdateFacts
    <3>2. PICK record \in Entries :
            record = [id |-> delivery.event.id, target |-> Resolve(Head(delivery.queue).spec, delivery.event)]
      BY <1>12, <2>2, UpdateFacts
    <3>3. PICK out : out = appendRoutedEvent(mv[n].routed, record)
      OBVIOUS
    <3>4. mv[n] = delivery.copy /\ mv' = [mv EXCEPT ![n] = [delivery.copy EXCEPT !.routed = out]]
      BY <1>12, <2>2, <3>1, <3>2, <3>3, UpdateFacts
    <3>5. PICK o : o = [mv[n] EXCEPT !.routed = out]
      OBVIOUS
    <3>6. o.exists = mv[n].exists /\ o.uid = mv[n].uid /\ o.routed = out
      BY <1>0, <3>5 DEF Objects
    <3>7. mv'[n] = o /\ (m # n => mv'[m] = mv[m])
      BY <1>0, <3>4, <3>5
    <3>8. record.id = delivery.event.id
      BY <3>2
    <3>9. CASE m = n
      BY <1>12, <2>2, <3>1, <3>3, <3>6, <3>7, <3>8, <3>9 DEF Records, Same
    <3>10. CASE m # n
      BY <3>7, <3>10 DEF Keeps, Same
    <3> QED BY <3>9, <3>10
  <2> QED BY <2>1, <2>2
<1>13. ASSUME \/ Collect \/ Publish \/ HandleSkip \/ HandleGet \/ ensureReadReplica
             \/ HandlerFails \/ Restart \/ UNCHANGED vars
             \/ \E e \in Events : Complete(e) \/ Rerun(e)
             \/ \E n \in Multiverses : ReconcileRead(n)
       PROVE Keeps(m)
  <2>1. UNCHANGED mv
    BY <1>13 DEF Collect, Publish, HandleSkip, HandleGet, ensureReadReplica, HandlerFails, Restart,
                 vars, Complete, Rerun, ReconcileRead
  <2> QED BY <1>1, <2>1
<1>14. CASE \E n \in Multiverses : Create(n) \/ Edit(n) \/ Delete(n)
  BY <1>3, <1>4, <1>6, <1>14
<1>15. CASE Reconcile
  <2>1. PICK n \in Multiverses : AddFinalizer(n) \/ finalizeMultiverse(n) \/ ReconcileRead(n)
    BY <1>15 DEF Reconcile
  <2>2. CASE AddFinalizer(n)
    BY <1>7, <2>2
  <2>3. CASE finalizeMultiverse(n)
    BY <1>8, <2>3
  <2>4. CASE ReconcileRead(n)
    BY <1>1, <2>4 DEF ReconcileRead
  <2> QED BY <2>1, <2>2, <2>3, <2>4
<1>16. CASE Deliver
  BY <1>12, <1>13, <1>16 DEF Deliver
<1>17. CASE \/ \E e \in Events : Complete(e) \/ Rerun(e)
            \/ Collect \/ HandlerFails \/ Restart \/ UNCHANGED vars
  BY <1>13, <1>17
<1> QED BY <1>10, <1>11, <1>14, <1>15, <1>16, <1>17 DEF Next
-----------------------------------------------------------------------------
(* The theorems.                                                           *)

LEMMA RecordedStep ==
  ASSUME TypeInv, RecordedOnce, [Next]_vars
  PROVE  RecordedOnce'
<1> SUFFICES ASSUME NEW m \in Multiverses
             PROVE  Len(mv'[m].routed) <= RoutedCap /\ Distinct(mv'[m].routed)
  BY DEF RecordedOnce, Distinct
<1>0. mv[m].routed \in Seq(Entries) /\ Len(mv[m].routed) <= RoutedCap /\ Distinct(mv[m].routed)
  BY DEF TypeInv, TypeOK, Objects, RecordedOnce, Distinct
<1>1. Len(<<>>) <= RoutedCap /\ Distinct(<<>>)
  BY BoundAssumption DEF Distinct
<1>2. CASE Records(m)
  BY <1>0, <1>2, AppendRouted DEF Records
<1> QED BY <1>0, <1>1, <1>2, Evolution DEF Keeps, Goes, Comes

LEMMA TypeStep ==
  ASSUME TypeInv, RecordedOnce, [Next]_vars
  PROVE  TypeInv'
<1>1. ASSUME UNCHANGED vars PROVE TypeInv'
  BY <1>1 DEF vars, TypeInv, TypeOK, HeldInv
<1> QED BY <1>1, UserTyped, ReconcileTyped, UpdateTyped, DeliveryTyped DEF Next, Reconcile, Deliver

LEMMA RecordInit == Init => RecordedOnce
<1> SUFFICES ASSUME Init, NEW m \in Multiverses
             PROVE  Len(mv[m].routed) <= RoutedCap /\ Distinct(mv[m].routed)
  BY DEF RecordedOnce, Distinct
<1>1. mv[m].routed = <<>>
  BY DEF Init, Absent, Gone, Object
<1> QED BY <1>1, BoundAssumption DEF Distinct

\* Types of objects, copies, bus and replicas.
THEOREM TypeCorrect == Spec => []TypeOK
<1>1. Init => TypeInv /\ RecordedOnce
  BY TypeInit, RecordInit
<1>2. TypeInv /\ RecordedOnce /\ [Next]_vars => (TypeInv /\ RecordedOnce)'
  BY TypeStep, RecordedStep
<1>3. TypeInv => TypeOK
  BY DEF TypeInv
<1> QED BY <1>1, <1>2, <1>3, PTL DEF Spec

\* An event is listed once per Multiverse, and no list passes its limit.
THEOREM EventsRecordedOnce == Spec => []RecordedOnce
<1>1. Init => TypeInv /\ RecordedOnce
  BY TypeInit, RecordInit
<1>2. TypeInv /\ RecordedOnce /\ [Next]_vars => (TypeInv /\ RecordedOnce)'
  BY TypeStep, RecordedStep
<1> QED BY <1>1, <1>2, PTL DEF Spec

\* No step loses or rewrites an entry, but for the oldest of a full list.
THEOREM AuditTrailKept == Spec => AuditTrail
<1>1. Init => TypeInv /\ RecordedOnce
  BY TypeInit, RecordInit
<1>2. TypeInv /\ RecordedOnce /\ [Next]_vars => (TypeInv /\ RecordedOnce)'
  BY TypeStep, RecordedStep
<1> DEFINE Kept == \A m \in Multiverses : mv[m].exists /\ mv'[m].exists =>
       LET old == mv[m].routed  new == mv'[m].routed IN
       \/ new = old
       \/ /\ new # <<>>
          /\ SubSeq(new, 1, Len(new) - 1) = IF Len(old) < RoutedCap THEN old ELSE Tail(old)
<1>3. TypeInv /\ RecordedOnce /\ [Next]_vars => [Kept]_vars
  <2> SUFFICES ASSUME TypeInv, RecordedOnce, [Next]_vars, NEW m \in Multiverses,
                      mv[m].exists, mv'[m].exists
               PROVE  LET old == mv[m].routed  new == mv'[m].routed IN
                      \/ new = old
                      \/ /\ new # <<>>
                         /\ SubSeq(new, 1, Len(new) - 1) = IF Len(old) < RoutedCap THEN old ELSE Tail(old)
    OBVIOUS
  <2>0. mv[m].routed \in Seq(Entries) /\ Len(mv[m].routed) <= RoutedCap /\ Distinct(mv[m].routed)
    BY DEF TypeInv, TypeOK, Objects, RecordedOnce, Distinct
  <2>1. CASE Records(m)
    BY <2>0, <2>1, AppendRouted DEF Records
  <2> QED BY <2>1, Evolution DEF Keeps, Goes, Comes
<1> QED BY <1>1, <1>2, <1>3, PTL DEF Spec, AuditTrail

\* An event a replica was made for is listed where the replica's owner is.
Accounted(m, u, id) ==
  mv[m].exists /\ mv[m].uid = u => Listed(m, id) \/ Len(mv[m].routed) = RoutedCap

\* ReplicasRecorded made inductive: a replica, and a delivery about to create
\* one, come from this incarnation of the Multiverse or an earlier one.
LinkInv ==
  /\ \A r \in replicas : r.uid <= mv[r.owner].uid /\ Accounted(r.owner, r.uid, r.id)
  /\ delivery.pc \in {"update", "create"} => delivery.copy.uid <= mv[Head(delivery.queue).of].uid
  /\ delivery.pc = "create" =>
       Accounted(Head(delivery.queue).of, delivery.copy.uid, delivery.event.id)

LEMMA AccountedStep ==
  ASSUME TypeInv, RecordedOnce, [Next]_vars, NEW m \in Multiverses, NEW u \in Nat, NEW id,
         u <= mv[m].uid
  PROVE  u <= mv'[m].uid /\ (Accounted(m, u, id) => Accounted(m, u, id)')
<1>0. /\ mv[m].uid \in Nat /\ mv[m].routed \in Seq(Entries)
      /\ Len(mv[m].routed) <= RoutedCap /\ Distinct(mv[m].routed)
  <2>1. mv[m] \in Objects
    BY DEF TypeInv, TypeOK
  <2>2. mv[m].uid \in 0 .. MaxCreations /\ mv[m].routed \in Seq(Entries)
    BY <2>1 DEF Objects
  <2> QED BY <2>2, BoundAssumption DEF RecordedOnce, Distinct
<1>1. CASE Keeps(m)
  BY <1>1 DEF Keeps, Same, Accounted, Listed
<1>2. CASE Goes(m)
  BY <1>2 DEF Goes, Accounted
<1>3. CASE Comes(m)
  <2>1. u <= mv'[m].uid /\ mv'[m].uid # u
    BY <1>0, <1>3 DEF Comes
  <2> QED BY <2>1 DEF Accounted
<1>4. CASE Records(m)
  <2>1. PICK record \in Entries : mv'[m].routed = appendRoutedEvent(mv[m].routed, record)
    BY <1>4 DEF Records
  <2>2. /\ Len(mv[m].routed) = RoutedCap => Len(mv'[m].routed) = RoutedCap
        /\ Has(mv[m].routed, id) => Has(mv'[m].routed, id) \/ Len(mv'[m].routed) = RoutedCap
    BY <1>0, <2>1, AppendRouted
  <2> QED BY <1>4, <2>2 DEF Records, Same, Accounted, Listed, Has
<1> QED BY <1>1, <1>2, <1>3, <1>4, Evolution

\* The delivery's part of LinkInv after a step that ends it or moves it on.
LEMMA DeliveryLinks ==
  ASSUME TypeInv, TypeInv', RecordedOnce, LinkInv, [Next]_vars
  PROVE  /\ delivery'.pc \in {"update", "create"} =>
              delivery'.copy.uid <= mv'[Head(delivery'.queue).of].uid
         /\ delivery'.pc = "create" =>
              Accounted(Head(delivery.queue).of, delivery.copy.uid, delivery.event.id)'
<1> DEFINE Linked == /\ delivery'.pc \in {"update", "create"} =>
                          delivery'.copy.uid <= mv'[Head(delivery'.queue).of].uid
                     /\ delivery'.pc = "create" =>
                          Accounted(Head(delivery.queue).of, delivery.copy.uid, delivery.event.id)'
<1>1. ASSUME delivery'.pc \notin {"update", "create"} PROVE Linked
  BY <1>1
<1>2. ASSUME delivery'.event = delivery.event, delivery'.pc = delivery.pc,
             delivery'.queue = delivery.queue, delivery'.copy = delivery.copy
      PROVE  Linked
  <2> SUFFICES ASSUME delivery.pc \in {"update", "create"} PROVE Linked
    BY <1>2
  <2>0. DeliveryOK(delivery) /\ delivery.queue # <<>> /\ delivery.copy \in Objects
    BY DeliveryIs DEF DeliveryOK
  <2>1. PICK m \in Multiverses : m = Head(delivery.queue).of
    BY <2>0, HeadHandler
  <2>2. delivery.copy.uid \in 0 .. MaxCreations
    BY <2>0 DEF Objects
  <2>3. PICK u \in Nat : u = delivery.copy.uid
    BY <2>2, BoundAssumption
  <2>4. PICK id : id = delivery.event.id
    OBVIOUS
  <2>5. u <= mv[m].uid /\ (delivery.pc = "create" => Accounted(m, u, id))
    BY <2>1, <2>3, <2>4 DEF LinkInv
  <2>6. u <= mv'[m].uid /\ (delivery.pc = "create" => Accounted(m, u, id)')
    BY <2>5, AccountedStep
  <2>7. Head(delivery'.queue).of = m /\ delivery'.copy.uid = u /\ delivery'.event.id = id
    BY <1>2, <2>1, <2>3, <2>4
  <2> QED BY <1>2, <2>6, <2>7 DEF Accounted, Listed
<1>3. ASSUME NEW m, delivery' = OutdatedDelivery(m) PROVE Linked
  <2>1. /\ delivery'.event = delivery.event /\ delivery'.pc = delivery.pc
        /\ delivery'.queue = delivery.queue /\ delivery'.copy = delivery.copy
    BY <1>3 DEF TypeInv, TypeOK, OutdatedDelivery
  <2> QED BY <1>2, <2>1
<1>4. ASSUME UNCHANGED delivery PROVE Linked
  BY <1>2, <1>4
<1>5. IdleDelivery.pc = "idle"
  BY DEF IdleDelivery
<1>6. ASSUME NEW queue, delivery' = Remaining(queue) PROVE Linked
  <2>1. delivery'.pc \in {"idle", "handle"}
    BY <1>6 DEF Remaining, IdleDelivery
  <2> QED BY <1>1, <2>1
<1>7. CASE \E m \in Multiverses : Create(m) \/ Edit(m) \/ Delete(m) \/ AddFinalizer(m) \/ finalizeMultiverse(m)
  <2>1. \E m : delivery' = OutdatedDelivery(m)
    BY <1>7 DEF Create, Edit, Delete, AddFinalizer, finalizeMultiverse, Write
  <2> QED BY <1>3, <2>1
<1>8. CASE ReconcileWrite \/ failMultiverse
  <2>1. UNCHANGED delivery \/ delivery' = OutdatedDelivery(reconcile.of)
    BY <1>8 DEF ReconcileWrite, failMultiverse
  <2> QED BY <1>3, <1>4, <2>1
<1>9. CASE \/ \E m \in Multiverses : ReconcileRead(m)
           \/ \E e \in Events : Rerun(e)
           \/ Collect \/ UNCHANGED vars
  <2>1. UNCHANGED delivery
    BY <1>9 DEF ReconcileRead, Rerun, Collect, vars
  <2> QED BY <1>4, <2>1
<1>10. CASE \E e \in Events : Complete(e)
  <2>1. PICK e \in Events : Complete(e)
    BY <1>10
  <2>2. UNCHANGED delivery \/ delivery' = [IdleDelivery EXCEPT !.event = e, !.pc = "publish"]
    BY <2>1 DEF Complete, publishSnapshotEvent
  <2>3. [IdleDelivery EXCEPT !.event = e, !.pc = "publish"].pc = "publish"
    BY DEF IdleDelivery
  <2> QED BY <1>1, <1>4, <2>2, <2>3
<1>11. CASE Publish \/ HandleSkip \/ ensureReadReplica
  <2>1. delivery' = IdleDelivery \/ \E queue : delivery' = Remaining(queue)
    BY <1>11 DEF Publish, HandleSkip, ensureReadReplica
  <2> QED BY <1>1, <1>5, <1>6, <2>1
<1>12. CASE HandlerFails \/ Restart
  <2>1. delivery' = IdleDelivery
    BY <1>12 DEF HandlerFails, Restart
  <2> QED BY <1>1, <1>5, <2>1
<1>13. CASE HandleGet
  <2>0. DeliveryOK(delivery) /\ delivery.queue # <<>>
    BY <1>13, DeliveryIs DEF DeliveryOK, HandleGet
  <2>1. PICK m \in Multiverses : m = Head(delivery.queue).of
    BY <2>0, HeadHandler
  <2>2. CASE ~mv[m].exists
    BY <1>1, <1>5, <1>13, <2>1, <2>2 DEF HandleGet
  <2>3. CASE mv[m].exists
    <3>1. PICK lagging \in BOOLEAN :
            delivery' = [delivery EXCEPT !.pc = "update", !.copy = mv[m], !.fresh = ~lagging]
      BY <1>13, <2>1, <2>3 DEF HandleGet
    <3>2. delivery'.pc = "update" /\ delivery'.copy = mv[m] /\ delivery'.queue = delivery.queue
      BY <2>0, <3>1 DEF DeliveryOK
    <3>3. mv'[m].uid = mv[m].uid /\ mv[m] \in Objects
      BY <1>13 DEF HandleGet, TypeInv, TypeOK
    <3>4. mv[m].uid \in 0 .. MaxCreations
      BY <3>3 DEF Objects
    <3>5. delivery'.copy.uid <= mv'[Head(delivery'.queue).of].uid
      BY <2>1, <3>2, <3>3, <3>4, BoundAssumption
    <3> QED BY <3>2, <3>5
  <2> QED BY <2>2, <2>3
<1>14. CASE HandleUpdate
  <2>1. CASE ~delivery.fresh
    BY <1>1, <1>5, <1>14, <2>1 DEF HandleUpdate, UpdateRefused, Accepted
  <2>2. CASE delivery.fresh
    <3>1. PICK m \in Multiverses : m = Head(delivery.queue).of
      BY <1>14, <2>2, UpdateFacts
    <3>2. PICK record \in Entries :
            record = [id |-> delivery.event.id, target |-> Resolve(Head(delivery.queue).spec, delivery.event)]
      BY <1>14, <2>2, UpdateFacts
    <3>3. PICK out : out = appendRoutedEvent(mv[m].routed, record)
      OBVIOUS
    <3>4. Has(out, record.id)
      BY <1>14, <2>2, <3>1, <3>3, UpdateFacts, AppendRouted
    <3>5. /\ mv[m] = delivery.copy /\ mv[m] \in Objects
          /\ mv' = [mv EXCEPT ![m] = [mv[m] EXCEPT !.routed = out]]
          /\ delivery' = [delivery EXCEPT !.pc = "create", !.fresh = FALSE]
      BY <1>14, <2>2, <3>1, <3>2, <3>3, UpdateFacts DEF TypeInv, TypeOK
    <3>6. /\ delivery'.pc = "create" /\ delivery'.copy = delivery.copy
          /\ delivery'.queue = delivery.queue /\ delivery'.event = delivery.event
      BY <3>5 DEF TypeInv, TypeOK
    <3>7. PICK o : o = [mv[m] EXCEPT !.routed = out]
      OBVIOUS
    <3>8. o.uid = mv[m].uid /\ o.routed = out
      BY <3>5, <3>7 DEF Objects
    <3>9. mv'[m].uid = mv[m].uid /\ mv'[m].routed = out
      BY <3>5, <3>7, <3>8 DEF TypeInv, TypeOK
    <3>10. mv[m].uid \in 0 .. MaxCreations
      BY <3>5 DEF Objects
    <3>11. delivery'.copy.uid <= mv'[Head(delivery'.queue).of].uid
      BY <3>1, <3>5, <3>6, <3>9, <3>10, BoundAssumption
    <3>12. PICK id : id = delivery.event.id /\ id = record.id
      BY <3>2
    <3>13. Listed(m, id)'
      BY <3>4, <3>9, <3>12 DEF Has, Listed
    <3>14. Head(delivery'.queue).of = m /\ delivery'.event.id = id
      BY <3>1, <3>6, <3>12
    <3> QED BY <3>11, <3>13, <3>14 DEF Accounted, Listed
  <2> QED BY <2>1, <2>2
<1>15. CASE \E m \in Multiverses : Create(m) \/ Edit(m) \/ Delete(m)
  BY <1>7, <1>15
<1>16. CASE Reconcile
  BY <1>7, <1>9, <1>16 DEF Reconcile
<1>17. CASE Deliver
  BY <1>11, <1>13, <1>14, <1>17 DEF Deliver
<1>18. CASE \E e \in Events : Complete(e) \/ Rerun(e)
  BY <1>9, <1>10, <1>18
<1>19. CASE Collect \/ UNCHANGED vars
  BY <1>9, <1>19
<1>20. QED
  <2>1. \/ \E m \in Multiverses : Create(m) \/ Edit(m) \/ Delete(m)
        \/ Reconcile \/ Deliver
        \/ \E e \in Events : Complete(e) \/ Rerun(e)
        \/ ReconcileWrite \/ failMultiverse
        \/ HandlerFails \/ Restart
        \/ Collect \/ UNCHANGED vars
    BY DEF Next
  <2> QED BY <2>1, <1>8, <1>12, <1>15, <1>16, <1>17, <1>18, <1>19

LEMMA LinkStep ==
  ASSUME TypeInv, TypeInv', RecordedOnce, LinkInv, [Next]_vars
  PROVE  LinkInv'
<1>1. ASSUME NEW r \in replicas PROVE r.uid <= mv'[r.owner].uid /\ Accounted(r.owner, r.uid, r.id)'
  <2>1. r.owner \in Multiverses /\ r.uid \in 1 .. MaxCreations /\ r.id \in Ids
    BY <1>1 DEF TypeInv, TypeOK
  <2>2. PICK m \in Multiverses, u \in Nat, id \in Ids : m = r.owner /\ u = r.uid /\ id = r.id
    BY <2>1, BoundAssumption
  <2>3. u <= mv[m].uid /\ Accounted(m, u, id)
    BY <1>1, <2>2 DEF LinkInv
  <2>4. u <= mv'[m].uid /\ Accounted(m, u, id)'
    BY <2>3, AccountedStep
  <2> QED BY <2>2, <2>4
<1>2. \A r \in replicas' : r.uid <= mv'[r.owner].uid /\ Accounted(r.owner, r.uid, r.id)'
  <2>1. CASE ensureReadReplica
    <3> SUFFICES ASSUME NEW r \in replicas', r \notin replicas
                 PROVE  r.uid <= mv'[r.owner].uid /\ Accounted(r.owner, r.uid, r.id)'
      BY <1>1
    <3>1. r.id = delivery.event.id /\ r.owner = Head(delivery.queue).of /\ r.uid = delivery.copy.uid
      BY <2>1 DEF ensureReadReplica
    <3>2. delivery.pc = "create" /\ UNCHANGED mv
      BY <2>1 DEF ensureReadReplica
    <3>3. r.uid <= mv[r.owner].uid /\ Accounted(r.owner, r.uid, r.id)
      BY <3>1, <3>2 DEF LinkInv
    <3> QED BY <3>2, <3>3 DEF Accounted, Listed
  <2>2. CASE ~ensureReadReplica
    <3>1. CASE \E m \in Multiverses : Create(m) \/ Edit(m) \/ Delete(m)
      BY <1>1, <3>1 DEF Create, Edit, Delete
    <3>2. CASE Reconcile
      BY <1>1, <3>2 DEF Reconcile, AddFinalizer, finalizeMultiverse, ReconcileRead
    <3>3. CASE Deliver
      BY <1>1, <2>2, <3>3 DEF Deliver, Publish, HandleSkip, HandleGet, HandleUpdate
    <3>4. CASE \E e \in Events : Complete(e) \/ Rerun(e)
      BY <1>1, <3>4 DEF Complete, Rerun
    <3>5. CASE ReconcileWrite \/ failMultiverse \/ HandlerFails \/ Restart \/ UNCHANGED vars
      BY <1>1, <3>5 DEF ReconcileWrite, failMultiverse, HandlerFails, Restart, vars
    <3>6. CASE Collect
      BY <1>1, <3>6 DEF Collect
    <3> QED BY <3>1, <3>2, <3>3, <3>4, <3>5, <3>6 DEF Next
  <2> QED BY <2>1, <2>2
<1> QED BY <1>2, DeliveryLinks DEF LinkInv

\* Every replica of a live Multiverse is accounted for in its list.
THEOREM ReplicasAreRecorded == Spec => []ReplicasRecorded
<1>1. Init => TypeInv /\ RecordedOnce
  BY TypeInit, RecordInit
<1>2. Init => LinkInv
  BY DEF Init, LinkInv, IdleDelivery
<1>3. TypeInv /\ RecordedOnce /\ [Next]_vars => (TypeInv /\ RecordedOnce)'
  BY TypeStep, RecordedStep
<1>4. TypeInv /\ TypeInv' /\ RecordedOnce /\ LinkInv /\ [Next]_vars => LinkInv'
  BY LinkStep
<1>5. LinkInv => ReplicasRecorded
  BY DEF LinkInv, Accounted, ReplicasRecorded
<1> QED BY <1>1, <1>2, <1>3, <1>4, <1>5, PTL DEF Spec
=============================================================================
