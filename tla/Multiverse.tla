------------------------------ MODULE Multiverse ------------------------------
(***************************************************************************)
(* Routing of snapshot-completed events: the workflow controller publishes *)
(* on the in-process bus (pkg/events/memory.go), whose handlers are the    *)
(* subscriptions of the Multiverse reconciler                              *)
(* (internal/controller/multiverse_controller.go).  A handler resolves the *)
(* event's universe with the routing table it captured when it subscribed  *)
(* (pkg/routing), appends the event to Multiverse.status.routedEvents and  *)
(* creates a ReadReplica.                                                  *)
(*                                                                         *)
(* Handlers run in the goroutine of the workflow controller's worker, the  *)
(* reconciles of Multiverses in another; both read and write Multiverse    *)
(* objects through the API server, which refuses an update made from a     *)
(* copy that is not the latest version.                                    *)
(***************************************************************************)
EXTENDS Naturals, Sequences, FiniteSets

CONSTANTS
  Multiverses,    \* names of Multiverse objects, all in one namespace
  Specs,          \* Specs[m]: the routing tables users give m
  Events,         \* the events the workflows publish when they complete
  Universes,      \* names of universes
  NoRoute,        \* the error of Resolve
  None,           \* no object, no event
  RoutedCap,      \* longest status.routedEvents (50 in the code)
  MaxCreations,   \* bound: times a Multiverse is created
  MaxEdits,       \* bound: edits of Multiverse specs
  MaxReruns,      \* bound: workflows started again
  MaxFaults       \* bound: failed calls and restarts in a behaviour

\* A routing table, Multiverse.spec, is a record of the sequences
\*   timeSliceRoutes  of [timeSlice, universe],
\*   universes        of [name, partitions], the partitions being a sequence
\*                    of rules [key, values],
\* and defaultUniverse, "" if there is none.  An event is a record [id,
\* timeSlice, multiverse, partitions, replica]: partitions is a function from
\* label keys to values, replica stands for the workflow's name and the
\* snapshot's prefix in a ReadReplica's name.

Ids == {e.id : e \in Events}

ASSUME TableAssumption ==
  \A m \in Multiverses : \A s \in Specs[m] :
    /\ DOMAIN s.timeSliceRoutes \subseteq Nat
    /\ \A k \in DOMAIN s.timeSliceRoutes : s.timeSliceRoutes[k].universe \in Universes
    /\ \A k \in DOMAIN s.universes : s.universes[k].name \in Universes
    /\ s.defaultUniverse \in Universes \cup {""}

ASSUME ErrorAssumption ==
  None \notin Multiverses /\ None \notin Events /\ NoRoute \notin Universes

ASSUME BoundAssumption ==
  /\ RoutedCap \in Nat /\ RoutedCap > 0
  /\ MaxCreations \in Nat /\ MaxEdits \in Nat /\ MaxReruns \in Nat /\ MaxFaults \in Nat

VARIABLES
  mv,          \* the Multiverse objects
  replicas,    \* the ReadReplica objects
  reconcile,   \* the Multiverse reconcile in progress
  subscribed,  \* MultiverseReconciler.subscribed
  handlers,    \* MemoryBus.handlers, each a Multiverse and its captured table
  seen,        \* MemoryBus.seen
  delivery,    \* the publish in progress
  workflow,    \* status.phase of the workflow behind each event
  spent        \* edits, reruns and faults so far

vars == <<mv, replicas, reconcile, subscribed, handlers, seen, delivery, workflow, spent>>
-----------------------------------------------------------------------------
\* Routing (pkg/routing/router.go)

\* Every rule of a universe must name a label of the event; no rules match nothing.
matchesPartitions(rules, labels) ==
  /\ rules # <<>>
  /\ \A k \in DOMAIN rules :
       /\ rules[k].key \in DOMAIN labels
       /\ labels[rules[k].key] \in rules[k].values

\* The first time-slice route, else the one universe whose partitions match,
\* else the default universe.  Two matching universes are an error.
Resolve(spec, evt) ==
  LET overrides == {k \in DOMAIN spec.timeSliceRoutes :
                      /\ spec.timeSliceRoutes[k].timeSlice # ""
                      /\ spec.timeSliceRoutes[k].timeSlice = evt.timeSlice}
      matches   == {k \in DOMAIN spec.universes :
                      matchesPartitions(spec.universes[k].partitions, evt.partitions)}
      first     == CHOOSE k \in overrides : \A j \in overrides : k <= j
  IN IF overrides # {} THEN spec.timeSliceRoutes[first].universe
     ELSE IF \E j, k \in matches : j # k THEN NoRoute
     ELSE IF matches # {} THEN spec.universes[CHOOSE k \in matches : TRUE].name
     ELSE IF spec.defaultUniverse # "" THEN spec.defaultUniverse
     ELSE NoRoute
-----------------------------------------------------------------------------
\* Objects and copies of them

Object(exists, uid, spec) ==
  [exists |-> exists, uid |-> uid, finalizer |-> FALSE, deleting |-> FALSE,
   spec |-> spec, phase |-> "", routed |-> <<>>]

\* No object; uid counts the ones there have been.
Gone(uid) == Object(FALSE, uid, None)
Absent    == Gone(0)

\* Mutant: the list is not searched for the event.
appendAlways(list, record) ==
  LET out == Append(list, record)
  IN IF Len(out) > RoutedCap THEN Tail(out) ELSE out

\* status.routedEvents after recording the event: unchanged if its id is
\* listed, else the oldest entry makes room when the list is full.
appendRoutedEvent(list, record) ==
  IF \E k \in DOMAIN list : list[k].id = record.id THEN list
  ELSE LET out == Append(list, record)
       IN IF Len(out) > RoutedCap THEN Tail(out) ELSE out

IdleReconcile == [of |-> None, copy |-> Absent, fresh |-> FALSE]
IdleDelivery  == [event |-> None, pc |-> "idle", queue |-> <<>>, copy |-> Absent, fresh |-> FALSE]

\* A write of m leaves the copies that others hold of it out of date.
OutdatedReconcile(m) == [reconcile EXCEPT !.fresh = @ /\ reconcile.of # m]
OutdatedDelivery(m)  ==
  [delivery EXCEPT !.fresh = @ /\ (delivery.queue = <<>> \/ Head(delivery.queue).of # m)]

Write(m, object) ==
  /\ mv' = [mv EXCEPT ![m] = object]
  /\ reconcile' = OutdatedReconcile(m)
  /\ delivery' = OutdatedDelivery(m)

Init ==
  /\ mv = [m \in Multiverses |-> Absent]
  /\ replicas = {}
  /\ reconcile = IdleReconcile
  /\ subscribed = {}
  /\ handlers = <<>>
  /\ seen = {}
  /\ delivery = IdleDelivery
  /\ workflow = [e \in Events |-> "Running"]
  /\ spent = [edits |-> 0, reruns |-> 0, faults |-> 0]
-----------------------------------------------------------------------------
\* Users

Create(m) ==
  /\ ~mv[m].exists /\ mv[m].uid < MaxCreations
  /\ \E s \in Specs[m] :
       Write(m, Object(TRUE, mv[m].uid + 1, s))
  /\ UNCHANGED <<replicas, subscribed, handlers, seen, workflow, spent>>

Edit(m) ==
  /\ mv[m].exists /\ spent.edits < MaxEdits
  /\ \E s \in Specs[m] \ {mv[m].spec} : Write(m, [mv[m] EXCEPT !.spec = s])
  /\ spent' = [spent EXCEPT !.edits = @ + 1]
  /\ UNCHANGED <<replicas, subscribed, handlers, seen, workflow>>

\* A later creation is possible: only then is a deletion of interest.
Delete(m) ==
  /\ mv[m].exists /\ ~mv[m].deleting /\ mv[m].uid < MaxCreations
  /\ Write(m, IF mv[m].finalizer THEN [mv[m] EXCEPT !.deleting = TRUE]
              ELSE Gone(mv[m].uid))
  /\ UNCHANGED <<replicas, subscribed, handlers, seen, workflow, spent>>

\* The garbage collector removes replicas whose owner is gone.
Collect ==
  /\ \E r \in replicas :
       /\ ~mv[r.owner].exists \/ mv[r.owner].uid # r.uid
       /\ replicas' = replicas \ {r}
  /\ UNCHANGED <<mv, reconcile, subscribed, handlers, seen, delivery, workflow, spent>>
-----------------------------------------------------------------------------
\* The Multiverse reconciler

AddFinalizer(m) ==
  /\ reconcile = IdleReconcile
  /\ mv[m].exists /\ ~mv[m].deleting /\ ~mv[m].finalizer
  /\ Write(m, [mv[m] EXCEPT !.finalizer = TRUE])
  /\ UNCHANGED <<replicas, subscribed, handlers, seen, workflow, spent>>

\* The finalizer goes and the object with it.  The subscription is forgotten
\* but its handler stays on the bus.
finalizeMultiverse(m) ==
  /\ reconcile = IdleReconcile
  /\ mv[m].exists /\ mv[m].deleting
  /\ Write(m, Gone(mv[m].uid))
  /\ subscribed' = subscribed \ {m}
  /\ UNCHANGED <<replicas, handlers, seen, workflow, spent>>

ReconcileRead(m) ==
  /\ reconcile = IdleReconcile
  /\ mv[m].exists /\ ~mv[m].deleting /\ mv[m].finalizer
  /\ reconcile' = [of |-> m, copy |-> mv[m], fresh |-> TRUE]
  /\ UNCHANGED <<mv, replicas, subscribed, handlers, seen, delivery, workflow, spent>>

\* Subscribe once per name and process, with the table of this copy.
ensureSubscription(m, copy) ==
  IF m \in subscribed THEN UNCHANGED <<subscribed, handlers>>
  ELSE /\ subscribed' = subscribed \cup {m}
       /\ handlers' = Append(handlers, [of |-> m, spec |-> copy.spec])

\* Mutant: the last writer wins.
AcceptedAlways(fresh) == TRUE

\* The API server accepts an update made from the latest version.
Accepted(fresh) == fresh

\* The status update and, when it is accepted, the subscription.  A Degraded
\* phase is never left.  "kafka" is the ping of the brokers.
ReconcileWrite ==
  LET m == reconcile.of IN
  /\ m # None
  /\ IF Accepted(reconcile.fresh)
     THEN /\ \E kafka \in BOOLEAN :
               /\ ~kafka => spent.faults < MaxFaults
               /\ mv' = [mv EXCEPT ![m] = [reconcile.copy EXCEPT !.phase =
                           IF ~kafka \/ @ = "Degraded" THEN "Degraded" ELSE "Active"]]
               /\ spent' = [spent EXCEPT !.faults = IF kafka THEN @ ELSE @ + 1]
          /\ delivery' = OutdatedDelivery(m)
          /\ ensureSubscription(m, reconcile.copy)
     ELSE UNCHANGED <<mv, spent, delivery, subscribed, handlers>>
  /\ reconcile' = IdleReconcile
  /\ UNCHANGED <<replicas, seen, workflow>>

\* A universe reference that does not resolve ends the reconcile.
failMultiverse ==
  LET m == reconcile.of IN
  /\ m # None /\ spent.faults < MaxFaults
  /\ IF Accepted(reconcile.fresh)
     THEN /\ mv' = [mv EXCEPT ![m] = [reconcile.copy EXCEPT !.phase = "Degraded"]]
          /\ delivery' = OutdatedDelivery(m)
     ELSE UNCHANGED <<mv, delivery>>
  /\ reconcile' = IdleReconcile
  /\ spent' = [spent EXCEPT !.faults = @ + 1]
  /\ UNCHANGED <<replicas, subscribed, handlers, seen, workflow>>
-----------------------------------------------------------------------------
\* Workflow completion and the bus

\* The event of a completed workflow goes to the bus.
publishSnapshotEvent(e) == [IdleDelivery EXCEPT !.event = e, !.pc = "publish"]

\* The workflow's status is Completed, from here on its reconciles return
\* early, and the event is still to be published.
Complete(e) ==
  /\ delivery = IdleDelivery /\ workflow[e] = "Running"
  /\ workflow' = [workflow EXCEPT ![e] = "Completed"]
  /\ delivery' = publishSnapshotEvent(e)
  /\ UNCHANGED <<mv, replicas, reconcile, subscribed, handlers, seen, spent>>

\* A new generation of the workflow whose run has the same worldline.
Rerun(e) ==
  /\ workflow[e] = "Completed" /\ delivery.event # e /\ spent.reruns < MaxReruns
  /\ workflow' = [workflow EXCEPT ![e] = "Running"]
  /\ spent' = [spent EXCEPT !.reruns = @ + 1]
  /\ UNCHANGED <<mv, replicas, reconcile, subscribed, handlers, seen, delivery>>

\* What follows a handler: the next one, or the end of the publish.
Remaining(queue) ==
  IF queue = <<>> THEN IdleDelivery
  ELSE [IdleDelivery EXCEPT !.event = delivery.event, !.pc = "handle", !.queue = queue]

\* The id is marked as seen before any handler has run.
Publish ==
  /\ delivery.pc = "publish"
  /\ IF delivery.event.id \in seen
     THEN delivery' = IdleDelivery /\ UNCHANGED seen
     ELSE /\ seen' = seen \cup {delivery.event.id}
          /\ delivery' = Remaining(handlers)
  /\ UNCHANGED <<mv, replicas, reconcile, subscribed, handlers, workflow, spent>>

\* The handler leaves the event to another Multiverse or finds no route.
NotMine(h, e) ==
  \/ e.multiverse # "" /\ e.multiverse # h.of
  \/ Resolve(h.spec, e) = NoRoute

HandleSkip ==
  /\ delivery.pc = "handle" /\ NotMine(Head(delivery.queue), delivery.event)
  /\ delivery' = Remaining(Tail(delivery.queue))
  /\ UNCHANGED <<mv, replicas, reconcile, subscribed, handlers, seen, workflow, spent>>

\* The handler reads its Multiverse; without one it fails, and the bus runs no
\* further handler.  A lagging cache returns a copy the API server will refuse.
HandleGet ==
  /\ delivery.pc = "handle" /\ ~NotMine(Head(delivery.queue), delivery.event)
  /\ LET m == Head(delivery.queue).of IN
     IF mv[m].exists
     THEN \E lagging \in BOOLEAN :
            delivery' = [delivery EXCEPT !.pc = "update", !.copy = mv[m], !.fresh = ~lagging]
     ELSE delivery' = IdleDelivery
  /\ UNCHANGED <<mv, replicas, reconcile, subscribed, handlers, seen, workflow, spent>>

\* Mutant: the conflict is ignored.
UpdateIgnored == [delivery EXCEPT !.pc = "create"]

\* The error of the update ends the publish.
UpdateRefused == IdleDelivery

\* The status update.  A conflict is returned to the bus and dropped there.
HandleUpdate ==
  /\ delivery.pc = "update"
  /\ LET h == Head(delivery.queue)
         record == [id |-> delivery.event.id, target |-> Resolve(h.spec, delivery.event)]
     IN IF Accepted(delivery.fresh)
        THEN /\ mv' = [mv EXCEPT ![h.of] = [delivery.copy EXCEPT !.routed = appendRoutedEvent(@, record)]]
             /\ reconcile' = OutdatedReconcile(h.of)
             /\ delivery' = [delivery EXCEPT !.pc = "create", !.fresh = FALSE]
        ELSE delivery' = UpdateRefused /\ UNCHANGED <<mv, reconcile>>
  /\ UNCHANGED <<replicas, subscribed, handlers, seen, workflow, spent>>

existing(name) == \E r \in replicas : r.name = name

\* The names of ReadReplicas carry no Multiverse: one that exists is left alone.
ensureReadReplica ==
  /\ delivery.pc = "create"
  /\ LET h == Head(delivery.queue)
         name == <<delivery.event.replica, Resolve(h.spec, delivery.event)>>
     IN replicas' = replicas \cup
          (IF existing(name) THEN {}
           ELSE {[name |-> name, id |-> delivery.event.id, owner |-> h.of, uid |-> delivery.copy.uid]})
  /\ delivery' = Remaining(Tail(delivery.queue))
  /\ UNCHANGED <<mv, reconcile, subscribed, handlers, seen, workflow, spent>>

\* A call of the handler fails; the bus returns the error and nobody retries.
HandlerFails ==
  /\ delivery.pc \in {"handle", "update", "create"} /\ spent.faults < MaxFaults
  /\ delivery' = IdleDelivery
  /\ spent' = [spent EXCEPT !.faults = @ + 1]
  /\ UNCHANGED <<mv, replicas, reconcile, subscribed, handlers, seen, workflow>>

\* The controller restarts: the bus and the subscriptions live in its memory.
Restart ==
  /\ spent.faults < MaxFaults
  /\ reconcile' = IdleReconcile /\ delivery' = IdleDelivery
  /\ subscribed' = {} /\ handlers' = <<>> /\ seen' = {}
  /\ spent' = [spent EXCEPT !.faults = @ + 1]
  /\ UNCHANGED <<mv, replicas, workflow>>

Deliver == Publish \/ HandleSkip \/ HandleGet \/ HandleUpdate \/ ensureReadReplica

Reconcile == \E m \in Multiverses : AddFinalizer(m) \/ finalizeMultiverse(m) \/ ReconcileRead(m)

Next ==
  \/ \E m \in Multiverses : Create(m) \/ Edit(m) \/ Delete(m)
  \/ Reconcile
  \/ \E e \in Events : Complete(e) \/ Rerun(e)
  \/ ReconcileWrite \/ failMultiverse \/ Collect
  \/ Deliver
  \/ HandlerFails \/ Restart

Spec == Init /\ [][Next]_vars

\* The workers keep running: a publish in progress goes on, and so does the
\* queue of Multiverse reconciles.
FairSpec == Spec /\ WF_vars(Deliver) /\ WF_vars(ReconcileWrite) /\ WF_vars(Reconcile)
-----------------------------------------------------------------------------
\* Properties

Entries  == [id : Ids, target : Universes]
Tables   == UNION {Specs[m] : m \in Multiverses}
Handlers == [of : Multiverses, spec : Tables]
Objects  == [exists : BOOLEAN, uid : 0 .. MaxCreations, finalizer : BOOLEAN, deleting : BOOLEAN,
             spec : Tables \cup {None}, phase : {"", "Active", "Degraded"}, routed : Seq(Entries)]

\* Types of the objects, of the copies of them and of the bus; in particular
\* an event without a route is never recorded (multiverse_controller.go:132).
TypeOK ==
  /\ mv \in [Multiverses -> Objects]
  /\ replicas \subseteq [name : {e.replica : e \in Events} \X Universes, id : Ids,
                         owner : Multiverses, uid : 1 .. MaxCreations]
  /\ reconcile \in [of : Multiverses \cup {None}, copy : Objects, fresh : BOOLEAN]
  /\ subscribed \subseteq Multiverses
  /\ handlers \in Seq(Handlers)
  /\ seen \subseteq Ids
  /\ delivery \in [event : Events \cup {None}, queue : Seq(Handlers), copy : Objects, fresh : BOOLEAN,
                   pc : {"idle", "publish", "handle", "update", "create"}]
  /\ workflow \in [Events -> {"Running", "Completed"}]
  /\ spent \in [edits : 0 .. MaxEdits, reruns : 0 .. MaxReruns, faults : 0 .. MaxFaults]

Listed(m, id) == \E k \in DOMAIN mv[m].routed : mv[m].routed[k].id = id

\* status.routedEvents lists an event once and at most RoutedCap events,
\* although a restarted bus delivers events again (appendRoutedEvent).
RecordedOnce ==
  \A m \in Multiverses :
    /\ Len(mv[m].routed) <= RoutedCap
    /\ \A j, k \in DOMAIN mv[m].routed : mv[m].routed[j].id = mv[m].routed[k].id => j = k

\* The audit trail of a Multiverse only grows at its end and gives up its
\* oldest entry when it is full: neither a reconcile nor a handler that works
\* on an older copy overwrites a record.
AuditTrail ==
  [][\A m \in Multiverses : mv[m].exists /\ mv'[m].exists =>
       LET old == mv[m].routed  new == mv'[m].routed IN
       \/ new = old
       \/ /\ new # <<>>
          /\ SubSeq(new, 1, Len(new) - 1) = IF Len(old) < RoutedCap THEN old ELSE Tail(old)]_vars

\* A ReadReplica of a live Multiverse is accounted for: its event is listed,
\* unless the list is full and may have dropped it.
ReplicasRecorded ==
  \A r \in replicas :
    mv[r.owner].exists /\ mv[r.owner].uid = r.uid =>
      Listed(r.owner, r.id) \/ Len(mv[r.owner].routed) = RoutedCap

\* An event published while a Multiverse is subscribed and has a route for it
\* is listed there in the end.
EventsRouted ==
  \A m \in Multiverses, e \in Events :
    (/\ delivery.pc = "publish" /\ delivery.event = e /\ e.id \notin seen
     /\ mv[m].exists /\ m \in subscribed
     /\ e.multiverse \in {"", m} /\ Resolve(mv[m].spec, e) # NoRoute)
      ~> (Listed(m, e.id) \/ ~mv[m].exists)
=============================================================================
