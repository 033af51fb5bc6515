--------------------------- MODULE HandoffProofs ----------------------------
(***************************************************************************)
(* Theorems about Handoff, for chains of any length and commands, in any   *)
(* of the layouts, and any number of faults and rewrites of the source.    *)
(*                                                                         *)
(* The argument: an output is faithful to step i when it is the first i    *)
(* commands applied to one content.  Containers in turn only ever read a   *)
(* faithful file, since the one that writes it next has not started to.    *)
(* Containers at once read a faithful file or a torn one, and a torn one   *)
(* gets past no command but a lenient one.                                 *)
(***************************************************************************)
EXTENDS Handoff, TLAPS

(* TypeOK, and: a container exists only in a Pod, and a Pod, like every    *)
(* reconcile past its first step, only once the ConfigMap is written.  An  *)
(* inline source is what every ConfigMap of the chain holds.               *)
TypeInv ==
  /\ TypeOK
  /\ inline => source \in Contents /\ config \in {source, Absent}
  /\ pod => config \in Contents
  /\ rec # "idle" => config \in Contents
  /\ \A i \in Boxes : box[i].state # "none" => pod

\* The first i commands of the chain, applied to one content: the chain's
\* own if it is inline.
Good(v, i) ==
  \E c \in Contents : (inline => c = source) /\ v = Value(c, SubSeq(plan, 1, i))

\* What step i may leave behind when it exits with 0.
Faithful(v, i) == Good(v, i) \/ (Fragile /\ v.content = Torn)

\* Containers that run in turn: one that has started follows finished ones.
TurnInv ==
  layout # "kruise" =>
    \A i \in Boxes : box[i].state # "none" =>
      \A j \in 1..(i - 1) : box[j].state = "ok"

\* The next container has written to the file that step i left.
Overwritten(i) ==
  /\ layout # "kruise" /\ i < Len(plan)
  /\ box[i + 1].state \notin {"none", "started", "read"}

StepOK(i) ==
  /\ box[i].state = "read" =>
       \/ Good(box[i].value, i - 1)
       \/ layout = "kruise" /\ i > 1 /\ box[i].value.content = Torn
  /\ box[i].state = "writing" => Faithful(box[i].value, i)
  /\ box[i].state = "ok" /\ ~Overwritten(i) => Faithful(file[OutputFile(i)], i)
  /\ layout = "kruise" /\ file[i] # Absent => Good(file[i], i) \/ file[i].content = Torn

FileInv == \A i \in Steps : StepOK(i)

\* What a verdict of Completed rests on.
VerdictInv ==
  chain.phase = "Completed" =>
    /\ rec = "idle"
    /\ StepsComplete
    /\ chain.output # Absent => inline /\ chain.output = Replayed

-----------------------------------------------------------------------------
(* The chain and its containers.                                           *)

\* A chain has at least one step, and every step has a container.
LEMMA PlanFacts ==
  ASSUME plan \in Plans
  PROVE  /\ plan \in Seq(STRING)
         /\ Len(plan) \in Nat \ {0}
         /\ Len(plan) \in Steps /\ 1 \in Steps
         /\ Steps \subseteq Boxes
         /\ Boxes \subseteq 1..(Len(plan) + 1)
<1>1. plan \in Seq(STRING) /\ plan # <<>>
  BY HandoffAssumption
<1>2. Len(plan) \in Nat \ {0}
  BY <1>1
<1> QED
  BY <1>1, <1>2 DEF Steps, Boxes

\* Only a Volcano Pod has a container that is no step.
LEMMA ExtraBox ==
  ASSUME plan \in Plans, NEW i \in Boxes, i \notin Steps
  PROVE  layout = "volcano" /\ i = Len(plan) + 1
BY PlanFacts DEF Steps, Boxes

\* Every container's command is a string, and its files are on the volume.
LEMMA BoxFacts ==
  ASSUME plan \in Plans, NEW i \in Boxes
  PROVE  /\ i \in Nat \ {0}
         /\ Command(i) \in Commands
         /\ OutputFile(i) \in Boxes
         /\ i # 1 => i - 1 \in Steps /\ OutputFile(i - 1) \in Boxes
<1>1. i \in 1..(Len(plan) + 1) /\ Len(plan) \in Nat \ {0}
  BY PlanFacts
<1>3. Command(i) \in Commands
  BY <1>1 DEF Command, Commands, Steps
<1>4. 1 \in Boxes
  BY PlanFacts
<1>5. i # 1 => i - 1 \in Steps
  BY <1>1 DEF Steps
<1> QED
  BY <1>1, <1>3, <1>4, <1>5, PlanFacts DEF OutputFile

\* A chain is not edited, so its containers and files stay the same.
LEMMA Fixed ==
  ASSUME [Next]_vars
  PROVE  UNCHANGED <<layout, plan, inline, earlier>> /\ (inline => source' = source)
BY DEF Next, Runner, BoxDies, Reconcile, Cluster, PullForgotten, PullBreaksOff, WriteSource, StartBox,
   ReadInput, WaitOver, Compute, WriteOutput, Stage, PullImages, EnsurePod, Look,
   PullCompletes, PullExpires, vars

\* The types of values and statuses speak of the chain only.
LEMMA SameTypes ==
  ASSUME UNCHANGED <<layout, plan, earlier>>
  PROVE  /\ Boxes' = Boxes /\ Steps' = Steps
         /\ Values' = Values /\ Verdicts' = Verdicts
BY DEF Boxes, Steps, Values, Verdicts, Commands

\* What a replay reports is a value.
LEMMA ReplayValue ==
  ASSUME plan \in Plans, earlier \in Earlier, source \in Contents
  PROVE  Replayed \in Values
<1> DEFINE mixed == [i \in Steps |-> IF i <= Len(earlier) THEN earlier[i] ELSE plan[i]]
<1>1. Len(plan) \in Nat /\ Len(earlier) \in Nat
  BY PlanFacts, HandoffAssumption
<1>2. ASSUME NEW i \in Steps
      PROVE  mixed[i] \in Commands
  BY <1>1 DEF Commands, Steps
<1>3. mixed \in [1..Len(plan) -> Commands]
  BY <1>2 DEF Steps
<1>4. mixed \in Seq(Commands)
  BY <1>1, <1>3
<1> QED
  BY <1>4 DEF Replayed, Value, Values

\* A torn file is a value, and so is the ConfigMap's content.
LEMMA RawValue ==
  ASSUME NEW c \in Contents \cup {Torn}
  PROVE  Raw(c) \in Values
BY DEF Raw, Values

-----------------------------------------------------------------------------
(* Types.                                                                  *)

\* What a step that leaves the containers alone has to keep.
Types ==
  /\ layout \in Layouts /\ plan \in Plans
  /\ inline \in BOOLEAN /\ earlier \in Earlier
  /\ inline => source \in Contents /\ config \in {source, Absent}
  /\ source \in Contents \cup {Absent} /\ config \in Contents \cup {Absent}
  /\ pull \in {"none", "pulling", "partial", "failed", "complete"}
  /\ chain \in Verdicts
  /\ rec \in {"idle", "pull", "pod", "look"}
  /\ events \in Nat

PodTypes ==
  /\ pod \in BOOLEAN
  /\ pod => config \in Contents
  /\ rec # "idle" => config \in Contents

BoxTypes ==
  /\ file \in [Boxes -> Values \cup {Absent}]
  /\ box \in [Boxes -> [state : BoxStates, value : Values \cup {Absent}]]
  /\ \A i \in Boxes : box[i].state \in {"read", "writing"} => box[i].value \in Values
  /\ \A i \in Boxes : box[i].state # "none" => pod

LEMMA TypeInit == Init => TypeInv
<1> SUFFICES ASSUME Init
             PROVE  TypeInv
  OBVIOUS
<1>1. Types
  BY DEF Init, Types, Verdicts
<1>2. BoxTypes
  BY DEF Init, BoxTypes, BoxStates
<1>3. PodTypes
  BY DEF Init, PodTypes
<1> QED
  BY <1>1, <1>2, <1>3 DEF TypeInv, TypeOK, Types, PodTypes, BoxTypes

LEMMA TypesStep ==
  ASSUME Types, [Next]_vars
  PROVE  Types'
<1> USE DEF Types
<1>0. UNCHANGED <<layout, plan>> /\ Verdicts' = Verdicts
  BY Fixed, SameTypes
<1>v. ASSUME NEW phase \in {"Running", "Error"}
      PROVE  [chain EXCEPT !.phase = phase] \in Verdicts
  BY DEF Verdicts
<1>1. CASE UNCHANGED vars
  BY <1>0, <1>1 DEF vars
<1>2. ASSUME NEW i \in Boxes, Runner(i)
      PROVE  Types'
  BY <1>0, <1>2 DEF Runner, StartBox, ReadInput, WaitOver, Compute, WriteOutput
<1>3. ASSUME NEW i \in Boxes, BoxDies(i)
      PROVE  Types'
  BY <1>0, <1>3 DEF BoxDies, Event
<1>4. CASE Stage
  BY <1>0, <1>v, <1>4 DEF Stage, failChain, Goto
<1>5. CASE PullImages
  BY <1>0, <1>v, <1>5 DEF PullImages, EnsuredPull, failChain, StillRunning, Goto
<1>6. CASE EnsurePod
  BY <1>0, <1>6 DEF EnsurePod, Goto
<1>7. CASE Look
  <2>1. CASE \E o : Completes(o)
    <3>0. chain'.phase = "Completed"
      BY <2>1 DEF Completes
    <3>a. ~failChain /\ ~StillRunning
      BY <3>0, <1>v DEF failChain, StillRunning, Verdicts
    <3>b. completeChain
      BY <1>7, <3>a DEF Look
    <3>1. PICK o : Completes(o) /\ o \in Values \cup {Absent} /\ source \in Contents
      BY <3>a, <3>b, ReplayValue DEF completeChain, CanReplay
    <3>2. chain' \in Verdicts
      BY <3>1 DEF Verdicts, Completes
    <3> QED
      BY <1>0, <1>7, <3>1, <3>2 DEF Look, Completes, Goto
  <2>2. CASE ~ \E o : Completes(o)
    BY <1>0, <1>v, <1>7, <2>2 DEF Look, completeChain, Completes, failChain, StillRunning, Goto
  <2> QED
    BY <2>1, <2>2
<1>8. CASE Cluster
  BY <1>0, <1>8 DEF Cluster, PullCompletes, PullExpires
<1>9. CASE PullBreaksOff \/ PullForgotten
  BY <1>0, <1>9 DEF PullBreaksOff, PullForgotten, Event
<1>10. CASE WriteSource
  BY <1>0, <1>10 DEF WriteSource, Event
<1> QED
  BY <1>1, <1>2, <1>3, <1>4, <1>5, <1>6, <1>7, <1>8, <1>9, <1>10 DEF Next, Reconcile

LEMMA PodStep ==
  ASSUME Types, PodTypes, [Next]_vars
  PROVE  PodTypes'
<1> USE DEF Types, PodTypes
<1>1. CASE UNCHANGED vars
  BY <1>1 DEF vars
<1>2. ASSUME NEW i \in Boxes, Runner(i)
      PROVE  PodTypes'
  BY <1>2 DEF Runner, StartBox, ReadInput, WaitOver, Compute, WriteOutput
<1>3. ASSUME NEW i \in Boxes, BoxDies(i)
      PROVE  PodTypes'
  BY <1>3 DEF BoxDies, Event
<1>4. CASE Stage
  BY <1>4 DEF Stage, failChain, Goto
<1>5. CASE PullImages
  BY <1>5 DEF PullImages, EnsuredPull, failChain, StillRunning, Goto
<1>6. CASE EnsurePod
  BY <1>6 DEF EnsurePod, Goto
<1>7. CASE Look
  BY <1>7 DEF Look, completeChain, Completes, failChain, StillRunning, Goto
<1>8. CASE Cluster
  BY <1>8 DEF Cluster, PullCompletes, PullExpires
<1>9. CASE PullBreaksOff \/ PullForgotten
  BY <1>9 DEF PullBreaksOff, PullForgotten, Event
<1>10. CASE WriteSource
  BY <1>10 DEF WriteSource, Event
<1> QED
  BY <1>1, <1>2, <1>3, <1>4, <1>5, <1>6, <1>7, <1>8, <1>9, <1>10 DEF Next, Reconcile

\* Steps of the reconciler and of the cluster leave containers and files.
LEMMA OtherSteps ==
  ASSUME [Next]_vars,
         ~ \E i \in Boxes : Runner(i) \/ BoxDies(i)
  PROVE  UNCHANGED <<box, file>> /\ (pod => pod')
BY DEF Next, Reconcile, Cluster, PullForgotten, PullBreaksOff, WriteSource, Stage, PullImages, EnsurePod,
   Look, PullCompletes, PullExpires, vars

\* A container's step leaves its Pod.
LEMMA BoxPod ==
  ASSUME NEW i \in Boxes, Runner(i) \/ BoxDies(i)
  PROVE  pod' = pod
BY DEF Runner, BoxDies, StartBox, ReadInput, WaitOver, Compute, WriteOutput

\* SetBox with a value that fits the state keeps the types of containers.
LEMMA SetBoxTyped ==
  ASSUME BoxTypes, NEW i \in Boxes, NEW state \in BoxStates, NEW value \in Values \cup {Absent},
         state \in {"read", "writing"} => value \in Values,
         state # "none" => pod,
         SetBox(i, state, value), file' \in [Boxes -> Values \cup {Absent}],
         pod' = pod, UNCHANGED <<layout, plan, earlier>>
  PROVE  BoxTypes'
<1>1. Boxes' = Boxes
  BY DEF Boxes
<1>2. box' = [box EXCEPT ![i] = [state |-> state, value |-> value]]
  BY DEF SetBox
<1>3. box' \in [Boxes -> [state : BoxStates, value : Values \cup {Absent}]]
  BY <1>2 DEF BoxTypes
<1>4. box'[i] = [state |-> state, value |-> value] /\ \A j \in Boxes : j # i => box'[j] = box[j]
  BY <1>2 DEF BoxTypes
<1>5. Values' = Values /\ BoxStates' = BoxStates
  BY SameTypes DEF BoxStates
<1>6. ASSUME NEW j \in Boxes
      PROVE  /\ box'[j].state \in {"read", "writing"} => box'[j].value \in Values
             /\ box'[j].state # "none" => pod'
  BY <1>4 DEF BoxTypes
<1> QED
  BY <1>1, <1>3, <1>5, <1>6 DEF BoxTypes

\* What a container reads is a value.
LEMMA InputTyped ==
  ASSUME Types, PodTypes, BoxTypes, NEW i \in Boxes, box[i].state # "none", Input(i) # Absent
  PROVE  Input(i) \in Values
<1>1. CASE i = 1
  <2>1. config \in Contents
    BY DEF PodTypes, BoxTypes
  <2> QED
    BY <1>1, <2>1, RawValue DEF Input
<1>2. CASE i # 1
  <2>1. OutputFile(i - 1) \in Boxes
    BY <1>2, BoxFacts DEF Types
  <2> QED
    BY <1>2, <2>1 DEF Input, BoxTypes
<1> QED
  BY <1>1, <1>2

\* A command appended to a value gives a value.
LEMMA AppliedTyped ==
  ASSUME NEW v \in Values, NEW command \in Commands
  PROVE  [v EXCEPT !.applied = Append(@, command)] \in Values
<1>1. Append(v.applied, command) \in Seq(Commands)
  BY DEF Values
<1> QED
  BY <1>1 DEF Values

LEMMA RunnerTyped ==
  ASSUME Types, PodTypes, BoxTypes, NEW i \in Boxes, Runner(i) \/ BoxDies(i), [Next]_vars
  PROVE  BoxTypes'
<1>1. UNCHANGED <<layout, plan, earlier>> /\ pod' = pod
  BY Fixed, BoxPod
<1>2. file \in [Boxes -> Values \cup {Absent}] /\ box[i].state # "none" => pod
  BY DEF BoxTypes
<1>3. OutputFile(i) \in Boxes /\ Command(i) \in Commands
  BY BoxFacts DEF Types
<1>4. ASSUME NEW v \in Values
      PROVE  [file EXCEPT ![OutputFile(i)] = v] \in [Boxes -> Values \cup {Absent}]
  BY <1>2, <1>3 DEF BoxTypes
<1>5. /\ file \in [Boxes -> Values \cup {Absent}]
      /\ box[i].state # "none" => pod
      /\ box[i].state \in {"read", "writing"} => box[i].value \in Values
  BY DEF BoxTypes
<1> USE DEF BoxStates
<1>6. CASE StartBox(i)
  BY <1>1, <1>5, <1>6, SetBoxTyped DEF StartBox
<1>7. CASE ReadInput(i)
  <2>1. Input(i) \in Values
    BY <1>7, InputTyped DEF ReadInput
  <2> QED
    BY <1>1, <1>5, <1>7, <2>1, SetBoxTyped DEF ReadInput
<1>8. CASE WaitOver(i)
  BY <1>1, <1>5, <1>8, SetBoxTyped DEF WaitOver
<1>9. CASE Compute(i)
  <2> DEFINE new == [box[i].value EXCEPT !.applied = Append(@, Command(i))]
  <2>1. new \in Values /\ Raw(Torn) \in Values
    BY <1>3, <1>5, <1>9, AppliedTyped, RawValue DEF Compute
  <2>2. CASE SetBox(i, "failed", Absent) /\ UNCHANGED file
    BY <1>1, <1>5, <1>9, <2>2, SetBoxTyped DEF Compute
  <2>3. CASE SetBox(i, "writing", new) /\ file' = [file EXCEPT ![OutputFile(i)] = Raw(Torn)]
    <3>1. file' \in [Boxes -> Values \cup {Absent}]
      BY <1>4, <2>1, <2>3
    <3> HIDE DEF new
    <3> QED
      BY <1>1, <1>5, <1>9, <2>1, <2>3, <3>1, SetBoxTyped DEF Compute
  <2> QED
    BY <1>9, <2>2, <2>3 DEF Compute
<1>10. CASE WriteOutput(i)
  <2>1. box[i].value \in Values
    BY <1>5, <1>10 DEF WriteOutput
  <2>2. file' \in [Boxes -> Values \cup {Absent}]
    BY <1>4, <1>10, <2>1 DEF WriteOutput
  <2> QED
    BY <1>1, <1>5, <1>10, <2>2, SetBoxTyped DEF WriteOutput
<1>11. CASE BoxDies(i)
  BY <1>1, <1>5, <1>11, SetBoxTyped DEF BoxDies
<1> QED
  BY <1>6, <1>7, <1>8, <1>9, <1>10, <1>11 DEF Runner

LEMMA TypeStep ==
  ASSUME TypeInv, [Next]_vars
  PROVE  TypeInv'
<1>1. Types /\ PodTypes /\ BoxTypes
  BY DEF TypeInv, TypeOK, Types, PodTypes, BoxTypes
<1>2. Types' /\ PodTypes'
  BY <1>1, TypesStep, PodStep
<1>3. BoxTypes'
  <2>1. CASE \E i \in Boxes : Runner(i) \/ BoxDies(i)
    BY <1>1, <2>1, RunnerTyped
  <2>2. CASE ~ \E i \in Boxes : Runner(i) \/ BoxDies(i)
    <3>1. UNCHANGED <<box, file, layout, plan, earlier>> /\ (pod => pod')
      BY <2>2, OtherSteps, Fixed
    <3>2. Boxes' = Boxes /\ Values' = Values /\ BoxStates' = BoxStates
      BY <3>1, SameTypes DEF BoxStates
    <3> QED
      BY <1>1, <3>1, <3>2 DEF BoxTypes
  <2> QED
    BY <2>1, <2>2
<1> QED
  BY <1>2, <1>3 DEF TypeInv, TypeOK, Types, PodTypes, BoxTypes

LEMMA TypeAlways == Spec => []TypeInv
BY TypeInit, TypeStep, PTL DEF Spec

(* Containers, files, the resources around them and the status keep the    *)
(* types that pkg/dominochain and the DominoChain reconciler give them.    *)
THEOREM TypeCorrect == Spec => []TypeOK
<1>1. TypeInv => TypeOK
  BY DEF TypeInv
<1> QED
  BY <1>1, TypeAlways, PTL

-----------------------------------------------------------------------------
(* Prefixes of the chain.                                                  *)

LEMMA PrefixFacts ==
  ASSUME plan \in Plans
  PROVE  /\ SubSeq(plan, 1, 0) = <<>>
         /\ SubSeq(plan, 1, Len(plan)) = plan
         /\ \A i \in Steps : Append(SubSeq(plan, 1, i - 1), plan[i]) = SubSeq(plan, 1, i)
<1>1. plan \in Seq(STRING) /\ Len(plan) \in Nat \ {0}
  BY PlanFacts
<1>2. SubSeq(plan, 1, 0) = <<>>
  BY <1>1
<1>3. SubSeq(plan, 1, Len(plan)) = plan
  BY <1>1
<1>4. ASSUME NEW i \in Steps
      PROVE  Append(SubSeq(plan, 1, i - 1), plan[i]) = SubSeq(plan, 1, i)
  BY <1>1 DEF Steps
<1> QED
  BY <1>2, <1>3, <1>4

\* A step makes the next prefix of the previous one, on the same content.
LEMMA GoodStep ==
  ASSUME plan \in Plans, NEW i \in Steps, NEW v, Good(v, i - 1)
  PROVE  /\ Good([v EXCEPT !.applied = Append(@, Command(i))], i)
         /\ v.content # Torn
<1>1. PICK c \in Contents : (inline => c = source) /\ v = Value(c, SubSeq(plan, 1, i - 1))
  BY DEF Good
<1>2. Command(i) = plan[i]
  BY PlanFacts DEF Command, Steps
<1>3. [v EXCEPT !.applied = Append(@, Command(i))] = Value(c, SubSeq(plan, 1, i))
  <2>1. v = [content |-> c, applied |-> SubSeq(plan, 1, i - 1)]
    BY <1>1 DEF Value
  <2>2. Append(v.applied, Command(i)) = SubSeq(plan, 1, i)
    BY <1>2, <2>1, PrefixFacts
  <2> DEFINE s == SubSeq(plan, 1, i)
  <2>3. [v EXCEPT !.applied = Append(@, Command(i))] = [v EXCEPT !.applied = s]
    BY <2>2
  <2>4. [v EXCEPT !.applied = s] = [content |-> c, applied |-> s]
    <3> HIDE DEF s
    <3> QED
      BY <2>1
  <2> QED
    BY <2>3, <2>4 DEF Value
<1>4. v.content = c
  BY <1>1 DEF Value
<1> QED
  BY <1>1, <1>3, <1>4, HandoffAssumption DEF Good

\* The ConfigMap is the empty prefix.
LEMMA GoodConfig ==
  ASSUME plan \in Plans, NEW c \in Contents, inline => c = source
  PROVE  Good(Raw(c), 0)
BY PrefixFacts DEF Good, Raw, Value

-----------------------------------------------------------------------------
(* How a container's step changes it and its file.                         *)

Turned(i, state) == box'[i].state = state /\ \A j \in Boxes : j # i => box'[j] = box[j]

Written(i, v) ==
  /\ file'[OutputFile(i)] = v
  /\ \A k \in Boxes : k # OutputFile(i) => file'[k] = file[k]

BoxMove(i) ==
  \/ /\ box[i].state = "none" /\ Turn(i)
     /\ Turned(i, "started") /\ UNCHANGED file
  \/ /\ box[i].state = "started" /\ Input(i) # Absent
     /\ Turned(i, "read") /\ box'[i].value = Input(i) /\ UNCHANGED file
  \/ /\ box[i].state = "read" /\ Accepts(Command(i), box[i].value)
     /\ Turned(i, "writing")
     /\ box'[i].value = [box[i].value EXCEPT !.applied = Append(@, Command(i))]
     /\ Written(i, Raw(Torn))
  \/ /\ box[i].state = "writing"
     /\ Turned(i, "ok") /\ Written(i, box[i].value)
  \/ /\ box[i].state \in {"started", "read", "writing"}
     /\ Turned(i, "failed") /\ UNCHANGED file

LEMMA BoxMoves ==
  ASSUME TypeInv, NEW i \in Boxes, Runner(i) \/ BoxDies(i)
  PROVE  BoxMove(i)
<1>1. /\ DOMAIN box = Boxes /\ DOMAIN file = Boxes /\ OutputFile(i) \in Boxes
  BY BoxFacts DEF TypeInv, TypeOK
<1>2. ASSUME NEW state, NEW value, SetBox(i, state, value)
      PROVE  Turned(i, state) /\ box'[i].value = value
  BY <1>1, <1>2 DEF SetBox, Turned, TypeInv, TypeOK
<1>3. ASSUME NEW v, file' = [file EXCEPT ![OutputFile(i)] = v]
      PROVE  Written(i, v)
  BY <1>1, <1>3 DEF Written, TypeInv, TypeOK
<1>4. CASE StartBox(i)
  BY <1>2, <1>4 DEF StartBox, BoxMove
<1>5. CASE ReadInput(i)
  BY <1>2, <1>5 DEF ReadInput, BoxMove
<1>6. CASE WaitOver(i)
  BY <1>2, <1>6 DEF WaitOver, BoxMove
<1>7. CASE Compute(i)
  BY <1>2, <1>3, <1>7 DEF Compute, BoxMove
<1>8. CASE WriteOutput(i)
  BY <1>2, <1>3, <1>8 DEF WriteOutput, BoxMove
<1>9. CASE BoxDies(i)
  BY <1>2, <1>9 DEF BoxDies, BoxMove
<1> QED
  BY <1>4, <1>5, <1>6, <1>7, <1>8, <1>9 DEF Runner

\* A container that has exited stays as it is.
LEMMA OkStays ==
  ASSUME TypeInv, [Next]_vars, NEW i \in Boxes, box[i].state = "ok"
  PROVE  box'[i] = box[i]
<1>1. ASSUME NEW j \in Boxes, Runner(j) \/ BoxDies(j)
      PROVE  box'[i] = box[i]
  <2>1. BoxMove(j)
    BY <1>1, BoxMoves
  <2> QED
    BY <2>1 DEF BoxMove, Turned
<1> QED
  BY <1>1, OtherSteps

-----------------------------------------------------------------------------
(* Containers in turn.                                                     *)

LEMMA TurnStep ==
  ASSUME TypeInv, TurnInv, [Next]_vars
  PROVE  TurnInv'
<1>1. UNCHANGED <<layout, plan>> /\ Boxes' = Boxes
  BY Fixed, SameTypes
<1> SUFFICES ASSUME layout # "kruise", NEW i \in Boxes, box'[i].state # "none",
                    NEW j \in 1..(i - 1)
             PROVE  box'[j].state = "ok"
  BY <1>1 DEF TurnInv
<1>2. j \in Boxes
  BY PlanFacts DEF TypeInv, TypeOK, Boxes
<1>3. box[j].state = "ok"
  <2>1. CASE box[i].state # "none"
    BY <2>1 DEF TurnInv
  <2>2. CASE box[i].state = "none"
    <3>1. PICK k \in Boxes : Runner(k) \/ BoxDies(k)
      BY <2>2, OtherSteps
    <3>2. BoxMove(k)
      BY <3>1, BoxMoves
    <3>3. k = i
      BY <2>2, <3>2 DEF BoxMove, Turned
    <3> QED
      BY <2>2, <3>2, <3>3 DEF BoxMove, Turn
  <2> QED
    BY <2>1, <2>2
<1> QED
  BY <1>2, <1>3, OkStays

\* While a container is at work, those before it are done and those after
\* it have not started.
LEMMA InTurn ==
  ASSUME TypeInv, TurnInv, layout # "kruise", NEW i \in Boxes, BoxMove(i), NEW k \in Boxes
  PROVE  /\ k < i => box[k].state = "ok"
         /\ k > i => box[k].state = "none"
<1>1. i \in Nat \ {0} /\ k \in Nat \ {0}
  BY BoxFacts DEF TypeInv, TypeOK
<1>2. ASSUME k < i
      PROVE  box[k].state = "ok"
  <2>1. k \in 1..(i - 1)
    BY <1>1, <1>2
  <2>2. CASE box[i].state = "none"
    BY <2>1, <2>2 DEF BoxMove, Turn
  <2>3. CASE box[i].state # "none"
    BY <2>1, <2>3 DEF TurnInv
  <2> QED
    BY <2>2, <2>3
<1>3. ASSUME k > i
      PROVE  box[k].state = "none"
  <2>1. i \in 1..(k - 1)
    BY <1>1, <1>3
  <2>2. box[i].state # "ok"
    BY DEF BoxMove
  <2> QED
    BY <2>1, <2>2 DEF TurnInv
<1> QED
  BY <1>2, <1>3

-----------------------------------------------------------------------------
(* What the files hold.                                                    *)

\* StepOK(i) after a step; what is good is good as before.
StepNext(i) ==
  /\ box'[i].state = "read" =>
       \/ Good(box'[i].value, i - 1)
       \/ layout = "kruise" /\ i > 1 /\ box'[i].value.content = Torn
  /\ box'[i].state = "writing" => Faithful(box'[i].value, i)
  /\ box'[i].state = "ok" /\ ~Overwritten(i)' => Faithful(file'[OutputFile(i)], i)
  /\ layout = "kruise" /\ file'[i] # Absent => Good(file'[i], i) \/ file'[i].content = Torn

LEMMA StepNextOK ==
  ASSUME UNCHANGED <<layout, plan, inline>>, inline => source' = source, NEW i, StepNext(i)
  PROVE  StepOK(i)'
BY DEF StepNext, StepOK, Good, Faithful, Fragile, OutputFile, Steps, Value

\* What a command makes of a good input, or of a torn one it accepts.
LEMMA ComputeFaithful ==
  ASSUME TypeInv, NEW i \in Steps, NEW v \in Values, Accepts(Command(i), v),
         Good(v, i - 1) \/ (layout = "kruise" /\ i > 1 /\ v.content = Torn)
  PROVE  Faithful([v EXCEPT !.applied = Append(@, Command(i))], i)
<1>1. plan \in Plans
  BY DEF TypeInv, TypeOK
<1>2. CASE Good(v, i - 1)
  BY <1>1, <1>2, GoodStep DEF Faithful
<1>3. CASE layout = "kruise" /\ i > 1 /\ v.content = Torn
  <2>1. Command(i) = plan[i]
    BY <1>1, PlanFacts DEF Command, Steps
  <2>2. plan[i] \in Lenient
    BY <1>3, <2>1 DEF Accepts
  <2>3. i \in Steps \ {1}
    BY <1>3 DEF Steps
  <2>4. Fragile
    BY <1>3, <2>2, <2>3 DEF Fragile
  <2>5. [v EXCEPT !.applied = Append(@, Command(i))].content = Torn
    BY <1>3 DEF Values
  <2> QED
    BY <2>4, <2>5 DEF Faithful
<1> QED
  BY <1>2, <1>3

\* All containers at once: each has a file of its own.
LEMMA KruiseFiles ==
  ASSUME TypeInv, FileInv, layout = "kruise", NEW i \in Boxes, BoxMove(i), NEW j \in Steps
  PROVE  StepNext(j)
<1>1. plan \in Plans /\ i \in Steps /\ j \in Boxes /\ i \in Nat \ {0}
  BY ExtraBox, PlanFacts, BoxFacts DEF TypeInv, TypeOK
<1>2. \A k : OutputFile(k) = k
  BY DEF OutputFile
<1>3. StepOK(i) /\ StepOK(j) /\ ~Overwritten(i) /\ ~Overwritten(j)
  BY <1>1 DEF FileInv, Overwritten
<1>4. CASE j # i
  <2>1. box'[j] = box[j] /\ file'[j] = file[j]
    BY <1>1, <1>2, <1>4 DEF BoxMove, Turned, Written
  <2> QED
    BY <1>2, <1>3, <2>1 DEF StepNext, StepOK
<1>5. CASE j = i
  <2>1. CASE box'[i].state \in {"started", "failed"} /\ UNCHANGED file
    BY <1>2, <1>3, <1>5, <2>1 DEF StepNext, StepOK
  <2>2. CASE /\ box[i].state = "started" /\ Input(i) # Absent
             /\ Turned(i, "read") /\ box'[i].value = Input(i) /\ UNCHANGED file
    <3>1. CASE i = 1
      <4>1. config \in Contents /\ (inline => config = source)
        BY <2>2, HandoffAssumption DEF TypeInv
      <4>2. Good(Input(i), i - 1)
        BY <1>1, <3>1, <4>1, GoodConfig DEF Input
      <4> QED
        BY <1>2, <1>3, <1>5, <2>2, <4>2 DEF StepNext, StepOK, Turned
    <3>2. CASE i # 1
      <4>1. i - 1 \in Steps /\ i > 1
        BY <1>1, <3>2, BoxFacts
      <4>2. Input(i) = file[i - 1]
        BY <1>2, <3>2 DEF Input
      <4>3. StepOK(i - 1)
        BY <4>1 DEF FileInv
      <4>4. Good(Input(i), i - 1) \/ Input(i).content = Torn
        BY <2>2, <4>2, <4>3 DEF StepOK
      <4> QED
        BY <1>2, <1>3, <1>5, <2>2, <4>1, <4>4 DEF StepNext, StepOK, Turned
    <3> QED
      BY <3>1, <3>2
  <2>3. CASE /\ box[i].state = "read" /\ Accepts(Command(i), box[i].value)
             /\ Turned(i, "writing")
             /\ box'[i].value = [box[i].value EXCEPT !.applied = Append(@, Command(i))]
             /\ Written(i, Raw(Torn))
    <3>1. box[i].value \in Values
      BY <2>3 DEF TypeInv, TypeOK
    <3>2. Faithful(box'[i].value, i)
      BY <1>1, <1>3, <2>3, <3>1, ComputeFaithful DEF StepOK
    <3>3. file'[i].content = Torn
      BY <1>2, <2>3 DEF Written, Raw
    <3> QED
      BY <1>5, <2>3, <3>2, <3>3 DEF StepNext, Turned
  <2>4. CASE /\ box[i].state = "writing"
             /\ Turned(i, "ok") /\ Written(i, box[i].value)
    <3>1. Faithful(file'[i], i)
      BY <1>2, <1>3, <2>4 DEF StepOK, Written
    <3> QED
      BY <1>2, <1>5, <2>4, <3>1 DEF StepNext, Turned, Faithful
  <2> QED
    BY <2>1, <2>2, <2>3, <2>4 DEF BoxMove, Turned
<1> QED
  BY <1>4, <1>5

\* One container after the other, over one file.
LEMMA TurnFiles ==
  ASSUME TypeInv, TurnInv, FileInv, layout # "kruise",
         NEW i \in Boxes, BoxMove(i), NEW j \in Steps, UNCHANGED <<layout, plan>>
  PROVE  StepNext(j)
<1>1. plan \in Plans /\ j \in Boxes /\ i \in Nat \ {0} /\ j \in Nat \ {0} /\ Len(plan) \in Nat \ {0}
  BY PlanFacts, BoxFacts DEF TypeInv, TypeOK, Steps
<1>2. \A k \in Steps : OutputFile(k) = 1
  BY <1>1 DEF OutputFile, Steps
<1>3. StepOK(j) /\ ~Fragile
  BY DEF FileInv, Fragile
<1>4. Overwritten(j)' <=> j < Len(plan) /\ box'[j + 1].state \notin {"none", "started", "read"}
  BY DEF Overwritten
<1>5. CASE i \notin Steps
  <2>1. i = Len(plan) + 1 /\ OutputFile(i) # 1 /\ 1 \in Boxes
    BY <1>1, <1>5, ExtraBox, PlanFacts DEF OutputFile
  <2>2. box'[j] = box[j] /\ file'[1] = file[1]
    BY <1>1, <1>5, <2>1 DEF BoxMove, Turned, Written
  <2>3. j < Len(plan) => j + 1 \in Boxes /\ box'[j + 1] = box[j + 1]
    <3> SUFFICES ASSUME j < Len(plan)
                 PROVE  j + 1 \in Boxes /\ box'[j + 1] = box[j + 1]
      OBVIOUS
    <3>1. j + 1 \in Boxes /\ j + 1 # i
      BY <1>1, <2>1, PlanFacts DEF Steps
    <3> QED
      BY <3>1 DEF BoxMove, Turned
  <2>4. Overwritten(j)' <=> Overwritten(j)
    BY <1>4, <2>3 DEF Overwritten
  <2> QED
    BY <1>2, <1>3, <2>2, <2>4 DEF StepNext, StepOK
<1>6. CASE i \in Steps /\ j > i
  <2>1. box'[j].state = "none"
    BY <1>1, <1>6, InTurn DEF BoxMove, Turned
  <2> QED
    BY <2>1 DEF StepNext
<1>7. CASE i \in Steps /\ j < i
  <2>1. box[j].state = "ok" /\ box'[j] = box[j]
    BY <1>1, <1>7, InTurn DEF BoxMove, Turned
  <2>2. j < Len(plan) /\ j + 1 \in Boxes
    BY <1>1, <1>7, PlanFacts DEF Steps
  <2>3. CASE j + 1 < i
    <3>1. box[j + 1].state = "ok" /\ box'[j + 1] = box[j + 1]
      BY <1>1, <2>2, <2>3, InTurn DEF BoxMove, Turned
    <3> QED
      BY <1>4, <2>1, <2>2, <3>1 DEF StepNext
  <2>4. CASE j + 1 = i
    <3>1. CASE box'[i].state \in {"started", "read"}
      <4>1. file' = file /\ box[i].state \in {"none", "started"}
        BY <3>1 DEF BoxMove, Turned
      <4>2. ~Overwritten(j)
        BY <2>4, <4>1 DEF Overwritten
      <4> QED
        BY <1>3, <2>1, <4>1, <4>2 DEF StepNext, StepOK
    <3>2. CASE box'[i].state \notin {"none", "started", "read"}
      BY <1>4, <2>1, <2>2, <2>4, <3>2 DEF StepNext
    <3>3. box'[i].state # "none"
      BY DEF BoxMove, Turned
    <3> QED
      BY <3>1, <3>2, <3>3
  <2> QED
    BY <1>1, <1>7, <2>3, <2>4
<1>8. CASE i \in Steps /\ j = i
  <2>1. CASE box'[i].state \in {"started", "failed"} /\ UNCHANGED file
    BY <1>8, <2>1 DEF StepNext
  <2>2. CASE /\ box[i].state = "started" /\ Input(i) # Absent
             /\ Turned(i, "read") /\ box'[i].value = Input(i) /\ UNCHANGED file
    <3>1. CASE i = 1
      <4>1. config \in Contents /\ (inline => config = source)
        BY <2>2, HandoffAssumption DEF TypeInv
      <4>2. Good(Input(i), i - 1)
        BY <1>1, <3>1, <4>1, GoodConfig DEF Input
      <4> QED
        BY <1>8, <2>2, <4>2 DEF StepNext, Turned
    <3>2. CASE i # 1
      <4>1. i - 1 \in Steps /\ i - 1 \in Boxes /\ i - 1 < i
        BY <1>1, <3>2, BoxFacts, PlanFacts
      <4>2. Input(i) = file[OutputFile(i - 1)]
        BY <3>2 DEF Input
      <4>3. box[i - 1].state = "ok"
        BY <4>1, InTurn
      <4>4. ~Overwritten(i - 1)
        BY <1>1, <2>2 DEF Overwritten
      <4>5. StepOK(i - 1)
        BY <4>1 DEF FileInv
      <4>6. Good(Input(i), i - 1)
        BY <1>3, <4>2, <4>3, <4>4, <4>5 DEF StepOK, Faithful
      <4> QED
        BY <1>8, <2>2, <4>6 DEF StepNext, Turned
    <3> QED
      BY <3>1, <3>2
  <2>3. CASE /\ box[i].state = "read" /\ Accepts(Command(i), box[i].value)
             /\ Turned(i, "writing")
             /\ box'[i].value = [box[i].value EXCEPT !.applied = Append(@, Command(i))]
             /\ Written(i, Raw(Torn))
    <3>1. box[i].value \in Values
      BY <2>3 DEF TypeInv, TypeOK
    <3>2. Faithful(box'[i].value, i)
      BY <1>3, <1>8, <2>3, <3>1, ComputeFaithful DEF StepOK
    <3> QED
      BY <1>8, <2>3, <3>2 DEF StepNext, Turned
  <2>4. CASE /\ box[i].state = "writing"
             /\ Turned(i, "ok") /\ Written(i, box[i].value)
    <3>1. Faithful(file'[OutputFile(i)], i)
      BY <1>3, <1>8, <2>4 DEF StepOK, Written
    <3> QED
      BY <1>8, <2>4, <3>1 DEF StepNext, Turned
  <2> QED
    BY <2>1, <2>2, <2>3, <2>4 DEF BoxMove, Turned
<1> QED
  BY <1>1, <1>5, <1>6, <1>7, <1>8

LEMMA FileStep ==
  ASSUME TypeInv, TurnInv, FileInv, [Next]_vars
  PROVE  FileInv'
<1>1. /\ UNCHANGED <<layout, plan, inline>> /\ (inline => source' = source)
      /\ Steps' = Steps
  BY Fixed, SameTypes
<1> SUFFICES ASSUME NEW j \in Steps
             PROVE  StepNext(j)
  BY <1>1, StepNextOK DEF FileInv
<1>2. CASE \E i \in Boxes : Runner(i) \/ BoxDies(i)
  <2>1. PICK i \in Boxes : BoxMove(i)
    BY <1>2, BoxMoves
  <2> QED
    BY <1>1, <2>1, KruiseFiles, TurnFiles
<1>3. CASE ~ \E i \in Boxes : Runner(i) \/ BoxDies(i)
  <2>1. UNCHANGED <<box, file>>
    BY <1>3, OtherSteps
  <2>2. StepOK(j) /\ (Overwritten(j)' <=> Overwritten(j))
    BY <1>1, <2>1 DEF FileInv, Overwritten
  <2> QED
    BY <2>1, <2>2 DEF StepNext, StepOK
<1> QED
  BY <1>2, <1>3

LEMMA FileAlways == Spec => [](TypeInv /\ TurnInv /\ FileInv)
<1>1. Init => TurnInv /\ FileInv
  <2> SUFFICES ASSUME Init
               PROVE  TurnInv /\ FileInv
    OBVIOUS
  <2>1. TypeInv
    BY TypeInit
  <2>2. \A i \in Boxes : box[i].state = "none" /\ file[i] = Absent
    BY DEF Init
  <2>3. Steps \subseteq Boxes
    BY <2>1, PlanFacts DEF TypeInv, TypeOK
  <2> QED
    BY <2>2, <2>3 DEF TurnInv, FileInv, StepOK
<1> QED
  BY <1>1, TypeAlways, TurnStep, FileStep, PTL DEF Spec

(* For every chain and layout: when all the steps have exited with 0, the  *)
(* last file holds the whole chain applied to one content, unless a step   *)
(* of an OpenKruise Pod accepts a broken input and read a torn one.        *)
THEOREM HandoffIsFaithful == Spec => []HandoffFaithful
<1>1. TypeInv /\ TurnInv /\ FileInv => HandoffFaithful
  <2> SUFFICES ASSUME TypeInv, FileInv, \A i \in Steps : box[i].state = "ok"
               PROVE  HandoffFaithful
    BY DEF HandoffFaithful
  <2>1. plan \in Plans
    BY DEF TypeInv, TypeOK
  <2>2. Len(plan) \in Steps
    BY <2>1, PlanFacts
  <2>3. ~Overwritten(Len(plan))
    BY <2>1, PlanFacts DEF Overwritten
  <2>4. Faithful(file[OutputFile(Len(plan))], Len(plan))
    BY <2>2, <2>3 DEF FileInv, StepOK
  <2> QED
    BY <2>1, <2>4, PrefixFacts DEF HandoffFaithful, Faithful, Good
<1> QED
  BY <1>1, FileAlways, PTL

-----------------------------------------------------------------------------
(* What the reconciler concludes.                                          *)

\* A reconcile of a Completed chain ends where it starts.
LEMMA VerdictMoves ==
  ASSUME TypeInv, VerdictInv, [Next]_vars, chain.phase = "Completed"
  PROVE  UNCHANGED <<chain, rec>>
<1>1. rec = "idle"
  BY DEF VerdictInv
<1> QED
  BY <1>1 DEF Next, Runner, BoxDies, Reconcile, Cluster, PullForgotten, PullBreaksOff, WriteSource, StartBox,
     ReadInput, WaitOver, Compute, WriteOutput, Stage, PullImages, EnsurePod, Look,
     PullCompletes, PullExpires, vars

\* Only completeChain makes a chain Completed.
LEMMA VerdictMade ==
  ASSUME TypeInv, [Next]_vars, chain.phase # "Completed", chain'.phase = "Completed"
  PROVE  /\ StepsComplete /\ rec' = "idle" /\ UNCHANGED <<box, source>>
         /\ chain'.output # Absent => inline /\ chain'.output = Replayed
<1>1. chain \in Verdicts
  BY DEF TypeInv, TypeOK
<1>2. ASSUME NEW phase \in {"Running", "Error"}
      PROVE  [chain EXCEPT !.phase = phase].phase # "Completed"
  BY <1>1 DEF Verdicts
<1>3. ~failChain /\ ~StillRunning /\ chain' # chain
  BY <1>2 DEF failChain, StillRunning
<1>4. Look
  BY <1>3 DEF Next, Runner, BoxDies, Reconcile, Cluster, PullForgotten, PullBreaksOff, WriteSource, StartBox,
     ReadInput, WaitOver, Compute, WriteOutput, Stage, PullImages, EnsurePod,
     PullCompletes, PullExpires, vars
<1>5. StepsComplete /\ completeChain /\ UNCHANGED <<box, source>>
  BY <1>3, <1>4 DEF Look
<1>6. Completes(Absent) \/ (Completes(Replayed) /\ inline)
  BY <1>3, <1>5 DEF completeChain, CanReplay
<1> QED
  BY <1>5, <1>6 DEF Completes, Goto

\* Steps that have exited with 0 stay so.
LEMMA CompleteStays ==
  ASSUME TypeInv, [Next]_vars, StepsComplete
  PROVE  StepsComplete'
<1>1. Steps' = Steps /\ Steps \subseteq Boxes
  BY Fixed, SameTypes, PlanFacts DEF TypeInv, TypeOK
<1> QED
  BY <1>1, OkStays DEF StepsComplete

LEMMA VerdictStep ==
  ASSUME TypeInv, VerdictInv, [Next]_vars
  PROVE  VerdictInv'
<1>1. UNCHANGED <<plan, inline, earlier>> /\ (inline => source' = source)
  BY Fixed
<1>r. inline => Replayed' = Replayed
  BY <1>1 DEF Replayed, Value, Steps
<1> SUFFICES ASSUME chain'.phase = "Completed"
             PROVE  /\ rec' = "idle"
                    /\ StepsComplete'
                    /\ chain'.output # Absent => inline /\ chain'.output = Replayed
  BY <1>1, <1>r DEF VerdictInv
<1>2. CASE chain.phase = "Completed"
  <2>1. UNCHANGED <<chain, rec>> /\ StepsComplete'
    BY <1>2, VerdictMoves, CompleteStays DEF VerdictInv
  <2> QED
    BY <1>2, <2>1 DEF VerdictInv
<1>3. CASE chain.phase # "Completed"
  BY <1>3, VerdictMade, CompleteStays
<1> QED
  BY <1>2, <1>3

LEMMA VerdictAlways == Spec => [](TypeInv /\ TurnInv /\ FileInv /\ VerdictInv)
<1>1. Init => VerdictInv
  <2> SUFFICES ASSUME Init
               PROVE  VerdictInv
    OBVIOUS
  <2>1. chain = [phase |-> "", content |-> Absent, output |-> Absent]
    BY DEF Init
  <2>2. chain.phase = ""
    BY <2>1
  <2>3. chain.phase # "Completed"
    BY <2>2
  <2> QED
    BY <2>3 DEF VerdictInv
<1> QED
  BY <1>1, FileAlways, VerdictStep, PTL DEF Spec

(* For every chain, layout and history of the store: only a chain whose   *)
(* steps all exited with 0 is Completed, and what the operator's replay    *)
(* reports is what the containers computed, unless the store has rows of   *)
(* other commands for its steps or the containers handed on a torn file.   *)
THEOREM CompletedHasRun == Spec => []CompletedRan
<1>1. TypeInv /\ TurnInv /\ FileInv /\ VerdictInv => CompletedRan
  <2> DEFINE out == file[OutputFile(Len(plan))]
  <2> SUFFICES ASSUME TypeInv, FileInv, VerdictInv, chain.phase = "Completed"
               PROVE  /\ \A i \in Steps : box[i].state = "ok"
                      /\ chain.output # Absent /\ SameCommands =>
                           out = chain.output \/ (Fragile /\ out.content = Torn)
    BY DEF CompletedRan
  <2>1. \A i \in Steps : box[i].state = "ok"
    BY DEF VerdictInv, StepsComplete
  <2>2. plan \in Plans /\ earlier \in Earlier
    BY DEF TypeInv, TypeOK
  <2>3. Len(plan) \in Steps /\ ~Overwritten(Len(plan))
    BY <2>2, PlanFacts DEF Overwritten
  <2>4. Faithful(out, Len(plan))
    BY <2>1, <2>3 DEF FileInv, StepOK
  <2> SUFFICES ASSUME chain.output # Absent, SameCommands, Good(out, Len(plan))
               PROVE  out = chain.output
    BY <2>1, <2>4 DEF Faithful
  <2>5. inline /\ chain.output = Replayed
    BY DEF VerdictInv
  <2>6. out = Value(source, plan)
    BY <2>2, <2>5, PrefixFacts DEF Good
  <2>7. [i \in Steps |-> IF i <= Len(earlier) THEN earlier[i] ELSE plan[i]] = plan
    <3>1. plan \in Seq(STRING) /\ Steps = 1..Len(plan)
      BY <2>2, PlanFacts DEF Steps
    <3>2. plan = [i \in Steps |-> plan[i]]
      BY <3>1
    <3>3. \A i \in Steps : (IF i <= Len(earlier) THEN earlier[i] ELSE plan[i]) = plan[i]
      BY DEF SameCommands
    <3> QED
      BY <3>2, <3>3
  <2> QED
    BY <2>5, <2>6, <2>7 DEF Replayed
<1> QED
  BY <1>1, VerdictAlways, PTL

(* The verdict is final: whatever containers, cluster and source do once a *)
(* chain is Completed, its status does not change, and neither does the    *)
(* file its result was taken from.                                         *)
CompletedIsFinal ==
  [][chain.phase = "Completed" =>
       /\ UNCHANGED chain
       /\ file'[OutputFile(Len(plan))] = file[OutputFile(Len(plan))]]_vars

THEOREM VerdictFinal == Spec => CompletedIsFinal
<1>1. TypeInv /\ VerdictInv /\ [Next]_vars =>
        [chain.phase = "Completed" =>
           /\ UNCHANGED chain
           /\ file'[OutputFile(Len(plan))] = file[OutputFile(Len(plan))]]_vars
  <2> SUFFICES ASSUME TypeInv, VerdictInv, [Next]_vars, chain.phase = "Completed"
               PROVE  /\ UNCHANGED chain
                      /\ file'[OutputFile(Len(plan))] = file[OutputFile(Len(plan))]
    OBVIOUS
  <2>1. UNCHANGED chain
    BY VerdictMoves
  <2>2. plan \in Plans
    BY DEF TypeInv, TypeOK
  <2>3. Len(plan) \in Steps /\ Len(plan) \in Boxes /\ Len(plan) \in Nat \ {0}
    BY <2>2, PlanFacts
  <2>4. OutputFile(Len(plan)) \in Boxes
    BY <2>2, <2>3, BoxFacts
  <2>5. CASE \E i \in Boxes : Runner(i) \/ BoxDies(i)
    <3>1. PICK i \in Boxes : BoxMove(i)
      BY <2>5, BoxMoves
    <3>2. i \notin Steps
      BY <3>1 DEF BoxMove, VerdictInv, StepsComplete
    <3>3. OutputFile(i) # OutputFile(Len(plan))
      BY <2>2, <2>3, <3>2, ExtraBox DEF OutputFile
    <3>4. file'[OutputFile(Len(plan))] = file[OutputFile(Len(plan))]
      BY <2>4, <3>1, <3>3 DEF BoxMove, Written
    <3> QED
      BY <2>1, <3>4
  <2>6. CASE ~ \E i \in Boxes : Runner(i) \/ BoxDies(i)
    BY <2>1, <2>6, OtherSteps
  <2> QED
    BY <2>5, <2>6
<1> QED
  BY <1>1, VerdictAlways, PTL DEF Spec, CompletedIsFinal
=============================================================================
