------------------------ MODULE SubscriptionsProofs ------------------------
(***************************************************************************)
(* Proofs about Subscriptions for every server, queue size and command      *)
(* line: nothing is stored while publishing is off, no command leaves its   *)
(* subscription behind, what subscribe and event-subscribe print is what    *)
(* the item sampled, and the verdicts of the publishing and monitoring      *)
(* scenarios are right.                                                     *)
(*                                                                          *)
(* The argument is in layers. The base is the order of what is on the       *)
(* connection (Ordered); each of the first three results adds an invariant  *)
(* of its own to it. The verdicts need those of the first two: while a      *)
(* scenario is on track a step of the system is one of five moves (Moves),  *)
(* and Publishing and Monitoring follow the values through the queue, the   *)
(* connection and the store move by move.                                   *)
(***************************************************************************)
EXTENDS Subscriptions, SequenceTheorems, TLAPS

Item == [val : Int, over : BOOLEAN]

Ops == {"call", "wait", "pause", "mark", "reset", "report"}

Called == {"create", "monitor", "publish", "mode", "write", "deleteItem", "deleteSub"}

MarkNames == {"disabled", "sampling", "before", "reporting"}

StepType == [op : Ops, kind : Called \cup MarkNames \cup {"count", "more", "none"},
             val : Int]

Request == [id : Nat \ {0}, req : StepType]

Message == [id : Nat, good : BOOLEAN, items : Seq(Item)]

ServerType ==
    [sub : BOOLEAN, item : BOOLEAN, publishing : BOOLEAN, mode : Int,
     size : Nat \ {0}, queue : Seq(Item), last : Int, value : Int,
     throttled : BOOLEAN, oldest : BOOLEAN]

TypeOK ==
    /\ cmd \in AllCommands /\ asked \in Nat
    /\ revised \in [rpi : Nat, rlt : Nat, rmk : Nat]
    /\ pc \in 0 .. Len(Program) + 1
    /\ waiting \in BOOLEAN
    /\ status \in [1 .. Len(Program) -> {"none", "Good", "Bad"}]
    /\ store \in Seq(Item)
    /\ marks \in [MarkNames -> Nat]
    /\ timedOut \in BOOLEAN
    /\ printed \in Seq(Item)
    /\ exit \in Int
    /\ toServer \in Seq(Request)
    /\ toClient \in Seq(Message)
    /\ srv \in ServerType
    /\ sampled \in Seq(Int)
    /\ discarded \in BOOLEAN
    /\ changes \in Nat /\ faults \in Nat
    /\ late \in BOOLEAN /\ dead \in BOOLEAN

(* A call is under way.                                                     *)
CallWaits == waiting => exit = NoExit /\ At("call")

(* Requests and answers are on the connection in the order of their steps,  *)
(* answers first. A step that is over may still have its request, or its    *)
(* answer, under way.                                                       *)
Requests ==
    \A i \in DOMAIN toServer :
        /\ toServer[i].id <= pc
        /\ toServer[i].id = pc => waiting
        /\ toServer[i].id \in 1 .. Len(Program)
        /\ toServer[i].req = Program[toServer[i].id]
        /\ toServer[i].req.op = "call"

RequestOrder ==
    \A i, j \in DOMAIN toServer : i < j => toServer[i].id < toServer[j].id

Answers ==
    \A i \in DOMAIN toClient :
        /\ toClient[i].id <= pc
        /\ toClient[i].id = pc /\ toClient[i].id # 0 => waiting
        /\ toClient[i].id # 0 => toClient[i].items = <<>>

AnswerOrder ==
    \A i, j \in DOMAIN toClient :
        i < j /\ toClient[j].id # 0 => toClient[i].id < toClient[j].id

AnswersFirst ==
    \A i \in DOMAIN toClient, j \in DOMAIN toServer :
        toClient[i].id < toServer[j].id

(* ... but not if its call was Good.                                        *)
GoodIsOver ==
    \A s \in DOMAIN status : status[s] = "Good" =>
        /\ s < pc
        /\ \A i \in DOMAIN toServer : toServer[i].id > s
        /\ \A i \in DOMAIN toClient : toClient[i].id # 0 => toClient[i].id > s

DeadIsSilent == dead => toServer = <<>> /\ toClient = <<>>

Ordered ==
    /\ CallWaits
    /\ Requests /\ RequestOrder
    /\ Answers /\ AnswerOrder
    /\ AnswersFirst
    /\ GoodIsOver
    /\ DeadIsSilent

Base == TypeOK /\ Ordered

(* The step of the DeleteSubscription that every path comes to.             *)
DeleteAt == IF Collecting THEN Len(Program) ELSE Len(Program) - 1

(* A subscription is there from the answer to the first step on, and the    *)
(* command is still to come to the last DeleteSubscription, or that was     *)
(* refused.                                                                 *)
ToDelete ==
    \/ status[DeleteAt] = "Bad"
    \/ /\ exit = NoExit /\ pc \in 1 .. DeleteAt
       /\ pc = 1 => \E i \in DOMAIN toClient :
                       toClient[i].id = 1 /\ toClient[i].good

(* No DeleteSubscription was Good.                                          *)
NotDeleted ==
    \A d \in DOMAIN status : Program[d].kind = "deleteSub" =>
        /\ status[d] # "Good"
        /\ \A i \in DOMAIN toClient : toClient[i].id = d => ~ toClient[i].good

(* While every call had its answer only the call under way is on the        *)
(* connection.                                                              *)
Deleting ==
    ~ late /\ ~ dead =>
        /\ \A i \in DOMAIN toServer : toServer[i].id = pc
        /\ \A i \in DOMAIN toClient : toClient[i].id \in {0, pc}
        /\ srv.sub => ToDelete /\ NotDeleted

(* The two calls of SetPublishingMode.                                      *)
OffAt == 4
OnAt  == 17

(* The call that turns publishing on again was answered.                    *)
Over ==
    \/ pc > OnAt
    \/ /\ pc = OnAt /\ waiting
       /\ dead \/ \E k \in DOMAIN toClient : toClient[k].id = OnAt

(* Publishing was turned off.                                               *)
TurnedOff ==
    \/ status[OffAt] = "Good"
    \/ \E i \in DOMAIN toClient : toClient[i].id = OffAt /\ toClient[i].good

(* From the answer that publishing is off up to the answer that it is on,   *)
(* the server publishes nothing,                                            *)
StaysOff == TurnedOff /\ srv.publishing /\ ~ dead => Over

(* the connection carries no notification after that answer,                *)
OffFirst ==
    \A i, j \in DOMAIN toClient :
        i < j /\ toClient[i].id = OffAt /\ toClient[i].good /\ toClient[j].id = 0 => Over

(* and none arrives.                                                        *)
NoneArrives ==
    status[OffAt] = "Good" /\ ~ Over =>
        /\ \A j \in DOMAIN toClient : toClient[j].id # 0
        /\ pc > OffAt + 1 => store = <<>>

Silent == cmd = "publishing" => StaysOff /\ OffFirst /\ NoneArrives

-----------------------------------------------------------------------------
(* The programs.                                                            *)

(* What the layers need to know of a program p: the subscription is created *)
(* first, an item is created second if at all, d deletes the subscription.  *)
Shape(p, d) ==
    /\ p \in Seq(StepType) /\ Len(p) \in Nat /\ Len(p) >= 3
    /\ p[1].op = "call" /\ p[1].kind = "create"
    /\ d \in 2 .. Len(p) /\ Len(p) - 1 <= d /\ p[d].op = "call" /\ p[d].kind = "deleteSub"
    /\ \A i \in 1 .. Len(p) :
          /\ p[i].kind = "create" => i = 1
          /\ p[i].kind = "monitor" => i = 2 /\ Len(p) >= 5
          /\ p[i].op = "call" => p[i].kind \in Called
          /\ p[i].op = "mark" => p[i].kind \in MarkNames

LEMMA ShapeOfPublishing == Shape(slc_publishing_mode, 19) /\ Len(slc_publishing_mode) = 20
BY DEF slc_publishing_mode, Shape, Create, Monitor, Wait, Pause, Reset, Report, Write,
       DeleteSub, Call, Step, StepType, Ops, Called, MarkNames

LEMMA ShapeOfMonitoring == Shape(slc_monitoring_mode, 20) /\ Len(slc_monitoring_mode) = 21
BY DEF slc_monitoring_mode, Shape, Create, Monitor, Wait, Pause, Reset, Report, Write,
       DeleteSub, Call, Step, StepType, Ops, Called, MarkNames, Mark, Disabled,
       Sampling, Reporting

LEMMA ShapeOfDelete == Shape(slc_delete, 6) /\ Len(slc_delete) = 7
BY DEF slc_delete, Shape, Create, Monitor, Report,
       DeleteSub, Call, Step, StepType, Ops, Called, MarkNames

LEMMA ShapeOfRevise == Shape(slc_revise, 2) /\ Len(slc_revise) = 3
BY DEF slc_revise, Shape, Create, Report,
       DeleteSub, Call, Step, StepType, Ops, Called, MarkNames

LEMMA ShapeOfCollecting ==
  ASSUME NEW n \in Nat
  PROVE  LET p == <<Create, Monitor, Wait(n), Report, DeleteSub>>
         IN  Shape(p, 5) /\ Len(p) = 5
BY DEF Shape, Create, Monitor, Report, Wait,
       DeleteSub, Call, Step, StepType, Ops, Called, MarkNames

LEMMA AtMostIsNat ==
  ASSUME NEW n \in Nat, NEW cap \in Nat PROVE AtMost(n, cap) \in Nat
BY DEF AtMost

(* The program of the command that runs.                                    *)
LEMMA ProgramShape ==
  ASSUME cmd \in AllCommands, asked \in Nat
  PROVE  /\ Shape(Program, DeleteAt)
         /\ cmd = "publishing" => Program = slc_publishing_mode
         /\ Collecting => /\ Len(Program) = 5
                          /\ Program = <<Create, Monitor, Wait(AtMost(asked, StoreCap)),
                                         Report, DeleteSub>>
<1>0. /\ AtMost(asked, MaxNotifications) \in Nat /\ AtMost(asked, MaxEvents) \in Nat
  BY AtMostIsNat, SubscriptionAssumption
<1>1. CASE cmd = "subscribe"
  <2>1. Program = <<Create, Monitor, Wait(AtMost(asked, StoreCap)), Report, DeleteSub>>
    BY <1>1 DEF Program, cmd_subscribe, WantedNotifications, StoreCap
  <2>2. Collecting /\ StoreCap = MaxNotifications /\ cmd # "publishing"
    BY <1>1 DEF Collecting, StoreCap
  <2>. QED  BY <1>0, <2>1, <2>2, ShapeOfCollecting DEF DeleteAt
<1>2. CASE cmd = "events"
  <2>1. Program = <<Create, Monitor, Wait(AtMost(asked, StoreCap)), Report, DeleteSub>>
    BY <1>2 DEF Program, cmd_event_subscribe, WantedEvents, StoreCap
  <2>2. Collecting /\ StoreCap = MaxEvents /\ cmd # "publishing"
    BY <1>2 DEF Collecting, StoreCap
  <2>. QED  BY <1>0, <2>1, <2>2, ShapeOfCollecting DEF DeleteAt
<1>3. CASE cmd = "revise"
  <2>1. Program = slc_revise /\ ~ Collecting
    BY <1>3 DEF Program, Collecting
  <2>2. DeleteAt = 2
    BY <2>1, ShapeOfRevise DEF DeleteAt
  <2>. QED  BY <1>3, <2>1, <2>2, ShapeOfRevise
<1>4. CASE cmd = "publishing"
  <2>1. Program = slc_publishing_mode /\ ~ Collecting
    BY <1>4 DEF Program, Collecting
  <2>2. DeleteAt = 19
    BY <2>1, ShapeOfPublishing DEF DeleteAt
  <2>. QED  BY <1>4, <2>1, <2>2, ShapeOfPublishing
<1>5. CASE cmd = "monitoring"
  <2>1. Program = slc_monitoring_mode /\ ~ Collecting
    BY <1>5 DEF Program, Collecting
  <2>2. DeleteAt = 20
    BY <2>1, ShapeOfMonitoring DEF DeleteAt
  <2>. QED  BY <1>5, <2>1, <2>2, ShapeOfMonitoring
<1>6. CASE cmd = "delete"
  <2>1. Program = slc_delete /\ ~ Collecting
    BY <1>6 DEF Program, Collecting
  <2>2. DeleteAt = 6
    BY <2>1, ShapeOfDelete DEF DeleteAt
  <2>. QED  BY <1>6, <2>1, <2>2, ShapeOfDelete
<1>. QED  BY <1>1, <1>2, <1>3, <1>4, <1>5, <1>6 DEF AllCommands

(* It does not change.                                                      *)
LEMMA SameProgram ==
  ASSUME UNCHANGED <<cmd, asked>>
  PROVE  /\ Program' = Program /\ DeleteAt' = DeleteAt
         /\ (Collecting <=> Collecting') /\ StoreCap' = StoreCap
BY DEF Program, DeleteAt, Collecting, StoreCap, cmd_subscribe, cmd_event_subscribe,
       WantedNotifications, WantedEvents, slc_revise, slc_publishing_mode,
       slc_monitoring_mode, slc_delete

-----------------------------------------------------------------------------
(* Sequences.                                                               *)

LEMMA TailFacts ==
  ASSUME NEW S, NEW s \in Seq(S), s # <<>>
  PROVE  /\ 1 \in DOMAIN s /\ Head(s) = s[1] /\ Head(s) \in S
         /\ Tail(s) \in Seq(S) /\ Len(Tail(s)) = Len(s) - 1
         /\ \A i \in DOMAIN Tail(s) :
               i \in Nat \ {0} /\ i + 1 \in DOMAIN s /\ Tail(s)[i] = s[i + 1]
BY HeadTailProperties, LenProperties, EmptySeq

LEMMA AppendFacts ==
  ASSUME NEW S, NEW s \in Seq(S), NEW e \in S
  PROVE  /\ Append(s, e) \in Seq(S) /\ Len(Append(s, e)) = Len(s) + 1
         /\ Append(s, e)[Len(s) + 1] = e
         /\ \A i \in DOMAIN s : i \in DOMAIN Append(s, e) /\ Append(s, e)[i] = s[i]
         /\ \A i \in DOMAIN Append(s, e) :
               \/ i \in DOMAIN s /\ Append(s, e)[i] = s[i]
               \/ i = Len(s) + 1 /\ Append(s, e)[i] = e
BY AppendProperties, LenProperties

LEMMA EmptyFacts ==
  ASSUME NEW S PROVE <<>> \in Seq(S) /\ DOMAIN <<>> = {} /\ Len(<<>>) = 0
BY EmptySeq

-----------------------------------------------------------------------------
(* The server's state.                                                      *)

LEMMA EnqueueTyped ==
  ASSUME NEW s \in ServerType PROVE Enqueue(s) \in Seq(Item)
<1>. DEFINE over == (Len(s.queue) = s.size /\ s.size > 1)
            new == [val |-> s.value, over |-> over]
            old == Tail(s.queue)
<1>1. /\ s.queue \in Seq(Item) /\ s.size \in Nat \ {0} /\ s.value \in Int
      /\ s.oldest \in BOOLEAN
  BY DEF ServerType
<1>2. new \in Item
  BY <1>1 DEF Item
<1>. HIDE DEF new
<1>3. CASE Len(s.queue) < s.size
  <2>1. Enqueue(s) = Append(s.queue, new)
    BY <1>3 DEF Enqueue, new
  <2>. QED  BY <1>1, <1>2, <2>1
<1>4. CASE ~ (Len(s.queue) < s.size)
  <2>1. s.queue # <<>> /\ Len(s.queue) \in Nat /\ s.size \in 1 .. Len(s.queue)
    BY <1>1, <1>4
  <2>2. old \in Seq(Item)
    BY <1>1, <2>1
  <2>3. CASE Len(s.queue) = s.size /\ ~s.oldest
    <3>1. Enqueue(s) = [s.queue EXCEPT ![s.size] = new]
      BY <1>4, <2>3 DEF Enqueue, new
    <3>. QED  BY <1>1, <1>2, <2>1, <3>1, ExceptSeq
  <2>4. CASE ~ (Len(s.queue) = s.size /\ ~s.oldest) /\ s.size = 1
    <3>1. Enqueue(s) = <<new>>
      BY <1>4, <2>4 DEF Enqueue, new
    <3>. QED  BY <1>2, <3>1
  <2>5. CASE ~ (Len(s.queue) = s.size /\ ~s.oldest) /\ s.size # 1
    <3>1. Enqueue(s) = Append([old EXCEPT ![1].over = TRUE], [new EXCEPT !.over = FALSE])
      BY <1>4, <2>5 DEF Enqueue, new
    <3>2. [new EXCEPT !.over = FALSE] \in Item
      BY <1>2 DEF Item
    <3>3. Len(old) >= 1
      BY <1>1, <2>1, <2>5, HeadTailProperties
    <3>. HIDE DEF old
    <3>4. PICK e : e = [old[1] EXCEPT !.over = TRUE]
      OBVIOUS
    <3>5. old[1] \in Item /\ TRUE \in BOOLEAN
      BY <2>2, <3>3, ElementOfSeq
    <3>6. e \in Item
      BY <3>4, <3>5 DEF Item
    <3>7. [old EXCEPT ![1].over = TRUE] = [old EXCEPT ![1] = e]
      BY <3>4
    <3>8. [old EXCEPT ![1] = e] \in Seq(Item)
      BY <2>2, <3>3, <3>6, ExceptSeq
    <3>9. \A o \in Seq(Item), n \in Item : Append(o, n) \in Seq(Item)
      OBVIOUS
    <3>. QED  BY <3>1, <3>2, <3>7, <3>8, <3>9, Zenon
  <2>. QED  BY <2>3, <2>4, <2>5
<1>. QED  BY <1>3, <1>4

(* Sampling leaves everything but the queue alone.                          *)
SameServer(s, t) ==
    /\ t.sub = s.sub /\ t.item = s.item /\ t.publishing = s.publishing
    /\ t.size = s.size /\ t.value = s.value

LEMMA BecomesTyped ==
  ASSUME sampled \in Seq(Int), discarded \in BOOLEAN,
         NEW s \in ServerType, NEW now \in BOOLEAN, ServerBecomes(s, now)
  PROVE  /\ srv' \in ServerType /\ sampled' \in Seq(Int) /\ discarded' \in BOOLEAN
         /\ SameServer(s, srv')
<1>1. CASE now /\ Sampleable(s)
  <2>1. /\ srv' = [s EXCEPT !.queue = Enqueue(s), !.last = s.value]
        /\ sampled' = Append(sampled, s.value)
        /\ discarded' = (discarded \/ Len(s.queue) = s.size)
    BY <1>1 DEF ServerBecomes
  <2>2. Enqueue(s) \in Seq(Item) /\ s.value \in Int
    BY EnqueueTyped DEF ServerType
  <2>3. srv' \in ServerType
    BY <2>1, <2>2 DEF ServerType
  <2>4. SameServer(s, srv')
    BY <2>1 DEF ServerType, SameServer
  <2>5. sampled' \in Seq(Int)
    BY <2>1, <2>2
  <2>6. discarded' \in BOOLEAN
    BY <2>1
  <2>. QED  BY <2>3, <2>4, <2>5, <2>6
<1>2. CASE ~ (now /\ Sampleable(s))
  BY <1>2 DEF ServerBecomes, SameServer
<1>. QED  BY <1>1, <1>2

LEMMA EffectTyped ==
  ASSUME srv \in ServerType, NEW req \in StepType, req.kind \in Called,
         NEW size \in Nat \ {0}
  PROVE  /\ Effect(req, size) \in ServerType
         /\ Effect(req, size).sub =
              IF req.kind = "create" THEN TRUE
              ELSE IF req.kind = "deleteSub" THEN FALSE ELSE srv.sub
         /\ Effect(req, size).publishing =
              IF req.kind = "publish" THEN req.val = 1 ELSE srv.publishing
<1>0. req.val \in Int /\ TRUE \in BOOLEAN /\ FALSE \in BOOLEAN /\ <<>> \in Seq(Item)
      /\ (req.val = 1) \in BOOLEAN /\ NoValue \in Int /\ Disabled \in Int
      /\ srv.value \in Int
  BY EmptySeq DEF StepType, NoValue, Disabled, ServerType
<1>1. CASE req.kind = "create"
  BY <1>0, <1>1 DEF Effect, ServerType
<1>2. CASE req.kind = "monitor"
  BY <1>0, <1>2 DEF Effect, ServerType
<1>3. CASE req.kind = "publish"
  BY <1>0, <1>3 DEF Effect, ServerType
<1>4. CASE req.kind = "mode"
  BY <1>0, <1>4 DEF Effect, ServerType
<1>5. CASE req.kind = "write"
  BY <1>0, <1>5 DEF Effect, ServerType
<1>6. CASE req.kind = "deleteItem"
  BY <1>0, <1>6 DEF Effect, ServerType
<1>7. CASE req.kind = "deleteSub"
  BY <1>0, <1>7 DEF Effect, ServerType
<1>. QED  BY <1>1, <1>2, <1>3, <1>4, <1>5, <1>6, <1>7 DEF Called

-----------------------------------------------------------------------------
(* The base layer: types and the order on the connection.                   *)

LEMMA ShapeHere == ASSUME TypeOK PROVE Shape(Program, DeleteAt)
BY ProgramShape DEF TypeOK

(* The types of what a step may leave alone.                                *)
ClientTypes ==
    /\ pc \in 0 .. Len(Program) + 1 /\ waiting \in BOOLEAN
    /\ status \in [1 .. Len(Program) -> {"none", "Good", "Bad"}]
    /\ store \in Seq(Item) /\ marks \in [MarkNames -> Nat]
    /\ timedOut \in BOOLEAN /\ printed \in Seq(Item) /\ exit \in Int

ServerTypes ==
    /\ srv \in ServerType /\ sampled \in Seq(Int) /\ discarded \in BOOLEAN

FixedTypes ==
    /\ cmd \in AllCommands /\ asked \in Nat
    /\ revised \in [rpi : Nat, rlt : Nat, rmk : Nat]

LinkTypes == toServer \in Seq(Request) /\ toClient \in Seq(Message)

CountTypes == changes \in Nat /\ faults \in Nat /\ late \in BOOLEAN /\ dead \in BOOLEAN

LEMMA TypesSplit ==
  TypeOK <=> ClientTypes /\ ServerTypes /\ FixedTypes /\ LinkTypes /\ CountTypes
BY Zenon DEF TypeOK, ClientTypes, ServerTypes, FixedTypes, LinkTypes, CountTypes

LEMMA TypesJoin ==
  ASSUME ClientTypes', ServerTypes', FixedTypes', LinkTypes', CountTypes' PROVE TypeOK'
BY Zenon DEF TypeOK, ClientTypes, ServerTypes, FixedTypes, LinkTypes, CountTypes

LEMMA FixedKept == ASSUME FixedTypes, UNCHANGED fixed PROVE FixedTypes'
BY Zenon DEF FixedTypes, fixed

LEMMA ServerKept == ASSUME ServerTypes, UNCHANGED server PROVE ServerTypes'
BY Zenon DEF ServerTypes, server

LEMMA ProgramKept == ASSUME UNCHANGED fixed PROVE Program' = Program /\ DeleteAt' = DeleteAt
BY SameProgram DEF fixed

LEMMA ClientKept ==
  ASSUME ClientTypes, UNCHANGED <<client, fixed>> PROVE ClientTypes'
<1>1. Program' = Program
  BY ProgramKept
<1>. QED  BY <1>1, Zenon DEF ClientTypes, client

(* Where the numbers are.                                                   *)
Numbers ==
    /\ pc \in Nat /\ Len(Program) \in Nat
    /\ \A i \in DOMAIN toServer : i \in Nat \ {0} /\ toServer[i].id \in Nat \ {0}
    /\ \A i \in DOMAIN toClient : i \in Nat \ {0} /\ toClient[i].id \in Nat
    /\ DOMAIN status = 1 .. Len(Program)

LEMMA NumbersHere == ASSUME Base PROVE Numbers
<1>1. TypeOK /\ Len(Program) \in Nat
  BY ShapeHere DEF Base, Shape
<1>2. pc \in Nat /\ DOMAIN status = 1 .. Len(Program)
  BY <1>1 DEF TypeOK
<1>3. ASSUME NEW i \in DOMAIN toServer PROVE i \in Nat \ {0} /\ toServer[i].id \in Nat \ {0}
  <2>1. toServer \in Seq(Request)
    BY <1>1 DEF TypeOK
  <2>2. i \in 1 .. Len(toServer) /\ Len(toServer) \in Nat /\ toServer[i] \in Request
    BY <2>1, LenProperties, ElementOfSeq
  <2>. QED  BY <2>2 DEF Request
<1>4. ASSUME NEW i \in DOMAIN toClient PROVE i \in Nat \ {0} /\ toClient[i].id \in Nat
  <2>1. toClient \in Seq(Message)
    BY <1>1 DEF TypeOK
  <2>2. i \in 1 .. Len(toClient) /\ Len(toClient) \in Nat /\ toClient[i] \in Message
    BY <2>1, LenProperties, ElementOfSeq
  <2>. QED  BY <2>2 DEF Message
<1>. QED  BY <1>1, <1>2, <1>3, <1>4 DEF Numbers

(* A step that leaves the connection alone and no call is under way.        *)
LEMMA Advances ==
  ASSUME Base, ~ waiting, UNCHANGED <<fixed, waiting, status, toServer, toClient, dead>>,
         pc' \in Nat, pc <= pc'
  PROVE  Ordered'
<1>1. Program' = Program
  BY ProgramKept
<1>2. Numbers
  BY NumbersHere
<1>3. CallWaits'
  BY DEF CallWaits
<1>4. Requests'
  BY <1>1, <1>2 DEF Base, Ordered, Requests, Numbers
<1>5. RequestOrder' /\ AnswerOrder' /\ AnswersFirst' /\ DeadIsSilent'
  BY DEF Base, Ordered, RequestOrder, AnswerOrder, AnswersFirst, DeadIsSilent
<1>6. Answers'
  BY <1>2 DEF Base, Ordered, Answers, Numbers
<1>7. GoodIsOver'
  BY <1>2 DEF Base, Ordered, GoodIsOver, Numbers
<1>. QED  BY <1>3, <1>4, <1>5, <1>6, <1>7 DEF Ordered

(* A step of the server that leaves the connection alone.                   *)
LEMMA Stays ==
  ASSUME Base, UNCHANGED <<client, fixed, toServer, toClient, dead>>
  PROVE  Ordered'
<1>1. Program' = Program
  BY ProgramKept
<1>2. UNCHANGED <<pc, waiting, status, exit, toServer, toClient, dead>>
  BY DEF client
<1>3. CallWaits'
  BY <1>1, <1>2 DEF Base, Ordered, CallWaits, At, Running, Current
<1>4. Requests'
  BY <1>1, <1>2 DEF Base, Ordered, Requests
<1>5. RequestOrder' /\ AnswerOrder' /\ AnswersFirst' /\ DeadIsSilent'
  BY <1>2 DEF Base, Ordered, RequestOrder, AnswerOrder, AnswersFirst, DeadIsSilent
<1>6. Answers'
  BY <1>2 DEF Base, Ordered, Answers
<1>7. GoodIsOver'
  BY <1>2 DEF Base, Ordered, GoodIsOver
<1>. QED  BY <1>3, <1>4, <1>5, <1>6, <1>7 DEF Ordered

LEMMA InitBase == ASSUME Init PROVE Base
<1>1. FixedTypes
  <2>1. cmd \in AllCommands
    BY SubscriptionAssumption DEF Init
  <2>2. asked \in Nat
    <3>1. Asked \cup {0} \subseteq Nat
      BY SubscriptionAssumption
    <3>. QED  BY <3>1 DEF Init
  <2>3. revised \in [rpi : Nat, rlt : Nat, rmk : Nat]
    <3>1. NoRevision \in [rpi : Nat, rlt : Nat, rmk : Nat]
      BY DEF NoRevision
    <3>2. Revisions \subseteq [rpi : Nat, rlt : Nat, rmk : Nat]
      BY SubscriptionAssumption
    <3>. QED  BY <3>1, <3>2 DEF Init
  <2>. QED  BY <2>1, <2>2, <2>3 DEF FixedTypes
<1>2. Shape(Program, DeleteAt)
  BY <1>1, ProgramShape DEF FixedTypes
<1>3. ClientTypes
  <2>1. Len(Program) \in Nat
    BY <1>2 DEF Shape
  <2>2. pc \in 0 .. Len(Program) + 1 /\ waiting \in BOOLEAN /\ exit \in Int
        /\ timedOut \in BOOLEAN
    <3>1. pc = 0 /\ waiting = FALSE /\ exit = NoExit /\ timedOut = FALSE
      BY Zenon DEF Init
    <3>2. pc \in 0 .. Len(Program) + 1 /\ exit \in Int
      BY <2>1, <3>1 DEF NoExit
    <3>3. FALSE \in BOOLEAN
      OBVIOUS
    <3>. QED  BY <3>1, <3>2, <3>3, Zenon
  <2>3. status \in [1 .. Len(Program) -> {"none", "Good", "Bad"}]
    BY DEF Init
  <2>4. store \in Seq(Item) /\ printed \in Seq(Item)
    BY EmptySeq DEF Init
  <2>5. marks \in [MarkNames -> Nat]
    BY DEF Init, MarkNames
  <2>. QED  BY <2>2, <2>3, <2>4, <2>5 DEF ClientTypes
<1>4. ServerTypes
  <2>1. PICK v \in Initials, t \in BOOLEAN, o \in BOOLEAN :
          srv = [NoItem EXCEPT !.value = v, !.throttled = (t /\ cmd # "events"),
                               !.oldest = (o \/ cmd # "subscribe")]
    BY DEF Init
  <2>2. v \in Int /\ (t /\ cmd # "events") \in BOOLEAN /\ (o \/ cmd # "subscribe") \in BOOLEAN
    BY SubscriptionAssumption
  <2>3. NoItem \in ServerType
    BY EmptySeq DEF NoItem, ServerType, NoValue, Reporting
  <2>4. srv \in ServerType
    BY <2>1, <2>2, <2>3 DEF ServerType
  <2>5. sampled \in Seq(Int) /\ discarded \in BOOLEAN
    BY EmptySeq DEF Init
  <2>. QED  BY <2>4, <2>5 DEF ServerTypes
<1>5. LinkTypes
  BY EmptySeq DEF LinkTypes, Init
<1>6. CountTypes
  BY DEF CountTypes, Init
<1>7. DOMAIN toServer = {} /\ DOMAIN toClient = {} /\ waiting = FALSE /\ dead = FALSE
  BY EmptyFacts DEF Init
<1>8. CallWaits /\ Requests /\ RequestOrder /\ Answers /\ AnswerOrder /\ AnswersFirst
      /\ DeadIsSilent
  BY <1>7 DEF CallWaits, Requests, RequestOrder, Answers, AnswerOrder, AnswersFirst,
              DeadIsSilent
<1>9. GoodIsOver
  <2>1. \A s \in DOMAIN status : status[s] # "Good"
    BY DEF Init
  <2>. QED  BY <2>1 DEF GoodIsOver
<1>. QED  BY <1>1, <1>3, <1>4, <1>5, <1>6, <1>8, <1>9, TypesSplit DEF Base, Ordered

(* No call is under way at a step of another kind.                          *)
LEMMA NotWaiting ==
  ASSUME Base, NEW op, At(op), op # "call" PROVE ~ waiting
BY DEF Base, Ordered, CallWaits, At

LEMMA AtIs ==
  ASSUME TypeOK, NEW op, At(op)
  PROVE  /\ pc \in 1 .. Len(Program) /\ pc + 1 \in 0 .. Len(Program) + 1 /\ pc + 1 \in Nat
         /\ pc <= pc + 1 /\ Current \in StepType /\ Current.op = op /\ exit = NoExit
<1>1. Len(Program) \in Nat /\ Program \in Seq(StepType)
  BY ShapeHere DEF Shape
<1>2. pc \in 1 .. Len(Program) /\ Current.op = op /\ exit = NoExit
  BY DEF At, Running
<1>3. Current \in StepType
  BY <1>1, <1>2, ElementOfSeq DEF Current
<1>. QED  BY <1>1, <1>2, <1>3

LEMMA ConnectBase == ASSUME Base, Connect PROVE Base'
<1>0. TypeOK /\ Numbers /\ Len(Program) >= 3
  BY NumbersHere, ShapeHere DEF Base, Shape
<1>1. /\ pc = 0 /\ pc' \in {0, 1} /\ exit' \in Int
      /\ UNCHANGED <<waiting, status, store, marks, timedOut, printed, server, fixed,
                     toServer, toClient, changes, faults, late, dead>>
  BY <1>0 DEF Connect, TypeOK, NotConfigured, NotConnected, UnknownNamespace
<1>2. Program' = Program
  BY <1>1, ProgramKept
<1>3. ClientTypes'
  <2>1. pc' \in 0 .. Len(Program) + 1
    BY <1>0, <1>1 DEF Numbers
  <2>. QED  BY <1>0, <1>1, <1>2, <2>1, TypesSplit, Zenon DEF ClientTypes
<1>4. ServerTypes' /\ FixedTypes'
  BY <1>0, <1>1, TypesSplit, FixedKept, ServerKept
<1>5. LinkTypes' /\ CountTypes'
  BY <1>0, <1>1, TypesSplit, Zenon DEF LinkTypes, CountTypes
<1>6. ~ waiting
  BY <1>1, <1>0 DEF Base, Ordered, CallWaits, At, Running, Numbers
<1>7. Ordered'
  <2>1. pc' \in Nat /\ pc <= pc'
    BY <1>1
  <2>. QED  BY <1>1, <1>6, <2>1, Advances
<1>. QED  BY <1>3, <1>4, <1>5, <1>7, TypesJoin DEF Base

LEMMA WaitDoneBase == ASSUME Base, WaitDone PROVE Base'
<1>0. TypeOK /\ At("wait") /\ ~ waiting
  BY NotWaiting DEF Base, WaitDone
<1>1. /\ pc' = pc + 1
      /\ UNCHANGED <<waiting, status, store, marks, timedOut, printed, exit, server,
                     fixed, toServer, toClient, changes, faults, late, dead>>
  BY DEF WaitDone
<1>2. Program' = Program
  BY <1>1, ProgramKept
<1>3. ClientTypes'
  <2>1. pc' \in 0 .. Len(Program) + 1
    BY <1>0, <1>1, AtIs
  <2>. QED  BY <1>0, <1>1, <1>2, <2>1, TypesSplit, Zenon DEF ClientTypes
<1>4. ServerTypes' /\ FixedTypes'
  BY <1>0, <1>1, TypesSplit, FixedKept, ServerKept
<1>5. LinkTypes' /\ CountTypes'
  BY <1>0, <1>1, TypesSplit, Zenon DEF LinkTypes, CountTypes
<1>6. Ordered'
  <2>1. pc' \in Nat /\ pc <= pc'
    BY <1>0, <1>1, AtIs
  <2>. QED  BY <1>0, <1>1, <2>1, Advances
<1>. QED  BY <1>3, <1>4, <1>5, <1>6, TypesJoin DEF Base

LEMMA TimeUpBase == ASSUME Base, TimeUp PROVE Base'
<1>0. TypeOK /\ (At("wait") \/ At("pause")) /\ ~ waiting
  BY NotWaiting DEF Base, TimeUp
<1>1. /\ pc' = pc + 1 /\ timedOut' \in BOOLEAN
      /\ UNCHANGED <<waiting, status, store, marks, printed, exit, server,
                     fixed, toServer, toClient, changes, faults, late, dead>>
  BY DEF TimeUp
<1>2. Program' = Program
  BY <1>1, ProgramKept
<1>3. pc' \in 0 .. Len(Program) + 1 /\ pc' \in Nat /\ pc <= pc'
  BY <1>0, <1>1, AtIs
<1>4. ClientTypes'
  BY <1>0, <1>1, <1>2, <1>3, TypesSplit, Zenon DEF ClientTypes
<1>5. ServerTypes' /\ FixedTypes'
  BY <1>0, <1>1, TypesSplit, FixedKept, ServerKept
<1>6. LinkTypes' /\ CountTypes'
  BY <1>0, <1>1, TypesSplit, Zenon DEF LinkTypes, CountTypes
<1>7. Ordered'
  BY <1>0, <1>1, <1>3, Advances
<1>. QED  BY <1>4, <1>5, <1>6, <1>7, TypesJoin DEF Base

LEMMA StepLocalBase == ASSUME Base, StepLocal PROVE Base'
<1>0. TypeOK /\ (At("reset") \/ At("mark") \/ At("report")) /\ ~ waiting
  BY NotWaiting DEF Base, StepLocal
<1>1. /\ pc' = pc + 1
      /\ UNCHANGED <<waiting, status, timedOut, exit, server, fixed, toServer,
                     toClient, changes, faults, late, dead>>
  BY DEF StepLocal
<1>2. Program' = Program
  BY <1>1, ProgramKept
<1>3. pc' \in 0 .. Len(Program) + 1 /\ pc' \in Nat /\ pc <= pc'
  BY <1>0, <1>1, AtIs
<1>4. store' \in Seq(Item) /\ printed' \in Seq(Item) /\ marks' \in [MarkNames -> Nat]
  <2>1. store \in Seq(Item) /\ printed \in Seq(Item) /\ marks \in [MarkNames -> Nat]
    BY <1>0 DEF TypeOK
  <2>2. CASE At("reset") /\ store' = <<>> /\ UNCHANGED <<marks, printed>>
    BY <2>1, <2>2
  <2>3. CASE /\ At("mark") /\ marks' = [marks EXCEPT ![Current.kind] = Len(store)]
             /\ UNCHANGED <<store, printed>>
    <3>1. Len(store) \in Nat
      BY <2>1, LenProperties
    <3>2. [marks EXCEPT ![Current.kind] = Len(store)] \in [MarkNames -> Nat]
      BY <2>1, <3>1
    <3>. QED  BY <2>1, <2>3, <3>2
  <2>4. CASE At("report") /\ printed' = store /\ UNCHANGED <<store, marks>>
    BY <2>1, <2>4
  <2>. QED  BY <2>2, <2>3, <2>4 DEF StepLocal
<1>5. ClientTypes'
  BY <1>0, <1>1, <1>2, <1>3, <1>4, TypesSplit, Zenon DEF ClientTypes
<1>6. ServerTypes' /\ FixedTypes'
  BY <1>0, <1>1, TypesSplit, FixedKept, ServerKept
<1>7. LinkTypes' /\ CountTypes'
  BY <1>0, <1>1, TypesSplit, Zenon DEF LinkTypes, CountTypes
<1>8. Ordered'
  BY <1>0, <1>1, <1>3, Advances
<1>. QED  BY <1>5, <1>6, <1>7, <1>8, TypesJoin DEF Base

LEMMA FinishBase == ASSUME Base, Finish PROVE Base'
<1>0. TypeOK /\ pc > Len(Program) /\ Numbers
  BY NumbersHere DEF Base, Finish
<1>1. /\ exit' = ExitCode
      /\ UNCHANGED <<pc, waiting, status, store, marks, timedOut, printed, server,
                     fixed, toServer, toClient, changes, faults, late, dead>>
  BY DEF Finish
<1>2. Program' = Program
  BY <1>1, ProgramKept
<1>3. ExitCode \in Int
  BY DEF ExitCode
<1>4. ClientTypes'
  BY <1>0, <1>1, <1>2, <1>3, TypesSplit, Zenon DEF ClientTypes
<1>5. ServerTypes' /\ FixedTypes'
  BY <1>0, <1>1, TypesSplit, FixedKept, ServerKept
<1>6. LinkTypes' /\ CountTypes'
  BY <1>0, <1>1, TypesSplit, Zenon DEF LinkTypes, CountTypes
<1>7. ~ waiting
  BY <1>0 DEF Base, Ordered, CallWaits, At, Running, Numbers
<1>8. Ordered'
  <2>1. pc' \in Nat /\ pc <= pc'
    BY <1>0, <1>1 DEF Numbers
  <2>. QED  BY <1>1, <1>7, <2>1, Advances
<1>. QED  BY <1>4, <1>5, <1>6, <1>8, TypesJoin DEF Base

LEMMA StepCallBase == ASSUME Base, StepCall PROVE Base'
<1>0. TypeOK /\ At("call") /\ ~ waiting /\ Numbers
  BY NumbersHere DEF Base, StepCall
<1>1. /\ waiting' = TRUE
      /\ UNCHANGED <<pc, status, store, marks, timedOut, printed, exit, server, fixed,
                     toClient, changes, faults, late, dead>>
  BY DEF StepCall
<1>2. Program' = Program
  BY <1>1, ProgramKept
<1>3. /\ pc \in 1 .. Len(Program) /\ Current \in StepType /\ Current.op = "call"
      /\ exit = NoExit
  BY <1>0, AtIs
<1>4. ClientTypes'
  <2>1. TRUE \in BOOLEAN
    OBVIOUS
  <2>. QED  BY <1>0, <1>1, <1>2, <2>1, TypesSplit, Zenon DEF ClientTypes
<1>5. ServerTypes' /\ FixedTypes'
  BY <1>0, <1>1, TypesSplit, FixedKept, ServerKept
<1>6. CountTypes'
  BY <1>0, <1>1, TypesSplit, Zenon DEF CountTypes
<1>7. CallWaits'
  <2>1. Running' /\ Current' = Current
    BY <1>1, <1>2, <1>3 DEF Running, Current
  <2>. QED  BY <1>1, <1>3, <2>1 DEF CallWaits, At
<1>8. PICK m : m = [id |-> pc, req |-> Current]
  OBVIOUS
<1>9. m \in Request /\ m.id = pc /\ m.req = Current
  BY <1>0, <1>3, <1>8 DEF Request, Numbers
<1>10. /\ toServer \in Seq(Request) /\ toClient \in Seq(Message)
       /\ toServer' = IF dead THEN toServer ELSE Append(toServer, m)
  BY <1>0, <1>8 DEF StepCall, TypeOK
<1>11. /\ toServer' \in Seq(Request)
       /\ \A i \in DOMAIN toServer' :
             \/ i \in DOMAIN toServer /\ toServer'[i] = toServer[i]
             \/ i = Len(toServer) + 1 /\ toServer'[i] = m
  BY <1>9, <1>10, AppendFacts
<1>12. LinkTypes'
  BY <1>1, <1>10, <1>11 DEF LinkTypes
<1>13. \A i \in DOMAIN toServer : toServer[i].id < pc
  BY <1>0 DEF Base, Ordered, Requests, Numbers
<1>14. Requests'
  BY <1>0, <1>1, <1>2, <1>3, <1>9, <1>11 DEF Base, Ordered, Requests, Numbers, Current
<1>15. RequestOrder'
  <2>1. \A i \in DOMAIN toServer : i <= Len(toServer) /\ Len(toServer) \in Nat
    BY <1>10, LenProperties
  <2>. QED  BY <1>0, <1>9, <1>11, <1>13, <2>1 DEF Base, Ordered, RequestOrder, Numbers
<1>16. Answers' /\ AnswerOrder'
  BY <1>1 DEF Base, Ordered, Answers, AnswerOrder
<1>17. \A i \in DOMAIN toClient : toClient[i].id < pc
  BY <1>0, <1>3 DEF Base, Ordered, Answers, Numbers
<1>18. AnswersFirst'
  BY <1>1, <1>9, <1>11, <1>17 DEF Base, Ordered, AnswersFirst
<1>19. GoodIsOver'
  BY <1>0, <1>1, <1>9, <1>11 DEF Base, Ordered, GoodIsOver, Numbers
<1>20. DeadIsSilent'
  BY <1>1, <1>10 DEF Base, Ordered, DeadIsSilent
<1>21. Ordered'
  BY <1>7, <1>14, <1>15, <1>16, <1>18, <1>19, <1>20 DEF Ordered
<1>. QED  BY <1>4, <1>5, <1>6, <1>12, <1>21, TypesJoin DEF Base

(* The server takes the next request from the connection and answers it.    *)
LEMMA Answered ==
  ASSUME Base, ~ dead, toServer # <<>>, NEW good \in BOOLEAN,
         UNCHANGED <<client, fixed, dead>>,
         toServer' = Tail(toServer),
         toClient' = Append(toClient, Response(Head(toServer), good))
  PROVE  /\ Ordered' /\ LinkTypes'
         /\ Head(toServer).id \in 1 .. Len(Program)
         /\ Head(toServer).req = Program[Head(toServer).id]
         /\ Head(toServer).req \in StepType /\ Head(toServer).req.kind \in Called
         /\ \A i \in DOMAIN toClient : i \in DOMAIN toClient' /\ toClient'[i] = toClient[i]
         /\ Len(toClient) + 1 \in DOMAIN toClient'
         /\ toClient'[Len(toClient) + 1] = Response(Head(toServer), good)
         /\ \A i \in DOMAIN toClient' :
               i \in DOMAIN toClient \/ i = Len(toClient) + 1
<1>0. TypeOK /\ Numbers /\ toServer \in Seq(Request) /\ toClient \in Seq(Message)
  BY NumbersHere DEF Base, TypeOK
<1>1. UNCHANGED <<pc, waiting, status, exit>> /\ Program' = Program
  BY ProgramKept DEF client
<1>2. PICK m : m = Head(toServer)
  OBVIOUS
<1>3. /\ 1 \in DOMAIN toServer /\ m = toServer[1] /\ m \in Request
      /\ Tail(toServer) \in Seq(Request)
      /\ \A i \in DOMAIN toServer' :
            i \in Nat \ {0} /\ i + 1 \in DOMAIN toServer /\ toServer'[i] = toServer[i + 1]
  BY <1>0, <1>2, TailFacts
<1>4. m.id \in Nat \ {0}
  BY <1>3 DEF Request
<1>5. PICK a : a = Response(m, good)
  OBVIOUS
<1>6. a \in Message /\ a.id = m.id /\ a.good = good /\ a.items = <<>>
  BY <1>4, <1>5, EmptySeq DEF Response, Message
<1>7. /\ toClient' \in Seq(Message)
      /\ \A i \in DOMAIN toClient' :
            \/ i \in DOMAIN toClient /\ toClient'[i] = toClient[i]
            \/ i = Len(toClient) + 1 /\ toClient'[i] = a
  BY <1>0, <1>2, <1>5, <1>6, AppendFacts
<1>8. /\ m.id <= pc /\ (m.id = pc => waiting) /\ m.id \in 1 .. Len(Program)
      /\ m.req = Program[m.id] /\ m.req.op = "call"
  BY <1>3 DEF Base, Ordered, Requests
<1>9. m.req \in StepType /\ m.req.kind \in Called
  <2>1. m.req \in StepType
    BY <1>3 DEF Request
  <2>. QED  BY <1>0, <1>8, <2>1, ShapeHere DEF Shape
<1>10. \A i \in DOMAIN toServer : i > 1 => m.id < toServer[i].id
  BY <1>3 DEF Base, Ordered, RequestOrder
<1>11. \A i \in DOMAIN toClient : toClient[i].id < m.id
  BY <1>3 DEF Base, Ordered, AnswersFirst
<1>12. CallWaits'
  BY <1>1 DEF Base, Ordered, CallWaits, At, Running, Current
<1>13. Requests'
  BY <1>1, <1>3 DEF Base, Ordered, Requests
<1>14. RequestOrder'
  BY <1>3 DEF Base, Ordered, RequestOrder
<1>15. Answers'
  BY <1>1, <1>6, <1>7, <1>8 DEF Base, Ordered, Answers
<1>16. AnswerOrder'
  <2>1. \A i \in DOMAIN toClient : i <= Len(toClient) /\ Len(toClient) \in Nat
    BY <1>0, LenProperties
  <2>. QED  BY <1>0, <1>6, <1>7, <1>11, <2>1 DEF Base, Ordered, AnswerOrder, Numbers
<1>17. AnswersFirst'
  BY <1>3, <1>6, <1>7, <1>10 DEF Base, Ordered, AnswersFirst
<1>18. GoodIsOver'
  BY <1>1, <1>3, <1>6, <1>7 DEF Base, Ordered, GoodIsOver
<1>19. DeadIsSilent'
  BY DEF DeadIsSilent
<1>20. /\ Len(toClient) + 1 \in DOMAIN toClient' /\ toClient'[Len(toClient) + 1] = a
       /\ \A i \in DOMAIN toClient : i \in DOMAIN toClient' /\ toClient'[i] = toClient[i]
  <2>1. Len(toClient') = Len(toClient) + 1 /\ Len(toClient) \in Nat
    BY <1>0, <1>2, <1>5, <1>6, AppendFacts, LenProperties
  <2>2. DOMAIN toClient' = 1 .. Len(toClient')
    BY <1>7, LenProperties
  <2>. QED  BY <1>0, <1>2, <1>5, <1>6, <2>1, <2>2, AppendFacts
<1>21. Ordered'
  BY <1>12, <1>13, <1>14, <1>15, <1>16, <1>17, <1>18, <1>19 DEF Ordered
<1>22. LinkTypes'
  BY <1>3, <1>7 DEF LinkTypes
<1>. QED  BY <1>2, <1>5, <1>7, <1>8, <1>9, <1>20, <1>21, <1>22

(* What the server makes of a request.                                      *)
LEMMA HandleIs ==
  ASSUME Base, Handle
  PROVE  \E good \in BOOLEAN, size \in Nat \ {0}, s \in ServerType :
            /\ good = Accepts(Head(toServer).req)
            /\ s = (IF good THEN Effect(Head(toServer).req, size) ELSE srv)
            /\ ServerBecomes(s, ~srv.throttled)
<1>0. TypeOK /\ ~ dead /\ toServer # <<>>
  BY DEF Base, Handle
<1>1. PICK m : m = Head(toServer)
  OBVIOUS
<1>2. PICK good : good = Accepts(m.req)
  OBVIOUS
<1>3. m.req \in StepType /\ m.req.kind \in Called
  <2>1. 1 \in DOMAIN toServer /\ m = toServer[1] /\ m \in Request
    BY <1>0, <1>1, TailFacts DEF TypeOK
  <2>2. m.id \in 1 .. Len(Program) /\ m.req = Program[m.id] /\ m.req.op = "call"
    BY <2>1 DEF Base, Ordered, Requests
  <2>. QED  BY <1>0, <2>1, <2>2, ShapeHere DEF Shape, Request
<1>4. good \in BOOLEAN /\ srv.size \in Nat \ {0} /\ srv \in ServerType
  <2>1. srv.sub \in BOOLEAN /\ srv.item \in BOOLEAN /\ srv.size \in Nat \ {0}
        /\ srv \in ServerType
    BY <1>0 DEF TypeOK, ServerType
  <2>. QED  BY <1>2, <1>3, <2>1 DEF Accepts, Called
<1>5. PICK size \in (IF m.req.kind = "monitor" THEN Sizes \cup {QueueSize} ELSE {srv.size}) :
         ServerBecomes(IF good THEN Effect(m.req, size) ELSE srv, ~srv.throttled)
  BY <1>1, <1>2 DEF Handle
<1>6. size \in Nat \ {0}
  <2>1. QueueSize \in Nat \ {0} /\ Sizes \subseteq Nat \ {0}
    BY SubscriptionAssumption DEF QueueSize
  <2>. QED  BY <1>4, <1>5, <2>1
<1>7. Effect(m.req, size) \in ServerType
  BY <1>3, <1>4, <1>6, EffectTyped
<1>8. PICK s \in ServerType : s = IF good THEN Effect(m.req, size) ELSE srv
  BY <1>4, <1>7
<1>9. ServerBecomes(s, ~srv.throttled)
  BY <1>5, <1>8
<1>. QED  BY <1>1, <1>2, <1>4, <1>6, <1>8, <1>9

LEMMA HandleBase ==
  ASSUME Base, Handle
  PROVE  /\ Base' /\ UNCHANGED <<client, fixed, changes, faults, late, dead>>
         /\ srv'.sub = IF ~ Accepts(Head(toServer).req) THEN srv.sub
                       ELSE IF Head(toServer).req.kind = "create" THEN TRUE
                       ELSE IF Head(toServer).req.kind = "deleteSub" THEN FALSE
                       ELSE srv.sub
         /\ srv'.publishing = IF Accepts(Head(toServer).req)
                                 /\ Head(toServer).req.kind = "publish"
                              THEN Head(toServer).req.val = 1 ELSE srv.publishing
<1>0. /\ TypeOK /\ ~ dead /\ toServer # <<>>
      /\ UNCHANGED <<client, fixed, changes, faults, late, dead>>
  BY DEF Base, Handle
<1>1. PICK m : m = Head(toServer)
  OBVIOUS
<1>2. PICK good \in BOOLEAN, size \in Nat \ {0}, s \in ServerType :
         /\ good = Accepts(m.req)
         /\ s = (IF good THEN Effect(m.req, size) ELSE srv)
         /\ ServerBecomes(s, ~srv.throttled)
  BY <1>1, HandleIs
<1>3. /\ toServer' = Tail(toServer)
      /\ toClient' = Append(toClient, Response(m, good))
  BY <1>1, <1>2 DEF Handle
<1>4. Ordered' /\ LinkTypes' /\ m.req \in StepType /\ m.req.kind \in Called
  BY <1>0, <1>1, <1>2, <1>3, Answered
<1>5. /\ s.sub = IF ~ good THEN srv.sub
                 ELSE IF m.req.kind = "create" THEN TRUE
                 ELSE IF m.req.kind = "deleteSub" THEN FALSE ELSE srv.sub
      /\ s.publishing = IF good /\ m.req.kind = "publish"
                        THEN m.req.val = 1 ELSE srv.publishing
  <2>1. srv \in ServerType
    BY <1>0 DEF TypeOK
  <2>2. CASE good
    <3>1. /\ Effect(m.req, size).sub =
               IF m.req.kind = "create" THEN TRUE
               ELSE IF m.req.kind = "deleteSub" THEN FALSE ELSE srv.sub
          /\ Effect(m.req, size).publishing =
               IF m.req.kind = "publish" THEN m.req.val = 1 ELSE srv.publishing
      BY <1>4, <2>1, EffectTyped
    <3>. QED  BY <1>2, <2>2, <3>1
  <2>3. CASE ~ good
    BY <1>2, <2>3
  <2>. QED  BY <2>2, <2>3
<1>6. /\ srv' \in ServerType /\ sampled' \in Seq(Int) /\ discarded' \in BOOLEAN
      /\ SameServer(s, srv')
  <2>1. ServerBecomes(s, ~srv.throttled) /\ (~srv.throttled) \in BOOLEAN
    BY <1>2
  <2>2. sampled \in Seq(Int) /\ discarded \in BOOLEAN
    BY <1>0 DEF TypeOK
  <2>. QED  BY <2>1, <2>2, BecomesTyped
<1>7. ClientTypes' /\ FixedTypes'
  BY <1>0, TypesSplit, ClientKept, FixedKept
<1>8. CountTypes'
  BY <1>0, TypesSplit, Zenon DEF CountTypes
<1>9. Base'
  BY <1>4, <1>6, <1>7, <1>8, TypesJoin DEF Base, ServerTypes
<1>10. srv'.sub = s.sub /\ srv'.publishing = s.publishing
  BY <1>6 DEF SameServer
<1>. QED  BY <1>0, <1>1, <1>2, <1>5, <1>9, <1>10

LEMMA RefuseBase == ASSUME Base, Refuse PROVE Base'
<1>0. TypeOK /\ ~ dead /\ toServer # <<>> /\ UNCHANGED <<client, server, fixed, changes, late, dead>>
  BY DEF Base, Refuse
<1>1. Ordered' /\ LinkTypes'
  <2>1. FALSE \in BOOLEAN
    OBVIOUS
  <2>2. toServer' = Tail(toServer) /\ toClient' = Append(toClient, Response(Head(toServer), FALSE))
    BY DEF Refuse
  <2>. QED  BY <1>0, <2>1, <2>2, Answered
<1>2. ClientTypes' /\ FixedTypes' /\ ServerTypes'
  BY <1>0, TypesSplit, ClientKept, FixedKept, ServerKept
<1>3. CountTypes'
  <2>1. faults' \in Nat
    BY <1>0 DEF Refuse, TypeOK
  <2>. QED  BY <1>0, <2>1, TypesSplit, Zenon DEF CountTypes
<1>. QED  BY <1>1, <1>2, <1>3, TypesJoin DEF Base

LEMMA SampleBase ==
  ASSUME Base, Sample
  PROVE  Base' /\ SameServer(srv, srv')
         /\ UNCHANGED <<client, fixed, toServer, toClient, changes, faults, late, dead>>
<1>0. /\ TypeOK /\ ServerBecomes(srv, TRUE)
      /\ UNCHANGED <<client, fixed, toServer, toClient, changes, faults, late, dead>>
  BY DEF Base, Sample
<1>1. /\ srv' \in ServerType /\ sampled' \in Seq(Int) /\ discarded' \in BOOLEAN
      /\ SameServer(srv, srv')
  <2>1. srv \in ServerType /\ sampled \in Seq(Int) /\ discarded \in BOOLEAN /\ TRUE \in BOOLEAN
    BY <1>0 DEF TypeOK
  <2>. QED  BY <1>0, <2>1, BecomesTyped
<1>2. Ordered'
  BY <1>0, Stays
<1>3. ClientTypes' /\ FixedTypes'
  BY <1>0, TypesSplit, ClientKept, FixedKept
<1>4. CountTypes' /\ LinkTypes'
  BY <1>0, TypesSplit, Zenon DEF CountTypes, LinkTypes
<1>. QED  BY <1>0, <1>1, <1>2, <1>3, <1>4, TypesJoin DEF Base, ServerTypes

LEMMA ChangeBase ==
  ASSUME Base, Change
  PROVE  Base' /\ srv'.sub = srv.sub /\ srv'.publishing = srv.publishing
         /\ UNCHANGED <<client, fixed, toServer, toClient, faults, late, dead>>
<1>0. /\ TypeOK /\ changes' = changes + 1
      /\ ServerBecomes([srv EXCEPT !.value = @ + 1], ~srv.throttled)
      /\ UNCHANGED <<client, fixed, toServer, toClient, faults, late, dead>>
  BY DEF Base, Change
<1>1. PICK s : s = [srv EXCEPT !.value = @ + 1]
  OBVIOUS
<1>2. s \in ServerType /\ s.sub = srv.sub /\ s.publishing = srv.publishing
      /\ srv.throttled \in BOOLEAN
  <2>1. srv \in ServerType
    BY <1>0 DEF TypeOK
  <2>2. PICK v \in Int : v = srv.value + 1
    BY <2>1 DEF ServerType
  <2>3. s = [srv EXCEPT !.value = v]
    BY <1>1, <2>2, Zenon
  <2>. QED  BY <2>1, <2>3 DEF ServerType
<1>3. /\ srv' \in ServerType /\ sampled' \in Seq(Int) /\ discarded' \in BOOLEAN
      /\ SameServer(s, srv')
  <2>1. sampled \in Seq(Int) /\ discarded \in BOOLEAN /\ (~srv.throttled) \in BOOLEAN
    BY <1>0, <1>2 DEF TypeOK
  <2>. QED  BY <1>0, <1>1, <1>2, <2>1, BecomesTyped
<1>4. Ordered'
  BY <1>0, Stays
<1>5. ClientTypes' /\ FixedTypes'
  BY <1>0, TypesSplit, ClientKept, FixedKept
<1>6. CountTypes' /\ LinkTypes'
  <2>1. changes' \in Nat
    BY <1>0, SMTT(30) DEF TypeOK
  <2>. QED  BY <1>0, <2>1, TypesSplit, Zenon DEF CountTypes, LinkTypes
<1>7. srv'.sub = srv.sub /\ srv'.publishing = srv.publishing
  BY <1>2, <1>3 DEF SameServer
<1>. QED  BY <1>0, <1>3, <1>4, <1>5, <1>6, <1>7, TypesJoin DEF Base, ServerTypes

LEMMA PublishBase ==
  ASSUME Base, Publish
  PROVE  /\ Base' /\ srv'.sub = srv.sub /\ srv'.publishing = srv.publishing
         /\ \A i \in DOMAIN toClient : i \in DOMAIN toClient' /\ toClient'[i] = toClient[i]
         /\ \A i \in DOMAIN toClient' :
               \/ i \in DOMAIN toClient /\ toClient'[i] = toClient[i]
               \/ i = Len(toClient) + 1 /\ toClient'[i].id = 0
<1>0. /\ TypeOK /\ ~ dead
      /\ srv' = [srv EXCEPT !.queue = <<>>]
      /\ UNCHANGED <<client, fixed, sampled, discarded, toServer, changes, faults, late, dead>>
  BY DEF Base, Publish
<1>1. UNCHANGED <<pc, waiting, status, exit>> /\ Program' = Program /\ Numbers
  BY <1>0, ProgramKept, NumbersHere DEF client
<1>2. srv' \in ServerType /\ srv'.sub = srv.sub /\ srv'.publishing = srv.publishing
  BY <1>0, EmptySeq DEF TypeOK, ServerType
<1>3. PICK m : m = [id |-> 0, good |-> TRUE, items |-> srv.queue]
  OBVIOUS
<1>4. m \in Message /\ m.id = 0
  BY <1>0, <1>3 DEF Message, TypeOK, ServerType
<1>5. /\ toClient' \in Seq(Message)
      /\ \A i \in DOMAIN toClient : i \in DOMAIN toClient' /\ toClient'[i] = toClient[i]
      /\ \A i \in DOMAIN toClient' :
            \/ i \in DOMAIN toClient /\ toClient'[i] = toClient[i]
            \/ i = Len(toClient) + 1 /\ toClient'[i] = m
  <2>1. toClient' = Append(toClient, m) /\ toClient \in Seq(Message)
    BY <1>0, <1>3 DEF Publish, TypeOK
  <2>. QED  BY <1>4, <2>1, AppendFacts
<1>6. CallWaits'
  BY <1>1 DEF Base, Ordered, CallWaits, At, Running, Current
<1>7. Requests' /\ RequestOrder'
  BY <1>0, <1>1 DEF Base, Ordered, Requests, RequestOrder
<1>8. Answers'
  BY <1>1, <1>4, <1>5 DEF Base, Ordered, Answers, Numbers
<1>9. AnswerOrder'
  <2>1. \A i \in DOMAIN toClient : i <= Len(toClient) /\ Len(toClient) \in Nat
    BY <1>0, LenProperties DEF TypeOK
  <2>. QED  BY <1>1, <1>4, <1>5, <2>1, SMTT(30) DEF Base, Ordered, AnswerOrder, Numbers
<1>10. AnswersFirst'
  BY <1>0, <1>1, <1>4, <1>5 DEF Base, Ordered, AnswersFirst, Numbers
<1>11. GoodIsOver'
  BY <1>0, <1>1, <1>4, <1>5 DEF Base, Ordered, GoodIsOver
<1>12. DeadIsSilent'
  BY <1>0 DEF DeadIsSilent
<1>13. Ordered'
  BY <1>6, <1>7, <1>8, <1>9, <1>10, <1>11, <1>12 DEF Ordered
<1>14. ClientTypes' /\ FixedTypes'
  BY <1>0, TypesSplit, ClientKept, FixedKept
<1>15. CountTypes'
  BY <1>0, TypesSplit, Zenon DEF CountTypes
<1>16. ServerTypes' /\ LinkTypes'
  BY <1>0, <1>2, <1>5, TypesSplit, Zenon DEF ServerTypes, LinkTypes
<1>. QED  BY <1>2, <1>4, <1>5, <1>13, <1>14, <1>15, <1>16, TypesJoin DEF Base

(* Elements i and i + 1 of s changed places.                                *)
Swapped(s, t, i) ==
    /\ i \in DOMAIN s /\ i + 1 \in DOMAIN s
    /\ DOMAIN t = DOMAIN s /\ Len(t) = Len(s)
    /\ t[i] = s[i + 1] /\ t[i + 1] = s[i]
    /\ \A k \in DOMAIN s : k # i /\ k # i + 1 => t[k] = s[k]

(* A notification passes an answer.                                         *)
LEMMA OvertakeIs ==
  ASSUME Base, Overtake
  PROVE  /\ Base' /\ ~ dead
         /\ UNCHANGED <<client, server, fixed, toServer, changes, faults, late, dead>>
         /\ \E i \in Nat \ {0} :
               /\ Swapped(toClient, toClient', i)
               /\ toClient[i].id # 0 /\ toClient[i].items = <<>> /\ toClient[i + 1].id = 0
<1>0. /\ TypeOK /\ ~ dead /\ toClient \in Seq(Message)
      /\ UNCHANGED <<client, server, fixed, toServer, changes, faults, late, dead>>
  BY DEF Base, Overtake, TypeOK
<1>1. UNCHANGED <<pc, waiting, status, exit>> /\ Program' = Program /\ Numbers
  BY <1>0, ProgramKept, NumbersHere DEF client
<1>2. PICK n \in Nat : n = Len(toClient) /\ DOMAIN toClient = 1 .. n
  BY <1>0, LenProperties
<1>3. PICK i \in 1 .. (n - 1) :
         /\ toClient[i].id # 0 /\ toClient[i + 1].id = 0
         /\ toClient' = [toClient EXCEPT ![i] = toClient[i + 1], ![i + 1] = toClient[i]]
  BY <1>2 DEF Overtake
<1>4. i \in Nat \ {0} /\ i \in 1 .. n /\ i + 1 \in 1 .. n /\ i + 1 # i
  BY <1>2, <1>3
<1>5. /\ toClient' \in Seq(Message) /\ Swapped(toClient, toClient', i)
  <2>1. /\ toClient[i] \in Message /\ toClient[i + 1] \in Message
    BY <1>0, <1>2, <1>4, ElementOfSeq
  <2>2. toClient \in [1 .. n -> Message]
    BY <1>0, <1>2, LenProperties
  <2>3. toClient' \in [1 .. n -> Message]
    BY <1>3, <2>1, <2>2
  <2>4. toClient' \in Seq(Message)
    BY <2>3, SeqDef
  <2>5. Len(toClient') = n /\ DOMAIN toClient' = 1 .. n
    <3>1. DOMAIN toClient' = 1 .. n /\ DOMAIN toClient' = 1 .. Len(toClient')
          /\ Len(toClient') \in Nat
      BY <2>3, <2>4, LenProperties
    <3>. QED  BY <3>1
  <2>6. /\ toClient'[i] = toClient[i + 1] /\ toClient'[i + 1] = toClient[i]
        /\ \A k \in 1 .. n : k # i /\ k # i + 1 => toClient'[k] = toClient[k]
    BY <1>3, <1>4, <2>2
  <2>. QED  BY <1>2, <1>4, <2>4, <2>5, <2>6 DEF Swapped
<1>6. CallWaits'
  BY <1>1 DEF Base, Ordered, CallWaits, At, Running, Current
<1>7. Requests' /\ RequestOrder'
  BY <1>0, <1>1 DEF Base, Ordered, Requests, RequestOrder
<1>8. ASSUME NEW k \in DOMAIN toClient'
      PROVE  \E j \in DOMAIN toClient : toClient'[k] = toClient[j]
  BY <1>5, <1>8 DEF Swapped
<1>9. Answers' /\ AnswersFirst' /\ GoodIsOver'
  <2>1. Answers'
    BY <1>1, <1>8 DEF Base, Ordered, Answers
  <2>2. AnswersFirst'
    BY <1>0, <1>8 DEF Base, Ordered, AnswersFirst
  <2>3. GoodIsOver'
    BY <1>0, <1>1, <1>8 DEF Base, Ordered, GoodIsOver
  <2>. QED  BY <2>1, <2>2, <2>3
<1>10. AnswerOrder'
  <2>. SUFFICES ASSUME NEW k \in DOMAIN toClient', NEW j \in DOMAIN toClient', k < j,
                       toClient'[j].id # 0
                PROVE  toClient'[k].id < toClient'[j].id
    BY DEF AnswerOrder
  <2>1. k \in 1 .. n /\ j \in 1 .. n
    BY <1>2, <1>5 DEF Swapped
  <2>2. j # i
    BY <1>3, <1>5 DEF Swapped
  <2>3. CASE j = i + 1
    <3>1. toClient'[j] = toClient[i]
      BY <1>5, <2>3 DEF Swapped
    <3>2. CASE k = i
      <4>1. toClient'[k].id = 0 /\ toClient[i].id \in Nat
        BY <1>1, <1>2, <1>3, <1>4, <1>5, <3>2 DEF Swapped, Numbers
      <4>. QED  BY <1>3, <3>1, <4>1
    <3>3. CASE k # i
      <4>1. toClient'[k] = toClient[k] /\ k < i
        BY <1>2, <1>4, <1>5, <2>1, <2>3, <3>3 DEF Swapped
      <4>. QED  BY <1>2, <1>3, <1>4, <2>1, <3>1, <4>1 DEF Base, Ordered, AnswerOrder
    <3>. QED  BY <3>2, <3>3
  <2>4. CASE j # i + 1
    <3>1. toClient'[j] = toClient[j]
      BY <1>2, <1>5, <2>1, <2>2, <2>4 DEF Swapped
    <3>2. PICK l \in 1 .. n : toClient'[k] = toClient[l] /\ l < j
      <4>1. CASE k = i
        BY <1>4, <1>5, <2>1, <2>4, <4>1 DEF Swapped
      <4>2. CASE k = i + 1
        BY <1>4, <1>5, <2>1, <4>2 DEF Swapped
      <4>3. CASE k # i /\ k # i + 1
        BY <1>2, <1>5, <2>1, <4>3 DEF Swapped
      <4>. QED  BY <4>1, <4>2, <4>3
    <3>. QED  BY <1>2, <2>1, <3>1, <3>2 DEF Base, Ordered, AnswerOrder
  <2>. QED  BY <2>3, <2>4
<1>11. Ordered'
  BY <1>0, <1>6, <1>7, <1>9, <1>10 DEF Ordered, DeadIsSilent
<1>12. ClientTypes' /\ FixedTypes' /\ ServerTypes'
  BY <1>0, TypesSplit, ClientKept, FixedKept, ServerKept
<1>13. CountTypes' /\ LinkTypes'
  BY <1>0, <1>5, TypesSplit, Zenon DEF CountTypes, LinkTypes
<1>14. toClient[i].items = <<>>
  BY <1>2, <1>3, <1>4 DEF Base, Ordered, Answers
<1>. QED  BY <1>0, <1>3, <1>4, <1>5, <1>11, <1>12, <1>13, <1>14, TypesJoin DEF Base

(* The messages are the same as before.                                     *)
LEMMA OvertakeSame ==
  ASSUME Base, Overtake
  PROVE  /\ \A k \in DOMAIN toClient' : \E j \in DOMAIN toClient : toClient'[k] = toClient[j]
         /\ \A j \in DOMAIN toClient : \E k \in DOMAIN toClient' : toClient'[k] = toClient[j]
<1>1. PICK i : Swapped(toClient, toClient', i)
  BY OvertakeIs
<1>. QED  BY <1>1 DEF Swapped

LEMMA DieBase == ASSUME Base, Die PROVE Base' /\ DOMAIN toClient' = {}
<1>0. /\ TypeOK /\ dead' = TRUE /\ toServer' = <<>> /\ toClient' = <<>>
      /\ UNCHANGED <<client, server, fixed, changes, late>>
  BY DEF Base, Die
<1>1. UNCHANGED <<pc, waiting, status, exit>> /\ Program' = Program
  BY <1>0, ProgramKept DEF client
<1>2. DOMAIN toServer' = {} /\ DOMAIN toClient' = {}
  BY <1>0, EmptyFacts
<1>3. CallWaits'
  BY <1>1 DEF Base, Ordered, CallWaits, At, Running, Current
<1>4. Requests' /\ RequestOrder' /\ Answers' /\ AnswerOrder' /\ AnswersFirst' /\ DeadIsSilent'
  BY <1>0, <1>2 DEF Requests, RequestOrder, Answers, AnswerOrder, AnswersFirst, DeadIsSilent
<1>5. GoodIsOver'
  BY <1>1, <1>2 DEF Base, Ordered, GoodIsOver
<1>6. Ordered'
  BY <1>3, <1>4, <1>5 DEF Ordered
<1>7. ClientTypes' /\ FixedTypes' /\ ServerTypes'
  BY <1>0, TypesSplit, ClientKept, FixedKept, ServerKept
<1>8. LinkTypes'
  BY <1>0, EmptySeq DEF LinkTypes
<1>9. CountTypes'
  <2>1. faults' \in Nat
    BY <1>0 DEF Die, TypeOK
  <2>2. dead' \in BOOLEAN
    BY <1>0
  <2>. QED  BY <1>0, <2>1, <2>2, TypesSplit, Zenon DEF CountTypes
<1>. QED  BY <1>2, <1>6, <1>7, <1>8, <1>9, TypesJoin DEF Base

(* What the end of a call makes of the command.                             *)
LEMMA CallEndsIs ==
  ASSUME Base, waiting, NEW good \in BOOLEAN, CallEnds(good)
  PROVE  /\ pc \in 1 .. Len(Program) /\ exit = NoExit
         /\ pc' \in 0 .. Len(Program) + 1 /\ pc' \in Nat /\ pc < pc'
         /\ pc' = pc + 1 \/ (~ good /\ pc = 2 /\ pc' = Len(Program) - 1)
         /\ waiting' = FALSE /\ exit' \in Int
         /\ exit' = IF ~ good /\ pc = 1 THEN 4 ELSE exit
         /\ status' \in [1 .. Len(Program) -> {"none", "Good", "Bad"}]
         /\ \A s \in 1 .. Len(Program) :
               status'[s] = IF s = pc THEN (IF good THEN "Good" ELSE "Bad") ELSE status[s]
<1>0. TypeOK /\ Shape(Program, DeleteAt) /\ At("call")
  BY ShapeHere DEF Base, Ordered, CallWaits
<1>1. /\ pc \in 1 .. Len(Program) /\ exit = NoExit /\ Current.op = "call" /\ Current = Program[pc]
      /\ Len(Program) \in Nat /\ pc \in Nat /\ pc + 1 \in 0 .. Len(Program) + 1 /\ pc < pc + 1
  BY <1>0, AtIs DEF Current, Shape
<1>2. /\ waiting' = FALSE
      /\ status' = [status EXCEPT ![pc] = IF good THEN "Good" ELSE "Bad"]
      /\ exit' = IF ~good /\ Current.kind = "create" THEN 4 ELSE exit
      /\ pc' = IF ~good /\ Current.kind = "monitor" THEN FailAt ELSE pc + 1
  BY DEF CallEnds
<1>3. Current.kind = "create" <=> pc = 1
  BY <1>0, <1>1 DEF Shape
<1>4. Current.kind = "monitor" => pc = 2 /\ Len(Program) >= 5
  BY <1>0, <1>1 DEF Shape
<1>5. /\ pc' \in 0 .. Len(Program) + 1 /\ pc' \in Nat /\ pc < pc'
      /\ pc' = pc + 1 \/ (~ good /\ pc = 2 /\ pc' = Len(Program) - 1)
  BY <1>1, <1>2, <1>4 DEF FailAt
<1>6. exit' = (IF ~ good /\ pc = 1 THEN 4 ELSE exit) /\ exit' \in Int
  BY <1>1, <1>2, <1>3 DEF NoExit
<1>7. status \in [1 .. Len(Program) -> {"none", "Good", "Bad"}]
  BY <1>0 DEF TypeOK
<1>8. /\ status' \in [1 .. Len(Program) -> {"none", "Good", "Bad"}]
      /\ \A s \in 1 .. Len(Program) :
            status'[s] = IF s = pc THEN (IF good THEN "Good" ELSE "Bad") ELSE status[s]
  BY <1>1, <1>2, <1>7
<1>. QED  BY <1>1, <1>2, <1>5, <1>6, <1>8

(* The call ends with the first message (d = 1), or without one (d = 0).    *)
LEMMA CallEndsOrdered ==
  ASSUME Base, waiting, NEW good \in BOOLEAN, CallEnds(good), NEW d \in {0, 1},
         UNCHANGED <<fixed, toServer, dead>>,
         dead => toClient' = <<>>,
         \A i \in DOMAIN toClient' :
            i \in Nat \ {0} /\ i + d \in DOMAIN toClient /\ toClient'[i] = toClient[i + d],
         good => d = 1 /\ 1 \in DOMAIN toClient /\ toClient[1].id = pc
  PROVE  Ordered'
<1>0. Numbers /\ Program' = Program
  BY NumbersHere, ProgramKept
<1>1. /\ pc \in 1 .. Len(Program) /\ pc' \in Nat /\ pc < pc' /\ waiting' = FALSE
      /\ status' \in [1 .. Len(Program) -> {"none", "Good", "Bad"}]
      /\ \A s \in 1 .. Len(Program) :
            status'[s] = IF s = pc THEN (IF good THEN "Good" ELSE "Bad") ELSE status[s]
  BY CallEndsIs
<1>2. CallWaits'
  BY <1>1 DEF CallWaits
<1>3. Requests'
  BY <1>0, <1>1 DEF Base, Ordered, Requests, Numbers
<1>4. RequestOrder'
  BY DEF Base, Ordered, RequestOrder
<1>5. Answers'
  BY <1>0, <1>1 DEF Base, Ordered, Answers, Numbers
<1>6. AnswerOrder'
  BY DEF Base, Ordered, AnswerOrder
<1>7. AnswersFirst'
  BY DEF Base, Ordered, AnswersFirst
<1>8. GoodIsOver'
  <2>. SUFFICES ASSUME NEW s \in 1 .. Len(Program), status'[s] = "Good"
                PROVE  /\ s < pc'
                       /\ \A i \in DOMAIN toServer' : toServer'[i].id > s
                       /\ \A i \in DOMAIN toClient' :
                             toClient'[i].id # 0 => toClient'[i].id > s
    BY <1>0, <1>1 DEF GoodIsOver
  <2>1. CASE s # pc
    <3>1. status[s] = "Good" /\ s \in DOMAIN status
      BY <1>0, <1>1, <2>1 DEF Numbers
    <3>. QED  BY <1>0, <1>1, <3>1 DEF Base, Ordered, GoodIsOver, Numbers
  <2>2. CASE s = pc
    <3>1. good
      BY <1>1, <2>2
    <3>2. \A i \in DOMAIN toServer : toServer[i].id > pc
      BY <1>0, <3>1 DEF Base, Ordered, AnswersFirst, Numbers
    <3>3. \A i \in DOMAIN toClient' : toClient'[i].id # 0 => toClient'[i].id > pc
      BY <1>0, <3>1 DEF Base, Ordered, AnswerOrder, Numbers
    <3>. QED  BY <1>1, <2>2, <3>2, <3>3
  <2>. QED  BY <2>1, <2>2
<1>9. DeadIsSilent'
  BY DEF Base, Ordered, DeadIsSilent
<1>. QED  BY <1>2, <1>3, <1>4, <1>5, <1>6, <1>7, <1>8, <1>9 DEF Ordered

LEMMA FaultBase == ASSUME Base, Fault PROVE Base'
<1>0. /\ TypeOK /\ waiting /\ CallEnds(FALSE) /\ late' = TRUE /\ FALSE \in BOOLEAN
      /\ UNCHANGED <<store, marks, timedOut, printed, server, fixed, toServer, toClient,
                     changes, dead>>
  BY DEF Base, Fault
<1>1. /\ pc' \in 0 .. Len(Program) + 1 /\ waiting' = FALSE /\ exit' \in Int
      /\ status' \in [1 .. Len(Program) -> {"none", "Good", "Bad"}]
  BY <1>0, CallEndsIs
<1>2. Ordered'
  <2>1. \A i \in DOMAIN toClient' :
           i \in Nat \ {0} /\ i + 0 \in DOMAIN toClient /\ toClient'[i] = toClient[i + 0]
    <3>1. \A i \in DOMAIN toClient : i \in Nat \ {0} /\ i + 0 = i
      BY NumbersHere DEF Numbers
    <3>. QED  BY <1>0, <3>1
  <2>2. dead => toClient' = <<>>
    BY <1>0 DEF Base, Ordered, DeadIsSilent
  <2>3. 0 \in {0, 1}
    OBVIOUS
  <2>. QED  BY <1>0, <2>1, <2>2, <2>3, CallEndsOrdered
<1>3. ClientTypes'
  <2>1. Program' = Program
    BY <1>0, ProgramKept
  <2>. QED  BY <1>0, <1>1, <2>1, TypesSplit, Zenon DEF ClientTypes
<1>4. ServerTypes' /\ FixedTypes'
  BY <1>0, TypesSplit, FixedKept, ServerKept
<1>5. LinkTypes'
  BY <1>0, TypesSplit, Zenon DEF LinkTypes
<1>6. CountTypes'
  <2>1. faults' \in Nat
    <3>1. faults \in Nat
      BY <1>0 DEF TypeOK
    <3>2. faults' = IF dead THEN faults ELSE faults + 1
      BY DEF Fault
    <3>. QED  BY <3>1, <3>2
  <2>2. TRUE \in BOOLEAN
    OBVIOUS
  <2>. QED  BY <1>0, <2>1, <2>2, TypesSplit, Zenon DEF CountTypes
<1>. QED  BY <1>2, <1>3, <1>4, <1>5, <1>6, TypesJoin DEF Base

(* The callbacks store a prefix of the batch.                               *)
LEMMA DispatchIs ==
  ASSUME store \in Seq(Item), NEW items \in Seq(Item)
  PROVE  LET n == AtMost(Len(items), StoreCap - Len(store))
         IN  /\ n \in Int /\ n <= Len(items)
             /\ Dispatch(items) = store \o SubSeq(items, 1, n)
             /\ SubSeq(items, 1, n) \in Seq(Item)
             /\ Dispatch(items) \in Seq(Item)
<1>. DEFINE n == AtMost(Len(items), StoreCap - Len(store))
<1>1. /\ Len(items) \in Nat /\ Len(store) \in Nat /\ StoreCap \in Nat
      /\ \A i \in 1 .. Len(items) : items[i] \in Item
  BY LenProperties, ElementOfSeq, SubscriptionAssumption DEF StoreCap
<1>2. n \in Int /\ n <= Len(items)
  BY <1>1 DEF AtMost
<1>3. Dispatch(items) = store \o SubSeq(items, 1, n)
  BY DEF Dispatch, event_notif_cb, sub_data_change_cb, StoreCap
<1>. HIDE DEF n
<1>4. SubSeq(items, 1, n) \in Seq(Item)
  <2>1. \A i \in 1 .. n : items[i] \in Item
    BY <1>1, <1>2
  <2>. QED  BY <1>2, <2>1, SubSeqProperties
<1>5. Dispatch(items) \in Seq(Item)
  BY <1>3, <1>4, ConcatProperties
<1>. QED  BY <1>2, <1>3, <1>4, <1>5 DEF n

LEMMA ReceiveIs ==
  ASSUME Base, Receive
  PROVE  /\ Base' /\ exit = NoExit /\ ~ dead /\ Listening
         /\ UNCHANGED <<marks, timedOut, printed, srv, sampled, fixed, toServer, changes,
                        faults, late, dead>>
         /\ 1 \in DOMAIN toClient /\ toClient[1] \in Message
         /\ toClient' = Tail(toClient) /\ Len(toClient') = Len(toClient) - 1
         /\ \A i \in DOMAIN toClient' : i \in Nat \ {0} /\ i + 1 \in DOMAIN toClient
                                        /\ toClient'[i] = toClient[i + 1]
         /\ \/ /\ waiting /\ toClient[1].id = pc /\ toClient[1].good \in BOOLEAN
               /\ CallEnds(toClient[1].good) /\ UNCHANGED <<store, discarded>>
            \/ /\ ~ (waiting /\ toClient[1].id = pc)
               /\ UNCHANGED <<pc, waiting, status, exit>>
               /\ store' = IF Monitored THEN Dispatch(toClient[1].items) ELSE store
               /\ discarded' = (discarded \/ (~Monitored /\ toClient[1].items # <<>>))
<1>0. /\ TypeOK /\ exit = NoExit /\ toClient # <<>> /\ toClient' = Tail(toClient) /\ Listening
      /\ UNCHANGED <<marks, timedOut, printed, srv, sampled, fixed, toServer, changes,
                     faults, late, dead>>
  BY DEF Base, Receive
<1>1. /\ 1 \in DOMAIN toClient /\ Head(toClient) = toClient[1] /\ toClient[1] \in Message
      /\ toClient' \in Seq(Message) /\ Len(toClient') = Len(toClient) - 1
      /\ \A i \in DOMAIN toClient' : i \in Nat \ {0} /\ i + 1 \in DOMAIN toClient
                                     /\ toClient'[i] = toClient[i + 1]
  <2>1. toClient \in Seq(Message)
    BY <1>0 DEF TypeOK
  <2>. QED  BY <1>0, <2>1, TailFacts
<1>2. ~ dead
  BY <1>0 DEF Base, Ordered, DeadIsSilent
<1>3. toClient[1].good \in BOOLEAN /\ toClient[1].items \in Seq(Item)
  BY <1>1 DEF Message
<1>4. \/ /\ waiting /\ toClient[1].id = pc
         /\ CallEnds(toClient[1].good) /\ UNCHANGED <<store, discarded>>
      \/ /\ ~ (waiting /\ toClient[1].id = pc)
         /\ UNCHANGED <<pc, waiting, status, exit>>
         /\ store' = IF Monitored THEN Dispatch(toClient[1].items) ELSE store
         /\ discarded' = (discarded \/ (~Monitored /\ toClient[1].items # <<>>))
  BY <1>1 DEF Receive
<1>5. ServerTypes' /\ FixedTypes'
  <2>1. discarded' \in BOOLEAN
    <3>1. discarded \in BOOLEAN
      BY <1>0 DEF TypeOK
    <3>. QED  BY <1>4, <3>1
  <2>2. ServerTypes'
    BY <1>0, <2>1, TypesSplit, Zenon DEF ServerTypes
  <2>. QED  BY <1>0, <2>2, TypesSplit, FixedKept
<1>6. LinkTypes' /\ CountTypes'
  BY <1>0, <1>1, TypesSplit, Zenon DEF LinkTypes, CountTypes
<1>7. Program' = Program /\ Numbers
  BY <1>0, ProgramKept, NumbersHere
<1>8. Base'
  <2>1. CASE /\ waiting /\ toClient[1].id = pc
             /\ CallEnds(toClient[1].good) /\ UNCHANGED store
    <3>1. /\ pc' \in 0 .. Len(Program) + 1 /\ waiting' = FALSE /\ exit' \in Int
          /\ status' \in [1 .. Len(Program) -> {"none", "Good", "Bad"}]
      BY <1>3, <2>1, CallEndsIs
    <3>2. ClientTypes'
      <4>1. FALSE \in BOOLEAN
        OBVIOUS
      <4>. QED  BY <1>0, <1>7, <2>1, <3>1, <4>1, TypesSplit, Zenon DEF ClientTypes
    <3>3. Ordered'
      <4>1. 1 \in {0, 1}
        OBVIOUS
      <4>. QED  BY <1>0, <1>1, <1>2, <1>3, <2>1, <4>1, CallEndsOrdered
    <3>. QED  BY <1>5, <1>6, <3>2, <3>3, TypesJoin DEF Base
  <2>2. CASE /\ UNCHANGED <<pc, waiting, status, exit>>
             /\ store' = IF Monitored THEN Dispatch(toClient[1].items) ELSE store
    <3>1. store' \in Seq(Item)
      <4>1. store \in Seq(Item)
        BY <1>0 DEF TypeOK
      <4>2. Dispatch(toClient[1].items) \in Seq(Item)
        BY <1>3, <4>1, DispatchIs
      <4>. QED  BY <2>2, <4>1, <4>2
    <3>2. ClientTypes'
      BY <1>0, <1>7, <2>2, <3>1, TypesSplit, Zenon DEF ClientTypes
    <3>3. CallWaits'
      BY <1>7, <2>2 DEF Base, Ordered, CallWaits, At, Running, Current
    <3>4. Requests' /\ RequestOrder'
      BY <1>0, <1>7, <2>2 DEF Base, Ordered, Requests, RequestOrder
    <3>5. Answers'
      BY <1>1, <2>2 DEF Base, Ordered, Answers
    <3>6. AnswerOrder'
      <4>. SUFFICES ASSUME NEW i \in DOMAIN toClient', NEW j \in DOMAIN toClient',
                           i < j, toClient'[j].id # 0
                    PROVE  toClient'[i].id < toClient'[j].id
        BY DEF AnswerOrder
      <4>1. i + 1 \in DOMAIN toClient /\ j + 1 \in DOMAIN toClient /\ i + 1 < j + 1
        BY <1>1
      <4>. QED  BY <1>1, <4>1 DEF Base, Ordered, AnswerOrder
    <3>7. AnswersFirst'
      BY <1>0, <1>1 DEF Base, Ordered, AnswersFirst
    <3>8. GoodIsOver'
      BY <1>0, <1>1, <2>2 DEF Base, Ordered, GoodIsOver
    <3>9. DeadIsSilent'
      BY <1>0, <1>2 DEF DeadIsSilent
    <3>10. Ordered'
      BY <3>3, <3>4, <3>5, <3>6, <3>7, <3>8, <3>9 DEF Ordered
    <3>. QED  BY <1>5, <1>6, <3>2, <3>10, TypesJoin DEF Base
  <2>. QED  BY <1>4, <2>1, <2>2
<1>. QED  BY <1>0, <1>1, <1>2, <1>3, <1>4, <1>8

(* The base layer is an invariant.                                          *)
THEOREM OrderInvariant == Spec => []Base
<1>1. Init => Base
  BY InitBase
<1>2. Base /\ [Next]_vars => Base'
  <2>. SUFFICES ASSUME Base, [Next]_vars PROVE Base'
    OBVIOUS
  <2>1. CASE Next
    BY <2>1, ConnectBase, StepCallBase, ReceiveIs, FaultBase, WaitDoneBase, TimeUpBase,
       StepLocalBase, FinishBase, HandleBase, RefuseBase, SampleBase, ChangeBase,
       PublishBase, OvertakeIs, DieBase DEF Next, ClientStep, ServerStep
  <2>2. CASE UNCHANGED vars
    <3>1. UNCHANGED <<client, server, fixed, toServer, toClient, changes, faults, late, dead>>
      BY <2>2 DEF vars
    <3>2. Ordered'
      BY <3>1, Stays
    <3>3. ClientTypes' /\ FixedTypes' /\ ServerTypes'
      BY <3>1, TypesSplit, ClientKept, FixedKept, ServerKept DEF Base
    <3>4. LinkTypes' /\ CountTypes'
      BY <3>1, TypesSplit, Zenon DEF LinkTypes, CountTypes, Base
    <3>. QED  BY <3>2, <3>3, <3>4, TypesJoin DEF Base
  <2>. QED  BY <2>1, <2>2
<1>. QED  BY <1>1, <1>2, PTL DEF Spec
(* Every variable keeps to its type: stored, queued and printed items, and  *)
(* what is on the connection, for every server.                             *)
THEOREM TypeCorrect == Spec => []TypeOK
<1>1. Base => TypeOK
  BY DEF Base
<1>. QED  BY <1>1, OrderInvariant, PTL

-----------------------------------------------------------------------------
(* No subscription is left behind.                                          *)

(* Nothing of a call is on the connection while none is under way.          *)
LEMMA Idle ==
  ASSUME Base, Deleting, ~ late, ~ dead, ~ waiting
  PROVE  toServer = <<>> /\ DOMAIN toServer = {}
         /\ \A i \in DOMAIN toClient : toClient[i].id = 0
<1>1. DOMAIN toServer = {}
  BY DEF Base, Ordered, Requests, Deleting
<1>2. toServer = <<>>
  BY <1>1, EmptySeq, LenProperties DEF Base, TypeOK
<1>3. \A i \in DOMAIN toClient : toClient[i].id = 0
  BY DEF Base, Ordered, Answers, Deleting
<1>. QED  BY <1>1, <1>2, <1>3

LEMMA DeletingAdvances ==
  ASSUME Base, Deleting, ~ waiting,
         UNCHANGED <<fixed, status, toServer, toClient, srv, late, dead>>,
         srv.sub /\ ~ late /\ ~ dead /\ status[DeleteAt] # "Bad" =>
            pc' = pc + 1 /\ exit' = exit /\ At(Current.op) /\ Current.op # "call"
  PROVE  Deleting'
<1>. SUFFICES ASSUME ~ late, ~ dead PROVE Deleting'
  BY DEF Deleting
<1>0. DeleteAt' = DeleteAt /\ Program' = Program /\ Shape(Program, DeleteAt) /\ Numbers
  BY ProgramKept, ShapeHere, NumbersHere DEF Base
<1>1. DOMAIN toServer' = {} /\ \A i \in DOMAIN toClient' : toClient'[i].id = 0
  BY Idle
<1>2. ASSUME srv.sub PROVE ToDelete'
  <2>1. CASE status[DeleteAt] = "Bad"
    BY <1>0, <2>1 DEF ToDelete
  <2>2. CASE status[DeleteAt] # "Bad"
    <3>1. pc \in 1 .. DeleteAt /\ exit = NoExit
      BY <1>2, <2>2 DEF Deleting, ToDelete
    <3>2. pc # DeleteAt
      BY <1>0, <1>2, <2>2 DEF At, Running, Current, Shape
    <3>3. exit' = NoExit /\ pc' \in 1 .. DeleteAt /\ pc' # 1
      BY <1>0, <1>2, <2>2, <3>1, <3>2 DEF Numbers, Shape
    <3>. QED  BY <1>0, <3>3 DEF ToDelete
  <2>. QED  BY <2>1, <2>2
<1>3. srv.sub => NotDeleted'
  BY <1>0 DEF Deleting, NotDeleted
<1>. QED  BY <1>0, <1>1, <1>2, <1>3 DEF Deleting

LEMMA ConnectDeleting == ASSUME Base, Deleting, Connect PROVE Deleting'
<1>1. pc = 0 /\ UNCHANGED <<fixed, status, toServer, toClient, srv, late, dead>>
  BY DEF Connect, server
<1>2. ~ waiting
  BY <1>1, NumbersHere DEF Base, Ordered, CallWaits, At, Running, Numbers
<1>3. srv.sub /\ ~ late /\ ~ dead /\ status[DeleteAt] # "Bad" => FALSE
  BY <1>1 DEF Deleting, ToDelete
<1>. QED  BY <1>1, <1>2, <1>3, DeletingAdvances

LEMMA FinishDeleting == ASSUME Base, Deleting, Finish PROVE Deleting'
<1>1. pc > Len(Program) /\ UNCHANGED <<fixed, status, toServer, toClient, srv, late, dead>>
  BY DEF Finish, server
<1>2. ~ waiting
  BY <1>1, NumbersHere DEF Base, Ordered, CallWaits, At, Running, Numbers
<1>3. srv.sub /\ ~ late /\ ~ dead /\ status[DeleteAt] # "Bad" => FALSE
  BY <1>1, ShapeHere, NumbersHere DEF Deleting, ToDelete, Shape, Numbers, Base
<1>. QED  BY <1>1, <1>2, <1>3, DeletingAdvances

(* Steps of the program that are not calls.                                 *)
LEMMA LocalDeleting ==
  ASSUME Base, Deleting, WaitDone \/ TimeUp \/ StepLocal PROVE Deleting'
<1>1. /\ pc' = pc + 1 /\ exit' = exit
      /\ UNCHANGED <<fixed, status, toServer, toClient, srv, late, dead>>
  BY DEF WaitDone, TimeUp, StepLocal, server
<1>2. PICK op : At(op) /\ op # "call"
  BY DEF WaitDone, TimeUp, StepLocal
<1>3. ~ waiting
  BY <1>2, NotWaiting
<1>4. At(Current.op) /\ Current.op # "call"
  BY <1>2 DEF At
<1>. QED  BY <1>1, <1>3, <1>4, DeletingAdvances

LEMMA StepCallDeleting == ASSUME Base, Deleting, StepCall PROVE Deleting'
<1>0. ~ waiting /\ UNCHANGED <<pc, exit, status, fixed, toClient, srv, late, dead>>
  BY DEF StepCall, server
<1>. SUFFICES ASSUME ~ late, ~ dead PROVE Deleting'
  BY <1>0 DEF Deleting
<1>1. toServer = <<>>
  BY <1>0, Idle
<1>2. toServer' = <<[id |-> pc, req |-> Current]>>
  BY <1>1 DEF StepCall
<1>3. \A i \in DOMAIN toServer' : toServer'[i].id = pc
  BY <1>2
<1>4. DeleteAt' = DeleteAt /\ Program' = Program
  BY <1>0, ProgramKept
<1>5. srv.sub => ToDelete' /\ NotDeleted'
  BY <1>0, <1>4 DEF Deleting, ToDelete, NotDeleted
<1>. QED  BY <1>0, <1>3, <1>5 DEF Deleting

LEMMA HandleDeleting == ASSUME Base, Deleting, Handle PROVE Deleting'
<1>. DEFINE m == Head(toServer)
            good == Accepts(m.req)
<1>0. /\ UNCHANGED <<client, fixed, changes, faults, late, dead>> /\ ~ dead /\ toServer # <<>>
      /\ toServer' = Tail(toServer)
      /\ toClient' = Append(toClient, Response(m, good))
  BY DEF Handle
<1>. SUFFICES ASSUME ~ late PROVE Deleting'
  BY <1>0 DEF Deleting
<1>1. /\ UNCHANGED <<pc, exit, status>> /\ DeleteAt' = DeleteAt /\ Program' = Program
      /\ Shape(Program, DeleteAt) /\ Numbers
  BY <1>0, ProgramKept, ShapeHere, NumbersHere DEF client, Base
<1>2. /\ 1 \in DOMAIN toServer /\ m = toServer[1]
      /\ \A i \in DOMAIN toServer' :
            i \in Nat \ {0} /\ i + 1 \in DOMAIN toServer /\ toServer'[i] = toServer[i + 1]
  <2>1. toServer \in Seq(Request)
    BY DEF Base, TypeOK
  <2>. QED  BY <1>0, <2>1, TailFacts
<1>3. m.id = pc /\ waiting /\ m.req = Program[pc] /\ pc \in 1 .. Len(Program)
  BY <1>0, <1>2 DEF Deleting, Base, Ordered, Requests
<1>4. exit = NoExit
  BY <1>3 DEF Base, Ordered, CallWaits
<1>5. good \in BOOLEAN
  <2>1. srv.sub \in BOOLEAN /\ srv.item \in BOOLEAN
    BY DEF Base, TypeOK, ServerType
  <2>2. m.req.kind \in Called
    BY <1>1, <1>2, <1>3 DEF Base, Ordered, Requests, Shape
  <2>. QED  BY <2>1, <2>2 DEF Accepts, Called
<1>6. /\ \A i \in DOMAIN toClient : i \in DOMAIN toClient' /\ toClient'[i] = toClient[i]
      /\ Len(toClient) + 1 \in DOMAIN toClient'
      /\ toClient'[Len(toClient) + 1] = Response(m, good)
      /\ \A i \in DOMAIN toClient' : i \in DOMAIN toClient \/ i = Len(toClient) + 1
  BY <1>0, <1>5, Answered
<1>7. Response(m, good).id = pc /\ Response(m, good).good = good
  BY <1>3 DEF Response
<1>8. \A i \in DOMAIN toServer' : toServer'[i].id = pc
  BY <1>0, <1>2 DEF Deleting
<1>9. \A i \in DOMAIN toClient' : toClient'[i].id \in {0, pc}
  BY <1>0, <1>6, <1>7 DEF Deleting
<1>10. srv'.sub = IF ~ good THEN srv.sub
                  ELSE IF m.req.kind = "create" THEN TRUE
                  ELSE IF m.req.kind = "deleteSub" THEN FALSE
                  ELSE srv.sub
  BY HandleBase
<1>. HIDE DEF m
<1>11. CASE m.req.kind = "create"
  <2>1. pc = 1 /\ good
    BY <1>1, <1>3, <1>11 DEF Shape, Accepts
  <2>2. \E i \in DOMAIN toClient' : toClient'[i].id = 1 /\ toClient'[i].good
    BY <1>6, <1>7, <2>1
  <2>3. DeleteAt \in Nat /\ DeleteAt >= 2
    BY <1>1 DEF Shape
  <2>4. ToDelete'
    BY <1>1, <1>4, <2>1, <2>2, <2>3 DEF ToDelete
  <2>5. /\ \A i \in DOMAIN toServer' : toServer'[i].id = pc'
        /\ \A i \in DOMAIN toClient' : toClient'[i].id \in {0, pc'}
    BY <1>1, <1>8, <1>9
  <2>6. NotDeleted'
    <3>. SUFFICES ASSUME NEW d \in DOMAIN status, Program[d].kind = "deleteSub"
                  PROVE  /\ status[d] # "Good"
                         /\ \A i \in DOMAIN toClient' : toClient'[i].id # d
      BY <1>1 DEF NotDeleted
    <3>1. d \in Nat /\ d # 0 /\ d # 1
      BY <1>1 DEF Shape, Numbers
    <3>2. status[d] # "Good"
      BY <2>1, <3>1 DEF Base, Ordered, GoodIsOver
    <3>. QED  BY <1>9, <2>1, <3>1, <3>2
  <2>. QED  BY <2>4, <2>5, <2>6, Zenon DEF Deleting
<1>12. CASE m.req.kind = "deleteSub"
  <2>1. good = srv.sub
    BY <1>12 DEF Accepts
  <2>2. ~ srv'.sub
    BY <1>10, <1>12, <2>1
  <2>. QED  BY <1>1, <1>8, <1>9, <2>2 DEF Deleting
<1>13. CASE m.req.kind \notin {"create", "deleteSub"}
  <2>1. srv'.sub = srv.sub
    BY <1>10, <1>13
  <2>2. Program[pc].kind # "deleteSub"
    BY <1>3, <1>13
  <2>3. srv.sub => ToDelete /\ NotDeleted
    BY <1>0 DEF Deleting
  <2>4. srv.sub => ToDelete'
    BY <1>1, <1>6, <2>3 DEF ToDelete
  <2>5. srv.sub => NotDeleted'
    BY <1>1, <1>6, <1>7, <2>2, <2>3 DEF NotDeleted
  <2>. QED  BY <1>1, <1>8, <1>9, <2>1, <2>4, <2>5 DEF Deleting
<1>. QED  BY <1>11, <1>12, <1>13

(* A refusal is added, and nothing happens on the server.                   *)
LEMMA RefuseDeleting == ASSUME Base, Deleting, Refuse PROVE Deleting'
<1>. DEFINE m == Head(toServer)
<1>0. /\ UNCHANGED <<client, server, fixed, late, dead>> /\ ~ dead /\ toServer # <<>>
      /\ toServer' = Tail(toServer) /\ toClient' = Append(toClient, Response(m, FALSE))
      /\ FALSE \in BOOLEAN
  BY DEF Refuse
<1>. SUFFICES ASSUME ~ late PROVE Deleting'
  BY <1>0 DEF Deleting
<1>1. /\ UNCHANGED <<pc, exit, status, srv>> /\ DeleteAt' = DeleteAt /\ Program' = Program
      /\ Shape(Program, DeleteAt) /\ Numbers
  BY <1>0, ProgramKept, ShapeHere, NumbersHere DEF client, server, Base
<1>2. /\ 1 \in DOMAIN toServer /\ m = toServer[1]
      /\ \A i \in DOMAIN toServer' :
            i \in Nat \ {0} /\ i + 1 \in DOMAIN toServer /\ toServer'[i] = toServer[i + 1]
  <2>1. toServer \in Seq(Request)
    BY DEF Base, TypeOK
  <2>. QED  BY <1>0, <2>1, TailFacts
<1>3. m.id = pc
  BY <1>0, <1>2 DEF Deleting, Base, Ordered, Requests
<1>4. /\ \A i \in DOMAIN toClient : i \in DOMAIN toClient' /\ toClient'[i] = toClient[i]
      /\ toClient'[Len(toClient) + 1] = Response(m, FALSE)
      /\ \A i \in DOMAIN toClient' : i \in DOMAIN toClient \/ i = Len(toClient) + 1
  BY <1>0, Answered
<1>5. Response(m, FALSE).id = pc /\ Response(m, FALSE).good = FALSE
  BY <1>3 DEF Response
<1>6. \A i \in DOMAIN toServer' : toServer'[i].id = pc
  BY <1>0, <1>2 DEF Deleting
<1>7. \A i \in DOMAIN toClient' : toClient'[i].id \in {0, pc}
  BY <1>0, <1>4, <1>5 DEF Deleting
<1>. HIDE DEF m
<1>8. srv.sub => ToDelete /\ NotDeleted
  BY <1>0 DEF Deleting
<1>9. srv.sub => ToDelete'
  BY <1>1, <1>4, <1>8 DEF ToDelete
<1>10. srv.sub => NotDeleted'
  BY <1>1, <1>4, <1>5, <1>8 DEF NotDeleted
<1>. QED  BY <1>1, <1>6, <1>7, <1>9, <1>10 DEF Deleting

(* The item samples: nothing that counts here changes.                      *)
LEMMA QuietDeleting ==
  ASSUME Base, Deleting, UNCHANGED <<pc, exit, status, fixed, toServer, toClient, late, dead>>,
         srv'.sub = srv.sub
  PROVE  Deleting'
<1>1. DeleteAt' = DeleteAt /\ Program' = Program
  BY ProgramKept
<1>2. (ToDelete => ToDelete') /\ (NotDeleted => NotDeleted')
  BY <1>1 DEF ToDelete, NotDeleted
<1>. QED  BY <1>2 DEF Deleting

(* A notification is published, or passes an answer: the answers are the    *)
(* same as before.                                                          *)
LEMMA SameDeleting ==
  ASSUME Base, Deleting, UNCHANGED <<pc, exit, status, fixed, toServer, late, dead>>,
         srv'.sub = srv.sub,
         \A k \in DOMAIN toClient' :
            toClient'[k].id = 0 \/ \E j \in DOMAIN toClient : toClient'[k] = toClient[j],
         \A j \in DOMAIN toClient : \E k \in DOMAIN toClient' : toClient'[k] = toClient[j]
  PROVE  Deleting'
<1>1. DeleteAt' = DeleteAt /\ Program' = Program /\ Numbers
  BY ProgramKept, NumbersHere
<1>. SUFFICES ASSUME ~ late, ~ dead PROVE Deleting'
  BY DEF Deleting
<1>2. ToDelete => ToDelete'
  BY <1>1 DEF ToDelete
<1>3. NotDeleted => NotDeleted'
  BY <1>1 DEF NotDeleted, Numbers
<1>4. \A k \in DOMAIN toClient' : toClient'[k].id \in {0, pc'}
  BY DEF Deleting
<1>. QED  BY <1>2, <1>3, <1>4 DEF Deleting

LEMMA PublishDeleting == ASSUME Base, Deleting, Publish PROVE Deleting'
<1>1. /\ UNCHANGED <<pc, exit, status, fixed, toServer, late, dead>> /\ srv'.sub = srv.sub
  BY PublishBase DEF Publish, client
<1>. QED  BY <1>1, PublishBase, SameDeleting

LEMMA OvertakeDeleting == ASSUME Base, Deleting, Overtake PROVE Deleting'
<1>1. /\ UNCHANGED <<pc, exit, status, fixed, toServer, late, dead>> /\ srv'.sub = srv.sub
  BY DEF Overtake, client, server
<1>. QED  BY <1>1, OvertakeSame, SameDeleting

LEMMA ReceiveDeleting == ASSUME Base, Deleting, Receive PROVE Deleting'
<1>0. /\ exit = NoExit /\ ~ dead
      /\ UNCHANGED <<srv, fixed, toServer, late, dead>>
      /\ 1 \in DOMAIN toClient /\ toClient[1].good \in BOOLEAN
      /\ \A i \in DOMAIN toClient' : i \in Nat \ {0} /\ i + 1 \in DOMAIN toClient
                                     /\ toClient'[i] = toClient[i + 1]
      /\ Base'
  BY ReceiveIs DEF Message
<1>. SUFFICES ASSUME ~ late PROVE Deleting'
  BY <1>0 DEF Deleting
<1>1. /\ DeleteAt' = DeleteAt /\ Program' = Program /\ Shape(Program, DeleteAt) /\ Numbers
      /\ DeleteAt \in DOMAIN status
  BY <1>0, ProgramKept, ShapeHere, NumbersHere DEF Base, Shape, Numbers
<1>2. srv.sub => ToDelete /\ NotDeleted
  BY <1>0 DEF Deleting
<1>3. CASE waiting /\ toClient[1].id = pc /\ CallEnds(toClient[1].good)
  <2>1. DOMAIN toServer = {}
    <3>. SUFFICES ASSUME NEW i \in DOMAIN toServer PROVE FALSE
      OBVIOUS
    <3>1. toServer[i].id <= pc
      BY DEF Base, Ordered, Requests
    <3>2. toClient[1].id < toServer[i].id
      BY <1>0 DEF Base, Ordered, AnswersFirst
    <3>. QED  BY <1>1, <1>3, <3>1, <3>2 DEF Numbers
  <2>2. \A i \in DOMAIN toClient : i > 1 => toClient[i].id = 0
    BY <1>0, <1>1, <1>3 DEF Base, Ordered, AnswerOrder, Answers, Numbers
  <2>3. \A i \in DOMAIN toClient' : toClient'[i].id = 0
    BY <1>0, <2>2
  <2>4. /\ pc \in 1 .. Len(Program) /\ pc' \in Nat /\ pc < pc'
        /\ pc' = pc + 1 \/ (~ toClient[1].good /\ pc = 2 /\ pc' = Len(Program) - 1)
        /\ exit' = IF ~ toClient[1].good /\ pc = 1 THEN 4 ELSE exit
        /\ \A d \in 1 .. Len(Program) :
              status'[d] = IF d = pc THEN (IF toClient[1].good THEN "Good" ELSE "Bad")
                           ELSE status[d]
    BY <1>0, <1>3, CallEndsIs
  <2>5. DOMAIN status = 1 .. Len(Program) /\ DOMAIN status' = DOMAIN status
    BY <1>0, <1>1, NumbersHere DEF Numbers, Base, TypeOK
  <2>6. ASSUME srv.sub PROVE NotDeleted'
    <3>1. ASSUME NEW d \in DOMAIN status, Program[d].kind = "deleteSub"
          PROVE  status'[d] # "Good"
      <4>1. CASE d = pc
        <5>1. ~ toClient[1].good
          BY <1>0, <1>2, <1>3, <2>6, <3>1, <4>1 DEF NotDeleted
        <5>. QED  BY <2>4, <4>1, <5>1
      <4>2. CASE d # pc
        BY <1>2, <2>4, <2>5, <2>6, <3>1, <4>2 DEF NotDeleted
      <4>. QED  BY <4>1, <4>2
    <3>2. \A d \in DOMAIN status : d # 0
      BY <1>1, <2>5 DEF Numbers
    <3>. QED  BY <1>1, <2>3, <2>5, <3>1, <3>2 DEF NotDeleted
  <2>7. ASSUME srv.sub PROVE ToDelete'
    <3>1. CASE pc = DeleteAt
      <4>1. Program[DeleteAt].kind = "deleteSub"
        BY <1>1 DEF Shape
      <4>2. ~ toClient[1].good
        BY <1>0, <1>1, <1>2, <1>3, <2>7, <3>1, <4>1 DEF NotDeleted
      <4>. QED  BY <1>1, <2>4, <2>5, <3>1, <4>2 DEF ToDelete
    <3>2. CASE pc # DeleteAt /\ status[DeleteAt] = "Bad"
      BY <1>1, <2>4, <2>5, <3>2 DEF ToDelete
    <3>3. CASE pc # DeleteAt /\ status[DeleteAt] # "Bad"
      <4>1. /\ pc \in 1 .. DeleteAt
            /\ pc = 1 => \E i \in DOMAIN toClient : toClient[i].id = 1 /\ toClient[i].good
        BY <1>2, <2>7, <3>3 DEF ToDelete
      <4>2. pc = 1 => toClient[1].good
        <5>. SUFFICES ASSUME pc = 1 PROVE toClient[1].good
          OBVIOUS
        <5>1. PICK i \in DOMAIN toClient : toClient[i].id = 1 /\ toClient[i].good
          BY <4>1
        <5>2. i = 1
          BY <1>1, <2>2, <5>1 DEF Numbers
        <5>. QED  BY <5>1, <5>2
      <4>3. exit' = NoExit
        BY <1>0, <2>4, <4>2
      <4>4. pc' \in 1 .. DeleteAt /\ pc' # 1
        BY <1>1, <2>4, <3>3, <4>1 DEF Shape
      <4>. QED  BY <1>1, <4>3, <4>4 DEF ToDelete
    <3>. QED  BY <3>1, <3>2, <3>3
  <2>8. pc' # 0
    BY <2>4
  <2>. QED  BY <1>0, <1>1, <2>1, <2>3, <2>6, <2>7, <2>8 DEF Deleting
<1>4. CASE ~ (waiting /\ toClient[1].id = pc) /\ UNCHANGED <<pc, waiting, status, exit>>
  <2>1. /\ \A i \in DOMAIN toServer' : toServer'[i].id = pc'
        /\ \A i \in DOMAIN toClient' : toClient'[i].id \in {0, pc'}
    BY <1>0, <1>4 DEF Deleting
  <2>2. ASSUME pc = 1, \E i \in DOMAIN toClient : toClient[i].id = 1 /\ toClient[i].good
        PROVE  \E i \in DOMAIN toClient' : toClient'[i].id = 1 /\ toClient'[i].good
    <3>1. PICK i \in DOMAIN toClient : toClient[i].id = 1 /\ toClient[i].good
      BY <2>2
    <3>2. i # 1
      BY <1>0, <1>4, <2>2, <3>1 DEF Base, Ordered, Answers
    <3>3. i - 1 \in DOMAIN toClient' /\ (i - 1) + 1 = i
      <4>1. toClient \in Seq(Message) /\ toClient' \in Seq(Message)
            /\ Len(toClient') = Len(toClient) - 1
        BY <1>0, ReceiveIs DEF Base, TypeOK
      <4>2. DOMAIN toClient = 1 .. Len(toClient) /\ DOMAIN toClient' = 1 .. Len(toClient')
            /\ Len(toClient) \in Nat
        BY <4>1, LenProperties
      <4>. QED  BY <3>1, <3>2, <4>1, <4>2
    <3>4. toClient'[i - 1] = toClient[i]
      BY <1>0, <3>3
    <3>. QED  BY <3>1, <3>3, <3>4
  <2>3. srv.sub => ToDelete'
    BY <1>1, <1>2, <1>4, <2>2 DEF ToDelete
  <2>4. srv.sub => NotDeleted'
    BY <1>0, <1>1, <1>2, <1>4 DEF NotDeleted
  <2>. QED  BY <1>0, <2>1, <2>3, <2>4 DEF Deleting
<1>. QED  BY <1>3, <1>4, ReceiveIs

LEMMA NextDeleting == ASSUME Base, Deleting, [Next]_vars PROVE Deleting'
<1>1. CASE Sample \/ Change \/ UNCHANGED vars
  <2>1. UNCHANGED <<client, fixed, toServer, toClient, late, dead>>
    BY <1>1 DEF Sample, Change, vars
  <2>2. srv'.sub = srv.sub
    BY <1>1, SampleBase, ChangeBase DEF SameServer, vars, server
  <2>3. UNCHANGED <<pc, exit, status, fixed, toServer, toClient, late, dead>>
    BY <2>1 DEF client
  <2>. QED  BY <2>2, <2>3, QuietDeleting
<1>2. CASE Die
  BY <1>2 DEF Die, Deleting
<1>3. CASE Fault
  BY <1>3 DEF Fault, Deleting
<1>. QED  BY <1>1, <1>2, <1>3, ConnectDeleting, StepCallDeleting, ReceiveDeleting,
             LocalDeleting, FinishDeleting, HandleDeleting, RefuseDeleting, PublishDeleting,
             OvertakeDeleting
          DEF Next, ClientStep, ServerStep

LEMMA AlwaysDeleting == Spec => []Deleting
<1>1. Init => Deleting
  <2>. SUFFICES ASSUME Init PROVE Deleting
    OBVIOUS
  <2>1. DOMAIN toServer = {} /\ DOMAIN toClient = {}
    BY EmptyFacts DEF Init
  <2>2. ~ srv.sub
    BY DEF Init, NoItem
  <2>. QED  BY <2>1, <2>2 DEF Deleting
<1>2. Base /\ Deleting /\ [Next]_vars => Deleting'
  BY NextDeleting
<1>. QED  BY <1>1, <1>2, OrderInvariant, PTL DEF Spec

(* No command leaves its subscription behind on a server that answered      *)
(* every call, unless that server refused to delete it: the last            *)
(* DeleteSubscription is on every way out of the six programs, whichever of *)
(* the calls were refused and however the notifications mixed with the      *)
(* answers.                                                                 *)
THEOREM NothingLeftBehind == Spec => []SubscriptionDeleted
<1>1. Base /\ Deleting => SubscriptionDeleted
  <2>. SUFFICES ASSUME Base, Deleting, exit # NoExit, ~ late, ~ dead, srv.sub
                PROVE  Deletes # {} /\ \A i \in Deletes : status[i] = "Bad"
    BY DEF SubscriptionDeleted
  <2>1. status[DeleteAt] = "Bad" /\ NotDeleted
    BY DEF Deleting, ToDelete
  <2>2. DeleteAt \in DOMAIN status /\ Program[DeleteAt].kind = "deleteSub"
    BY ShapeHere, NumbersHere DEF Base, Shape, Numbers
  <2>3. \A i \in DOMAIN status : status[i] \in {"none", "Good", "Bad"}
    BY DEF Base, TypeOK
  <2>. QED  BY <2>1, <2>2, <2>3 DEF Deletes, NotDeleted
<1>. QED  BY <1>1, AlwaysDeleting, OrderInvariant, PTL

-----------------------------------------------------------------------------
(* Publishing is off.                                                       *)

LEMMA PublishingProgram ==
  ASSUME TypeOK, cmd = "publishing"
  PROVE  /\ Len(Program) = 20 /\ OffAt \in 1 .. Len(Program)
         /\ Program[OffAt] = Call("publish", 0) /\ Program[OnAt] = Call("publish", 1)
         /\ Program[OffAt + 1] = Reset
         /\ \A i \in 1 .. 20 : /\ Program[i].kind = "publish" => i \in {OffAt, OnAt}
                               /\ Program[i].op = "reset" => i = OffAt + 1
         /\ \A i \in 6 .. 17 : Program[i].op \in {"call", "pause"}
<1>1. Program = slc_publishing_mode
  BY ProgramShape DEF TypeOK
<1>. QED  BY <1>1 DEF slc_publishing_mode, OffAt, OnAt, Create, Monitor, Wait, Pause,
                     Reset, Report, Write, DeleteSub, Call, Step

(* Time goes on, and the connection stays as it is.                         *)
LEMMA SilentStays ==
  ASSUME Base, Silent, UNCHANGED <<cmd, toClient, dead>>,
         srv'.publishing = srv.publishing, Over => Over',
         status'[OffAt] = "Good" => status[OffAt] = "Good",
         cmd = "publishing" /\ status[OffAt] = "Good" /\ ~ Over' /\ pc' > OffAt + 1 =>
            store' = <<>>
  PROVE  Silent'
<1>. SUFFICES ASSUME cmd = "publishing" PROVE StaysOff' /\ OffFirst' /\ NoneArrives'
  BY DEF Silent
<1>0. StaysOff /\ OffFirst /\ NoneArrives
  BY DEF Silent
<1>2. TurnedOff' => TurnedOff
  BY DEF TurnedOff
<1>3. StaysOff'
  BY <1>0, <1>2 DEF StaysOff
<1>4. OffFirst'
  BY <1>0 DEF OffFirst
<1>5. NoneArrives'
  BY <1>0 DEF NoneArrives
<1>. QED  BY <1>3, <1>4, <1>5

(* A message is taken from the connection.                                  *)
LEMMA SilentTail ==
  ASSUME Base, Silent, UNCHANGED <<cmd, srv, dead>>, Over => Over',
         1 \in DOMAIN toClient,
         \A i \in DOMAIN toClient' : i \in Nat \ {0} /\ i + 1 \in DOMAIN toClient
                                     /\ toClient'[i] = toClient[i + 1],
         status'[OffAt] = "Good" => \/ status[OffAt] = "Good"
                                    \/ toClient[1].id = OffAt /\ toClient[1].good,
         cmd = "publishing" /\ status'[OffAt] = "Good" /\ ~ Over' /\ pc' > OffAt + 1 =>
            store' = <<>>
  PROVE  Silent'
<1>. SUFFICES ASSUME cmd = "publishing" PROVE StaysOff' /\ OffFirst' /\ NoneArrives'
  BY DEF Silent
<1>0. StaysOff /\ OffFirst /\ NoneArrives
  BY DEF Silent
<1>2. TurnedOff' => TurnedOff
  <2>1. ASSUME NEW i \in DOMAIN toClient', toClient'[i].id = OffAt, toClient'[i].good
        PROVE  TurnedOff
    BY <2>1 DEF TurnedOff
  <2>. QED  BY <2>1 DEF TurnedOff
<1>3. StaysOff'
  BY <1>0, <1>2 DEF StaysOff
<1>4. OffFirst'
  <2>. SUFFICES ASSUME NEW i \in DOMAIN toClient', NEW j \in DOMAIN toClient', i < j,
                       toClient'[i].id = OffAt, toClient'[i].good, toClient'[j].id = 0
                PROVE  Over'
    BY DEF OffFirst
  <2>1. i + 1 \in DOMAIN toClient /\ j + 1 \in DOMAIN toClient /\ i + 1 < j + 1
    OBVIOUS
  <2>. QED  BY <1>0, <2>1 DEF OffFirst
<1>5. NoneArrives'
  <2>. SUFFICES ASSUME status'[OffAt] = "Good", ~ Over', NEW j \in DOMAIN toClient'
                PROVE  toClient'[j].id # 0
    BY DEF NoneArrives
  <2>1. j + 1 \in DOMAIN toClient /\ toClient'[j] = toClient[j + 1] /\ 1 < j + 1
    OBVIOUS
  <2>. QED  BY <1>0, <2>1 DEF OffFirst, NoneArrives
<1>. QED  BY <1>3, <1>4, <1>5

(* A message m is put on the connection: an answer, or a notification while *)
(* the server publishes.                                                    *)
LEMMA SilentAppend ==
  ASSUME Base, Silent, UNCHANGED <<cmd, pc, waiting, status, store, dead>>, ~ dead,
         NEW m \in Message, toClient' = Append(toClient, m),
         m.id = 0 => srv.publishing /\ srv'.publishing = srv.publishing,
         m.id = OnAt => pc > OnAt \/ (pc = OnAt /\ waiting),
         m.id # OnAt /\ ~ (m.id = OffAt /\ m.good) =>
            (srv'.publishing => srv.publishing),
         cmd = "publishing" /\ m.id = OffAt /\ m.good => ~ srv'.publishing
  PROVE  Silent'
<1>. SUFFICES ASSUME cmd = "publishing" PROVE StaysOff' /\ OffFirst' /\ NoneArrives'
  BY DEF Silent
<1>0. StaysOff /\ OffFirst /\ NoneArrives
      /\ Len(toClient) \in Nat /\ DOMAIN toClient = 1 .. Len(toClient)
  BY LenProperties DEF Silent, Base, TypeOK
<1>1. PICK n \in Nat \ {0} : n = Len(toClient) + 1
  BY <1>0
<1>2. /\ toClient'[n] = m /\ n \in DOMAIN toClient'
      /\ \A i \in DOMAIN toClient : i \in DOMAIN toClient'
      /\ \A i \in DOMAIN toClient : toClient'[i] = toClient[i]
      /\ \A i \in DOMAIN toClient' : i \in DOMAIN toClient \/ i = n
  <2>1. toClient \in Seq(Message)
    BY DEF Base, TypeOK
  <2>2. /\ toClient' \in Seq(Message) /\ Len(toClient') = Len(toClient) + 1
        /\ toClient'[Len(toClient) + 1] = m
        /\ \A i \in DOMAIN toClient : toClient'[i] = toClient[i]
    BY <2>1, AppendFacts
  <2>3. DOMAIN toClient' = 1 .. n
    BY <1>1, <2>2, LenProperties
  <2>. QED  BY <1>0, <1>1, <2>2, <2>3
<1>3. (Over => Over') /\ (m.id = OnAt => Over')
  BY <1>2 DEF Over
<1>5. StaysOff'
  <2>. SUFFICES ASSUME TurnedOff', srv'.publishing, ~ Over' PROVE FALSE
    BY DEF StaysOff
  <2>1. m.id # OnAt /\ ~ (m.id = OffAt /\ m.good)
    BY <1>3
  <2>2. srv.publishing
    BY <2>1
  <2>3. TurnedOff
    BY <1>2, <2>1 DEF TurnedOff
  <2>. QED  BY <1>0, <1>3, <2>2, <2>3 DEF StaysOff
<1>6. OffFirst'
  <2>. SUFFICES ASSUME NEW i \in DOMAIN toClient', NEW j \in DOMAIN toClient', i < j,
                       toClient'[i].id = OffAt, toClient'[i].good, toClient'[j].id = 0
                PROVE  Over
    BY <1>3 DEF OffFirst
  <2>0. i \in DOMAIN toClient /\ toClient[i].id = OffAt /\ toClient[i].good
    BY <1>0, <1>1, <1>2
  <2>1. CASE j \in DOMAIN toClient
    BY <1>0, <1>2, <2>0, <2>1 DEF OffFirst
  <2>2. CASE j = n
    <3>1. TurnedOff /\ srv.publishing
      BY <1>2, <2>0, <2>2 DEF TurnedOff
    <3>. QED  BY <1>0, <3>1 DEF StaysOff
  <2>. QED  BY <1>2, <2>1, <2>2
<1>7. NoneArrives'
  <2>. SUFFICES ASSUME status[OffAt] = "Good", ~ Over,
                       NEW j \in DOMAIN toClient', toClient'[j].id = 0
                PROVE  FALSE
    BY <1>0, <1>3 DEF NoneArrives
  <2>1. CASE j \in DOMAIN toClient
    BY <1>0, <1>2, <2>1 DEF NoneArrives
  <2>2. CASE j = n
    <3>1. TurnedOff /\ srv.publishing
      BY <1>2, <2>2 DEF TurnedOff
    <3>. QED  BY <1>0, <3>1 DEF StaysOff
  <2>. QED  BY <1>2, <2>1, <2>2
<1>. QED  BY <1>5, <1>6, <1>7

LEMMA HandleSilent == ASSUME Base, Silent, Handle PROVE Silent'
<1>. DEFINE r == Head(toServer)
<1>0. /\ ~ dead /\ toServer # <<>> /\ toClient' = Append(toClient, Response(r, Accepts(r.req)))
      /\ UNCHANGED <<client, fixed, dead>>
  BY DEF Handle
<1>1. UNCHANGED <<cmd, pc, waiting, status, store, dead>>
  BY <1>0 DEF client, fixed
<1>2. /\ r \in Request /\ r.id \in 1 .. Len(Program) /\ r.req = Program[r.id]
      /\ r.req.kind \in Called /\ r.id <= pc /\ (r.id = pc => waiting)
  <2>1. 1 \in DOMAIN toServer /\ r = toServer[1] /\ r \in Request
    BY <1>0, TailFacts DEF Base, TypeOK
  <2>2. /\ r.id \in 1 .. Len(Program) /\ r.req = Program[r.id] /\ r.req.op = "call"
        /\ r.id <= pc /\ (r.id = pc => waiting)
    BY <2>1 DEF Base, Ordered, Requests
  <2>. QED  BY <2>1, <2>2, ShapeHere DEF Shape, Base
<1>3. Accepts(r.req) \in BOOLEAN
  <2>1. srv.sub \in BOOLEAN /\ srv.item \in BOOLEAN
    BY DEF Base, TypeOK, ServerType
  <2>. QED  BY <1>2, <2>1 DEF Accepts, Called
<1>4. PICK m : m = Response(r, Accepts(r.req))
  OBVIOUS
<1>5. m \in Message /\ m.id = r.id /\ m.good = Accepts(r.req)
  BY <1>2, <1>3, <1>4, EmptySeq DEF Response, Message, Request
<1>6. srv'.publishing = IF Accepts(r.req) /\ r.req.kind = "publish"
                        THEN r.req.val = 1 ELSE srv.publishing
  BY HandleBase
<1>. HIDE DEF r
<1>7. CASE cmd = "publishing"
  <2>1. /\ Len(Program) = 20
        /\ Program[OffAt] = Call("publish", 0)
        /\ \A i \in 1 .. 20 : Program[i].kind = "publish" => i \in {OffAt, OnAt}
    BY <1>7, PublishingProgram DEF Base
  <2>2. Call("publish", 0).kind = "publish" /\ Call("publish", 0).val = 0
    BY DEF Call, Step
  <2>3. r.req.kind = "publish" => r.id \in {OffAt, OnAt}
    BY <1>2, <2>1
  <2>4. r.id = OffAt => r.req.kind = "publish" /\ r.req.val # 1
    BY <1>2, <2>1, <2>2
  <2>5. m.id # OnAt /\ ~ (m.id = OffAt /\ m.good) => (srv'.publishing => srv.publishing)
    BY <1>5, <1>6, <2>3
  <2>6. m.id = OffAt /\ m.good => ~ srv'.publishing
    BY <1>5, <1>6, <2>4
  <2>7. m.id # 0
    BY <1>2, <1>5
  <2>8. m.id = OnAt => pc > OnAt \/ (pc = OnAt /\ waiting)
    BY <1>2, <1>5, NumbersHere DEF OnAt, Numbers
  <2>. QED  BY <1>0, <1>1, <1>4, <1>5, <2>5, <2>6, <2>7, <2>8, SilentAppend
<1>8. CASE cmd # "publishing"
  BY <1>1, <1>8 DEF Silent
<1>. QED  BY <1>7, <1>8

LEMMA RefuseSilent == ASSUME Base, Silent, Refuse PROVE Silent'
<1>. DEFINE r == Head(toServer)
<1>0. /\ ~ dead /\ toServer # <<>> /\ toClient' = Append(toClient, Response(r, FALSE))
      /\ UNCHANGED <<cmd, pc, waiting, status, store, dead>> /\ srv' = srv
  BY DEF Refuse, client, fixed, server
<1>1. r \in Request /\ r.id <= pc /\ (r.id = pc => waiting)
  <2>1. 1 \in DOMAIN toServer /\ r = toServer[1] /\ r \in Request
    BY <1>0, TailFacts DEF Base, TypeOK
  <2>. QED  BY <2>1 DEF Base, Ordered, Requests
<1>2. PICK m : m = Response(r, FALSE)
  OBVIOUS
<1>3. m \in Message /\ m.id = r.id /\ m.good = FALSE /\ m.id # 0
  BY <1>1, <1>2, EmptySeq DEF Response, Message, Request
<1>4. m.id = OnAt => pc > OnAt \/ (pc = OnAt /\ waiting)
  BY <1>1, <1>3, NumbersHere DEF OnAt, Numbers
<1>. HIDE DEF r
<1>. QED  BY <1>0, <1>2, <1>3, <1>4, SilentAppend

LEMMA PublishSilent == ASSUME Base, Silent, Publish PROVE Silent'
<1>0. /\ ~ dead /\ srv.publishing /\ srv'.publishing = srv.publishing
      /\ toClient' = Append(toClient, [id |-> 0, good |-> TRUE, items |-> srv.queue])
      /\ UNCHANGED <<cmd, pc, waiting, status, store, dead>>
  BY PublishBase DEF Publish, client, fixed
<1>1. PICK m : m = [id |-> 0, good |-> TRUE, items |-> srv.queue]
  OBVIOUS
<1>2. m \in Message /\ m.id = 0 /\ m.id # OffAt /\ m.id # OnAt
  BY <1>1 DEF Message, Base, TypeOK, ServerType, OffAt, OnAt
<1>. QED  BY <1>0, <1>1, <1>2, SilentAppend

(* The program is not at the reset, unless that is what runs.               *)
LEMMA PastReset ==
  ASSUME Base, Silent, cmd = "publishing", status[OffAt] = "Good",
         pc \in 1 .. 16, Current.op # "reset"
  PROVE  pc \in 6 .. 16 /\ store = <<>> /\ Current.op \in {"call", "pause"}
<1>1. /\ Len(Program) = 20 /\ Program[OffAt + 1] = Reset
      /\ \A i \in 6 .. 17 : Program[i].op \in {"call", "pause"}
  BY PublishingProgram DEF Base
<1>2. pc > OffAt
  <2>1. OffAt \in DOMAIN status
    BY <1>1, NumbersHere DEF Numbers, OffAt
  <2>. QED  BY <2>1, NumbersHere DEF Base, Ordered, GoodIsOver, Numbers
<1>3. pc # OffAt + 1
  BY <1>1 DEF Current, Reset, Step
<1>4. pc \in 6 .. 16
  BY <1>2, <1>3 DEF OffAt
<1>5. store = <<>>
  BY <1>4 DEF Silent, NoneArrives, Over, OffAt, OnAt
<1>. QED  BY <1>1, <1>4, <1>5 DEF Current

LEMMA CallEndsSilent ==
  ASSUME Base, Silent, waiting, NEW good \in BOOLEAN, CallEnds(good), store' = store,
         cmd = "publishing", status[OffAt] = "Good", ~ Over'
  PROVE  store' = <<>>
<1>1. /\ pc \in 1 .. Len(Program) /\ pc' \in Nat /\ pc < pc'
  BY CallEndsIs
<1>2. Current.op = "call"
  BY DEF Base, Ordered, CallWaits, At
<1>3. pc \in 1 .. 16
  BY <1>1, NumbersHere DEF Numbers, Over, OnAt
<1>. QED  BY <1>2, <1>3, PastReset

LEMMA FaultSilent == ASSUME Base, Silent, Fault PROVE Silent'
<1>0. /\ waiting /\ CallEnds(FALSE) /\ FALSE \in BOOLEAN
      /\ UNCHANGED <<cmd, toClient, srv, store, dead>>
  BY DEF Fault, fixed, server
<1>1. /\ pc \in 1 .. Len(Program) /\ pc' \in Nat /\ pc < pc'
      /\ \A s \in 1 .. Len(Program) :
            status'[s] = IF s = pc THEN "Bad" ELSE status[s]
  BY <1>0, CallEndsIs
<1>2. CASE cmd = "publishing"
  <2>1. OffAt \in 1 .. Len(Program)
    BY <1>2, PublishingProgram DEF Base
  <2>2. status'[OffAt] = "Good" => status[OffAt] = "Good"
    BY <1>1, <2>1
  <2>3. Over => Over'
    BY <1>1, NumbersHere DEF Numbers, Over, OnAt
  <2>4. status[OffAt] = "Good" /\ ~ Over' => store' = <<>>
    BY <1>0, <1>2, CallEndsSilent
  <2>. QED  BY <1>0, <1>1, <2>2, <2>3, <2>4, SilentStays
<1>3. CASE cmd # "publishing"
  BY <1>0, <1>3 DEF Silent
<1>. QED  BY <1>2, <1>3

LEMMA ReceiveSilent == ASSUME Base, Silent, Receive PROVE Silent'
<1>0. /\ UNCHANGED <<cmd, srv, dead>>
      /\ 1 \in DOMAIN toClient
      /\ \A i \in DOMAIN toClient' : i \in Nat \ {0} /\ i + 1 \in DOMAIN toClient
                                     /\ toClient'[i] = toClient[i + 1]
  BY ReceiveIs DEF fixed
<1>. SUFFICES ASSUME cmd = "publishing" PROVE Silent'
  BY <1>0 DEF Silent
<1>2. OffAt \in 1 .. Len(Program) /\ Numbers
  BY PublishingProgram, NumbersHere DEF Base
<1>3. CASE /\ waiting /\ toClient[1].id = pc /\ toClient[1].good \in BOOLEAN
           /\ CallEnds(toClient[1].good) /\ UNCHANGED store
  <2>1. /\ pc \in 1 .. Len(Program) /\ pc' \in Nat /\ pc < pc'
        /\ \A s \in 1 .. Len(Program) :
              status'[s] = IF s = pc THEN (IF toClient[1].good THEN "Good" ELSE "Bad")
                           ELSE status[s]
    BY <1>3, CallEndsIs
  <2>2. Over => Over'
    BY <1>2, <2>1 DEF Numbers, Over, OnAt
  <2>3. status'[OffAt] = "Good" => \/ status[OffAt] = "Good"
                                   \/ toClient[1].id = OffAt /\ toClient[1].good
    BY <1>2, <1>3, <2>1
  <2>4. ASSUME status'[OffAt] = "Good", ~ Over', pc' > OffAt + 1 PROVE store' = <<>>
    <3>1. CASE status[OffAt] = "Good"
      BY <1>3, <2>4, <3>1, CallEndsSilent
    <3>2. CASE status[OffAt] # "Good"
      <4>1. pc = OffAt /\ toClient[1].good
        BY <1>2, <2>1, <2>4, <3>2
      <4>2. pc' = pc + 1
        BY <1>3, <4>1, CallEndsIs
      <4>. QED  BY <2>4, <4>1, <4>2 DEF OffAt
    <3>. QED  BY <3>1, <3>2
  <2>. QED  BY <1>0, <2>2, <2>3, <2>4, SilentTail
<1>4. CASE /\ ~ (waiting /\ toClient[1].id = pc)
           /\ UNCHANGED <<pc, waiting, status, exit>>
           /\ store' = IF Monitored THEN Dispatch(toClient[1].items) ELSE store
  <2>1. Over => Over'
    <3>1. toClient[1].id = OnAt => pc # OnAt
      <4>1. toClient[1].id = pc /\ toClient[1].id # 0 => waiting
        BY <1>0 DEF Base, Ordered, Answers
      <4>. QED  BY <1>4, <4>1 DEF OnAt
    <3>2. ASSUME NEW k \in DOMAIN toClient, toClient[k].id = OnAt, pc = OnAt
          PROVE  \E i \in DOMAIN toClient' : toClient'[i].id = OnAt
      <4>1. k # 1
        BY <3>1, <3>2
      <4>2. PICK i \in DOMAIN toClient' : i + 1 = k
        <5>1. /\ DOMAIN toClient = 1 .. Len(toClient) /\ Len(toClient) \in Nat
              /\ DOMAIN toClient' = 1 .. Len(toClient')
              /\ Len(toClient') = Len(toClient) - 1
          BY ReceiveIs, LenProperties DEF Base, TypeOK
        <5>2. k - 1 \in DOMAIN toClient' /\ (k - 1) + 1 = k
          BY <4>1, <5>1
        <5>. QED  BY <5>2
      <4>. QED  BY <1>0, <3>2, <4>2
    <3>. QED  BY <1>0, <1>4, <3>2 DEF Over
  <2>3. ASSUME status[OffAt] = "Good", ~ Over', pc > OffAt + 1 PROVE store' = <<>>
    <3>2. store = <<>> /\ toClient[1].id # 0
      BY <1>0, <2>1, <2>3 DEF Silent, NoneArrives
    <3>3. toClient[1].items = <<>>
      BY <1>0, <3>2 DEF Base, Ordered, Answers
    <3>4. Dispatch(<<>>) = <<>>
      <4>1. MaxNotifications \in Nat \ {0} /\ cmd # "events"
        BY SubscriptionAssumption
      <4>2. AtMost(Len(<<>>), MaxNotifications - Len(store)) = 0
        BY <3>2, <4>1, EmptyFacts DEF AtMost
      <4>3. Dispatch(<<>>) = store \o SubSeq(<<>>, 1, 0)
        BY <4>1, <4>2 DEF Dispatch, sub_data_change_cb
      <4>4. SubSeq(<<>>, 1, 0) = <<>>
        BY SubSeqEmpty
      <4>. QED  BY <3>2, <4>3, <4>4, ConcatEmptySeq, EmptySeq
    <3>. QED  BY <1>4, <3>2, <3>3, <3>4
  <2>. QED  BY <1>0, <1>4, <2>1, <2>3, SilentTail
<1>. QED  BY <1>3, <1>4, ReceiveIs

(* Steps that change neither the connection nor what the calls returned.    *)
LEMMA LocalSilent ==
  ASSUME Base, Silent,
         Connect \/ StepCall \/ WaitDone \/ TimeUp \/ StepLocal \/ Finish
           \/ Sample \/ Change \/ UNCHANGED vars
  PROVE  Silent'
<1>1. UNCHANGED <<cmd, toClient, status, dead>>
  BY DEF Connect, StepCall, WaitDone, TimeUp, StepLocal, Finish, Sample, Change, vars,
         fixed, client
<1>2. srv'.publishing = srv.publishing
  <2>1. CASE Connect \/ StepCall \/ WaitDone \/ TimeUp \/ StepLocal \/ Finish
               \/ UNCHANGED vars
    BY <2>1 DEF Connect, StepCall, WaitDone, TimeUp, StepLocal, Finish, vars, server
  <2>2. CASE Sample \/ Change
    BY <2>2, SampleBase, ChangeBase DEF SameServer
  <2>. QED  BY <2>1, <2>2
<1>3. pc' \in Nat /\ pc <= pc' /\ (pc' = pc /\ waiting => waiting')
  <2>1. pc \in Nat
    BY NumbersHere DEF Numbers
  <2>2. CASE Connect
    BY <2>1, <2>2 DEF Connect
  <2>3. CASE WaitDone \/ TimeUp \/ StepLocal
    BY <2>1, <2>3 DEF WaitDone, TimeUp, StepLocal
  <2>4. CASE StepCall \/ Finish \/ Sample \/ Change \/ UNCHANGED vars
    <3>1. pc' = pc
      BY <2>4 DEF StepCall, Finish, Sample, Change, vars, client
    <3>2. waiting' = TRUE \/ waiting' = waiting
      BY <2>4 DEF StepCall, Finish, Sample, Change, vars, client
    <3>. QED  BY <2>1, <3>1, <3>2
  <2>. QED  BY <2>2, <2>3, <2>4
<1>5. Over => Over'
  BY <1>1, <1>3, NumbersHere DEF Over, OnAt, Numbers
<1>4. ASSUME cmd = "publishing", status[OffAt] = "Good", ~ Over', pc' > OffAt + 1
      PROVE  store' = <<>>
  <2>0. pc' \in 6 .. 17
    <3>1. pc' <= 17
      BY <1>3, <1>4 DEF Over, OnAt
    <3>. QED  BY <1>3, <1>4, <3>1 DEF OffAt
  <2>1. CASE WaitDone \/ TimeUp
    <3>1. pc' = pc + 1 /\ store' = store /\ (At("wait") \/ At("pause"))
      BY <2>1 DEF WaitDone, TimeUp
    <3>2. pc \in 1 .. 16
      <4>1. pc \in Nat
        BY NumbersHere, Zenon DEF Numbers
      <4>2. pc + 1 \in 6 .. 17
        BY <2>0, <3>1, Zenon
      <4>. QED  BY <4>1, <4>2
    <3>3. Current.op # "reset"
      BY <3>1 DEF At
    <3>. QED  BY <1>4, <3>1, <3>2, <3>3, PastReset
  <2>2. CASE StepLocal
    <3>1. pc' = pc + 1 /\ (At("reset") \/ At("mark") \/ At("report"))
      BY <2>2 DEF StepLocal
    <3>2. pc \in 1 .. 16
      <4>1. pc \in Nat
        BY NumbersHere, Zenon DEF Numbers
      <4>2. pc + 1 \in 6 .. 17
        BY <2>0, <3>1, Zenon
      <4>. QED  BY <4>1, <4>2
    <3>3. CASE At("reset")
      BY <2>2, <3>3 DEF StepLocal, At
    <3>4. CASE At("mark") \/ At("report")
      <4>1. Current.op \in {"mark", "report"}
        BY <3>4 DEF At
      <4>. QED  BY <1>4, <3>2, <4>1, PastReset
    <3>. QED  BY <3>1, <3>3, <3>4
  <2>3. CASE Connect \/ StepCall \/ Finish \/ Sample \/ Change \/ UNCHANGED vars
    <3>1. store' = store
      BY <2>3 DEF Connect, StepCall, Finish, Sample, Change, vars, client
    <3>2. pc' = pc
      <4>1. CASE Connect
        BY <2>0, <4>1 DEF Connect
      <4>2. CASE StepCall \/ Finish \/ Sample \/ Change \/ UNCHANGED vars
        BY <4>2 DEF StepCall, Finish, Sample, Change, vars, client
      <4>. QED  BY <2>3, <4>1, <4>2
    <3>. QED  BY <1>4, <1>5, <3>1, <3>2 DEF Silent, NoneArrives
  <2>. QED  BY <2>1, <2>2, <2>3
<1>. QED  BY <1>1, <1>2, <1>4, <1>5, SilentStays

LEMMA DieSilent == ASSUME Base, Silent, Die PROVE Silent'
<1>1. /\ DOMAIN toClient' = {} /\ dead' = TRUE /\ UNCHANGED <<cmd, pc, waiting, status, store>>
  BY DieBase DEF Die, client, fixed
<1>2. CASE cmd = "publishing"
  <2>1. StaysOff' /\ OffFirst'
    BY <1>1 DEF StaysOff, OffFirst
  <2>2. NoneArrives'
    BY <1>1, <1>2 DEF NoneArrives, Silent, Over
  <2>. QED  BY <2>1, <2>2 DEF Silent
<1>3. CASE cmd # "publishing"
  BY <1>1, <1>3 DEF Silent
<1>. QED  BY <1>2, <1>3

(* An answer that falls behind a notification was ahead of it.              *)
LEMMA OvertakeSilent == ASSUME Base, Silent, Overtake PROVE Silent'
<1>0. UNCHANGED <<cmd, pc, waiting, status, store, srv, dead>>
  BY OvertakeIs DEF client, server, fixed
<1>. SUFFICES ASSUME cmd = "publishing" PROVE StaysOff' /\ OffFirst' /\ NoneArrives'
  BY <1>0 DEF Silent
<1>1. StaysOff /\ OffFirst /\ NoneArrives /\ Over' = Over
  BY <1>0, OvertakeSame DEF Silent, Over
<1>2. PICK i \in Nat \ {0} : /\ Swapped(toClient, toClient', i)
                             /\ toClient[i].id # 0 /\ toClient[i + 1].id = 0
  BY OvertakeIs
<1>3. TurnedOff' => TurnedOff
  BY <1>0, OvertakeSame DEF TurnedOff
<1>4. OffFirst'
  <2>. SUFFICES ASSUME NEW k \in DOMAIN toClient', NEW j \in DOMAIN toClient', k < j,
                       toClient'[k].id = OffAt, toClient'[k].good, toClient'[j].id = 0
                PROVE  Over
    BY <1>1 DEF OffFirst
  <2>0. k \in DOMAIN toClient /\ j \in DOMAIN toClient /\ k \in Nat /\ j \in Nat
    BY <1>2, LenProperties DEF Swapped, Base, TypeOK
  <2>1. PICK k1 \in DOMAIN toClient : toClient[k1] = toClient'[k] /\ k1 <= k
    <3>1. k # i
      BY <1>2 DEF Swapped, OffAt
    <3>. QED  BY <1>2, <2>0, <3>1 DEF Swapped
  <2>2. PICK j1 \in DOMAIN toClient : toClient[j1] = toClient'[j] /\ j1 >= j
    <3>1. j # i + 1
      BY <1>2 DEF Swapped
    <3>. QED  BY <1>2, <2>0, <3>1 DEF Swapped
  <2>3. k1 < j1
    BY <2>0, <2>1, <2>2, LenProperties DEF Base, TypeOK
  <2>. QED  BY <1>1, <2>1, <2>2, <2>3 DEF OffFirst
<1>5. NoneArrives'
  BY <1>0, <1>1, OvertakeSame DEF NoneArrives
<1>6. StaysOff'
  BY <1>0, <1>1, <1>3 DEF StaysOff
<1>. QED  BY <1>4, <1>5, <1>6

(* The positions SilentWhileOff speaks of.                                  *)
LEMMA Positions ==
  ASSUME TypeOK, cmd = "publishing"
  PROVE  Where(Reset) = 5 /\ Where(Call("publish", 0)) = 4 /\ Where(Call("publish", 1)) = 17
<1>1. /\ Len(Program) = 20 /\ DOMAIN Program = 1 .. 20
      /\ Program[4] = Call("publish", 0) /\ Program[17] = Call("publish", 1)
      /\ Program[5] = Reset
      /\ \A i \in 1 .. 20 : /\ Program[i].kind = "publish" => i \in {4, 17}
                            /\ Program[i].op = "reset" => i = 5
  <2>1. Program \in Seq(StepType) /\ 4 + 1 = 5
    BY ShapeHere DEF Shape
  <2>. QED  BY <2>1, PublishingProgram, LenProperties DEF OffAt, OnAt
<1>2. /\ Call("publish", 0).kind = "publish" /\ Call("publish", 1).kind = "publish"
      /\ Call("publish", 0) # Call("publish", 1) /\ Reset.op = "reset"
  BY DEF Call, Step, Reset
<1>3. /\ \A i \in DOMAIN Program : Program[i] = Reset <=> i = 5
      /\ \A i \in DOMAIN Program : Program[i] = Call("publish", 0) <=> i = 4
      /\ \A i \in DOMAIN Program : Program[i] = Call("publish", 1) <=> i = 17
  BY <1>1, <1>2
<1>4. 5 \in DOMAIN Program /\ 4 \in DOMAIN Program /\ 17 \in DOMAIN Program
  BY <1>1
<1>. QED  BY <1>3, <1>4, Zenon DEF Where

LEMMA AlwaysSilent == Spec => []Silent
<1>1. Init => Silent
  <2>. SUFFICES ASSUME Init, cmd = "publishing" PROVE StaysOff /\ OffFirst /\ NoneArrives
    BY DEF Silent
  <2>1. DOMAIN toClient = {}
    BY EmptyFacts DEF Init
  <2>2. status[OffAt] # "Good"
    <3>1. status = [i \in 1 .. Len(Program) |-> "none"]
      BY DEF Init
    <3>2. OffAt \in 1 .. Len(Program)
      BY InitBase, PublishingProgram DEF Base
    <3>. QED  BY <3>1, <3>2
  <2>. QED  BY <2>1, <2>2 DEF StaysOff, OffFirst, NoneArrives, TurnedOff
<1>2. Base /\ Silent /\ [Next]_vars => Silent'
  <2>. SUFFICES ASSUME Base, Silent, [Next]_vars PROVE Silent'
    OBVIOUS
  <2>. QED  BY LocalSilent, HandleSilent, RefuseSilent, PublishSilent, DieSilent,
               FaultSilent, ReceiveSilent, OvertakeSilent DEF Next, ClientStep, ServerStep
<1>. QED  BY <1>1, <1>2, OrderInvariant, PTL DEF Spec

(* Between the reset after SetPublishingMode(false) and the call that turns *)
(* publishing on again nothing is stored, whatever was under way when it    *)
(* was turned off and whichever writes time out meanwhile.                  *)
THEOREM NothingWhileOff == Spec => []SilentWhileOff
<1>1. Base /\ Silent => SilentWhileOff
  <2>. SUFFICES ASSUME Base, Silent, cmd = "publishing",
                       pc \in Where(Reset) + 1 .. Where(Call("publish", 1)),
                       ~ (pc = Where(Call("publish", 1)) /\ waiting),
                       status[Where(Call("publish", 0))] = "Good"
                PROVE  store = <<>>
    BY DEF SilentWhileOff
  <2>1. pc \in 6 .. 17 /\ ~ (pc = 17 /\ waiting) /\ status[4] = "Good"
    BY Positions DEF Base
  <2>. QED  BY <2>1 DEF Silent, NoneArrives, Over, OffAt, OnAt
<1>. QED  BY <1>1, OrderInvariant, AlwaysSilent, PTL

-----------------------------------------------------------------------------
(* What subscribe and event-subscribe collect.                              *)

(* The items are the samples after the first o.                             *)
Covers(items, o, samples) ==
    \A k \in 1 .. Len(items) :
        o + k <= Len(samples) /\ items[k].val = samples[o + k]

(* The samples are what is stored, then what is on the connection, then     *)
(* what is queued; off[i] is how many were taken before message i. A store  *)
(* that is full has missed some.                                            *)
LinkedBy(off, kept, cap, msgs, queue, samples) ==
    /\ Len(kept) <= off[1]
    /\ Len(kept) < cap => off[1] = Len(kept)
    /\ \A i \in 1 .. Len(msgs) :
          /\ off[i + 1] = off[i] + Len(msgs[i].items)
          /\ Covers(msgs[i].items, off[i], samples)
    /\ off[Len(msgs) + 1] + Len(queue) = Len(samples)
    /\ Covers(queue, off[Len(msgs) + 1], samples)

Offsets(msgs, samples) == [1 .. Len(msgs) + 1 -> 0 .. Len(samples)]

(* As long as the item may be there and no sample was discarded or lost.    *)
Tracked == ~ discarded /\ ~ dead /\ exit = NoExit /\ status[2] # "Bad" /\ pc <= 4

Linked ==
    Tracked =>
        /\ Len(srv.queue) <= srv.size
        /\ \E off \in Offsets(toClient, sampled) :
              LinkedBy(off, store, StoreCap, toClient, srv.queue, sampled)

(* Before the answer to CreateMonitoredItems there is nothing to notify.    *)
Begins ==
    /\ pc <= 2 <=> status[2] = "none"
    /\ ~ dead /\ exit = NoExit /\ pc <= 2
          /\ (\A k \in DOMAIN toClient : toClient[k].id # 2) =>
       srv.queue = <<>> /\ ~ srv.item

(* The store, and from step 5 on the result, is what was sampled first.     *)
Kept ==
    /\ Len(store) <= StoreCap
    /\ status[2] # "Good" => store = <<>>
    /\ ~ discarded => /\ pc <= 4 => Covers(store, 0, sampled)
                      /\ pc >= 5 => Covers(printed, 0, sampled)

(* What timedOut says of it.                                                *)
Timed ==
    /\ pc <= 3 => ~ timedOut
    /\ status[2] = "Good" =>
          /\ pc = 4 => (timedOut <=> Len(store) < AtMost(asked, StoreCap))
          /\ pc >= 5 => (timedOut <=> Len(printed) < AtMost(asked, StoreCap))
          /\ exit # NoExit /\ pc >= 6 => exit = IF timedOut THEN 7 ELSE 0

Gathering == Collecting => Linked /\ Begins /\ Kept /\ Timed

(* A longer sequence of samples covers what a shorter one did.              *)
LEMMA CoversGrows ==
  ASSUME NEW items \in Seq(Item), NEW o \in Nat, NEW samples \in Seq(Int), NEW v \in Int,
         Covers(items, o, samples)
  PROVE  Covers(items, o, Append(samples, v))
<1>1. Len(items) \in Nat /\ Len(samples) \in Nat /\ Len(Append(samples, v)) = Len(samples) + 1
  BY LenProperties, AppendFacts
<1>2. \A i \in 1 .. Len(samples) : Append(samples, v)[i] = samples[i]
  BY AppendFacts, LenProperties
<1>. QED  BY <1>1, <1>2 DEF Covers

LEMMA OffsetsAre ==
  ASSUME NEW msgs \in Seq(Message), NEW samples \in Seq(Int),
         NEW off \in Offsets(msgs, samples)
  PROVE  /\ Len(msgs) \in Nat /\ Len(samples) \in Nat
         /\ \A i \in 1 .. Len(msgs) + 1 : off[i] \in 0 .. Len(samples) /\ off[i] \in Nat
         /\ \A i \in 1 .. Len(msgs) : i \in 1 .. Len(msgs) + 1 /\ i + 1 \in 1 .. Len(msgs) + 1
         /\ Len(msgs) + 1 \in 1 .. Len(msgs) + 1
         /\ \A i \in 1 .. Len(msgs) : msgs[i] \in Message /\ msgs[i].items \in Seq(Item)
<1>1. Len(msgs) \in Nat /\ Len(samples) \in Nat
  BY LenProperties
<1>2. off \in [1 .. Len(msgs) + 1 -> 0 .. Len(samples)]
  BY DEF Offsets
<1>3. \A i \in 1 .. Len(msgs) : msgs[i] \in Message
  BY ElementOfSeq
<1>4. \A m \in Message : m.items \in Seq(Item)
  BY DEF Message
<1>5. \A i \in 1 .. Len(msgs) + 1 : off[i] \in 0 .. Len(samples) /\ off[i] \in Nat
  BY <1>1, <1>2
<1>. QED  BY <1>1, <1>3, <1>4, <1>5

(* A sample is queued.                                                      *)
LEMMA LinkGrows ==
  ASSUME NEW msgs \in Seq(Message), NEW queue \in Seq(Item), NEW samples \in Seq(Int),
         NEW kept, NEW cap, NEW off \in Offsets(msgs, samples), NEW e \in Item,
         LinkedBy(off, kept, cap, msgs, queue, samples)
  PROVE  /\ off \in Offsets(msgs, Append(samples, e.val))
         /\ LinkedBy(off, kept, cap, msgs, Append(queue, e), Append(samples, e.val))
<1>0. /\ Len(msgs) \in Nat /\ Len(queue) \in Nat /\ Len(samples) \in Nat
      /\ \A i \in 1 .. Len(msgs) + 1 : off[i] \in Nat
  BY LenProperties, OffsetsAre
<1>1. e.val \in Int
  BY DEF Item
<1>2. Len(Append(samples, e.val)) = Len(samples) + 1 /\ Len(Append(queue, e)) = Len(queue) + 1
  BY <1>1, AppendFacts
<1>3. off \in Offsets(msgs, Append(samples, e.val))
  BY <1>0, <1>2 DEF Offsets
<1>4. ASSUME NEW i \in 1 .. Len(msgs)
      PROVE  Covers(msgs[i].items, off[i], Append(samples, e.val))
  <2>1. msgs[i].items \in Seq(Item) /\ off[i] \in Nat
    BY OffsetsAre
  <2>. QED  BY <1>1, <2>1, CoversGrows DEF LinkedBy
<1>5. Covers(Append(queue, e), off[Len(msgs) + 1], Append(samples, e.val))
  <2>1. PICK o \in Nat, q \in Nat, l \in Nat :
           o = off[Len(msgs) + 1] /\ q = Len(queue) /\ l = Len(samples)
    BY <1>0, OffsetsAre
  <2>2. o + q = l /\ Covers(queue, o, samples)
    BY <2>1 DEF LinkedBy
  <2>3. Covers(queue, o, Append(samples, e.val))
    BY <1>1, <2>2, CoversGrows
  <2>4. /\ Append(samples, e.val)[l + 1] = e.val
        /\ Append(queue, e)[q + 1] = e
        /\ \A k \in 1 .. q : Append(queue, e)[k] = queue[k]
        /\ Len(Append(samples, e.val)) = l + 1 /\ Len(Append(queue, e)) = q + 1
    BY <1>1, <2>1, AppendFacts, LenProperties
  <2>5. ASSUME NEW k \in 1 .. q + 1
        PROVE  o + k <= l + 1 /\ Append(queue, e)[k].val = Append(samples, e.val)[o + k]
    <3>1. CASE k \in 1 .. q
      BY <2>1, <2>2, <2>3, <2>4, <3>1 DEF Covers
    <3>2. CASE k = q + 1
      <4>1. o + k = l + 1 /\ o + k <= l + 1
        BY <2>1, <2>2, <3>2
      <4>2. Append(queue, e)[k].val = e.val /\ Append(samples, e.val)[o + k] = e.val
        BY <2>4, <3>2, <4>1, Zenon
      <4>. QED  BY <4>1, <4>2, Zenon
    <3>3. k \in 1 .. q \/ k = q + 1
      OBVIOUS
    <3>. QED  BY <3>1, <3>2, <3>3, Zenon
  <2>. QED  BY <2>1, <2>4, <2>5 DEF Covers
<1>6. off[Len(msgs) + 1] + (Len(queue) + 1) = Len(samples) + 1
  <2>1. PICK o \in Nat, q \in Nat, l \in Nat :
           o = off[Len(msgs) + 1] /\ q = Len(queue) /\ l = Len(samples)
    BY <1>0, OffsetsAre
  <2>2. o + q = l
    BY <2>1 DEF LinkedBy
  <2>3. o + (q + 1) = l + 1
    BY <2>2
  <2>. QED  BY <2>1, <2>3
<1>. QED  BY <1>2, <1>3, <1>4, <1>5, <1>6 DEF LinkedBy

(* A message is sent, with k of the items in the queue.                     *)
LEMMA LinkAppend ==
  ASSUME NEW msgs \in Seq(Message), NEW queue \in Seq(Item), NEW samples \in Seq(Int),
         NEW kept, NEW cap, NEW off \in Offsets(msgs, samples),
         LinkedBy(off, kept, cap, msgs, queue, samples),
         NEW m \in Message, NEW rest \in Seq(Item), NEW k \in Nat, NEW r \in Nat,
         k = Len(m.items), r = Len(rest), k + r = Len(queue),
         Covers(m.items, off[Len(msgs) + 1], samples),
         Covers(rest, off[Len(msgs) + 1] + k, samples)
  PROVE  \E next \in Offsets(Append(msgs, m), samples) :
            LinkedBy(next, kept, cap, Append(msgs, m), rest, samples)
<1>0. PICK n \in Nat, l \in Nat : n = Len(msgs) /\ l = Len(samples)
  BY LenProperties
<1>1. PICK o \in Nat : o = off[n + 1]
  BY <1>0, OffsetsAre
<1>2. o + (k + r) = l
  BY <1>0, <1>1 DEF LinkedBy
<1>3. o + k \in 0 .. l /\ (o + k) + r = l
  BY <1>2
<1>. DEFINE next == [i \in 1 .. n + 2 |-> IF i <= n + 1 THEN off[i] ELSE o + k]
<1>4. /\ Len(Append(msgs, m)) = n + 1
      /\ Append(msgs, m)[n + 1] = m
      /\ \A i \in 1 .. n : Append(msgs, m)[i] = msgs[i]
  BY <1>0, AppendFacts, LenProperties
<1>5. /\ \A i \in 1 .. n + 1 : next[i] = off[i] /\ next[i] \in 0 .. l
      /\ next[n + 2] = o + k /\ next[n + 2] \in 0 .. l
  <2>1. \A i \in 1 .. n + 1 : off[i] \in 0 .. l
    BY <1>0, OffsetsAre
  <2>2. \A i \in 1 .. n + 1 : next[i] = off[i]
    OBVIOUS
  <2>3. next[n + 2] = o + k
    OBVIOUS
  <2>. QED  BY <1>3, <2>1, <2>2, <2>3, Zenon
<1>6. next \in Offsets(Append(msgs, m), samples)
  BY <1>0, <1>4, <1>5 DEF Offsets
<1>. HIDE DEF next
<1>7. Len(kept) <= next[1] /\ (Len(kept) < cap => next[1] = Len(kept))
  BY <1>0, <1>5, SMTT(30) DEF LinkedBy
<1>8. ASSUME NEW i \in 1 .. n + 1
      PROVE  /\ next[i + 1] = next[i] + Len(Append(msgs, m)[i].items)
             /\ Covers(Append(msgs, m)[i].items, next[i], samples)
  <2>1. CASE i \in 1 .. n
    <3>1. i + 1 \in 1 .. n + 1 /\ i \in 1 .. n + 1
      BY <1>0, <2>1
    <3>. QED  BY <1>0, <1>4, <1>5, <2>1, <3>1 DEF LinkedBy
  <2>2. CASE i = n + 1
    <3>1. i + 1 = n + 2 /\ n + 1 \in 1 .. n + 1
      BY <1>0, <2>2
    <3>2. next[i + 1] = o + k /\ next[i] = o /\ Append(msgs, m)[i] = m
      BY <1>1, <1>4, <1>5, <2>2, <3>1, Zenon
    <3>. QED  BY <1>0, <1>1, <3>2, Zenon
  <2>. QED  BY <1>0, <2>1, <2>2
<1>9. next[(n + 1) + 1] + Len(rest) = Len(samples) /\ Covers(rest, next[(n + 1) + 1], samples)
  <2>1. (n + 1) + 1 = n + 2
    BY <1>0
  <2>. QED  BY <1>0, <1>1, <1>3, <1>5, <2>1, Zenon
<1>10. LinkedBy(next, kept, cap, Append(msgs, m), rest, samples)
  BY <1>4, <1>7, <1>8, <1>9 DEF LinkedBy
<1>. QED  BY <1>6, <1>10

(* An answer is sent.                                                       *)
LEMMA LinkAnswer ==
  ASSUME NEW msgs \in Seq(Message), NEW queue \in Seq(Item), NEW samples \in Seq(Int),
         NEW kept, NEW cap, NEW off \in Offsets(msgs, samples),
         LinkedBy(off, kept, cap, msgs, queue, samples),
         NEW m \in Message, m.items = <<>>
  PROVE  \E next \in Offsets(Append(msgs, m), samples) :
            LinkedBy(next, kept, cap, Append(msgs, m), queue, samples)
<1>1. PICK o \in Nat, r \in Nat : o = off[Len(msgs) + 1] /\ r = Len(queue)
  BY OffsetsAre, LenProperties
<1>2. Len(m.items) = 0
  BY EmptyFacts
<1>3. Covers(m.items, o, samples)
  BY <1>2 DEF Covers
<1>4. Covers(queue, o + 0, samples)
  BY <1>1 DEF LinkedBy
<1>5. 0 + r = Len(queue) /\ 0 \in Nat
  BY <1>1
<1>. QED  BY <1>1, <1>2, <1>3, <1>4, <1>5, LinkAppend, Zenon

(* All that is queued is sent.                                              *)
LEMMA LinkPublish ==
  ASSUME NEW msgs \in Seq(Message), NEW queue \in Seq(Item), NEW samples \in Seq(Int),
         NEW kept, NEW cap, NEW off \in Offsets(msgs, samples),
         LinkedBy(off, kept, cap, msgs, queue, samples),
         NEW m \in Message, m.items = queue
  PROVE  \E next \in Offsets(Append(msgs, m), samples) :
            LinkedBy(next, kept, cap, Append(msgs, m), <<>>, samples)
<1>1. PICK o \in Nat, k \in Nat : o = off[Len(msgs) + 1] /\ k = Len(m.items)
  BY OffsetsAre, LenProperties
<1>2. Len(<<>>) = 0 /\ <<>> \in Seq(Item)
  BY EmptyFacts
<1>3. Covers(m.items, o, samples)
  BY <1>1 DEF LinkedBy
<1>4. Covers(<<>>, o + k, samples)
  BY <1>2 DEF Covers
<1>5. k + 0 = Len(queue) /\ 0 \in Nat
  BY <1>1
<1>. QED  BY <1>1, <1>2, <1>3, <1>4, <1>5, LinkAppend, Zenon

(* The first message is taken and the store is brought up to the second.    *)
LEMMA LinkTail ==
  ASSUME NEW msgs \in Seq(Message), msgs # <<>>,
         NEW queue \in Seq(Item), NEW samples \in Seq(Int),
         NEW kept, NEW cap, NEW off \in Offsets(msgs, samples),
         NEW more, Len(more) <= off[2], Len(more) < cap => off[2] = Len(more),
         LinkedBy(off, kept, cap, msgs, queue, samples)
  PROVE  \E next \in Offsets(Tail(msgs), samples) :
            LinkedBy(next, more, cap, Tail(msgs), queue, samples)
<1>0. PICK n \in Nat : n = Len(Tail(msgs)) /\ Len(msgs) = n + 1
  <2>1. PICK t \in Nat, l \in Nat : t = Len(Tail(msgs)) /\ l = Len(msgs)
    BY TailFacts, LenProperties
  <2>2. t = l - 1
    BY <2>1, TailFacts
  <2>3. l = t + 1
    BY <2>2
  <2>. QED  BY <2>1, <2>3
<1>. DEFINE next == [i \in 1 .. n + 1 |-> off[i + 1]]
<1>1. \A i \in 1 .. n : Tail(msgs)[i] = msgs[i + 1]
  BY <1>0, TailFacts, LenProperties
<1>2. \A i \in 1 .. n + 1 : next[i] = off[i + 1] /\ i + 1 \in 1 .. Len(msgs) + 1
  BY <1>0
<1>3. next \in Offsets(Tail(msgs), samples)
  BY <1>0, <1>2 DEF Offsets
<1>. HIDE DEF next
<1>4. next[1] = off[2]
  BY <1>0, <1>2
<1>5. ASSUME NEW i \in 1 .. n
      PROVE  /\ next[i + 1] = next[i] + Len(Tail(msgs)[i].items)
             /\ Covers(Tail(msgs)[i].items, next[i], samples)
  <2>1. i \in 1 .. n + 1 /\ i + 1 \in 1 .. n + 1 /\ i + 1 \in 1 .. Len(msgs)
    BY <1>0
  <2>2. PICK j \in 1 .. Len(msgs) : j = i + 1
    BY <2>1
  <2>3. off[j + 1] = off[j] + Len(msgs[j].items) /\ Covers(msgs[j].items, off[j], samples)
    BY DEF LinkedBy
  <2>. QED  BY <1>1, <1>2, <2>1, <2>2, <2>3
<1>6. next[n + 1] = off[Len(msgs) + 1]
  BY <1>0, <1>2
<1>7. LinkedBy(next, more, cap, Tail(msgs), queue, samples)
  BY <1>0, <1>4, <1>5, <1>6 DEF LinkedBy
<1>. QED  BY <1>3, <1>7

LEMMA PrefixFacts ==
  ASSUME NEW S, NEW s \in Seq(S), NEW n \in Nat, n <= Len(s)
  PROVE  /\ SubSeq(s, 1, n) \in Seq(S) /\ Len(SubSeq(s, 1, n)) = n
         /\ \A i \in 1 .. n : SubSeq(s, 1, n)[i] = s[i]
<1>1. Len(s) \in Nat
  BY LenProperties
<1>2. \A i \in 1 .. n : s[i] \in S
  BY <1>1, ElementOfSeq
<1>3. /\ SubSeq(s, 1, n) \in Seq(S)
      /\ Len(SubSeq(s, 1, n)) = IF 1 <= n THEN n - 1 + 1 ELSE 0
      /\ \A i \in 1 .. n - 1 + 1 : SubSeq(s, 1, n)[i] = s[1 + i - 1]
  BY <1>2, SubSeqProperties
<1>4. n - 1 + 1 = n /\ \A i \in 1 .. n : 1 + i - 1 = i
  OBVIOUS
<1>5. Len(SubSeq(s, 1, n)) = n
  BY <1>3
<1>6. ASSUME NEW i \in 1 .. n PROVE SubSeq(s, 1, n)[i] = s[i]
  BY <1>3, <1>4, Zenon
<1>. QED  BY <1>3, <1>5, <1>6

(* The callback stores a prefix of the first message.                       *)
LEMMA LinkTake ==
  ASSUME NEW msgs \in Seq(Message), msgs # <<>>,
         NEW queue \in Seq(Item), NEW samples \in Seq(Int),
         NEW kept \in Seq(Item), NEW cap \in Nat, Len(kept) <= cap,
         NEW off \in Offsets(msgs, samples),
         LinkedBy(off, kept, cap, msgs, queue, samples), Covers(kept, 0, samples),
         NEW items \in Seq(Item), items = msgs[1].items,
         NEW more \in Seq(Item),
         more = kept \o SubSeq(items, 1, AtMost(Len(items), cap - Len(kept)))
  PROVE  /\ Len(more) <= cap /\ Covers(more, 0, samples)
         /\ \E next \in Offsets(Tail(msgs), samples) :
               LinkedBy(next, more, cap, Tail(msgs), queue, samples)
<1>1. PICK l \in Nat, k \in Nat : l = Len(items) /\ k = Len(kept)
  BY LenProperties
<1>2. PICK n \in Nat : n = AtMost(l, cap - k) /\ n <= l
  BY <1>1 DEF AtMost
<1>3. PICK p \in Seq(Item) : /\ p = SubSeq(items, 1, n) /\ Len(p) = n
                             /\ \A i \in 1 .. n : p[i] = items[i]
  <2>1. n \in Nat /\ n <= Len(items)
    BY <1>1, <1>2
  <2>2. /\ SubSeq(items, 1, n) \in Seq(Item) /\ Len(SubSeq(items, 1, n)) = n
        /\ \A i \in 1 .. n : SubSeq(items, 1, n)[i] = items[i]
    BY <2>1, PrefixFacts, Zenon
  <2>. QED  BY <2>2, Zenon
<1>4. more = kept \o p
  BY <1>1, <1>2, <1>3
<1>5. /\ Len(more) = k + n
      /\ \A i \in 1 .. k + n : more[i] = IF i <= k THEN kept[i] ELSE items[i - k]
  <2>1. /\ Len(more) = k + n
        /\ \A i \in 1 .. k + n : more[i] = IF i <= k THEN kept[i] ELSE p[i - k]
    <3>1. /\ Len(kept \o p) = Len(kept) + Len(p)
          /\ \A i \in 1 .. Len(kept) + Len(p) :
                (kept \o p)[i] = IF i <= Len(kept) THEN kept[i] ELSE p[i - Len(kept)]
      BY ConcatProperties
    <3>. QED  BY <1>1, <1>3, <1>4, <3>1, Zenon
  <2>2. \A i \in 1 .. k + n : i <= k \/ i - k \in 1 .. n
    OBVIOUS
  <2>. QED  BY <1>3, <2>1, <2>2, Zenon
<1>6. k <= cap /\ k + n <= cap /\ (k + n < cap => n = l) /\ (k = cap => n = 0)
  BY <1>1, <1>2 DEF AtMost
<1>7. 1 \in 1 .. Len(msgs) /\ off[1] \in Nat /\ off[2] \in Nat
  <2>1. 1 \in 1 .. Len(msgs) /\ 2 = 1 + 1
    BY TailFacts, LenProperties
  <2>. QED  BY <2>1, OffsetsAre
<1>8. /\ off[2] = off[1] + l /\ Covers(items, off[1], samples)
      /\ k <= off[1] /\ (k < cap => off[1] = k)
  <2>1. 2 = 1 + 1
    OBVIOUS
  <2>. QED  BY <1>1, <1>7, <2>1 DEF LinkedBy
<1>9. Len(more) <= cap /\ Len(more) <= off[2] /\ (Len(more) < cap => off[2] = Len(more))
  <2>1. PICK a \in Nat, b \in Nat : a = off[1] /\ b = off[2]
    BY <1>7
  <2>2. b = a + l /\ k <= a /\ (k < cap => a = k)
    BY <1>8, <2>1
  <2>3. k + n <= cap /\ k + n <= b /\ (k + n < cap => b = k + n)
    <3>1. n <= l
      BY <1>2
    <3>2. k + n <= b
      BY <2>2, <3>1
    <3>3. ASSUME k + n < cap PROVE b = k + n
      <4>1. n = l /\ k < cap
        BY <1>6, <3>3
      <4>. QED  BY <2>2, <4>1
    <3>. QED  BY <1>6, <3>2, <3>3
  <2>. QED  BY <1>5, <2>1, <2>3
<1>10. Covers(more, 0, samples)
  <2>. SUFFICES ASSUME NEW i \in 1 .. k + n
                PROVE  0 + i <= Len(samples) /\ more[i].val = samples[0 + i]
    BY <1>5 DEF Covers
  <2>1. CASE i <= k
    <3>1. i \in 1 .. k
      BY <2>1
    <3>2. 0 + i <= Len(samples) /\ kept[i].val = samples[0 + i]
      <4>1. \A m \in 1 .. k : 0 + m <= Len(samples) /\ kept[m].val = samples[0 + m]
        BY <1>1, Zenon DEF Covers
      <4>. QED  BY <3>1, <4>1, Zenon
    <3>3. more[i] = kept[i]
      BY <1>5, <2>1, Zenon
    <3>. QED  BY <3>2, <3>3, Zenon
  <2>2. CASE i > k
    <3>1. n # 0 /\ k < cap /\ off[1] = k
      <4>1. n # 0 /\ k < cap
        BY <1>6, <2>2
      <4>. QED  BY <1>8, <4>1
    <3>2. i - k \in 1 .. l /\ more[i] = items[i - k]
      <4>1. i - k \in 1 .. l
        BY <1>2, <2>2, SMTT(30)
      <4>2. ~ (i <= k)
        BY <2>2
      <4>. QED  BY <1>5, <4>1, <4>2
    <3>3. PICK j \in 1 .. l : j = i - k
      BY <3>2
    <3>4. k + j <= Len(samples) /\ items[j].val = samples[k + j]
      BY <1>1, <1>8, <3>1 DEF Covers
    <3>5. k + j = i /\ 0 + i = i
      BY <1>1, <3>3
    <3>6. 0 + i <= Len(samples)
      BY <3>4, <3>5
    <3>7. more[i].val = samples[0 + i]
      BY <3>2, <3>3, <3>4, <3>5, Zenon
    <3>. QED  BY <3>6, <3>7, Zenon
  <2>3. i <= k \/ i > k
    OBVIOUS
  <2>. QED  BY <2>1, <2>2, <2>3, Zenon
<1>11. \E next \in Offsets(Tail(msgs), samples) :
          LinkedBy(next, more, cap, Tail(msgs), queue, samples)
  BY <1>9, LinkTail
<1>. QED  BY <1>9, <1>10, <1>11

(* The first message carries nothing.                                       *)
LEMMA LinkDrop ==
  ASSUME NEW msgs \in Seq(Message), msgs # <<>>,
         NEW queue \in Seq(Item), NEW samples \in Seq(Int),
         NEW kept \in Seq(Item), NEW cap, NEW off \in Offsets(msgs, samples),
         LinkedBy(off, kept, cap, msgs, queue, samples), msgs[1].items = <<>>
  PROVE  \E next \in Offsets(Tail(msgs), samples) :
            LinkedBy(next, kept, cap, Tail(msgs), queue, samples)
<1>1. 1 \in 1 .. Len(msgs) /\ 2 = 1 + 1
  BY TailFacts, LenProperties
<1>2. off[1] \in Nat /\ Len(kept) \in Nat
  BY <1>1, OffsetsAre, LenProperties
<1>3. off[2] = off[1] + 0
  BY <1>1, EmptyFacts DEF LinkedBy
<1>4. off[2] = off[1]
  BY <1>2, <1>3
<1>5. Len(kept) <= off[2] /\ (Len(kept) < cap => off[2] = Len(kept))
  BY <1>4 DEF LinkedBy
<1>. QED  BY <1>5, LinkTail

(* A message without items and the one behind it change places.             *)
LEMMA LinkSwap ==
  ASSUME NEW msgs \in Seq(Message), NEW queue \in Seq(Item), NEW samples \in Seq(Int),
         NEW kept, NEW cap, NEW off \in Offsets(msgs, samples),
         LinkedBy(off, kept, cap, msgs, queue, samples),
         NEW new \in Seq(Message), NEW i \in Nat \ {0}, Swapped(msgs, new, i),
         msgs[i].items = <<>>
  PROVE  \E next \in Offsets(new, samples) : LinkedBy(next, kept, cap, new, queue, samples)
<1>0. PICK n \in Nat, l \in Nat : n = Len(msgs) /\ l = Len(samples)
  BY LenProperties
<1>1. /\ DOMAIN msgs = 1 .. n /\ i \in 1 .. n /\ i + 1 \in 1 .. n /\ Len(new) = n
      /\ new[i] = msgs[i + 1] /\ new[i + 1] = msgs[i]
      /\ \A k \in 1 .. n : k # i /\ k # i + 1 => new[k] = msgs[k]
  <2>1. DOMAIN msgs = 1 .. n
    BY <1>0, LenProperties
  <2>. QED  BY <1>0, <2>1 DEF Swapped
<1>2. PICK a \in Nat, b \in Nat, c \in Nat : a = i /\ b = i + 1 /\ c = i + 2
  OBVIOUS
<1>3. /\ a \in 1 .. n /\ b \in 1 .. n /\ c \in 1 .. n + 1 /\ a # b /\ b # c /\ b # 1
      /\ a + 1 = b /\ b + 1 = c /\ b # n + 1
  BY <1>1, <1>2
<1>4. \A k \in 1 .. n + 1 : off[k] \in 0 .. l
  BY <1>0, OffsetsAre
<1>. DEFINE next == [k \in 1 .. n + 1 |-> IF k = b THEN off[c] ELSE off[k]]
<1>5. /\ next[b] = off[c] /\ \A k \in 1 .. n + 1 : k # b => next[k] = off[k]
      /\ next \in [1 .. n + 1 -> 0 .. l]
  BY <1>3, <1>4
<1>. HIDE DEF next
<1>6. /\ off[b] = off[a] + Len(msgs[a].items)
      /\ off[c] = off[b] + Len(msgs[b].items) /\ Covers(msgs[b].items, off[b], samples)
  BY <1>0, <1>3 DEF LinkedBy
<1>7. Len(msgs[a].items) = 0 /\ msgs[a].items = <<>> /\ off[b] = off[a]
  <2>1. msgs[a].items = <<>> /\ Len(msgs[a].items) = 0
    BY <1>2, EmptyFacts
  <2>2. off[a] \in Nat /\ off[b] \in Nat
    BY <1>0, <1>3, OffsetsAre
  <2>. QED  BY <1>6, <2>1, <2>2
<1>8. ASSUME NEW k \in 1 .. n
      PROVE  /\ next[k + 1] = next[k] + Len(new[k].items)
             /\ Covers(new[k].items, next[k], samples)
  <2>0. k \in 1 .. n + 1 /\ k + 1 \in 1 .. n + 1
    BY <1>8
  <2>1. CASE k = a
    <3>1. new[k] = msgs[b] /\ next[k + 1] = off[c] /\ next[k] = off[b]
      <4>1. new[k] = msgs[b] /\ k + 1 = b /\ k # b
        BY <1>1, <1>2, <1>3, <2>1
      <4>. QED  BY <1>5, <1>7, <2>0, <2>1, <4>1
    <3>. QED  BY <1>6, <3>1
  <2>2. CASE k = b
    <3>1. new[k] = msgs[a] /\ next[k + 1] = off[c] /\ next[k] = off[c]
      BY <1>1, <1>2, <1>3, <1>5, <2>0, <2>2
    <3>2. off[c] \in Nat
      BY <1>3, <1>4
    <3>3. off[c] = off[c] + Len(msgs[a].items)
      BY <1>7, <3>2
    <3>4. Covers(msgs[a].items, off[c], samples)
      BY <1>7 DEF Covers
    <3>. QED  BY <3>1, <3>3, <3>4
  <2>3. CASE k # a /\ k # b
    <3>1. new[k] = msgs[k] /\ k + 1 # b
      BY <1>1, <1>2, <1>3, <2>3
    <3>2. next[k] = off[k] /\ next[k + 1] = off[k + 1]
      BY <1>5, <2>0, <2>3, <3>1
    <3>3. off[k + 1] = off[k] + Len(msgs[k].items) /\ Covers(msgs[k].items, off[k], samples)
      BY <1>0 DEF LinkedBy
    <3>. QED  BY <3>1, <3>2, <3>3
  <2>. QED  BY <2>1, <2>2, <2>3
<1>9. next[n + 1] = off[n + 1] /\ next[1] = off[1]
  <2>1. n + 1 \in 1 .. n + 1 /\ 1 \in 1 .. n + 1
    BY <1>0
  <2>. QED  BY <1>3, <1>5, <2>1
<1>10. LinkedBy(next, kept, cap, new, queue, samples)
  BY <1>0, <1>1, <1>8, <1>9 DEF LinkedBy
<1>11. next \in Offsets(new, samples)
  BY <1>0, <1>1, <1>5 DEF Offsets
<1>. QED  BY <1>10, <1>11

(* The program of the two commands.                                         *)
LEMMA CollectingProgram ==
  ASSUME Base, Collecting
  PROVE  /\ Len(Program) = 5 /\ pc \in 0 .. 6 /\ DOMAIN status = 1 .. 5
         /\ status[2] \in {"none", "Good", "Bad"}
         /\ Program[1].op = "call" /\ Program[1].kind = "create"
         /\ Program[2].op = "call" /\ Program[2].kind = "monitor" /\ Program[2] = Monitor
         /\ Program[3].op = "wait" /\ Program[3].kind = "count"
         /\ Program[3].val = AtMost(asked, StoreCap)
         /\ Program[4].op = "report"
         /\ Program[5].op = "call" /\ Program[5].kind = "deleteSub"
         /\ Monitored <=> status[2] = "Good"
<1>1. /\ Len(Program) = 5
      /\ Program = <<Create, Monitor, Wait(AtMost(asked, StoreCap)), Report, DeleteSub>>
  BY ProgramShape DEF Base, TypeOK
<1>2. status \in [1 .. 5 -> {"none", "Good", "Bad"}] /\ pc \in 0 .. 5 + 1
  BY <1>1 DEF Base, TypeOK
<1>3. 5 + 1 = 6 /\ 2 \in 1 .. 5
  OBVIOUS
<1>4. DOMAIN status = 1 .. 5 /\ status[2] \in {"none", "Good", "Bad"} /\ pc \in 0 .. 6
  BY <1>2, <1>3
<1>5. Len(status) = 5
  <2>1. 5 \in Nat
    OBVIOUS
  <2>2. status \in Seq({"none", "Good", "Bad"})
    BY <1>2, <2>1, SeqDef
  <2>3. DOMAIN status = 1 .. Len(status) /\ Len(status) \in Nat
    BY <2>2, LenProperties
  <2>. QED  BY <1>4, <2>3
<1>6. /\ Program[1] = Create /\ Program[2] = Monitor
      /\ Program[3] = Wait(AtMost(asked, StoreCap)) /\ Program[4] = Report
      /\ Program[5] = DeleteSub
  BY <1>1
<1>7. Monitored <=> status[2] = "Good"
  BY <1>5, <1>6 DEF Monitored
<1>. QED  BY <1>1, <1>4, <1>6, <1>7 DEF Create, Monitor, Wait, Report, DeleteSub, Call, Step

(* The samples only become more, and a discarded one stays discarded.       *)
Grows ==
    /\ discarded => discarded'
    /\ sampled' = sampled \/ \E v \in Int : sampled' = Append(sampled, v)

LEMMA CoversLater ==
  ASSUME sampled \in Seq(Int), Grows, NEW items \in Seq(Item), Covers(items, 0, sampled)
  PROVE  Covers(items, 0, sampled')
<1>1. CASE sampled' = sampled
  BY <1>1
<1>2. ASSUME NEW v \in Int, sampled' = Append(sampled, v) PROVE Covers(items, 0, sampled')
  <2>1. 0 \in Nat
    OBVIOUS
  <2>. QED  BY <1>2, <2>1, CoversGrows
<1>. QED  BY <1>1, <1>2 DEF Grows

(* What a step of the server means for the samples,                         *)
LEMMA BecomesGrows ==
  ASSUME TypeOK, NEW s \in ServerType, NEW now \in BOOLEAN, ServerBecomes(s, now)
  PROVE  Grows /\ (~ s.item => srv' = s)
<1>0. s.value \in Int /\ discarded \in BOOLEAN
  BY DEF ServerType, TypeOK
<1>1. CASE now /\ Sampleable(s)
  <2>1. /\ sampled' = Append(sampled, s.value)
        /\ discarded' = (discarded \/ Len(s.queue) = s.size)
    BY <1>1 DEF ServerBecomes
  <2>. QED  BY <1>0, <1>1, <2>1 DEF Grows, Sampleable
<1>2. CASE ~ (now /\ Sampleable(s))
  BY <1>2 DEF ServerBecomes, Grows
<1>. QED  BY <1>1, <1>2

(* and for the queue.                                                       *)
LEMMA BecomesLinked ==
  ASSUME TypeOK, NEW s \in ServerType, NEW now \in BOOLEAN, ServerBecomes(s, now),
         NEW msgs \in Seq(Message), NEW kept, NEW cap,
         NEW off \in Offsets(msgs, sampled), ~ discarded',
         Len(s.queue) <= s.size, LinkedBy(off, kept, cap, msgs, s.queue, sampled)
  PROVE  /\ off \in Offsets(msgs, sampled')
         /\ LinkedBy(off, kept, cap, msgs, srv'.queue, sampled')
         /\ Len(srv'.queue) <= srv'.size
<1>0. /\ s.queue \in Seq(Item) /\ s.size \in Nat \ {0} /\ s.value \in Int
      /\ sampled \in Seq(Int) /\ discarded \in BOOLEAN
  BY DEF ServerType, TypeOK
<1>1. CASE now /\ Sampleable(s)
  <2>1. /\ srv' = [s EXCEPT !.queue = Enqueue(s), !.last = s.value]
        /\ sampled' = Append(sampled, s.value)
        /\ discarded' = (discarded \/ Len(s.queue) = s.size)
    BY <1>1 DEF ServerBecomes
  <2>2. Len(s.queue) < s.size /\ Len(s.queue) \in Nat
    <3>1. Len(s.queue) # s.size
      BY <2>1, Zenon
    <3>2. Len(s.queue) \in Nat
      BY <1>0, LenProperties
    <3>. QED  BY <1>0, <3>1, <3>2
  <2>3. PICK e : e = [val |-> s.value, over |-> Len(s.queue) = s.size /\ s.size > 1]
    OBVIOUS
  <2>4. e \in Item /\ e.val = s.value
    BY <1>0, <2>3 DEF Item
  <2>5. Enqueue(s) = Append(s.queue, e)
    BY <2>2, <2>3 DEF Enqueue
  <2>6. srv'.queue = Append(s.queue, e) /\ srv'.size = s.size
    BY <2>1, <2>5 DEF ServerType
  <2>7. Len(Append(s.queue, e)) <= s.size
    BY <1>0, <2>2, <2>4, AppendFacts
  <2>8. sampled' = Append(sampled, e.val)
    BY <2>1, <2>4
  <2>9. /\ off \in Offsets(msgs, Append(sampled, e.val))
        /\ LinkedBy(off, kept, cap, msgs, Append(s.queue, e), Append(sampled, e.val))
    BY <1>0, <2>4, LinkGrows
  <2>. QED  BY <2>6, <2>7, <2>8, <2>9, Zenon
<1>2. CASE ~ (now /\ Sampleable(s))
  BY <1>2 DEF ServerBecomes
<1>. QED  BY <1>1, <1>2

(* A step of the server leaves the store and the result what they were.     *)
LEMMA KeptByServer ==
  ASSUME Base, Collecting, Kept, Timed, UNCHANGED <<client, fixed>>, Grows
  PROVE  Kept' /\ Timed'
<1>1. UNCHANGED <<pc, status, store, printed, timedOut, exit, asked>> /\ StoreCap' = StoreCap
  BY SameProgram DEF client, fixed
<1>2. Timed'
  BY <1>1 DEF Timed
<1>3. store \in Seq(Item) /\ printed \in Seq(Item) /\ sampled \in Seq(Int)
  BY DEF Base, TypeOK
<1>4. ASSUME ~ discarded'
      PROVE  /\ pc <= 4 => Covers(store, 0, sampled')
             /\ pc >= 5 => Covers(printed, 0, sampled')
  <2>1. ~ discarded
    BY <1>4 DEF Grows
  <2>. QED  BY <1>3, <2>1, CoversLater DEF Kept
<1>. QED  BY <1>1, <1>2, <1>4 DEF Kept

(* The server's steps leave what came before CreateMonitoredItems alone.    *)
LEMMA BeginsGrows ==
  ASSUME Base, Begins, UNCHANGED <<pc, status, exit, dead>>,
         \A i \in DOMAIN toClient : i \in DOMAIN toClient' /\ toClient'[i] = toClient[i],
         ASSUME ~ dead, exit = NoExit, pc <= 2, srv.queue = <<>>, ~ srv.item,
                \A k \in DOMAIN toClient' : toClient'[k].id # 2
         PROVE  srv'.queue = <<>> /\ ~ srv'.item
  PROVE  Begins'
<1>. SUFFICES ASSUME ~ dead, exit = NoExit, pc <= 2,
                     \A k \in DOMAIN toClient' : toClient'[k].id # 2
              PROVE  srv'.queue = <<>> /\ ~ srv'.item
  BY DEF Begins
<1>1. \A k \in DOMAIN toClient : toClient[k].id # 2
  OBVIOUS
<1>2. srv.queue = <<>> /\ ~ srv.item
  BY <1>1 DEF Begins
<1>. QED  BY <1>2

LEMMA HandleGathers ==
  ASSUME Base, Collecting, Linked, Begins, Kept, Timed, Handle
  PROVE  Linked' /\ Begins' /\ Kept' /\ Timed'
<1>0. /\ TypeOK /\ Numbers /\ ~ dead /\ toServer # <<>> /\ Base'
      /\ UNCHANGED <<client, fixed, dead>>
      /\ toServer \in Seq(Request) /\ toClient \in Seq(Message)
  BY HandleBase, NumbersHere DEF Base, Handle, TypeOK
<1>1. UNCHANGED <<pc, status, store, exit>> /\ StoreCap' = StoreCap
  BY <1>0, SameProgram DEF client, fixed
<1>2. PICK m : m = Head(toServer)
  OBVIOUS
<1>3. PICK good \in BOOLEAN, size \in Nat \ {0}, s \in ServerType :
         /\ good = Accepts(m.req)
         /\ s = (IF good THEN Effect(m.req, size) ELSE srv)
         /\ ServerBecomes(s, ~srv.throttled)
  BY <1>2, HandleIs
<1>4. toServer' = Tail(toServer) /\ toClient' = Append(toClient, Response(m, good))
  BY <1>2, <1>3 DEF Handle
<1>5. 1 \in DOMAIN toServer /\ m = toServer[1] /\ m \in Request
  BY <1>0, <1>2, TailFacts
<1>6. /\ m.id <= pc /\ m.id \in 1 .. 5 /\ m.req = Program[m.id] /\ m.req.op = "call"
      /\ \A i \in DOMAIN toClient : toClient[i].id < m.id
      /\ status[2] = "Good" => m.id > 2
  <2>1. 2 \in DOMAIN status /\ Len(Program) = 5
    BY CollectingProgram
  <2>. QED  BY <1>5, <2>1 DEF Base, Ordered, Requests, AnswersFirst, GoodIsOver
<1>7. /\ m.id <= 4 => m.id \in {1, 2}
      /\ m.id = 1 => m.req.kind = "create"
      /\ m.id = 2 => m.req.kind = "monitor"
  <2>1. m.id # 3 /\ m.id # 4
    BY <1>6, CollectingProgram
  <2>. QED  BY <1>6, <2>1, CollectingProgram
<1>8. Grows /\ (~ s.item => srv' = s)
  <2>1. (~srv.throttled) \in BOOLEAN
    OBVIOUS
  <2>. QED  BY <1>0, <1>3, <2>1, BecomesGrows
<1>9. Kept' /\ Timed'
  BY <1>0, <1>8, KeptByServer
<1>10. /\ \A i \in DOMAIN toClient : i \in DOMAIN toClient' /\ toClient'[i] = toClient[i]
       /\ Len(toClient) + 1 \in DOMAIN toClient'
       /\ toClient'[Len(toClient) + 1] = Response(m, good)
       /\ \A i \in DOMAIN toClient' : i \in DOMAIN toClient \/ i = Len(toClient) + 1
  BY <1>0, <1>2, <1>3, <1>4, Answered
<1>11. PICK a \in Message : a = Response(m, good) /\ a.id = m.id /\ a.items = <<>>
  <2>1. PICK a : a = Response(m, good)
    OBVIOUS
  <2>2. m.id \in Nat
    BY <1>5 DEF Request
  <2>3. a \in Message /\ a.id = m.id /\ a.items = <<>>
    BY <2>1, <2>2, EmptySeq DEF Response, Message
  <2>. QED  BY <2>1, <2>3
<1>12. m.id = 1 => s.queue = srv.queue /\ s.size = srv.size /\ s.item = srv.item
  BY <1>0, <1>3, <1>7 DEF Effect, TypeOK, ServerType
<1>13. m.id = 2 => s.queue = srv.queue /\ (s.size = srv.size \/ s.size = size)
  BY <1>0, <1>3, <1>7 DEF Effect, TypeOK, ServerType
<1>14. Begins'
  <2>2. ASSUME pc <= 2, srv.queue = <<>>, ~ srv.item,
               \A k \in DOMAIN toClient' : toClient'[k].id # 2
        PROVE  srv'.queue = <<>> /\ ~ srv'.item
    <3>1. m.id # 2
      BY <1>10, <1>11, <2>2
    <3>2. m.id = 1
      BY <1>0, <1>6, <2>2, <3>1 DEF Numbers
    <3>. QED  BY <1>8, <1>12, <2>2, <3>2
  <2>. QED  BY <1>0, <1>1, <1>10, <2>2, BeginsGrows
<1>15. ASSUME Tracked'
       PROVE  /\ Len(srv'.queue) <= srv'.size
              /\ \E off \in Offsets(toClient', sampled') :
                    LinkedBy(off, store', StoreCap', toClient', srv'.queue, sampled')
  <2>1. Tracked /\ ~ discarded' /\ pc <= 4
    BY <1>1, <1>8, <1>15, <1>0 DEF Tracked, Grows
  <2>2. m.id \in {1, 2}
    BY <1>0, <1>6, <1>7, <2>1 DEF Numbers
  <2>3. s.queue = srv.queue /\ Len(s.queue) <= s.size
    <3>1. CASE m.id = 1
      BY <1>12, <2>1, <3>1 DEF Linked
    <3>2. CASE m.id = 2
      <4>1. status[2] = "none"
        BY <1>6, <2>1, <3>2, CollectingProgram DEF Tracked
      <4>2. \A k \in DOMAIN toClient : toClient[k].id # 2
        BY <1>0, <1>6, <3>2 DEF Numbers
      <4>3. srv.queue = <<>>
        BY <2>1, <4>1, <4>2 DEF Begins, Tracked
      <4>4. s.queue = srv.queue /\ Len(s.queue) = 0
        BY <1>13, <3>2, <4>3, EmptyFacts
      <4>5. s.size \in Nat
        BY DEF ServerType
      <4>. QED  BY <4>4, <4>5
    <3>. QED  BY <2>2, <3>1, <3>2
  <2>4. PICK off \in Offsets(toClient, sampled) :
           LinkedBy(off, store, StoreCap, toClient, srv.queue, sampled)
    BY <2>1 DEF Linked
  <2>5. /\ off \in Offsets(toClient, sampled')
        /\ LinkedBy(off, store, StoreCap, toClient, srv'.queue, sampled')
        /\ Len(srv'.queue) <= srv'.size
    <3>1. (~srv.throttled) \in BOOLEAN
      OBVIOUS
    <3>. QED  BY <1>0, <1>3, <2>1, <2>3, <2>4, <3>1, BecomesLinked
  <2>6. PICK q \in Seq(Item), l \in Seq(Int) : q = srv'.queue /\ l = sampled'
    BY <1>0 DEF Base, TypeOK, ServerType
  <2>7. off \in Offsets(toClient, l) /\ LinkedBy(off, store, StoreCap, toClient, q, l)
    BY <2>5, <2>6
  <2>8. \E next \in Offsets(Append(toClient, a), l) :
           LinkedBy(next, store, StoreCap, Append(toClient, a), q, l)
    BY <1>0, <1>11, <2>7, LinkAnswer
  <2>9. toClient' = Append(toClient, a)
    BY <1>4, <1>11
  <2>. QED  BY <1>1, <2>5, <2>6, <2>8, <2>9
<1>16. Linked'
  BY <1>15 DEF Linked
<1>. QED  BY <1>9, <1>14, <1>16

LEMMA RefuseGathers ==
  ASSUME Base, Collecting, Linked, Begins, Kept, Timed, Refuse
  PROVE  Linked' /\ Begins' /\ Kept' /\ Timed'
<1>0. /\ TypeOK /\ ~ dead /\ toServer # <<>> /\ toClient \in Seq(Message)
      /\ UNCHANGED <<client, server, fixed, dead>>
      /\ toServer' = Tail(toServer)
      /\ toClient' = Append(toClient, Response(Head(toServer), FALSE))
  BY DEF Base, Refuse, TypeOK
<1>1. /\ UNCHANGED <<pc, status, store, exit, srv, sampled, discarded>>
      /\ StoreCap' = StoreCap
  BY <1>0, SameProgram DEF client, fixed, server
<1>2. PICK m \in Request : m = Head(toServer)
  BY <1>0, TailFacts DEF TypeOK
<1>3. PICK a \in Message : a = Response(m, FALSE) /\ a.id = m.id /\ a.items = <<>>
  <2>1. PICK a : a = Response(m, FALSE)
    OBVIOUS
  <2>2. m.id \in Nat
    BY DEF Request
  <2>3. a \in Message /\ a.id = m.id /\ a.items = <<>>
    BY <2>1, <2>2, EmptySeq DEF Response, Message
  <2>. QED  BY <2>1, <2>3
<1>4. /\ \A i \in DOMAIN toClient : i \in DOMAIN toClient' /\ toClient'[i] = toClient[i]
      /\ toClient'[Len(toClient) + 1] = a
      /\ \A i \in DOMAIN toClient' : i \in DOMAIN toClient \/ i = Len(toClient) + 1
  <2>1. FALSE \in BOOLEAN
    OBVIOUS
  <2>. QED  BY <1>0, <1>2, <1>3, <2>1, Answered
<1>5. Grows
  BY <1>1 DEF Grows
<1>6. Kept' /\ Timed'
  BY <1>0, <1>5, KeptByServer
<1>7. Begins'
  BY <1>0, <1>1, <1>4, BeginsGrows
<1>8. ASSUME Tracked'
      PROVE  /\ Len(srv'.queue) <= srv'.size
             /\ \E off \in Offsets(toClient', sampled') :
                   LinkedBy(off, store', StoreCap', toClient', srv'.queue, sampled')
  <2>1. Tracked
    BY <1>0, <1>1, <1>8 DEF Tracked
  <2>2. PICK off \in Offsets(toClient, sampled) :
           LinkedBy(off, store, StoreCap, toClient, srv.queue, sampled)
    BY <2>1 DEF Linked
  <2>3. srv.queue \in Seq(Item) /\ sampled \in Seq(Int)
    BY <1>0 DEF TypeOK, ServerType
  <2>4. \E next \in Offsets(Append(toClient, a), sampled) :
           LinkedBy(next, store, StoreCap, Append(toClient, a), srv.queue, sampled)
    BY <1>0, <1>3, <2>2, <2>3, LinkAnswer
  <2>5. Len(srv.queue) <= srv.size
    BY <2>1 DEF Linked
  <2>. QED  BY <1>0, <1>1, <1>2, <1>3, <2>4, <2>5
<1>9. Linked'
  BY <1>8 DEF Linked
<1>. QED  BY <1>6, <1>7, <1>9

(* The node changes, or the server samples it.                              *)
LEMMA SampleGathers ==
  ASSUME Base, Collecting, Linked, Begins, Kept, Timed,
         NEW s \in ServerType, NEW now \in BOOLEAN, ServerBecomes(s, now), srv.item,
         s.queue = srv.queue, s.size = srv.size,
         UNCHANGED <<client, fixed, toServer, toClient, dead>>
  PROVE  Linked' /\ Begins' /\ Kept' /\ Timed'
<1>0. TypeOK /\ toClient \in Seq(Message)
  BY DEF Base, TypeOK
<1>1. UNCHANGED <<pc, status, store, exit>> /\ StoreCap' = StoreCap
  BY SameProgram DEF client, fixed
<1>2. Grows
  BY <1>0, BecomesGrows
<1>3. Kept' /\ Timed'
  BY <1>2, KeptByServer
<1>4. Begins'
  BY <1>1 DEF Begins
<1>5. ASSUME Tracked'
      PROVE  /\ Len(srv'.queue) <= srv'.size
             /\ \E off \in Offsets(toClient', sampled') :
                   LinkedBy(off, store', StoreCap', toClient', srv'.queue, sampled')
  <2>1. Tracked /\ ~ discarded'
    BY <1>1, <1>2, <1>5 DEF Tracked, Grows
  <2>2. PICK off \in Offsets(toClient, sampled) :
           LinkedBy(off, store, StoreCap, toClient, s.queue, sampled)
    BY <2>1 DEF Linked
  <2>3. Len(s.queue) <= s.size
    BY <2>1 DEF Linked
  <2>4. /\ off \in Offsets(toClient, sampled')
        /\ LinkedBy(off, store, StoreCap, toClient, srv'.queue, sampled')
        /\ Len(srv'.queue) <= srv'.size
    BY <1>0, <2>1, <2>2, <2>3, BecomesLinked
  <2>. QED  BY <1>1, <2>4
<1>6. Linked'
  BY <1>5 DEF Linked
<1>. QED  BY <1>3, <1>4, <1>6

LEMMA ChangeGathers ==
  ASSUME Base, Collecting, Linked, Begins, Kept, Timed, Sample \/ Change
  PROVE  Linked' /\ Begins' /\ Kept' /\ Timed'
<1>0. srv \in ServerType
  BY DEF Base, TypeOK
<1>1. CASE Sample
  <2>1. /\ ServerBecomes(srv, TRUE) /\ TRUE \in BOOLEAN /\ srv.item
        /\ UNCHANGED <<client, fixed, toServer, toClient, dead>>
    BY <1>1 DEF Sample, Sampleable
  <2>. QED  BY <1>0, <2>1, SampleGathers
<1>2. CASE Change
  <2>1. /\ ServerBecomes([srv EXCEPT !.value = @ + 1], ~srv.throttled) /\ srv.item
        /\ UNCHANGED <<client, fixed, toServer, toClient, dead>>
        /\ (~srv.throttled) \in BOOLEAN
    BY <1>2 DEF Change
  <2>2. PICK s : s = [srv EXCEPT !.value = @ + 1]
    OBVIOUS
  <2>3. s \in ServerType /\ s.queue = srv.queue /\ s.size = srv.size
    <3>1. PICK v \in Int : v = srv.value + 1
      BY <1>0 DEF ServerType
    <3>2. s = [srv EXCEPT !.value = v]
      BY <2>2, <3>1, Zenon
    <3>. QED  BY <1>0, <3>2 DEF ServerType
  <2>. QED  BY <2>1, <2>2, <2>3, SampleGathers
<1>. QED  BY <1>1, <1>2

LEMMA PublishGathers ==
  ASSUME Base, Collecting, Linked, Begins, Kept, Timed, Publish
  PROVE  Linked' /\ Begins' /\ Kept' /\ Timed'
<1>0. /\ TypeOK /\ srv.queue # <<>> /\ toClient \in Seq(Message)
      /\ srv' = [srv EXCEPT !.queue = <<>>]
      /\ toClient' = Append(toClient, [id |-> 0, good |-> TRUE, items |-> srv.queue])
      /\ UNCHANGED <<client, fixed, sampled, discarded, dead>>
  BY DEF Base, Publish, TypeOK
<1>1. /\ UNCHANGED <<pc, status, store, exit, sampled, discarded>>
      /\ StoreCap' = StoreCap
  BY <1>0, SameProgram DEF client, fixed
<1>2. /\ \A i \in DOMAIN toClient : i \in DOMAIN toClient' /\ toClient'[i] = toClient[i]
      /\ \A i \in DOMAIN toClient' : i \in DOMAIN toClient \/ i = Len(toClient) + 1
  BY PublishBase
<1>3. Grows
  BY <1>1 DEF Grows
<1>4. Kept' /\ Timed'
  BY <1>0, <1>3, KeptByServer
<1>5. Begins'
  BY <1>0, <1>1, <1>2, BeginsGrows
<1>6. ASSUME Tracked'
      PROVE  /\ Len(srv'.queue) <= srv'.size
             /\ \E off \in Offsets(toClient', sampled') :
                   LinkedBy(off, store', StoreCap', toClient', srv'.queue, sampled')
  <2>1. Tracked
    BY <1>0, <1>1, <1>6 DEF Tracked
  <2>2. PICK off \in Offsets(toClient, sampled) :
           LinkedBy(off, store, StoreCap, toClient, srv.queue, sampled)
    BY <2>1 DEF Linked
  <2>3. srv.queue \in Seq(Item) /\ sampled \in Seq(Int) /\ srv \in ServerType
    BY <1>0 DEF TypeOK, ServerType
  <2>4. PICK m : m = [id |-> 0, good |-> TRUE, items |-> srv.queue]
    OBVIOUS
  <2>5. m \in Message /\ m.items = srv.queue
    BY <2>3, <2>4 DEF Message
  <2>6. \E next \in Offsets(Append(toClient, m), sampled) :
           LinkedBy(next, store, StoreCap, Append(toClient, m), <<>>, sampled)
    BY <1>0, <2>2, <2>3, <2>5, LinkPublish
  <2>7. srv'.queue = <<>> /\ srv'.size \in Nat /\ Len(srv'.queue) = 0
    BY <1>0, <2>3, EmptyFacts DEF ServerType
  <2>8. Len(srv'.queue) <= srv'.size
    BY <2>7
  <2>9. toClient' = Append(toClient, m)
    BY <1>0, <2>4
  <2>10. \E off2 \in Offsets(toClient', sampled') :
            LinkedBy(off2, store', StoreCap', toClient', srv'.queue, sampled')
    BY <1>1, <2>6, <2>7, <2>9, Zenon
  <2>. QED  BY <2>8, <2>10
<1>7. Linked'
  BY <1>6 DEF Linked
<1>. QED  BY <1>4, <1>5, <1>7

(* A notification passes an answer.                                         *)
LEMMA OvertakeGathers ==
  ASSUME Base, Collecting, Linked, Begins, Kept, Timed, Overtake
  PROVE  Linked' /\ Begins' /\ Kept' /\ Timed'
<1>0. /\ TypeOK /\ Base' /\ toClient \in Seq(Message) /\ toClient' \in Seq(Message)
      /\ UNCHANGED <<client, server, fixed, dead>>
  BY OvertakeIs DEF Base, TypeOK
<1>1. /\ UNCHANGED <<pc, status, store, exit, srv, sampled, discarded>>
      /\ StoreCap' = StoreCap
  BY <1>0, SameProgram DEF client, fixed, server
<1>2. PICK i \in Nat \ {0} : Swapped(toClient, toClient', i) /\ toClient[i].items = <<>>
  BY OvertakeIs
<1>3. Grows
  BY <1>1 DEF Grows
<1>4. Kept' /\ Timed'
  BY <1>0, <1>3, KeptByServer
<1>5. Begins'
  BY <1>0, <1>1, OvertakeSame DEF Begins
<1>6. ASSUME Tracked'
      PROVE  /\ Len(srv'.queue) <= srv'.size
             /\ \E off \in Offsets(toClient', sampled') :
                   LinkedBy(off, store', StoreCap', toClient', srv'.queue, sampled')
  <2>1. Tracked
    BY <1>0, <1>1, <1>6 DEF Tracked
  <2>2. PICK off \in Offsets(toClient, sampled) :
           LinkedBy(off, store, StoreCap, toClient, srv.queue, sampled)
    BY <2>1 DEF Linked
  <2>3. srv.queue \in Seq(Item) /\ sampled \in Seq(Int)
    BY <1>0 DEF TypeOK, ServerType
  <2>4. PICK new \in Seq(Message) : new = toClient'
    BY <1>0
  <2>5. \E next \in Offsets(new, sampled) :
           LinkedBy(next, store, StoreCap, new, srv.queue, sampled)
    <3>1. Swapped(toClient, new, i)
      BY <1>2, <2>4
    <3>. QED  BY <1>0, <1>2, <2>2, <2>3, <3>1, LinkSwap, Zenon
  <2>6. Len(srv.queue) <= srv.size
    BY <2>1 DEF Linked
  <2>. QED  BY <1>1, <2>4, <2>5, <2>6
<1>7. Linked'
  BY <1>6 DEF Linked
<1>. QED  BY <1>4, <1>5, <1>7

LEMMA DieGathers ==
  ASSUME Base, Collecting, Linked, Begins, Kept, Timed, Die
  PROVE  Linked' /\ Begins' /\ Kept' /\ Timed'
<1>1. dead' /\ UNCHANGED <<client, fixed, sampled, discarded, pc, status>>
  BY DEF Die, client, server
<1>2. Grows
  BY <1>1 DEF Grows
<1>3. Kept' /\ Timed'
  BY <1>1, <1>2, KeptByServer
<1>. QED  BY <1>1, <1>3 DEF Linked, Tracked, Begins

(* The callbacks never store more than there is room for.                   *)
LEMMA DispatchFits ==
  ASSUME NEW kept \in Seq(Item), NEW items \in Seq(Item), NEW cap \in Nat, Len(kept) <= cap,
         NEW more, more = kept \o SubSeq(items, 1, AtMost(Len(items), cap - Len(kept)))
  PROVE  Len(more) <= cap
<1>1. PICK l \in Nat, k \in Nat : l = Len(items) /\ k = Len(kept)
  BY LenProperties
<1>2. PICK n \in Nat : n = AtMost(l, cap - k) /\ n <= l /\ k + n <= cap
  BY <1>1 DEF AtMost
<1>3. PICK p \in Seq(Item) : p = SubSeq(items, 1, n) /\ Len(p) = n
  <2>1. n \in Nat /\ n <= Len(items)
    BY <1>1, <1>2
  <2>2. SubSeq(items, 1, n) \in Seq(Item) /\ Len(SubSeq(items, 1, n)) = n
    BY <2>1, PrefixFacts, Zenon
  <2>. QED  BY <2>2, Zenon
<1>4. more = kept \o p
  BY <1>1, <1>2, <1>3
<1>5. Len(kept \o p) = Len(kept) + Len(p)
  BY ConcatProperties
<1>6. Len(more) = k + n
  BY <1>1, <1>3, <1>4, <1>5, Zenon
<1>. QED  BY <1>2, <1>6

(* A call ends.                                                             *)
LEMMA CallEndsGathers ==
  ASSUME Base, Collecting, Begins, Kept, Timed, waiting, NEW good \in BOOLEAN,
         CallEnds(good), UNCHANGED <<fixed, store, printed, timedOut, sampled, discarded>>
  PROVE  /\ pc \in {1, 2, 5} /\ pc' \in Nat /\ exit = NoExit
         /\ pc = 1 => pc' = 2 /\ exit' = (IF good THEN NoExit ELSE 4)
         /\ pc = 2 => pc' \in {3, 4} /\ status'[2] = (IF good THEN "Good" ELSE "Bad")
         /\ pc = 5 => pc' = 6
         /\ pc' <= 2 <=> status'[2] = "none"
         /\ Kept' /\ Timed'
<1>0. /\ Len(Program) = 5 /\ pc \in 0 .. 6 /\ status[2] \in {"none", "Good", "Bad"}
      /\ asked' = asked /\ StoreCap' = StoreCap
  BY CollectingProgram, SameProgram DEF fixed
<1>1. /\ pc \in 1 .. 5 /\ exit = NoExit /\ pc' \in Nat
      /\ pc' = pc + 1 \/ (~ good /\ pc = 2 /\ pc' = 4)
      /\ exit' = IF ~ good /\ pc = 1 THEN 4 ELSE exit
      /\ \A s \in 1 .. 5 :
            status'[s] = IF s = pc THEN (IF good THEN "Good" ELSE "Bad") ELSE status[s]
  <2>1. /\ pc \in 1 .. 5 /\ exit = NoExit /\ pc' \in Nat
        /\ exit' = IF ~ good /\ pc = 1 THEN 4 ELSE exit
        /\ \A s \in 1 .. 5 :
              status'[s] = IF s = pc THEN (IF good THEN "Good" ELSE "Bad") ELSE status[s]
    BY <1>0, CallEndsIs, Zenon
  <2>2. pc' = pc + 1 \/ (~ good /\ pc = 2 /\ pc' = 5 - 1)
    BY <1>0, CallEndsIs, Zenon
  <2>3. 5 - 1 = 4
    OBVIOUS
  <2>. QED  BY <2>1, <2>2, <2>3, Zenon
<1>2. pc \in {1, 2, 5}
  <2>1. Program[pc].op = "call"
    BY DEF Base, Ordered, CallWaits, At, Current
  <2>. QED  BY <1>1, <2>1, CollectingProgram
<1>3. /\ pc = 1 => pc' = 2 /\ status'[2] = status[2]
      /\ pc = 2 => pc' \in {3, 4} /\ status'[2] = (IF good THEN "Good" ELSE "Bad")
      /\ pc = 2 /\ good => pc' = 3
      /\ pc = 5 => pc' = 6 /\ status'[2] = status[2] /\ exit' = NoExit
  BY <1>1
<1>4. pc' <= 2 <=> status'[2] = "none"
  BY <1>2, <1>3 DEF Begins
<1>5. status'[2] # "Good" => store' = <<>>
  <2>1. CASE pc = 2
    BY <2>1 DEF Begins, Kept
  <2>2. CASE pc # 2
    BY <1>2, <1>3, <2>2 DEF Kept
  <2>. QED  BY <2>1, <2>2
<1>6. Kept'
  <2>1. /\ pc' <= 4 => pc <= 4
        /\ pc' >= 5 => pc >= 5
    BY <1>2, <1>3
  <2>. QED  BY <1>0, <1>5, <2>1 DEF Kept
<1>7. Timed'
  <2>1. CASE pc = 1
    BY <1>3, <2>1 DEF Timed
  <2>2. CASE pc = 2
    BY <1>3, <2>2 DEF Timed
  <2>3. CASE pc = 5
    BY <1>0, <1>3, <2>3 DEF Timed
  <2>. QED  BY <1>2, <2>1, <2>2, <2>3
<1>8. pc = 1 => exit' = IF good THEN NoExit ELSE 4
  BY <1>1
<1>. QED  BY <1>1, <1>2, <1>3, <1>4, <1>6, <1>7, <1>8

LEMMA FaultGathers ==
  ASSUME Base, Collecting, Linked, Begins, Kept, Timed, Fault
  PROVE  Linked' /\ Begins' /\ Kept' /\ Timed'
<1>1. /\ waiting /\ CallEnds(FALSE) /\ FALSE \in BOOLEAN
      /\ UNCHANGED <<fixed, store, printed, timedOut, sampled, discarded>>
  BY DEF Fault, server
<1>2. /\ pc \in {1, 2, 5} /\ pc' \in Nat
      /\ pc = 1 => pc' = 2 /\ exit' = 4
      /\ pc = 2 => pc' \in {3, 4} /\ status'[2] = "Bad"
      /\ pc = 5 => pc' = 6
      /\ pc' <= 2 <=> status'[2] = "none"
      /\ Kept' /\ Timed'
  BY <1>1, CallEndsGathers
<1>3. ~ Tracked'
  BY <1>2 DEF Tracked, NoExit
<1>4. Begins'
  BY <1>2 DEF Begins, NoExit
<1>. QED  BY <1>2, <1>3, <1>4 DEF Linked

(* The first message is taken, before the answer to CreateMonitoredItems.   *)
LEMMA BeginsTail ==
  ASSUME Base, Begins, pc <= 2, exit = NoExit, ~ dead, Numbers, toClient[1].id # 2,
         1 \in DOMAIN toClient, UNCHANGED srv, toClient' \in Seq(Message),
         Len(toClient') = Len(toClient) - 1,
         \A i \in DOMAIN toClient' : i \in Nat \ {0} /\ i + 1 \in DOMAIN toClient
                                     /\ toClient'[i] = toClient[i + 1]
  PROVE  (\A k \in DOMAIN toClient' : toClient'[k].id # 2) =>
            srv'.queue = <<>> /\ ~ srv'.item
<1>0. /\ DOMAIN toClient = 1 .. Len(toClient) /\ Len(toClient) \in Nat
      /\ DOMAIN toClient' = 1 .. Len(toClient') /\ Len(toClient') \in Nat
  BY LenProperties DEF Base, TypeOK
<1>1. ASSUME NEW k \in DOMAIN toClient, toClient[k].id = 2
      PROVE  k - 1 \in DOMAIN toClient' /\ toClient'[k - 1].id = 2
  <2>1. k # 1
    BY <1>1
  <2>2. k - 1 \in DOMAIN toClient' /\ (k - 1) + 1 = k
    BY <1>0, <2>1
  <2>. QED  BY <1>1, <2>2
<1>3. ASSUME \A k \in DOMAIN toClient' : toClient'[k].id # 2
      PROVE  srv'.queue = <<>> /\ ~ srv'.item
  <2>1. \A k \in DOMAIN toClient : toClient[k].id # 2
    BY <1>1, <1>3
  <2>. QED  BY <2>1 DEF Begins
<1>. QED  BY <1>3

(* The answer of the call under way arrives.                                *)
LEMMA AnswerGathers ==
  ASSUME Base, Collecting, Linked, Begins, Kept, Timed, Receive,
         waiting, toClient[1].id = pc, toClient[1].good \in BOOLEAN,
         CallEnds(toClient[1].good), UNCHANGED <<store, discarded>>
  PROVE  Linked' /\ Begins' /\ Kept' /\ Timed'
<1>0. /\ TypeOK /\ Numbers /\ Base' /\ exit = NoExit /\ ~ dead
      /\ UNCHANGED <<fixed, printed, timedOut, sampled, srv, dead>>
      /\ 1 \in DOMAIN toClient /\ toClient' = Tail(toClient) /\ toClient # <<>>
      /\ Len(toClient') = Len(toClient) - 1
      /\ \A i \in DOMAIN toClient' : i \in Nat \ {0} /\ i + 1 \in DOMAIN toClient
                                     /\ toClient'[i] = toClient[i + 1]
      /\ toClient \in Seq(Message) /\ toClient' \in Seq(Message)
  BY ReceiveIs, NumbersHere DEF Base, TypeOK, Receive
<1>1. PICK good \in BOOLEAN : good = toClient[1].good
  OBVIOUS
<1>2. /\ pc \in {1, 2, 5} /\ pc' \in Nat
      /\ pc = 1 => pc' = 2 /\ exit' = (IF good THEN NoExit ELSE 4)
      /\ pc = 2 => pc' \in {3, 4} /\ status'[2] = (IF good THEN "Good" ELSE "Bad")
      /\ pc = 5 => pc' = 6
      /\ pc' <= 2 <=> status'[2] = "none"
      /\ Kept' /\ Timed'
  BY <1>0, <1>1, CallEndsGathers
<1>3. Begins'
  <2>1. CASE pc' <= 2
    <3>1. pc = 1 /\ pc <= 2 /\ toClient[1].id # 2
      BY <1>2, <2>1
    <3>2. (\A k \in DOMAIN toClient' : toClient'[k].id # 2) =>
             srv'.queue = <<>> /\ ~ srv'.item
      BY <1>0, <3>1, BeginsTail
    <3>. QED  BY <1>2, <3>2 DEF Begins
  <2>2. CASE ~ (pc' <= 2)
    BY <1>2, <2>2 DEF Begins
  <2>. QED  BY <2>1, <2>2
<1>4. ASSUME Tracked'
      PROVE  /\ Len(srv'.queue) <= srv'.size
             /\ \E off \in Offsets(toClient', sampled') :
                   LinkedBy(off, store', StoreCap', toClient', srv'.queue, sampled')
  <2>1. pc \in {1, 2}
    BY <1>2, <1>4 DEF Tracked
  <2>2. Tracked
    BY <1>0, <1>4, <2>1 DEF Tracked, Begins
  <2>3. PICK off \in Offsets(toClient, sampled) :
           LinkedBy(off, store, StoreCap, toClient, srv.queue, sampled)
    BY <2>2 DEF Linked
  <2>4. toClient[1].items = <<>>
    BY <1>0, <2>1 DEF Base, Ordered, Answers
  <2>5. srv.queue \in Seq(Item) /\ sampled \in Seq(Int) /\ store \in Seq(Item)
    BY <1>0 DEF TypeOK, ServerType
  <2>6. \E next \in Offsets(Tail(toClient), sampled) :
           LinkedBy(next, store, StoreCap, Tail(toClient), srv.queue, sampled)
    BY <1>0, <2>3, <2>4, <2>5, LinkDrop
  <2>7. StoreCap' = StoreCap /\ Len(srv.queue) <= srv.size
    BY <1>0, <2>2, SameProgram DEF fixed, Linked
  <2>. QED  BY <1>0, <2>6, <2>7
<1>5. Linked'
  BY <1>4 DEF Linked
<1>. QED  BY <1>2, <1>3, <1>5

(* Something else arrives.                                                  *)
LEMMA ArrivalGathers ==
  ASSUME Base, Collecting, Linked, Begins, Kept, Timed, Receive,
         ~ (waiting /\ toClient[1].id = pc), UNCHANGED <<pc, waiting, status, exit>>,
         store' = IF Monitored THEN Dispatch(toClient[1].items) ELSE store,
         discarded' = (discarded \/ (~Monitored /\ toClient[1].items # <<>>))
  PROVE  Linked' /\ Begins' /\ Kept' /\ Timed'
<1>0. /\ TypeOK /\ Numbers /\ Base' /\ exit = NoExit /\ ~ dead /\ Listening
      /\ UNCHANGED <<fixed, printed, timedOut, sampled, srv, dead>>
      /\ 1 \in DOMAIN toClient /\ toClient' = Tail(toClient) /\ toClient # <<>>
      /\ Len(toClient') = Len(toClient) - 1
      /\ \A i \in DOMAIN toClient' : i \in Nat \ {0} /\ i + 1 \in DOMAIN toClient
                                     /\ toClient'[i] = toClient[i + 1]
      /\ toClient \in Seq(Message) /\ toClient' \in Seq(Message)
      /\ toClient[1] \in Message
  BY ReceiveIs, NumbersHere DEF Base, TypeOK, Receive
<1>8. ~ discarded' => ~ discarded /\ (~ Monitored => toClient[1].items = <<>>)
  BY Zenon
<1>1. /\ StoreCap' = StoreCap /\ asked' = asked /\ StoreCap \in Nat
      /\ status[2] \in {"none", "Good", "Bad"} /\ pc \in 0 .. 6
      /\ Monitored <=> status[2] = "Good"
      /\ sampled \in Seq(Int) /\ store \in Seq(Item) /\ srv.queue \in Seq(Item)
  BY <1>0, SameProgram, CollectingProgram, SubscriptionAssumption
     DEF fixed, StoreCap, TypeOK, ServerType
<1>2. toClient[1].id <= pc /\ (toClient[1].id = pc => toClient[1].id = 0)
      /\ (toClient[1].id # 0 => toClient[1].items = <<>>)
  BY <1>0 DEF Base, Ordered, Answers
<1>3. pc # 4
  <2>1. waiting => At("call")
    BY DEF Base, Ordered, CallWaits
  <2>2. Program[pc].op \in {"call", "pause", "wait"}
    BY <1>0, <2>1 DEF Listening, At, Current
  <2>. QED  BY <2>2, CollectingProgram
<1>4. Timed'
  BY <1>0, <1>1, <1>3 DEF Timed
<1>5. Begins'
  <2>1. CASE pc <= 2
    <3>1. toClient[1].id # 2
      BY <1>0, <1>2, <2>1 DEF Numbers
    <3>2. (\A k \in DOMAIN toClient' : toClient'[k].id # 2) =>
             srv'.queue = <<>> /\ ~ srv'.item
      BY <1>0, <2>1, <3>1, BeginsTail
    <3>. QED  BY <3>2 DEF Begins
  <2>2. CASE ~ (pc <= 2)
    BY <2>2 DEF Begins
  <2>. QED  BY <2>1, <2>2
<1>6. CASE ~ Monitored
  <2>1. store' = store
    BY <1>6
  <2>2. Kept'
    BY <1>0, <1>1, <1>8, <2>1 DEF Kept
  <2>3. ASSUME Tracked'
        PROVE  /\ Len(srv'.queue) <= srv'.size
               /\ \E off \in Offsets(toClient', sampled') :
                     LinkedBy(off, store', StoreCap', toClient', srv'.queue, sampled')
    <3>1. Tracked /\ status[2] = "none" /\ pc <= 2
      BY <1>0, <1>1, <1>6, <1>8, <2>3 DEF Tracked, Begins
    <3>2. PICK off \in Offsets(toClient, sampled) :
             LinkedBy(off, store, StoreCap, toClient, srv.queue, sampled)
      BY <3>1 DEF Linked
    <3>3. toClient[1].items = <<>>
      BY <1>6, <1>8, <2>3 DEF Tracked
    <3>4. \E next \in Offsets(Tail(toClient), sampled) :
             LinkedBy(next, store, StoreCap, Tail(toClient), srv.queue, sampled)
      BY <1>0, <1>1, <3>2, <3>3, LinkDrop
    <3>5. Len(srv.queue) <= srv.size
      BY <3>1 DEF Linked
    <3>. QED  BY <1>0, <1>1, <2>1, <3>4, <3>5
  <2>4. Linked'
    BY <2>3 DEF Linked
  <2>. QED  BY <1>4, <1>5, <2>2, <2>4
<1>7. CASE Monitored
  <2>1. PICK items \in Seq(Item) : items = toClient[1].items
    BY <1>0 DEF Message
  <2>2. PICK more \in Seq(Item) :
           /\ more = store' /\ Len(more) <= StoreCap
           /\ more = store \o SubSeq(items, 1, AtMost(Len(items), StoreCap - Len(store)))
    BY <1>1, <1>7, <2>1, DispatchIs, DispatchFits DEF Kept
  <2>3. ASSUME ~ discarded, pc <= 4
        PROVE  /\ Covers(more, 0, sampled)
               /\ Len(srv.queue) <= srv.size
               /\ \E next \in Offsets(Tail(toClient), sampled) :
                     LinkedBy(next, more, StoreCap, Tail(toClient), srv.queue, sampled)
    <3>1. Tracked /\ Covers(store, 0, sampled) /\ Len(store) <= StoreCap
      BY <1>0, <1>1, <1>7, <2>3 DEF Tracked, Kept
    <3>2. PICK off \in Offsets(toClient, sampled) :
             LinkedBy(off, store, StoreCap, toClient, srv.queue, sampled)
      BY <3>1 DEF Linked
    <3>3. Len(srv.queue) <= srv.size
      BY <3>1 DEF Linked
    <3>4. /\ Covers(more, 0, sampled)
          /\ \E next \in Offsets(Tail(toClient), sampled) :
                LinkedBy(next, more, StoreCap, Tail(toClient), srv.queue, sampled)
      <4>1. toClient \in Seq(Message) /\ toClient # <<>> /\ srv.queue \in Seq(Item)
            /\ sampled \in Seq(Int) /\ store \in Seq(Item) /\ StoreCap \in Nat
        BY <1>0, <1>1
      <4>. QED  BY <2>1, <2>2, <3>1, <3>2, <4>1, LinkTake, Zenon
    <3>. QED  BY <3>3, <3>4
  <2>4. Kept'
    <3>1. status'[2] = "Good"
      BY <1>1, <1>7
    <3>2. ASSUME ~ discarded'
          PROVE  /\ pc' <= 4 => Covers(store', 0, sampled')
                 /\ pc' >= 5 => Covers(printed', 0, sampled')
      <4>1. ~ discarded
        BY <1>8, <3>2
      <4>2. pc' <= 4 => Covers(store', 0, sampled')
        BY <1>0, <2>2, <2>3, <4>1
      <4>3. pc' >= 5 => Covers(printed', 0, sampled')
        BY <1>0, <4>1 DEF Kept
      <4>. QED  BY <4>2, <4>3
    <3>. QED  BY <1>1, <2>2, <3>1, <3>2 DEF Kept
  <2>5. Linked'
    <3>1. ASSUME Tracked' PROVE ~ discarded /\ pc <= 4
      BY <1>8, <3>1 DEF Tracked
    <3>2. ASSUME Tracked'
          PROVE  /\ Len(srv'.queue) <= srv'.size
                 /\ \E off \in Offsets(toClient', sampled') :
                       LinkedBy(off, store', StoreCap', toClient', srv'.queue, sampled')
      BY <1>0, <1>1, <2>2, <2>3, <3>1, <3>2
    <3>. QED  BY <3>2 DEF Linked
  <2>. QED  BY <1>4, <1>5, <2>4, <2>5
<1>. QED  BY <1>6, <1>7

(* A step of the client that leaves the connection and the store alone.     *)
LEMMA LocalKeeps ==
  ASSUME Base, Collecting, Linked, Begins, pc' \in Nat, pc <= pc',
         UNCHANGED <<fixed, server, status, store, toClient, dead>>,
         exit' = NoExit => exit = NoExit,
         pc' <= 2 <=> pc <= 2
  PROVE  Linked' /\ Begins'
<1>1. /\ UNCHANGED <<srv, sampled, discarded>> /\ StoreCap' = StoreCap /\ pc \in Nat
  BY SameProgram, NumbersHere DEF fixed, server, Numbers
<1>2. Tracked' => Tracked
  BY <1>1 DEF Tracked
<1>3. Linked'
  BY <1>1, <1>2 DEF Linked
<1>4. Begins'
  BY <1>1 DEF Begins
<1>. QED  BY <1>3, <1>4

LEMMA ConnectGathers ==
  ASSUME Base, Collecting, Linked, Begins, Kept, Timed, Connect
  PROVE  Linked' /\ Begins' /\ Kept' /\ Timed'
<1>1. /\ pc = 0 /\ pc' \in {0, 1} /\ exit = NoExit
      /\ UNCHANGED <<fixed, server, status, store, toClient, dead, printed, timedOut>>
  BY DEF Connect
<1>2. UNCHANGED <<sampled, discarded, asked>> /\ StoreCap' = StoreCap
  BY <1>1, SameProgram DEF fixed, server
<1>3. Linked' /\ Begins'
  <2>1. pc' \in Nat /\ pc <= pc' /\ (pc' <= 2 <=> pc <= 2)
    BY <1>1
  <2>. QED  BY <1>1, <2>1, LocalKeeps
<1>4. Kept' /\ Timed'
  BY <1>1, <1>2 DEF Kept, Timed
<1>. QED  BY <1>3, <1>4

LEMMA StepCallGathers ==
  ASSUME Base, Collecting, Linked, Begins, Kept, Timed, StepCall
  PROVE  Linked' /\ Begins' /\ Kept' /\ Timed'
<1>1. UNCHANGED <<fixed, server, pc, status, store, toClient, dead, exit, printed, timedOut>>
  BY DEF StepCall
<1>2. UNCHANGED <<sampled, discarded, asked>> /\ StoreCap' = StoreCap
  BY <1>1, SameProgram DEF fixed, server
<1>3. Linked' /\ Begins'
  <2>1. pc' \in Nat /\ pc <= pc' /\ (pc' <= 2 <=> pc <= 2)
    BY <1>1, NumbersHere DEF Numbers
  <2>. QED  BY <1>1, <2>1, LocalKeeps
<1>4. Kept' /\ Timed'
  BY <1>1, <1>2 DEF Kept, Timed
<1>. QED  BY <1>3, <1>4

(* The loop ends: enough is stored, or the time is up.                      *)
LEMMA WaitGathers ==
  ASSUME Base, Collecting, Linked, Begins, Kept, Timed, WaitDone \/ TimeUp
  PROVE  Linked' /\ Begins' /\ Kept' /\ Timed'
<1>1. /\ pc' = pc + 1 /\ (At("wait") \/ At("pause"))
      /\ UNCHANGED <<fixed, server, status, store, toClient, dead, exit, printed>>
  BY DEF WaitDone, TimeUp
<1>2. UNCHANGED <<sampled, discarded, asked>> /\ StoreCap' = StoreCap
  BY <1>1, SameProgram DEF fixed, server
<1>3. pc = 3 /\ pc' = 4 /\ exit = NoExit /\ At("wait")
  <2>1. Program[pc].op \in {"wait", "pause"} /\ pc \in 1 .. Len(Program) /\ exit = NoExit
    BY <1>1 DEF At, Running, Current
  <2>2. pc = 3
    <3>1. pc \in 1 .. 5
      BY <2>1, CollectingProgram, Zenon
    <3>2. pc # 1 /\ pc # 2 /\ pc # 4 /\ pc # 5
      BY <2>1, CollectingProgram
    <3>. QED  BY <3>1, <3>2
  <2>3. ~ At("pause")
    BY <2>2, CollectingProgram DEF At, Current
  <2>. QED  BY <1>1, <2>1, <2>2, <2>3
<1>4. Enough <=> Len(store) >= AtMost(asked, StoreCap)
  BY <1>3, CollectingProgram DEF Enough, Current
<1>5. Len(store) \in Nat /\ AtMost(asked, StoreCap) \in Nat
  <2>1. store \in Seq(Item) /\ asked \in Nat /\ StoreCap \in Nat
    BY SubscriptionAssumption DEF Base, TypeOK, StoreCap
  <2>. QED  BY <2>1, LenProperties, AtMostIsNat
<1>6. timedOut' <=> ~ Enough
  <2>1. CASE WaitDone
    BY <1>3, <2>1 DEF WaitDone, Timed
  <2>2. CASE TimeUp
    BY <1>3, <2>2, CollectingProgram DEF TimeUp, At
  <2>. QED  BY <2>1, <2>2
<1>7. Timed'
  <2>1. timedOut' <=> Len(store) < AtMost(asked, StoreCap)
    BY <1>4, <1>5, <1>6
  <2>. QED  BY <1>1, <1>2, <1>3, <2>1 DEF Timed
<1>8. Kept'
  BY <1>1, <1>2, <1>3 DEF Kept
<1>9. Linked' /\ Begins'
  <2>1. pc' \in Nat /\ pc <= pc' /\ (pc' <= 2 <=> pc <= 2)
    BY <1>3
  <2>. QED  BY <1>1, <2>1, LocalKeeps
<1>. QED  BY <1>7, <1>8, <1>9

LEMMA ReportGathers ==
  ASSUME Base, Collecting, Linked, Begins, Kept, Timed, StepLocal
  PROVE  Linked' /\ Begins' /\ Kept' /\ Timed'
<1>1. /\ pc' = pc + 1 /\ (At("reset") \/ At("mark") \/ At("report"))
      /\ UNCHANGED <<fixed, server, status, toClient, dead, exit, timedOut>>
  BY DEF StepLocal
<1>2. UNCHANGED <<sampled, discarded, asked>> /\ StoreCap' = StoreCap
  BY <1>1, SameProgram DEF fixed, server
<1>3. Program[pc].op \in {"reset", "mark", "report"} /\ pc \in 1 .. Len(Program)
  BY <1>1 DEF At, Running, Current
<1>4. pc = 4 /\ pc' = 5
  <2>1. pc \in 1 .. 5
    BY <1>3, CollectingProgram, Zenon
  <2>2. pc # 1 /\ pc # 2 /\ pc # 3 /\ pc # 5
    BY <1>3, CollectingProgram
  <2>. QED  BY <1>1, <2>1, <2>2
<1>5. printed' = store /\ store' = store /\ exit = NoExit
  <2>1. Current.op = "report"
    BY <1>4, CollectingProgram DEF Current
  <2>. QED  BY <2>1 DEF StepLocal, At, Running
<1>6. Linked' /\ Begins'
  <2>1. pc' \in Nat /\ pc <= pc' /\ (pc' <= 2 <=> pc <= 2)
    BY <1>4
  <2>. QED  BY <1>1, <1>5, <2>1, LocalKeeps
<1>7. Kept'
  BY <1>1, <1>2, <1>4, <1>5 DEF Kept
<1>8. Timed'
  BY <1>1, <1>2, <1>4, <1>5 DEF Timed
<1>. QED  BY <1>6, <1>7, <1>8

LEMMA FinishGathers ==
  ASSUME Base, Collecting, Linked, Begins, Kept, Timed, Finish
  PROVE  Linked' /\ Begins' /\ Kept' /\ Timed'
<1>1. /\ pc > Len(Program) /\ exit = NoExit /\ exit' = ExitCode
      /\ UNCHANGED <<fixed, server, pc, status, store, toClient, dead, printed, timedOut>>
  BY DEF Finish
<1>2. UNCHANGED <<sampled, discarded, asked>> /\ StoreCap' = StoreCap
  BY <1>1, SameProgram DEF fixed, server
<1>3. pc = 6 /\ (Monitored <=> status[2] = "Good")
  <2>1. pc > 5 /\ pc \in 0 .. 6 /\ (Monitored <=> status[2] = "Good")
    BY <1>1, CollectingProgram, Zenon
  <2>2. pc = 6
    BY <2>1
  <2>. QED  BY <2>1, <2>2
<1>4. Kept'
  BY <1>1, <1>2 DEF Kept
<1>5. Linked' /\ Begins'
  <2>1. pc' \in Nat /\ pc <= pc' /\ (pc' <= 2 <=> pc <= 2)
    BY <1>1, <1>3
  <2>. QED  BY <1>1, <2>1, LocalKeeps
<1>6. status[2] = "Good" => exit' = IF timedOut THEN 7 ELSE 0
  <2>1. cmd # "revise"
    BY DEF Collecting
  <2>2. CASE timedOut
    BY <1>1, <1>3, <2>1, <2>2 DEF ExitCode
  <2>3. CASE ~ timedOut
    <3>1. Verdict
      <4>1. cmd \notin {"revise", "publishing", "monitoring", "delete"}
        BY DEF Collecting
      <4>2. Verdict = ~ timedOut
        BY <4>1 DEF Verdict
      <4>. QED  BY <2>3, <4>2
    <3>. QED  BY <1>1, <1>3, <2>1, <2>3, <3>1 DEF ExitCode
  <2>. QED  BY <2>2, <2>3
<1>7. Timed'
  BY <1>1, <1>2, <1>3, <1>6 DEF Timed
<1>. QED  BY <1>4, <1>5, <1>7

LEMMA InitGathers == ASSUME Init PROVE Gathering
<1>. SUFFICES ASSUME Collecting PROVE Linked /\ Begins /\ Kept /\ Timed
  BY DEF Gathering
<1>0. /\ Base /\ pc = 0 /\ store = <<>> /\ sampled = <<>> /\ toClient = <<>>
      /\ exit = NoExit /\ ~ timedOut
      /\ status = [i \in 1 .. Len(Program) |-> "none"]
  BY InitBase DEF Init
<1>1. srv.queue = <<>> /\ ~ srv.item /\ srv.size = 1
  BY DEF Init, NoItem
<1>2. status[2] = "none"
  <2>1. 2 \in 1 .. Len(Program)
    BY <1>0, CollectingProgram
  <2>. QED  BY <1>0, <2>1
<1>3. Len(<<>>) = 0 /\ DOMAIN <<>> = {}
  BY EmptyFacts
<1>4. StoreCap \in Nat
  BY SubscriptionAssumption DEF StoreCap
<1>5. Begins
  BY <1>0, <1>1, <1>2, <1>3 DEF Begins
<1>6. Kept /\ Timed
  BY <1>0, <1>2, <1>3, <1>4 DEF Kept, Timed, Covers
<1>7. Linked
  <2>. DEFINE off == [i \in 1 .. 1 |-> 0]
  <2>1. off \in Offsets(<<>>, <<>>) /\ off[1] = 0
    BY <1>3 DEF Offsets
  <2>. HIDE DEF off
  <2>2. Covers(<<>>, 0, <<>>)
    BY <1>3 DEF Covers
  <2>3. LinkedBy(off, <<>>, StoreCap, <<>>, <<>>, <<>>)
    <3>1. 0 + 1 = 1 /\ 1 .. 0 = {}
      OBVIOUS
    <3>. QED  BY <1>3, <1>4, <2>1, <2>2, <3>1 DEF LinkedBy
  <2>. QED  BY <1>0, <1>1, <1>3, <2>1, <2>3 DEF Linked
<1>. QED  BY <1>5, <1>6, <1>7

LEMMA NextGathers == ASSUME Base, Gathering, [Next]_vars PROVE Gathering'
<1>1. Collecting' => Collecting
  <2>1. cmd' = cmd
    BY DEF Next, ClientStep, ServerStep, Connect, StepCall, Receive, Fault, WaitDone, TimeUp,
           StepLocal, Finish, Handle, Refuse, Sample, Change, Publish, Overtake, Die, vars, fixed
  <2>. QED  BY <2>1 DEF Collecting
<1>. SUFFICES ASSUME Collecting PROVE Linked' /\ Begins' /\ Kept' /\ Timed'
  BY <1>1 DEF Gathering
<1>2. Linked /\ Begins /\ Kept /\ Timed
  BY DEF Gathering
<1>3. CASE Receive
  BY <1>2, <1>3, ReceiveIs, AnswerGathers, ArrivalGathers
<1>4. CASE UNCHANGED vars
  BY <1>2, <1>4, SameProgram DEF vars, client, server, fixed, Linked, Tracked, Begins, Kept, Timed
<1>. QED  BY <1>2, <1>3, <1>4, ConnectGathers, StepCallGathers, FaultGathers, WaitGathers,
             ReportGathers, FinishGathers, HandleGathers, RefuseGathers, ChangeGathers,
             PublishGathers, OvertakeGathers, DieGathers DEF Next, ClientStep, ServerStep

(* What subscribe and event-subscribe print is a gapless prefix of what the *)
(* item sampled unless a value was lost, and, asked for no more than the    *)
(* store holds, they succeed exactly when they have it: for every queue     *)
(* size, batch and delay of the server, and whatever is still under way     *)
(* when the loop ends.                                                      *)
THEOREM CollectedIsSampled == Spec => []Collected
<1>1. Init => Gathering
  BY InitGathers
<1>2. Base /\ Gathering /\ [Next]_vars => Gathering'
  BY NextGathers
<1>3. Base /\ Gathering => Collected
  <2>. SUFFICES ASSUME Base, Gathering, Collecting, Done, Monitored
                PROVE  /\ ~discarded => Values(printed) = SubSeq(sampled, 1, Len(printed))
                       /\ asked <= StoreCap => (exit = 0 <=> Len(printed) >= asked)
    BY DEF Collected
  <2>1. pc = 6 /\ status[2] = "Good" /\ exit # NoExit
    <3>1. pc > 5 /\ pc \in 0 .. 6 /\ status[2] = "Good" /\ exit # NoExit
      BY CollectingProgram, Zenon DEF Done
    <3>2. pc = 6
      BY <3>1
    <3>. QED  BY <3>1, <3>2
  <2>2. PICK n \in Nat, w \in Nat : /\ n = Len(printed) /\ w = AtMost(asked, StoreCap)
                                    /\ asked <= StoreCap => w = asked
    <3>1. printed \in Seq(Item) /\ asked \in Nat /\ StoreCap \in Nat
      BY SubscriptionAssumption DEF Base, TypeOK, StoreCap
    <3>2. asked <= StoreCap => AtMost(asked, StoreCap) = asked
      BY <3>1 DEF AtMost
    <3>. QED  BY <3>1, <3>2, LenProperties, AtMostIsNat
  <2>3. exit = 0 <=> n >= w
    <3>1. (timedOut <=> n < w) /\ exit = IF timedOut THEN 7 ELSE 0
      BY <2>1, <2>2 DEF Gathering, Timed
    <3>. QED  BY <3>1
  <2>4. ASSUME ~ discarded PROVE Values(printed) = SubSeq(sampled, 1, n)
    <3>1. printed \in Seq(Item) /\ sampled \in Seq(Int) /\ DOMAIN printed = 1 .. n
      BY <2>2, LenProperties DEF Base, TypeOK
    <3>2. \A k \in 1 .. n : k <= Len(sampled) /\ printed[k].val = sampled[k]
      <4>1. Covers(printed, 0, sampled)
        BY <2>1, <2>4 DEF Gathering, Kept
      <4>2. \A k \in 1 .. n : 0 + k = k
        OBVIOUS
      <4>. QED  BY <2>2, <4>1, <4>2 DEF Covers
    <3>3. n <= Len(sampled)
      <4>1. Len(sampled) \in Nat
        BY <3>1, LenProperties
      <4>. QED  BY <3>2, <4>1
    <3>4. /\ SubSeq(sampled, 1, n) \in Seq(Int) /\ Len(SubSeq(sampled, 1, n)) = n
          /\ \A i \in 1 .. n : SubSeq(sampled, 1, n)[i] = sampled[i]
      BY <3>1, <3>3, PrefixFacts, Zenon
    <3>5. SubSeq(sampled, 1, n) \in [1 .. n -> Int]
      BY <3>4, LenProperties, Zenon
    <3>6. Values(printed) = [i \in 1 .. n |-> printed[i].val]
      BY <3>1 DEF Values
    <3>7. \A i \in 1 .. n : Values(printed)[i] = SubSeq(sampled, 1, n)[i]
      BY <3>2, <3>4, <3>6, Zenon
    <3>8. PICK f : f = SubSeq(sampled, 1, n)
      OBVIOUS
    <3>9. f \in [1 .. n -> Int] /\ \A i \in 1 .. n : Values(printed)[i] = f[i]
      BY <3>5, <3>7, <3>8, Zenon
    <3>. QED  BY <3>6, <3>8, <3>9
  <2>. QED  BY <2>2, <2>3, <2>4
<1>. QED  BY <1>1, <1>2, <1>3, OrderInvariant, PTL DEF Spec

-----------------------------------------------------------------------------
(* The scenarios of publishing and monitoring mode.                         *)

(* As long as every call was Good, all calls behind pc were made, none      *)
(* ended without its answer; the calls from pc on have no result.           *)
Clean ==
    /\ \A s \in DOMAIN status : s >= pc => status[s] = "none"
    /\ AllGood =>
          /\ ~ late
          /\ \A s \in DOMAIN status :
                s < pc /\ Program[s].op = "call" => status[s] = "Good"

Scenario == cmd \in {"publishing", "monitoring"}

(* A scenario runs against a server that samples every change, and nothing  *)
(* has failed.                                                              *)
OnTrack ==
    /\ Scenario /\ exit = NoExit /\ pc <= DeleteAt
    /\ ~ srv.throttled /\ ~ dead /\ AllGood
    /\ \A k \in DOMAIN toClient : toClient[k].id # 0 => toClient[k].good

(* The last step that is over as far as the server is concerned.            *)
Past ==
    IF pc = 0 \/ \E k \in DOMAIN toClient : toClient[k].id = pc THEN pc ELSE pc - 1

(* What is in the store, on the connection and in the queue is no more than *)
(* was sampled: off[k] bounds what is ahead of message k.                   *)
Budget(off, kept, msgs, left, total) ==
    /\ off \in [1 .. Len(msgs) + 1 -> 0 .. total]
    /\ kept <= off[1]
    /\ \A k \in 1 .. Len(msgs) : off[k] + Len(msgs[k].items) <= off[k + 1]
    /\ off[Len(msgs) + 1] + left <= total

InBudget(kept, msgs, left, total) ==
    \E off \in [1 .. Len(msgs) + 1 -> 0 .. total] : Budget(off, kept, msgs, left, total)

(* At most one value is sampled in each step.                               *)
Accounted ==
    OnTrack =>
        /\ srv.oldest
        /\ Len(sampled) <= Past
        /\ InBudget(Len(store), toClient, Len(srv.queue), Len(sampled))

(* Monitoring mode: the value of the write whose report is counted.         *)
Target == 103
Has(s) == \E i \in DOMAIN s : s[i].val = Target

(* Message k was sent before the answer to the write (step 16).             *)
Behind(k) == pc = 16 /\ \E j \in DOMAIN toClient : k < j /\ toClient[j].id = 16

(* Once the server has carried it out, whatever is queued or sent later      *)
(* includes the value.                                                      *)
Delivering ==
    /\ srv.queue # <<>> => Has(srv.queue)
    /\ \A k \in DOMAIN toClient :
          toClient[k].items # <<>> /\ ~ Behind(k) => Has(toClient[k].items)

(* The store from n + 1 to m includes the value, unless it is empty.        *)
Shows(n, m) ==
    /\ n <= m /\ m <= Len(store)
    /\ m > n => \E i \in n + 1 .. m : store[i].val = Target

Counts == Shows(marks["before"], marks["reporting"])

(* The value before is 102, sampled or not, so that 103 is a change.        *)
Reports ==
    /\ Past \in 2 .. 19 => srv.item
    /\ Past \in 9 .. 19 => srv.mode # Disabled
    /\ Past \in 12 .. 15 => srv.value = 102 /\ srv.last = 102
    /\ Past >= 16 => Delivering
    /\ pc >= 18 => Shows(marks["before"], Len(store))
    /\ pc >= 20 => Counts

Monitoring ==
    cmd = "monitoring" =>
      /\ OnTrack => Reports
      /\ AllGood /\ ~ srv.throttled /\ pc > 20 => Counts

(* Publishing mode: the last value written once step p is over.             *)
Written(p) == IF p < 6 THEN 0 ELSE IF p >= 14 THEN 5 ELSE (p - 4) \div 2

(* A queue of at most n values ends with those written up to w, as many as  *)
(* it holds. The first write may repeat what the node held, so 1 may be     *)
(* missing.                                                                 *)
Tailed(q, n, w) ==
    /\ Len(q) <= n
    /\ AtMost(w - 1, n) <= Len(q)
    /\ \A j \in 0 .. (w - 2) : j < Len(q) => q[Len(q) - j].val = w - j

(* What the scenario accepts: three values at least, unless the queue is    *)
(* shorter.                                                                 *)
Window(s, size) ==
    LET n == Len(s) IN
    /\ \/ n >= 3 /\ s[n - 2].val = 3 /\ s[n - 1].val = 4 /\ s[n].val = 5
       \/ n \in {1, 2} /\ s[n].val = 5
    /\ size >= 3 => n >= 3

NoItems == \A k \in DOMAIN toClient : toClient[k].items = <<>>

(* Once publishing is on again the queue of that time is in one place: with *)
(* the server, in one message, or in the store.                             *)
Windowed ==
    /\ srv.queue # <<>> => Window(srv.queue, srv.size) /\ store = <<>> /\ NoItems
    /\ \A k \in DOMAIN toClient : toClient[k].items # <<>> =>
          /\ Window(toClient[k].items, srv.size) /\ store = <<>>
          /\ \A j \in DOMAIN toClient : j # k => toClient[j].items = <<>>
    /\ store = <<>> \/ Window(store, srv.size)

Publishes ==
    /\ srv.mode = Reporting
    /\ Past < 2 => ~ srv.item /\ srv.queue = <<>>
    /\ Len(srv.queue) <= srv.size
    /\ Past \in 2 .. 18 => srv.item
    /\ Past \in 6 .. 18 => srv.value = Written(Past) /\ srv.last = Written(Past)
    /\ Past \in 6 .. 16 => Tailed(srv.queue, srv.size, Written(Past))
    /\ Past >= 17 => Windowed

(* The scenario after its DeleteSubscription.                               *)
Ends ==
    /\ store = <<>> \/ Window(store, srv.size)
    /\ pc = 21 => printed = store
    /\ pc = 21 /\ exit # NoExit /\ printed # <<>> => exit = 0

Publishing ==
    cmd = "publishing" =>
      /\ ~ timedOut
      /\ OnTrack => Publishes
      /\ AllGood /\ ~ srv.throttled /\ pc > 19 => Ends

-----------------------------------------------------------------------------
(* The calls were Good so far.                                              *)

LEMMA CleanLocal ==
  ASSUME Base, Clean, UNCHANGED <<fixed, status, late>>,
         \/ pc' = pc
         \/ pc' = pc + 1 /\ (pc = 0 \/ Program[pc].op # "call")
  PROVE  Clean'
<1>1. Numbers /\ Program' = Program
  BY NumbersHere, ProgramKept
<1>2. AllGood' <=> AllGood
  BY DEF AllGood
<1>3. \A s \in DOMAIN status : s \in Nat \ {0}
  BY <1>1 DEF Numbers
<1>4. CASE pc' = pc
  BY <1>1, <1>2, <1>4 DEF Clean
<1>5. CASE pc' = pc + 1 /\ (pc = 0 \/ Program[pc].op # "call")
  <2>1. \A s \in DOMAIN status : (s >= pc' => s >= pc) /\ (s < pc' => s < pc \/ s = pc)
    BY <1>1, <1>3, <1>5 DEF Numbers
  <2>2. pc = 0 => \A s \in DOMAIN status : s # pc
    BY <1>3
  <2>. QED  BY <1>1, <1>2, <1>5, <2>1, <2>2 DEF Clean
<1>. QED  BY <1>4, <1>5

LEMMA CleanCall ==
  ASSUME Base, Clean, waiting, NEW good \in BOOLEAN, CallEnds(good), UNCHANGED fixed,
         good => late' = late
  PROVE  Clean' /\ (AllGood' => good /\ AllGood)
<1>1. Numbers /\ Program' = Program
  BY NumbersHere, ProgramKept
<1>2. /\ pc \in 1 .. Len(Program) /\ pc' \in Nat /\ pc < pc'
      /\ pc' = pc + 1 \/ ~ good
      /\ status' \in [1 .. Len(Program) -> {"none", "Good", "Bad"}]
      /\ \A s \in 1 .. Len(Program) :
            status'[s] = IF s = pc THEN (IF good THEN "Good" ELSE "Bad") ELSE status[s]
  BY CallEndsIs
<1>3. DOMAIN status' = DOMAIN status /\ DOMAIN status = 1 .. Len(Program)
  BY <1>1, <1>2 DEF Numbers
<1>4. AllGood' => good /\ AllGood
  <2>. SUFFICES ASSUME AllGood' PROVE good /\ AllGood
    OBVIOUS
  <2>1. good
    BY <1>2, <1>3 DEF AllGood
  <2>2. status[pc] = "none"
    BY <1>1, <1>2, <1>3 DEF Clean, Numbers
  <2>. QED  BY <1>2, <1>3, <2>1, <2>2 DEF AllGood
<1>5. ASSUME NEW s \in 1 .. Len(Program), s >= pc' PROVE status'[s] = "none"
  <2>1. s >= pc /\ s # pc
    BY <1>1, <1>2, <1>5 DEF Numbers
  <2>. QED  BY <1>2, <1>3, <2>1 DEF Clean
<1>6. ASSUME AllGood' PROVE ~ late'
  BY <1>4, <1>6 DEF Clean
<1>7. ASSUME AllGood', NEW s \in 1 .. Len(Program), s < pc', Program[s].op = "call"
      PROVE  status'[s] = "Good"
  <2>1. s < pc \/ s = pc
    BY <1>1, <1>2, <1>4, <1>7 DEF Numbers
  <2>. QED  BY <1>2, <1>3, <1>4, <1>7, <2>1 DEF Clean
<1>. QED  BY <1>1, <1>3, <1>4, <1>5, <1>6, <1>7 DEF Clean

LEMMA NextClean == ASSUME Base, Clean, [Next]_vars PROVE Clean'
<1>1. CASE Connect \/ StepCall \/ Finish \/ Handle \/ Refuse \/ Sample \/ Change \/ Publish
             \/ Overtake \/ Die \/ UNCHANGED vars
  <2>1. UNCHANGED <<fixed, status, late>>
    BY <1>1 DEF Connect, StepCall, Finish, Handle, Refuse, Sample, Change, Publish, Overtake,
                Die, client, vars
  <2>2. pc' = pc \/ (pc' = pc + 1 /\ pc = 0)
    <3>1. CASE Connect
      BY <3>1 DEF Connect
    <3>2. CASE StepCall \/ Finish \/ Handle \/ Refuse \/ Sample \/ Change \/ Publish
                 \/ Overtake \/ Die \/ UNCHANGED vars
      BY <3>2 DEF StepCall, Finish, Handle, Refuse, Sample, Change, Publish, Overtake, Die,
                  client, vars
    <3>. QED  BY <1>1, <3>1, <3>2
  <2>. QED  BY <2>1, <2>2, CleanLocal
<1>2. CASE WaitDone \/ TimeUp \/ StepLocal
  <2>1. UNCHANGED <<fixed, status, late>> /\ pc' = pc + 1
    BY <1>2 DEF WaitDone, TimeUp, StepLocal
  <2>2. Program[pc].op # "call"
    BY <1>2 DEF WaitDone, TimeUp, StepLocal, At, Current
  <2>. QED  BY <2>1, <2>2, CleanLocal
<1>3. CASE Fault
  <2>1. waiting /\ CallEnds(FALSE) /\ UNCHANGED fixed /\ FALSE \in BOOLEAN
    BY <1>3 DEF Fault
  <2>. QED  BY <2>1, CleanCall
<1>4. CASE Receive
  <2>1. UNCHANGED <<fixed, late>>
    BY <1>4 DEF Receive
  <2>2. CASE /\ waiting /\ toClient[1].id = pc /\ toClient[1].good \in BOOLEAN
             /\ CallEnds(toClient[1].good) /\ UNCHANGED store
    BY <2>1, <2>2, CleanCall
  <2>3. CASE UNCHANGED <<pc, waiting, status, exit>>
    BY <2>1, <2>3, CleanLocal
  <2>. QED  BY <1>4, <2>2, <2>3, ReceiveIs
<1>. QED  BY <1>1, <1>2, <1>3, <1>4 DEF Next, ClientStep, ServerStep

LEMMA InitClean == ASSUME Init PROVE Clean
<1>1. pc = 0 /\ ~ late /\ status = [i \in 1 .. Len(Program) |-> "none"]
  BY DEF Init
<1>2. Len(Program) \in Nat
  BY InitBase, NumbersHere DEF Numbers
<1>. QED  BY <1>1, <1>2 DEF Clean

-----------------------------------------------------------------------------
(* The moves of a scenario that is on track.                                *)

(* What sampling at once makes of the server.                               *)
Sampled(s) ==
    /\ srv'.sub = s.sub /\ srv'.item = s.item /\ srv'.publishing = s.publishing
    /\ srv'.mode = s.mode /\ srv'.size = s.size /\ srv'.value = s.value
    /\ srv'.throttled = s.throttled /\ srv'.oldest = s.oldest
    /\ IF Sampleable(s)
       THEN srv'.queue = Enqueue(s) /\ srv'.last = s.value /\ sampled' = Append(sampled, s.value)
       ELSE srv'.queue = s.queue /\ srv'.last = s.last /\ sampled' = sampled

LEMMA BecomesIs ==
  ASSUME NEW s \in ServerType, ServerBecomes(s, TRUE) PROVE Sampled(s)
<1>1. CASE Sampleable(s)
  BY <1>1 DEF ServerBecomes, Sampled, ServerType
<1>2. CASE ~ Sampleable(s)
  BY <1>2 DEF ServerBecomes, Sampled, ServerType
<1>. QED  BY <1>1, <1>2

LEMMA BecomesKeeps ==
  ASSUME NEW s \in ServerType, NEW now \in BOOLEAN, ServerBecomes(s, now)
  PROVE  srv'.throttled = s.throttled /\ srv'.mode = s.mode /\ srv'.oldest = s.oldest
<1>1. CASE now /\ Sampleable(s)
  BY <1>1 DEF ServerBecomes, ServerType
<1>2. CASE ~ (now /\ Sampleable(s))
  BY <1>2 DEF ServerBecomes
<1>. QED  BY <1>1, <1>2

(* What a request makes of the fields that a scenario depends on.           *)
EffectOf(s, req, size) ==
    /\ s.throttled = srv.throttled /\ s.oldest = srv.oldest
    /\ s.publishing = IF req.kind = "publish" THEN req.val = 1 ELSE srv.publishing
    /\ s.mode = IF req.kind = "mode" THEN req.val ELSE srv.mode
    /\ s.value = IF req.kind = "write" THEN req.val ELSE srv.value
    /\ s.size = IF req.kind = "monitor" THEN size ELSE srv.size
    /\ s.item = IF req.kind = "monitor" THEN TRUE
                ELSE IF req.kind \in {"deleteItem", "deleteSub"} THEN FALSE
                ELSE srv.item
    /\ s.queue = srv.queue \/ s.queue = <<>>
    /\ req.kind \notin {"mode", "deleteItem", "deleteSub"} => s.queue = srv.queue
    /\ req.kind = "deleteSub" => s.queue = <<>>
    /\ s.last \in {srv.last, srv.value, NoValue}
    /\ req.kind \notin {"mode", "monitor"} => s.last = srv.last

LEMMA EffectIs ==
  ASSUME srv \in ServerType, NEW req \in StepType, req.kind \in Called,
         NEW size \in Nat \ {0}, NEW s, s = Effect(req, size)
  PROVE  s \in ServerType /\ EffectOf(s, req, size)
<1>0. s \in ServerType
  BY EffectTyped
<1>1. CASE req.kind = "create"
  BY <1>0, <1>1 DEF Effect, EffectOf, ServerType
<1>2. CASE req.kind = "monitor"
  BY <1>0, <1>2 DEF Effect, EffectOf, ServerType
<1>3. CASE req.kind = "publish"
  BY <1>0, <1>3 DEF Effect, EffectOf, ServerType
<1>4. CASE req.kind = "mode"
  BY <1>0, <1>4 DEF Effect, EffectOf, ServerType
<1>5. CASE req.kind = "write"
  BY <1>0, <1>5 DEF Effect, EffectOf, ServerType
<1>6. CASE req.kind = "deleteItem"
  BY <1>0, <1>6 DEF Effect, EffectOf, ServerType
<1>7. CASE req.kind = "deleteSub"
  BY <1>0, <1>7 DEF Effect, EffectOf, ServerType
<1>. QED  BY <1>1, <1>2, <1>3, <1>4, <1>5, <1>6, <1>7 DEF Called

(* The client goes on without the server.                                   *)
Local ==
    /\ UNCHANGED <<fixed, srv, sampled, toClient>>
    /\ \/ UNCHANGED <<pc, store, marks>> /\ Past' = Past
       \/ /\ pc' = pc + 1 /\ pc = 0 /\ Past = 0 /\ Past' = 0
          /\ UNCHANGED <<store, marks>>
       \/ /\ pc' = pc + 1 /\ pc > 0 /\ Past = pc - 1 /\ Past' = pc
          /\ Program[pc].op # "call"
          /\ store' = IF Program[pc].op = "reset" THEN <<>> ELSE store
          /\ marks' = IF Program[pc].op = "mark"
                      THEN [marks EXCEPT ![Program[pc].kind] = Len(store)] ELSE marks

(* The server carries out the call under way.                               *)
Carried ==
    /\ UNCHANGED <<fixed, pc, store, marks>>
    /\ pc > 0 /\ Past = pc - 1 /\ Past' = pc
    /\ Program[pc].op = "call"
    /\ \A k \in DOMAIN toClient : toClient[k].id = 0
    /\ toClient' = Append(toClient, [id |-> pc, good |-> TRUE, items |-> <<>>])
    /\ \E size \in Nat \ {0}, s \in ServerType : s = Effect(Program[pc], size) /\ Sampled(s)

(* The server publishes.                                                    *)
Published ==
    /\ UNCHANGED <<fixed, pc, store, marks, sampled>>
    /\ Past' = Past
    /\ srv.publishing /\ srv.queue # <<>>
    /\ toClient' = Append(toClient, [id |-> 0, good |-> TRUE, items |-> srv.queue])
    /\ srv' = [srv EXCEPT !.queue = <<>>]

(* A notification passes the answer to the call.                            *)
Overtaken ==
    /\ UNCHANGED <<fixed, pc, store, marks, srv, sampled>>
    /\ Past' = Past
    /\ \E i \in Nat \ {0} :
          /\ Swapped(toClient, toClient', i)
          /\ toClient[i].id = pc /\ toClient[i].items = <<>> /\ toClient[i + 1].id = 0

(* The answer to the call arrives.                                          *)
AnswerCame ==
    /\ UNCHANGED <<fixed, store, marks, srv, sampled>>
    /\ pc' = pc + 1 /\ pc > 0 /\ Past = pc /\ Past' = pc
    /\ Program[pc].op = "call"
    /\ toClient # <<>> /\ toClient' = Tail(toClient)
    /\ toClient[1].id = pc
    /\ \A k \in DOMAIN toClient' : toClient'[k].id = 0

(* A notification arrives.                                                  *)
Arrived ==
    /\ UNCHANGED <<fixed, pc, marks, srv, sampled>>
    /\ Past' = Past
    /\ toClient # <<>> /\ toClient' = Tail(toClient) /\ toClient[1].id = 0
    /\ store' = store \/ store' = Dispatch(toClient[1].items)
    /\ pc > 0 /\ Program[pc].op # "mark"

LEMMA ScenarioProgram ==
  ASSUME TypeOK, Scenario
  PROVE  /\ DeleteAt = Len(Program) - 1 /\ Len(Program) \in Nat /\ Len(Program) >= 3
         /\ ~ Collecting /\ Program \in Seq(StepType)
         /\ \A i \in 1 .. Len(Program) : Program[i].op = "call" => Program[i].kind \in Called
BY ShapeHere DEF Scenario, DeleteAt, Collecting, Shape

(* Only the call under way has something on the connection.                 *)
LEMMA Tidy ==
  ASSUME Base, Clean, Deleting, AllGood, ~ dead
  PROVE  /\ \A i \in DOMAIN toServer : toServer[i].id = pc /\ waiting
         /\ \A i \in DOMAIN toClient : toClient[i].id \in {0, pc}
         /\ \A i \in DOMAIN toClient : toClient[i].id # 0 => waiting
<1>1. ~ late
  BY DEF Clean
<1>2. /\ \A i \in DOMAIN toServer : toServer[i].id = pc
      /\ \A i \in DOMAIN toClient : toClient[i].id \in {0, pc}
  BY <1>1 DEF Deleting
<1>. QED  BY <1>2 DEF Base, Ordered, Requests, Answers

LEMMA HandleMoves ==
  ASSUME Base, Base', Clean, Deleting, Handle, OnTrack' PROVE OnTrack /\ Carried
<1>. DEFINE r == Head(toServer)
<1>0. /\ ~ dead /\ toServer # <<>> /\ UNCHANGED <<client, fixed, dead>>
      /\ toClient' = Append(toClient, Response(r, Accepts(r.req)))
  BY DEF Handle
<1>1. /\ UNCHANGED <<cmd, pc, waiting, status, store, marks, exit>> /\ Program' = Program
      /\ DeleteAt' = DeleteAt /\ Numbers
  BY <1>0, ProgramKept, NumbersHere DEF client, fixed
<1>2. AllGood /\ Scenario /\ exit = NoExit /\ pc <= DeleteAt
  BY <1>1 DEF OnTrack, AllGood, Scenario
<1>3. /\ 1 \in DOMAIN toServer /\ r = toServer[1] /\ r \in Request
  BY <1>0, TailFacts DEF Base, TypeOK
<1>4. r.id = pc /\ r.req = Program[pc] /\ Program[pc].op = "call" /\ pc \in 1 .. Len(Program)
  BY <1>0, <1>2, <1>3, Tidy DEF Base, Ordered, Requests
<1>5. \A k \in DOMAIN toClient : toClient[k].id = 0
  <2>1. \A k \in DOMAIN toClient : toClient[k].id < pc
    BY <1>3, <1>4 DEF Base, Ordered, AnswersFirst
  <2>. QED  BY <1>0, <1>1, <1>2, <2>1, Tidy DEF Numbers
<1>6. Program[pc] \in StepType /\ Program[pc].kind \in Called
  BY <1>2, <1>4, ScenarioProgram, ElementOfSeq DEF Base
<1>. HIDE DEF r
<1>7. PICK good \in BOOLEAN, size \in Nat \ {0}, s \in ServerType :
         /\ good = Accepts(r.req)
         /\ s = (IF good THEN Effect(r.req, size) ELSE srv)
         /\ ServerBecomes(s, ~srv.throttled)
  BY HandleIs DEF r
<1>8. PICK m : m = Response(r, good)
  OBVIOUS
<1>9. m = [id |-> pc, good |-> good, items |-> <<>>] /\ m \in Message /\ m.id = pc /\ m.good = good
  BY <1>4, <1>7, <1>8, EmptySeq DEF Response, Message
<1>10. /\ Len(toClient) + 1 \in DOMAIN toClient' /\ toClient'[Len(toClient) + 1] = m
       /\ toClient' = Append(toClient, m)
  <2>1. toClient' = Append(toClient, m) /\ toClient \in Seq(Message)
    BY <1>0, <1>7, <1>8 DEF Base, TypeOK
  <2>. QED  BY <1>9, <2>1, AppendFacts, LenProperties
<1>11. good
  BY <1>4, <1>9, <1>10 DEF OnTrack
<1>12. s.throttled = srv.throttled /\ srv'.throttled = s.throttled
  <2>1. s = Effect(Program[pc], size)
    BY <1>4, <1>7, <1>11
  <2>2. srv \in ServerType
    BY DEF Base, TypeOK
  <2>3. srv.throttled \in BOOLEAN
    BY <2>2 DEF ServerType
  <2>. QED  BY <1>6, <1>7, <2>1, <2>2, <2>3, EffectIs, BecomesKeeps DEF EffectOf
<1>13. ~ srv.throttled
  BY <1>12 DEF OnTrack
<1>14. Sampled(s) /\ s = Effect(Program[pc], size)
  <2>1. ServerBecomes(s, TRUE)
    BY <1>7, <1>13
  <2>. QED  BY <1>4, <1>7, <1>11, <2>1, BecomesIs
<1>15. OnTrack
  BY <1>0, <1>2, <1>5, <1>13 DEF OnTrack
<1>16. Past = pc - 1 /\ Past' = pc
  BY <1>1, <1>4, <1>5, <1>9, <1>10 DEF Past
<1>17. pc > 0
  BY <1>4
<1>18. toClient' = Append(toClient, [id |-> pc, good |-> TRUE, items |-> <<>>])
  BY <1>9, <1>10, <1>11
<1>19. UNCHANGED <<fixed, pc, store, marks>>
  BY <1>0, <1>1
<1>. QED  BY <1>4, <1>5, <1>14, <1>15, <1>16, <1>17, <1>18, <1>19 DEF Carried

LEMMA PublishMoves ==
  ASSUME Base, Base', Clean, Deleting, Publish, OnTrack' PROVE OnTrack /\ Published
<1>0. /\ ~ dead /\ exit = NoExit /\ srv.publishing /\ srv.queue # <<>>
      /\ toClient' = Append(toClient, [id |-> 0, good |-> TRUE, items |-> srv.queue])
      /\ srv' = [srv EXCEPT !.queue = <<>>]
      /\ UNCHANGED <<client, fixed, sampled, dead>>
  BY DEF Publish
<1>1. /\ UNCHANGED <<cmd, pc, status, store, marks, exit>> /\ DeleteAt' = DeleteAt /\ Numbers
  BY <1>0, ProgramKept, NumbersHere DEF client, fixed
<1>2. /\ \A i \in DOMAIN toClient : i \in DOMAIN toClient' /\ toClient'[i] = toClient[i]
      /\ \A i \in DOMAIN toClient' :
            \/ i \in DOMAIN toClient /\ toClient'[i] = toClient[i]
            \/ i = Len(toClient) + 1 /\ toClient'[i].id = 0
  BY PublishBase
<1>3. srv'.throttled = srv.throttled
  BY <1>0 DEF Base, TypeOK, ServerType
<1>4. OnTrack
  BY <1>0, <1>1, <1>2, <1>3 DEF OnTrack, AllGood, Scenario
<1>5. Past' = Past
  BY <1>1, <1>2 DEF Past, Numbers
<1>. QED  BY <1>0, <1>1, <1>4, <1>5 DEF Published

LEMMA OvertakeMoves ==
  ASSUME Base, Base', Clean, Deleting, Overtake, OnTrack' PROVE OnTrack /\ Overtaken
<1>0. ~ dead /\ UNCHANGED <<client, server, fixed, dead>>
  BY OvertakeIs
<1>1. /\ UNCHANGED <<cmd, pc, status, store, marks, exit, srv, sampled>>
      /\ DeleteAt' = DeleteAt
  BY <1>0, ProgramKept DEF client, server, fixed
<1>2. OnTrack
  BY <1>0, <1>1, OvertakeSame DEF OnTrack, AllGood, Scenario
<1>3. Past' = Past
  BY <1>1, OvertakeSame DEF Past
<1>4. PICK i \in Nat \ {0} :
         /\ Swapped(toClient, toClient', i)
         /\ toClient[i].id # 0 /\ toClient[i].items = <<>> /\ toClient[i + 1].id = 0
  BY OvertakeIs
<1>5. toClient[i].id = pc
  BY <1>2, <1>4, Tidy DEF OnTrack, Swapped
<1>. QED  BY <1>0, <1>1, <1>2, <1>3, <1>4, <1>5 DEF Overtaken

LEMMA ReceiveMoves ==
  ASSUME Base, Base', Clean, Deleting, Receive, AllGood', ~ srv'.throttled, Scenario,
         pc <= DeleteAt,
         \A k \in DOMAIN toClient' : toClient'[k].id # 0 => toClient'[k].good
  PROVE  OnTrack /\ (AnswerCame \/ Arrived)
<1>0. /\ exit = NoExit /\ ~ dead /\ Listening
      /\ UNCHANGED <<marks, srv, sampled, fixed, dead>>
      /\ 1 \in DOMAIN toClient /\ toClient' = Tail(toClient) /\ toClient # <<>>
      /\ \A i \in DOMAIN toClient' : i \in Nat \ {0} /\ i + 1 \in DOMAIN toClient
                                     /\ toClient'[i] = toClient[i + 1]
  <2>1. toClient # <<>>
    BY DEF Receive
  <2>. QED  BY <2>1, ReceiveIs
<1>1. UNCHANGED <<cmd, srv, sampled>> /\ Program' = Program /\ Numbers /\ ~ srv.throttled
  BY <1>0, ProgramKept, NumbersHere DEF fixed
<1>2. \A i \in DOMAIN toClient : i = 1 \/ (i - 1 \in DOMAIN toClient' /\ toClient'[i - 1] = toClient[i])
  <2>. SUFFICES ASSUME NEW i \in DOMAIN toClient, i # 1
                PROVE  i - 1 \in DOMAIN toClient' /\ toClient'[i - 1] = toClient[i]
    OBVIOUS
  <2>1. toClient \in Seq(Message) /\ toClient' \in Seq(Message) /\ Len(toClient') = Len(toClient) - 1
    BY ReceiveIs DEF Base, TypeOK
  <2>2. i - 1 \in DOMAIN toClient'
    BY <2>1, LenProperties
  <2>. QED  BY <1>0, <1>1, <2>2 DEF Numbers
<1>3. CASE /\ waiting /\ toClient[1].id = pc /\ toClient[1].good \in BOOLEAN
           /\ CallEnds(toClient[1].good) /\ UNCHANGED store
  <2>1. toClient[1].good /\ AllGood
    <3>1. late' = late
      BY DEF Receive
    <3>. QED  BY <1>0, <1>3, <3>1, CleanCall
  <2>2. pc \in 1 .. Len(Program) /\ pc' = pc + 1
    BY <1>3, <2>1, CallEndsIs
  <2>3. Program[pc].op = "call"
    BY <1>3 DEF Base, Ordered, CallWaits, At, Current
  <2>4. \A k \in DOMAIN toClient' : toClient'[k].id = 0
    <3>. SUFFICES ASSUME NEW k \in DOMAIN toClient', toClient'[k].id # 0 PROVE FALSE
      OBVIOUS
    <3>1. k + 1 \in DOMAIN toClient /\ toClient[k + 1].id # 0 /\ 1 < k + 1
      BY <1>0
    <3>2. toClient[k + 1].id <= pc /\ pc < toClient[k + 1].id
      BY <1>0, <1>3, <3>1 DEF Base, Ordered, Answers, AnswerOrder
    <3>. QED  BY <1>1, <3>1, <3>2 DEF Numbers
  <2>5. OnTrack
    BY <1>0, <1>1, <1>2, <2>1 DEF OnTrack
  <2>6. Past = pc /\ Past' = pc /\ pc > 0
    <3>1. \A k \in DOMAIN toClient' : toClient'[k].id # pc'
      BY <2>2, <2>4
    <3>. QED  BY <1>0, <1>3, <2>2, <3>1 DEF Past
  <2>. QED  BY <1>0, <1>1, <1>3, <2>2, <2>3, <2>4, <2>5, <2>6 DEF AnswerCame
<1>4. CASE /\ ~ (waiting /\ toClient[1].id = pc)
           /\ UNCHANGED <<pc, waiting, status, exit>>
           /\ store' = IF Monitored THEN Dispatch(toClient[1].items) ELSE store
  <2>1. AllGood
    BY <1>4 DEF AllGood
  <2>2. toClient[1].id = 0
    BY <1>0, <1>4, <2>1, Tidy
  <2>3. OnTrack
    <3>1. ASSUME NEW k \in DOMAIN toClient, toClient[k].id # 0 PROVE toClient[k].good
      BY <1>2, <2>2, <3>1
    <3>. QED  BY <1>0, <1>1, <2>1, <3>1 DEF OnTrack
  <2>4. pc \in 1 .. Len(Program) /\ Program[pc].op \in {"call", "pause", "wait"}
    BY <1>0 DEF Listening, At, Running, Current, Base, Ordered, CallWaits
  <2>5. (\E k \in DOMAIN toClient : toClient[k].id = pc) <=>
           \E k \in DOMAIN toClient' : toClient'[k].id = pc
    <3>1. ASSUME NEW k \in DOMAIN toClient, toClient[k].id = pc
          PROVE  \E j \in DOMAIN toClient' : toClient'[j].id = pc
      <4>1. k # 1
        BY <2>2, <2>4, <3>1
      <4>. QED  BY <1>2, <3>1, <4>1
    <3>2. ASSUME NEW k \in DOMAIN toClient', toClient'[k].id = pc
          PROVE  \E j \in DOMAIN toClient : toClient[j].id = pc
      BY <1>0, <3>2
    <3>. QED  BY <3>1, <3>2
  <2>6. Past' = Past /\ pc > 0
    BY <1>4, <2>4, <2>5 DEF Past
  <2>. QED  BY <1>0, <1>1, <1>4, <2>2, <2>3, <2>4, <2>6 DEF Arrived
<1>. QED  BY <1>3, <1>4, ReceiveIs

LEMMA LocalMoves ==
  ASSUME Base, Base', Clean, Deleting, OnTrack',
         Connect \/ StepCall \/ WaitDone \/ TimeUp \/ StepLocal \/ UNCHANGED vars
  PROVE  OnTrack /\ Local
<1>0. UNCHANGED <<fixed, srv, sampled, toClient, status, dead, exit>>
  <2>1. CASE Connect
    <3>1. exit = NoExit
      BY <2>1 DEF Connect
    <3>. QED  BY <2>1, <3>1 DEF Connect, server, OnTrack
  <2>2. CASE StepCall \/ WaitDone \/ TimeUp \/ StepLocal \/ UNCHANGED vars
    BY <2>2 DEF StepCall, WaitDone, TimeUp, StepLocal, vars, server, client
  <2>. QED  BY <2>1, <2>2
<1>1. Program' = Program /\ DeleteAt' = DeleteAt /\ Numbers /\ cmd' = cmd
  BY <1>0, ProgramKept, NumbersHere DEF fixed
<1>2. CASE UNCHANGED <<pc, store, marks>>
  <2>1. Past' = Past
    BY <1>0, <1>2 DEF Past
  <2>2. OnTrack
    BY <1>0, <1>1, <1>2 DEF OnTrack, AllGood, Scenario
  <2>. QED  BY <1>0, <1>2, <2>1, <2>2 DEF Local
<1>3. ASSUME pc' = pc + 1 PROVE OnTrack
  <2>1. pc <= DeleteAt
    <3>1. pc + 1 <= DeleteAt /\ Scenario
      BY <1>1, <1>3 DEF OnTrack, Scenario
    <3>. QED  BY <1>1, <3>1, ScenarioProgram DEF Numbers, Base
  <2>. QED  BY <1>0, <1>1, <2>1 DEF OnTrack, AllGood, Scenario
<1>4. ASSUME pc' = pc + 1, ~ waiting PROVE Past' = pc /\ (pc > 0 => Past = pc - 1)
  <2>1. \A k \in DOMAIN toClient : toClient[k].id # pc + 1
    BY <1>1 DEF Base, Ordered, Answers, Numbers
  <2>2. \A k \in DOMAIN toClient : pc > 0 => toClient[k].id # pc
    BY <1>1, <1>4 DEF Base, Ordered, Answers, Numbers
  <2>. QED  BY <1>0, <1>1, <1>4, <2>1, <2>2 DEF Past, Numbers
<1>5. CASE Connect /\ pc' = pc + 1
  <2>1. pc = 0 /\ UNCHANGED <<store, marks>> /\ ~ waiting
    BY <1>1, <1>5 DEF Connect, Base, Ordered, CallWaits, At, Running, Numbers
  <2>2. Past = 0
    BY <2>1 DEF Past
  <2>. QED  BY <1>0, <1>3, <1>4, <1>5, <2>1, <2>2 DEF Local
<1>6. CASE WaitDone \/ TimeUp
  <2>1. pc' = pc + 1 /\ UNCHANGED <<store, marks>>
    BY <1>6 DEF WaitDone, TimeUp
  <2>2. PICK op \in {"wait", "pause"} : At(op)
    BY <1>6 DEF WaitDone, TimeUp
  <2>3. ~ waiting /\ pc > 0 /\ Program[pc].op = op
    BY <1>1, <2>2, NotWaiting DEF At, Running, Current
  <2>. QED  BY <1>0, <1>3, <1>4, <2>1, <2>2, <2>3 DEF Local
<1>7. CASE StepLocal
  <2>1. pc' = pc + 1
    BY <1>7 DEF StepLocal
  <2>2. PICK op \in {"reset", "mark", "report"} : At(op)
    BY <1>7 DEF StepLocal
  <2>3. ~ waiting /\ pc > 0 /\ Program[pc].op = op /\ Current = Program[pc]
    BY <1>1, <2>2, NotWaiting DEF At, Running, Current
  <2>4. /\ store' = IF Program[pc].op = "reset" THEN <<>> ELSE store
        /\ marks' = IF Program[pc].op = "mark"
                    THEN [marks EXCEPT ![Program[pc].kind] = Len(store)] ELSE marks
    BY <1>7, <2>3 DEF StepLocal, At
  <2>. QED  BY <1>0, <1>3, <1>4, <2>1, <2>2, <2>3, <2>4 DEF Local
<1>8. CASE StepCall \/ UNCHANGED vars \/ (Connect /\ pc' = pc)
  BY <1>2, <1>8 DEF StepCall, Connect, vars, client
<1>9. Connect => pc' = pc + 1 \/ pc' = pc
  BY DEF Connect
<1>. QED  BY <1>5, <1>6, <1>7, <1>8, <1>9

(* While a scenario is on track nothing else happens, and it was on track   *)
(* before.                                                                  *)
LEMMA Moves ==
  ASSUME Base, Base', Clean, Deleting, [Next]_vars, OnTrack'
  PROVE  OnTrack /\ (Local \/ Carried \/ Published \/ Overtaken \/ AnswerCame \/ Arrived)
<1>1. CASE Handle
  BY <1>1, HandleMoves
<1>2. CASE Publish
  BY <1>2, PublishMoves
<1>3. CASE Receive
  <2>1. cmd' = cmd /\ DeleteAt' = DeleteAt
    BY <1>3, ProgramKept DEF Receive, fixed
  <2>2. pc <= pc' /\ pc \in Nat /\ pc' \in Nat
    <3>1. pc \in Nat
      BY NumbersHere DEF Numbers
    <3>2. CASE /\ waiting /\ toClient[1].good \in BOOLEAN /\ CallEnds(toClient[1].good)
      <4>1. pc' \in Nat /\ pc < pc'
        BY <3>2, CallEndsIs
      <4>. QED  BY <3>1, <4>1
    <3>3. CASE pc' = pc
      BY <3>1, <3>3
    <3>. QED  BY <1>3, <3>2, <3>3, ReceiveIs
  <2>3. Scenario /\ pc <= DeleteAt
    <3>1. Scenario
      BY <2>1 DEF OnTrack, Scenario
    <3>2. DeleteAt \in Int /\ pc' <= DeleteAt
      BY <2>1, <3>1, ScenarioProgram DEF Base, OnTrack
    <3>. QED  BY <2>2, <3>1, <3>2
  <2>. QED  BY <1>3, <2>3, ReceiveMoves DEF OnTrack
<1>4. CASE Connect \/ StepCall \/ WaitDone \/ TimeUp \/ StepLocal \/ UNCHANGED vars
  BY <1>4, LocalMoves
<1>5. ~ Fault
  <2>. SUFFICES ASSUME Fault PROVE FALSE
    OBVIOUS
  <2>1. waiting /\ CallEnds(FALSE) /\ UNCHANGED fixed /\ FALSE \in BOOLEAN
    BY DEF Fault
  <2>. QED  BY <2>1, CleanCall DEF OnTrack
<1>6. ~ Finish
  <2>. SUFFICES ASSUME Finish PROVE FALSE
    OBVIOUS
  <2>1. pc > Len(Program) /\ pc' = pc /\ cmd' = cmd /\ DeleteAt' = DeleteAt
    BY ProgramKept DEF Finish, fixed
  <2>2. Scenario /\ pc <= DeleteAt
    BY <2>1 DEF OnTrack, Scenario
  <2>. QED  BY <2>1, <2>2, NumbersHere, ScenarioProgram DEF Numbers, Base
<1>7. ~ Refuse
  <2>. SUFFICES ASSUME Refuse PROVE FALSE
    OBVIOUS
  <2>1. /\ toServer # <<>> /\ toClient' = Append(toClient, Response(Head(toServer), FALSE))
        /\ toServer \in Seq(Request) /\ toClient \in Seq(Message)
    BY DEF Refuse, Base, TypeOK
  <2>2. PICK m : m = Response(Head(toServer), FALSE)
    OBVIOUS
  <2>3. m \in Message /\ m.id # 0 /\ m.good = FALSE
    <3>1. Head(toServer) \in Request
      BY <2>1, TailFacts
    <3>. QED  BY <2>2, <3>1, EmptySeq DEF Response, Request, Message
  <2>4. Len(toClient) + 1 \in DOMAIN toClient' /\ toClient'[Len(toClient) + 1] = m
    <3>1. toClient' = Append(toClient, m) /\ toClient \in Seq(Message)
      BY <2>1, <2>2
    <3>. QED  BY <2>3, <3>1, AppendFacts, LenProperties
  <2>. QED  BY <2>3, <2>4 DEF OnTrack
<1>8. ~ Sample
  <2>. SUFFICES ASSUME Sample PROVE FALSE
    OBVIOUS
  <2>1. srv.throttled /\ ServerBecomes(srv, TRUE) /\ srv \in ServerType /\ TRUE \in BOOLEAN
    BY DEF Sample, Base, TypeOK
  <2>. QED  BY <2>1, BecomesKeeps DEF OnTrack
<1>9. ~ Change
  BY DEF Change, fixed, OnTrack, Scenario, Collecting
<1>10. ~ Die
  BY DEF Die, OnTrack
<1>11. CASE Overtake
  BY <1>11, OvertakeMoves
<1>. QED  BY <1>1, <1>2, <1>3, <1>4, <1>5, <1>6, <1>7, <1>8, <1>9, <1>10, <1>11
          DEF Next, ClientStep, ServerStep

-----------------------------------------------------------------------------
(* What was sampled is the most that can arrive.                            *)

LEMMA BudgetAppend ==
  ASSUME NEW msgs \in Seq(Message), NEW m \in Message, NEW kept \in Nat, NEW left \in Nat,
         NEW total \in Nat, InBudget(kept, msgs, left, total), Len(m.items) <= left
  PROVE  InBudget(kept, Append(msgs, m), left - Len(m.items), total)
<1>1. PICK off \in [1 .. Len(msgs) + 1 -> 0 .. total] : Budget(off, kept, msgs, left, total)
  BY DEF InBudget
<1>. DEFINE n == Len(m.items)
            new == [k \in 1 .. Len(Append(msgs, m)) + 1 |->
                       IF k <= Len(msgs) + 1 THEN off[k] ELSE off[Len(msgs) + 1] + n]
<1>2. /\ Len(msgs) \in Nat /\ n \in Nat /\ Len(Append(msgs, m)) = Len(msgs) + 1
      /\ \A k \in 1 .. Len(msgs) : Append(msgs, m)[k] = msgs[k] /\ Len(msgs[k].items) \in Nat
      /\ Append(msgs, m)[Len(msgs) + 1] = m
  BY LenProperties, AppendProperties, ElementOfSeq DEF Message
<1>. HIDE DEF n
<1>3. /\ off[Len(msgs) + 1] \in 0 .. total /\ off[Len(msgs) + 1] + left <= total
      /\ n <= left
  BY <1>1, <1>2 DEF Budget, n
<1>4. new \in [1 .. Len(Append(msgs, m)) + 1 -> 0 .. total]
  BY <1>2, <1>3
<1>5. ASSUME NEW k \in 1 .. Len(Append(msgs, m))
      PROVE  new[k] + Len(Append(msgs, m)[k].items) <= new[k + 1]
  <2>1. CASE k \in 1 .. Len(msgs)
    <3>1. new[k] = off[k] /\ new[k + 1] = off[k + 1]
      BY <1>2, <2>1
    <3>. QED  BY <1>1, <1>2, <2>1, <3>1 DEF Budget
  <2>2. CASE k = Len(msgs) + 1
    <3>1. new[k] = off[Len(msgs) + 1] /\ new[k + 1] = off[Len(msgs) + 1] + n
      BY <1>2, <2>2
    <3>2. Len(Append(msgs, m)[k].items) = n
      BY <1>2, <2>2 DEF n
    <3>. QED  BY <1>2, <1>3, <3>1, <3>2
  <2>. QED  BY <1>2, <2>1, <2>2
<1>6. new[1] = off[1] /\ new[Len(Append(msgs, m)) + 1] = off[Len(msgs) + 1] + n
  BY <1>2
<1>. HIDE DEF new
<1>7. Budget(new, kept, Append(msgs, m), left - n, total)
  BY <1>1, <1>2, <1>3, <1>4, <1>5, <1>6 DEF Budget
<1>. QED  BY <1>4, <1>7 DEF InBudget, n

LEMMA BudgetTail ==
  ASSUME NEW msgs \in Seq(Message), msgs # <<>>, NEW kept \in Nat, NEW left \in Nat,
         NEW total \in Nat, InBudget(kept, msgs, left, total),
         NEW k2 \in Nat, k2 <= kept + Len(msgs[1].items)
  PROVE  /\ InBudget(k2, Tail(msgs), left, total)
         /\ kept + Len(msgs[1].items) <= total
<1>1. PICK off \in [1 .. Len(msgs) + 1 -> 0 .. total] : Budget(off, kept, msgs, left, total)
  BY DEF InBudget
<1>. DEFINE new == [k \in 1 .. Len(Tail(msgs)) + 1 |-> off[k + 1]]
<1>2. /\ Len(msgs) \in Nat \ {0} /\ Len(Tail(msgs)) = Len(msgs) - 1
      /\ \A k \in 1 .. Len(Tail(msgs)) : Tail(msgs)[k] = msgs[k + 1]
      /\ Len(msgs[1].items) \in Nat
  <2>1. Len(msgs) \in Nat \ {0} /\ msgs[1] \in Message
    BY TailFacts, EmptySeq, LenProperties, ElementOfSeq
  <2>2. DOMAIN Tail(msgs) = 1 .. Len(Tail(msgs))
    BY TailFacts, LenProperties
  <2>. QED  BY <2>1, <2>2, TailFacts, LenProperties DEF Message
<1>3. new \in [1 .. Len(Tail(msgs)) + 1 -> 0 .. total]
  BY <1>2
<1>4. off[1] \in 0 .. total /\ off[2] \in 0 .. total /\ off[1] + Len(msgs[1].items) <= off[2]
      /\ kept <= off[1]
  <2>1. 1 \in 1 .. Len(msgs) /\ 1 \in 1 .. Len(msgs) + 1 /\ 2 \in 1 .. Len(msgs) + 1 /\ 1 + 1 = 2
    BY <1>2
  <2>2. off[1] + Len(msgs[1].items) <= off[1 + 1] /\ kept <= off[1]
    BY <1>1, <2>1 DEF Budget
  <2>. QED  BY <1>1, <2>1, <2>2
<1>5. \A k \in 1 .. Len(Tail(msgs)) : new[k] + Len(Tail(msgs)[k].items) <= new[k + 1]
  BY <1>1, <1>2 DEF Budget
<1>6. new[1] = off[2] /\ new[Len(Tail(msgs)) + 1] = off[Len(msgs) + 1]
  BY <1>2
<1>7. k2 <= off[2] /\ kept + Len(msgs[1].items) <= total
  BY <1>2, <1>4
<1>. HIDE DEF new
<1>8. Budget(new, k2, Tail(msgs), left, total)
  BY <1>1, <1>3, <1>5, <1>6, <1>7 DEF Budget
<1>. QED  BY <1>3, <1>7, <1>8 DEF InBudget

(* Two messages change places, the first without items.                     *)
LEMMA BudgetSwap ==
  ASSUME NEW msgs \in Seq(Message), NEW kept \in Nat, NEW left \in Nat, NEW total \in Nat,
         InBudget(kept, msgs, left, total),
         NEW new \in Seq(Message), NEW i \in Nat \ {0}, Swapped(msgs, new, i),
         msgs[i].items = <<>>
  PROVE  InBudget(kept, new, left, total)
<1>0. PICK n \in Nat : n = Len(msgs) /\ DOMAIN msgs = 1 .. n
  BY LenProperties
<1>1. PICK off \in [1 .. n + 1 -> 0 .. total] : Budget(off, kept, msgs, left, total)
  BY <1>0 DEF InBudget
<1>2. /\ i \in 1 .. n /\ i + 1 \in 1 .. n /\ Len(new) = n
      /\ new[i] = msgs[i + 1] /\ new[i + 1] = msgs[i]
      /\ \A k \in 1 .. n : k # i /\ k # i + 1 => new[k] = msgs[k]
  BY <1>0 DEF Swapped
<1>3. PICK a \in Nat, b \in Nat, c \in Nat : a = i /\ b = i + 1 /\ c = i + 2
  OBVIOUS
<1>4. /\ a \in 1 .. n /\ b \in 1 .. n /\ c \in 1 .. n + 1 /\ a # b /\ b # c /\ b # 1
      /\ a + 1 = b /\ b + 1 = c /\ b # n + 1
  BY <1>2, <1>3
<1>. DEFINE next == [k \in 1 .. n + 1 |-> IF k = b THEN off[c] ELSE off[k]]
<1>5. /\ next[b] = off[c] /\ \A k \in 1 .. n + 1 : k # b => next[k] = off[k]
      /\ next \in [1 .. n + 1 -> 0 .. total]
  BY <1>4
<1>. HIDE DEF next
<1>6. /\ off[a] + Len(msgs[a].items) <= off[b]
      /\ off[b] + Len(msgs[b].items) <= off[c]
      /\ \A k \in 1 .. n : off[k] + Len(msgs[k].items) <= off[k + 1]
  BY <1>0, <1>1, <1>4 DEF Budget
<1>7. /\ Len(msgs[a].items) = 0 /\ Len(msgs[b].items) \in Nat
      /\ off[a] \in Nat /\ off[b] \in Nat /\ off[c] \in Nat
  <2>1. msgs[b] \in Message
    BY <1>0, <1>4, ElementOfSeq
  <2>2. msgs[b].items \in Seq(Item)
    BY <2>1 DEF Message
  <2>3. off[a] \in Nat /\ off[b] \in Nat /\ off[c] \in Nat
    BY <1>1, <1>4
  <2>. QED  BY <1>3, <2>2, <2>3, EmptyFacts, LenProperties
<1>7a. off[a] + Len(msgs[b].items) <= off[c] /\ off[c] + Len(msgs[a].items) <= off[c]
  <2>1. PICK x \in Nat, y \in Nat, z \in Nat, v \in Nat :
           x = off[a] /\ y = off[b] /\ z = off[c] /\ v = Len(msgs[b].items)
    BY <1>7, Zenon
  <2>2. x + 0 <= y /\ y + v <= z
    BY <1>6, <1>7, <2>1, Zenon
  <2>3. x + v <= z /\ z + 0 <= z
    BY <2>2
  <2>. QED  BY <1>7, <2>1, <2>3, Zenon
<1>8. ASSUME NEW k \in 1 .. n PROVE next[k] + Len(new[k].items) <= next[k + 1]
  <2>0. k \in 1 .. n + 1 /\ k + 1 \in 1 .. n + 1
    BY <1>8
  <2>1. CASE k = a
    <3>1. new[k] = msgs[b] /\ next[k + 1] = off[c] /\ next[k] = off[a]
      BY <1>2, <1>3, <1>4, <1>5, <2>0, <2>1
    <3>. QED  BY <1>7a, <3>1, Zenon
  <2>2. CASE k = b
    <3>1. new[k] = msgs[a] /\ next[k + 1] = off[c] /\ next[k] = off[c]
      BY <1>2, <1>3, <1>4, <1>5, <2>0, <2>2
    <3>. QED  BY <1>7a, <3>1, Zenon
  <2>3. CASE k # a /\ k # b
    <3>1. new[k] = msgs[k] /\ k + 1 # b
      BY <1>2, <1>3, <1>4, <2>3
    <3>2. next[k] = off[k] /\ next[k + 1] = off[k + 1]
      BY <1>5, <2>0, <2>3, <3>1
    <3>. QED  BY <1>6, <3>1, <3>2
  <2>. QED  BY <2>1, <2>2, <2>3
<1>9. next[n + 1] = off[n + 1] /\ next[1] = off[1]
  <2>1. n + 1 \in 1 .. n + 1 /\ 1 \in 1 .. n + 1
    BY <1>0
  <2>. QED  BY <1>4, <1>5, <2>1
<1>10. Budget(next, kept, new, left, total)
  BY <1>0, <1>1, <1>2, <1>5, <1>8, <1>9 DEF Budget
<1>. QED  BY <1>2, <1>5, <1>10 DEF InBudget

LEMMA BudgetGrows ==
  ASSUME NEW msgs \in Seq(Message), NEW kept \in Nat, NEW left \in Nat, NEW total \in Nat,
         InBudget(kept, msgs, left, total),
         NEW k2 \in Nat, k2 <= kept, NEW left2 \in Nat, NEW total2 \in Nat,
         total <= total2, left2 + total <= left + total2
  PROVE  InBudget(k2, msgs, left2, total2)
<1>1. PICK off \in [1 .. Len(msgs) + 1 -> 0 .. total] : Budget(off, kept, msgs, left, total)
  BY DEF InBudget
<1>2. off \in [1 .. Len(msgs) + 1 -> 0 .. total2] /\ Len(msgs) \in Nat
  BY <1>1, LenProperties
<1>3. off[1] \in 0 .. total /\ off[Len(msgs) + 1] \in 0 .. total
  BY <1>1, <1>2
<1>4. kept <= off[1] /\ off[Len(msgs) + 1] + left <= total
  BY <1>1 DEF Budget
<1>5. k2 <= off[1] /\ off[Len(msgs) + 1] + left2 <= total2
  BY <1>3, <1>4
<1>6. Budget(off, k2, msgs, left2, total2)
  BY <1>1, <1>2, <1>5 DEF Budget
<1>. QED  BY <1>2, <1>6 DEF InBudget

(* What sampling makes of the queue.                                        *)
LEMMA EnqueueIs ==
  ASSUME NEW s \in ServerType, s.oldest
  PROVE  LET q == Enqueue(s) IN
         /\ q \in Seq(Item) /\ Len(q) \in Nat \ {0}
         /\ Len(q) = IF Len(s.queue) < s.size THEN Len(s.queue) + 1
                     ELSE IF s.size = 1 THEN 1 ELSE Len(s.queue)
         /\ q[Len(q)].val = s.value
         /\ \A j \in 1 .. (Len(q) - 1) :
               /\ Len(s.queue) + 1 - j \in 1 .. Len(s.queue)
               /\ q[Len(q) - j].val = s.queue[Len(s.queue) + 1 - j].val
<1>. DEFINE new == [val |-> s.value, over |-> Len(s.queue) = s.size /\ s.size > 1]
            old == Tail(s.queue)
            len == Len(s.queue)
<1>1. /\ s.queue \in Seq(Item) /\ s.size \in Nat \ {0} /\ s.value \in Int /\ len \in Nat
      /\ \A k \in 1 .. len : s.queue[k] \in Item
  BY ElementOfSeq, LenProperties DEF ServerType
<1>2. new \in Item /\ new.val = s.value /\ Enqueue(s) \in Seq(Item)
  BY <1>1, EnqueueTyped DEF Item
<1>. HIDE DEF new
<1>3. CASE len < s.size
  <2>1. Enqueue(s) = Append(s.queue, new)
    BY <1>3 DEF Enqueue, new
  <2>2. /\ Len(Enqueue(s)) = len + 1 /\ Enqueue(s)[len + 1] = new
        /\ \A k \in 1 .. len : Enqueue(s)[k] = s.queue[k]
    BY <1>1, <1>2, <2>1, AppendProperties
  <2>. HIDE DEF len
  <2>3. ASSUME NEW j \in 1 .. (len + 1 - 1)
        PROVE  /\ len + 1 - j \in 1 .. len
               /\ Enqueue(s)[len + 1 - j].val = s.queue[len + 1 - j].val
    <3>1. len + 1 - j \in 1 .. len
      BY <1>1
    <3>. QED  BY <2>2, <3>1
  <2>4. len + 1 \in Nat \ {0}
    BY <1>1
  <2>. QED  BY <1>2, <1>3, <2>2, <2>3, <2>4 DEF len
<1>4. CASE ~ (len < s.size) /\ s.size = 1
  <2>1. Enqueue(s) = <<new>>
    BY <1>4 DEF Enqueue, new
  <2>. QED  BY <1>1, <1>2, <1>4, <2>1
<1>5. CASE ~ (len < s.size) /\ s.size # 1
  <2>1. Enqueue(s) = Append([old EXCEPT ![1].over = TRUE], [new EXCEPT !.over = FALSE])
    BY <1>5 DEF Enqueue, new
  <2>2. s.queue # <<>> /\ len >= 2
    BY <1>1, <1>5
  <2>3. /\ old \in Seq(Item) /\ Len(old) = len - 1 /\ DOMAIN old = 1 .. len - 1
        /\ \A k \in 1 .. len - 1 : old[k] = s.queue[k + 1]
    BY <1>1, <2>2, TailFacts, LenProperties
  <2>. HIDE DEF old, len
  <2>4. PICK o : o = [old EXCEPT ![1].over = TRUE]
    OBVIOUS
  <2>5. PICK e : e = [old[1] EXCEPT !.over = TRUE]
    OBVIOUS
  <2>6. old[1] \in Item /\ TRUE \in BOOLEAN
    BY <1>1, <2>2, <2>3 DEF len
  <2>7. e \in Item /\ e.val = old[1].val
    BY <2>5, <2>6 DEF Item
  <2>8. o = [old EXCEPT ![1] = e]
    BY <2>4, <2>5
  <2>9. o \in Seq(Item)
    BY <1>1, <2>2, <2>3, <2>7, <2>8, ExceptSeq
  <2>10. Len(o) = len - 1 /\ \A k \in 1 .. len - 1 : o[k].val = old[k].val
    <3>1. DOMAIN o = 1 .. len - 1 /\ \A k \in 1 .. len - 1 : o[k] = IF k = 1 THEN e ELSE old[k]
      BY <2>3, <2>8
    <3>2. len - 1 \in Nat
      BY <1>1, <2>2
    <3>. QED  BY <2>7, <2>9, <3>1, <3>2, LenProperties
  <2>11. PICK n : n = [new EXCEPT !.over = FALSE]
    OBVIOUS
  <2>12. n \in Item /\ n.val = s.value
    BY <1>2, <2>11 DEF Item
  <2>13. Enqueue(s) = Append(o, n)
    BY <2>1, <2>4, <2>11
  <2>14. /\ Len(Enqueue(s)) = len - 1 + 1 /\ Enqueue(s)[len - 1 + 1] = n
         /\ \A k \in 1 .. len - 1 : Enqueue(s)[k] = o[k]
    BY <2>9, <2>10, <2>12, <2>13, AppendProperties
  <2>15. Len(Enqueue(s)) = len /\ Enqueue(s)[len].val = s.value
    BY <1>1, <2>12, <2>14
  <2>16. ASSUME NEW j \in 1 .. (len - 1)
         PROVE  /\ len + 1 - j \in 1 .. len
                /\ Enqueue(s)[len - j].val = s.queue[len + 1 - j].val
    <3>1. len - j \in 1 .. len - 1 /\ (len - j) + 1 = len + 1 - j /\ len + 1 - j \in 1 .. len
      BY <1>1
    <3>. QED  BY <2>3, <2>10, <2>14, <3>1
  <2>. QED  BY <1>1, <1>2, <1>5, <2>2, <2>15, <2>16 DEF len
<1>. QED  BY <1>3, <1>4, <1>5

LEMMA OneMore ==
  ASSUME NEW n \in Nat, NEW a \in Nat, NEW b \in Nat, NEW c \in Nat, n <= b + 1, c = a + 1
  PROVE  n + a <= b + c
OBVIOUS

LEMMA SampledGrows ==
  ASSUME sampled \in Seq(Int), NEW s \in ServerType, s.oldest, Sampled(s)
  PROVE  /\ Len(sampled) \in Nat /\ Len(sampled') \in Nat
         /\ Len(s.queue) \in Nat /\ Len(srv'.queue) \in Nat
         /\ Len(sampled) <= Len(sampled') /\ Len(sampled') <= Len(sampled) + 1
         /\ Len(srv'.queue) + Len(sampled) <= Len(s.queue) + Len(sampled')
<1>1. /\ Len(sampled) \in Nat /\ Len(s.queue) \in Nat /\ s.value \in Int /\ s.size \in Nat \ {0}
  BY LenProperties DEF ServerType
<1>2. CASE Sampleable(s)
  <2>1. srv'.queue = Enqueue(s) /\ sampled' = Append(sampled, s.value)
    BY <1>2 DEF Sampled
  <2>2. Len(Enqueue(s)) \in Nat /\ Len(Enqueue(s)) <= Len(s.queue) + 1
    BY <1>1, EnqueueIs
  <2>3. Len(sampled') = Len(sampled) + 1
    BY <1>1, <2>1, AppendProperties
  <2>4. PICK n \in Nat : n = Len(srv'.queue) /\ n <= Len(s.queue) + 1
    BY <2>1, <2>2
  <2>5. PICK a \in Nat, b \in Nat, c \in Nat :
           a = Len(sampled) /\ b = Len(s.queue) /\ c = Len(sampled') /\ c = a + 1
    BY <1>1, <2>3
  <2>6. n <= b + 1 /\ a <= c /\ c <= a + 1
    BY <2>4, <2>5
  <2>7. n + a <= b + c
    BY <2>5, <2>6, OneMore
  <2>. QED  BY <2>4, <2>5, <2>6, <2>7, Zenon
<1>3. CASE ~ Sampleable(s)
  <2>1. srv'.queue = s.queue /\ sampled' = sampled
    BY <1>3 DEF Sampled
  <2>2. Len(sampled') = Len(sampled) /\ Len(srv'.queue) = Len(s.queue)
    BY <2>1
  <2>. QED  BY <1>1, <2>2
<1>. QED  BY <1>2, <1>3

LEMMA Delivers ==
  ASSUME store \in Seq(Item), NEW items \in Seq(Item)
  PROVE  /\ Dispatch(items) \in Seq(Item) /\ Len(Dispatch(items)) <= Len(store) + Len(items)
         /\ Len(store) + Len(items) <= StoreCap => Dispatch(items) = store \o items
<1>1. PICK n : n = AtMost(Len(items), StoreCap - Len(store))
  OBVIOUS
<1>2. /\ n \in Int /\ n <= Len(items) /\ Dispatch(items) = store \o SubSeq(items, 1, n)
      /\ SubSeq(items, 1, n) \in Seq(Item) /\ Dispatch(items) \in Seq(Item)
  BY <1>1, DispatchIs
<1>3. Len(items) \in Nat /\ Len(store) \in Nat /\ StoreCap \in Nat
  BY LenProperties, SubscriptionAssumption DEF StoreCap
<1>4. Len(SubSeq(items, 1, n)) = IF n <= 0 THEN 0 ELSE n
  BY <1>2, <1>3, SubSeqProperties
<1>5. Len(Dispatch(items)) <= Len(store) + Len(items)
  <2>1. Len(Dispatch(items)) = Len(store) + Len(SubSeq(items, 1, n))
    BY <1>2, ConcatProperties
  <2>. QED  BY <1>2, <1>3, <1>4, <2>1
<1>6. Len(store) + Len(items) <= StoreCap => SubSeq(items, 1, n) = items
  <2>1. Len(store) + Len(items) <= StoreCap => n = Len(items)
    BY <1>1, <1>3 DEF AtMost
  <2>2. SubSeq(items, 1, Len(items)) = items
    OBVIOUS
  <2>. QED  BY <2>1, <2>2
<1>. QED  BY <1>2, <1>5, <1>6

LEMMA PastIs == ASSUME Base PROVE Past \in Nat /\ Past <= pc
<1>1. pc \in Nat
  BY NumbersHere DEF Numbers
<1>. QED  BY <1>1 DEF Past

LEMMA LocalAccounted ==
  ASSUME Base, Base', OnTrack, Accounted, Local PROVE Accounted'
<1>1. /\ UNCHANGED <<srv, sampled, toClient>> /\ Past <= Past'
      /\ store' = store \/ store' = <<>>
  <2>1. pc \in Nat
    BY NumbersHere DEF Numbers
  <2>. QED  BY <2>1, PastIs DEF Local
<1>2. /\ toClient \in Seq(Message) /\ Len(store) \in Nat /\ Len(srv.queue) \in Nat
      /\ Len(sampled) \in Nat
  BY LenProperties DEF Base, TypeOK, ServerType
<1>3. Len(store') \in Nat /\ Len(store') <= Len(store)
  BY <1>1, <1>2
<1>4. Past \in Nat /\ Past' \in Nat
  BY PastIs, NumbersHere DEF Local, Numbers
<1>5. InBudget(Len(store), toClient, Len(srv.queue), Len(sampled)) /\ Len(sampled) <= Past
      /\ srv.oldest
  BY DEF Accounted
<1>6. PICK k \in Nat, k2 \in Nat, q \in Nat, n \in Nat :
         k = Len(store) /\ k2 = Len(store') /\ q = Len(srv.queue) /\ n = Len(sampled) /\ k2 <= k
  BY <1>2, <1>3
<1>7. InBudget(k2, toClient, q, n)
  <2>1. n <= n /\ q + n <= q + n /\ InBudget(k, toClient, q, n)
    BY <1>5, <1>6
  <2>. QED  BY <1>2, <1>6, <2>1, BudgetGrows
<1>8. Len(sampled) <= Past'
  BY <1>1, <1>2, <1>4, <1>5
<1>. QED  BY <1>1, <1>5, <1>6, <1>7, <1>8 DEF Accounted

(* What the server makes of the call under way, before it samples.          *)
LEMMA CarriedIs ==
  ASSUME Base, OnTrack, Carried
  PROVE  \E s \in ServerType, size \in Nat \ {0} : Sampled(s) /\ EffectOf(s, Program[pc], size)
<1>1. PICK size \in Nat \ {0}, s \in ServerType : s = Effect(Program[pc], size) /\ Sampled(s)
  BY DEF Carried
<1>2. Program[pc] \in StepType /\ Program[pc].kind \in Called
  <2>1. pc \in 1 .. Len(Program)
    BY ScenarioProgram, NumbersHere DEF Carried, OnTrack, Base, Numbers
  <2>. QED  BY <2>1, ScenarioProgram, ElementOfSeq DEF Base, Carried, OnTrack
<1>3. srv \in ServerType
  BY DEF Base, TypeOK
<1>4. EffectOf(s, Program[pc], size)
  BY <1>1, <1>2, <1>3, EffectIs
<1>. QED  BY <1>1, <1>4

LEMMA CarriedAccounted ==
  ASSUME Base, Base', OnTrack, Accounted, Carried PROVE Accounted'
<1>1. PICK s \in ServerType, size \in Nat \ {0} : Sampled(s) /\ EffectOf(s, Program[pc], size)
  BY CarriedIs
<1>2. s.oldest = srv.oldest /\ (s.queue = srv.queue \/ s.queue = <<>>)
  BY <1>1 DEF EffectOf
<1>3. srv'.oldest /\ s.oldest
  BY <1>1, <1>2 DEF Sampled, Accounted
<1>4. PICK k \in Nat, q \in Nat, n \in Nat, q2 \in Nat, n2 \in Nat, p \in Nat :
         /\ k = Len(store) /\ q = Len(srv.queue) /\ n = Len(sampled)
         /\ q2 = Len(srv'.queue) /\ n2 = Len(sampled') /\ p = Past /\ pc = p + 1
         /\ n <= n2 /\ n2 <= n + 1 /\ q2 + n <= q + n2
  <2>1. sampled \in Seq(Int) /\ Len(store) \in Nat /\ Len(srv.queue) \in Nat
    BY LenProperties DEF Base, TypeOK, ServerType
  <2>2. /\ Len(sampled) \in Nat /\ Len(sampled') \in Nat
        /\ Len(s.queue) \in Nat /\ Len(srv'.queue) \in Nat
        /\ Len(sampled) <= Len(sampled') /\ Len(sampled') <= Len(sampled) + 1
        /\ Len(srv'.queue) + Len(sampled) <= Len(s.queue) + Len(sampled')
    BY <1>1, <1>3, <2>1, SampledGrows
  <2>3. Len(s.queue) <= Len(srv.queue)
    BY <1>2, <2>1
  <2>4. PICK a \in Nat, b \in Nat, c \in Nat, d \in Nat, e \in Nat :
           /\ a = Len(sampled) /\ b = Len(sampled') /\ c = Len(s.queue) /\ d = Len(srv'.queue)
           /\ e = Len(srv.queue) /\ d + a <= c + b /\ c <= e
    BY <2>1, <2>2, <2>3
  <2>5. d + a <= e + b
    BY <2>4
  <2>6. Past \in Nat /\ pc = Past + 1
    BY PastIs, NumbersHere DEF Carried, Numbers
  <2>. QED  BY <2>1, <2>2, <2>4, <2>5, <2>6
<1>5. PICK m \in Message :
         m = [id |-> pc, good |-> TRUE, items |-> <<>>] /\ toClient' = Append(toClient, m)
  <2>1. pc \in Nat /\ <<>> \in Seq(Item)
    BY NumbersHere, EmptySeq DEF Numbers
  <2>. QED  BY <2>1 DEF Carried, Message
<1>6. Len(m.items) = 0 /\ toClient \in Seq(Message)
  BY <1>5 DEF Base, TypeOK
<1>7. InBudget(k, toClient, q, n) /\ n <= p
  BY <1>4 DEF Accounted
<1>8. InBudget(k, toClient', q, n)
  <2>1. Len(m.items) <= q /\ q - Len(m.items) = q
    BY <1>4, <1>6
  <2>2. InBudget(k, Append(toClient, m), q - Len(m.items), n)
    BY <1>6, <1>7, <2>1, BudgetAppend
  <2>. QED  BY <1>5, <2>1, <2>2
<1>9. InBudget(k, toClient', q2, n2)
  <2>1. toClient' \in Seq(Message) /\ k <= k
    BY <1>4 DEF Base, TypeOK
  <2>. QED  BY <1>4, <1>8, <2>1, BudgetGrows
<1>10. n2 <= pc /\ Past' = pc /\ store' = store
  BY <1>4, <1>7 DEF Carried
<1>. QED  BY <1>3, <1>4, <1>9, <1>10 DEF Accounted

LEMMA PublishedAccounted ==
  ASSUME Base, Base', OnTrack, Accounted, Published PROVE Accounted'
<1>1. /\ srv'.oldest = srv.oldest /\ srv'.queue = <<>> /\ srv.queue \in Seq(Item)
  BY DEF Published, Base, TypeOK, ServerType
<1>2. PICK m \in Message :
         m = [id |-> 0, good |-> TRUE, items |-> srv.queue] /\ toClient' = Append(toClient, m)
  BY <1>1 DEF Published, Message
<1>3. PICK k \in Nat, q \in Nat, n \in Nat : k = Len(store) /\ q = Len(srv.queue) /\ n = Len(sampled)
  BY LenProperties DEF Base, TypeOK, ServerType
<1>4. InBudget(k, toClient, q, n) /\ toClient \in Seq(Message)
  BY <1>3 DEF Accounted, Base, TypeOK
<1>5. Len(m.items) = q /\ q <= q /\ q - q = 0 /\ Len(srv'.queue) = 0
  BY <1>1, <1>2, <1>3
<1>6. InBudget(k, toClient', 0, n)
  BY <1>2, <1>3, <1>4, <1>5, BudgetAppend
<1>7. store' = store /\ sampled' = sampled /\ Past' = Past
  BY DEF Published
<1>. QED  BY <1>1, <1>3, <1>5, <1>6, <1>7 DEF Accounted

LEMMA OvertakenAccounted ==
  ASSUME Base, Base', OnTrack, Accounted, Overtaken PROVE Accounted'
<1>1. UNCHANGED <<store, srv, sampled>> /\ Past' = Past
  BY DEF Overtaken
<1>2. PICK i \in Nat \ {0} : Swapped(toClient, toClient', i) /\ toClient[i].items = <<>>
  BY DEF Overtaken
<1>3. PICK k \in Nat, q \in Nat, n \in Nat, new \in Seq(Message) :
         k = Len(store) /\ q = Len(srv.queue) /\ n = Len(sampled) /\ new = toClient'
  BY LenProperties DEF Base, TypeOK, ServerType
<1>4. InBudget(k, toClient, q, n) /\ toClient \in Seq(Message)
  BY <1>3 DEF Accounted, Base, TypeOK
<1>5. InBudget(k, new, q, n)
  <2>1. Swapped(toClient, new, i)
    BY <1>2, <1>3
  <2>. QED  BY <1>2, <1>4, <2>1, BudgetSwap
<1>. QED  BY <1>1, <1>3, <1>5 DEF Accounted

LEMMA ReceivedAccounted ==
  ASSUME Base, Base', OnTrack, Accounted, AnswerCame \/ Arrived PROVE Accounted'
<1>1. /\ toClient # <<>> /\ toClient' = Tail(toClient) /\ UNCHANGED <<srv, sampled>>
      /\ Past' = Past /\ toClient \in Seq(Message)
  BY DEF AnswerCame, Arrived, Base, TypeOK
<1>2. toClient[1] \in Message /\ toClient[1].items \in Seq(Item) /\ store \in Seq(Item)
  <2>1. toClient[1] \in Message
    BY <1>1, TailFacts
  <2>. QED  BY <2>1 DEF Message, Base, TypeOK
<1>3. Len(store') \in Nat /\ Len(store') <= Len(store) + Len(toClient[1].items)
  <2>1. Len(store) \in Nat /\ Len(toClient[1].items) \in Nat /\ Len(store') \in Nat
    BY <1>2, LenProperties DEF Base, TypeOK
  <2>2. store' = store \/ store' = Dispatch(toClient[1].items)
    BY DEF AnswerCame, Arrived
  <2>. QED  BY <1>2, <2>1, <2>2, Delivers
<1>4. PICK k \in Nat, q \in Nat, n \in Nat, k2 \in Nat :
         /\ k = Len(store) /\ q = Len(srv.queue) /\ n = Len(sampled) /\ k2 = Len(store')
         /\ k2 <= k + Len(toClient[1].items)
  BY <1>3, LenProperties DEF Base, TypeOK, ServerType
<1>5. InBudget(k, toClient, q, n)
  BY <1>4 DEF Accounted
<1>6. InBudget(k2, toClient', q, n)
  BY <1>1, <1>4, <1>5, BudgetTail
<1>. QED  BY <1>1, <1>4, <1>6 DEF Accounted

LEMMA NextAccounted ==
  ASSUME Base, Base', Clean, Deleting, Accounted, [Next]_vars PROVE Accounted'
<1>. SUFFICES ASSUME OnTrack' PROVE Accounted'
  BY DEF Accounted
<1>. QED  BY Moves, LocalAccounted, CarriedAccounted, PublishedAccounted, OvertakenAccounted,
             ReceivedAccounted

LEMMA InitAccounted == ASSUME Init PROVE Accounted
<1>. SUFFICES ASSUME Scenario PROVE Accounted
  BY DEF Accounted, OnTrack
<1>1. /\ toClient = <<>> /\ store = <<>> /\ sampled = <<>> /\ pc = 0
  BY DEF Init
<1>2. srv.queue = <<>> /\ srv.oldest
  BY DEF Init, NoItem, Scenario
<1>3. Past = 0 /\ Len(sampled) = 0 /\ Len(store) = 0 /\ Len(srv.queue) = 0
  BY <1>1, <1>2 DEF Past
<1>4. InBudget(0, <<>>, 0, 0)
  <2>. DEFINE off == [k \in 1 .. Len(<<>>) + 1 |-> 0]
  <2>1. off \in [1 .. Len(<<>>) + 1 -> 0 .. 0] /\ off[1] = 0 /\ Len(<<>>) = 0
    OBVIOUS
  <2>2. Budget(off, 0, <<>>, 0, 0)
    BY <2>1 DEF Budget
  <2>. QED  BY <2>1, <2>2 DEF InBudget
<1>. QED  BY <1>1, <1>2, <1>3, <1>4 DEF Accounted

-----------------------------------------------------------------------------
(* Monitoring mode.                                                         *)

LEMMA MonitoringProgram ==
  ASSUME TypeOK, cmd = "monitoring"
  PROVE  /\ Len(Program) = 21 /\ DeleteAt = 20 /\ StoreCap = MaxNotifications
         /\ \A i \in 1 .. 20 :
               /\ Program[i].op = "call" <=> i \in {1, 2, 5, 6, 9, 10, 12, 15, 16, 20}
               /\ Program[i].op = "mark" <=> i \in {8, 14, 17, 19}
               /\ Program[i].op = "reset" <=> i = 4
         /\ Program[8].kind = "disabled" /\ Program[14].kind = "sampling"
         /\ Program[17].kind = "before" /\ Program[19].kind = "reporting"
         /\ Program[1].kind = "create" /\ Program[2].kind = "monitor"
         /\ \A i \in {5, 9, 15} : Program[i].kind = "mode"
         /\ Program[9].val = Sampling /\ Program[15].val = Reporting
         /\ \A i \in {6, 10, 12, 16} : Program[i].kind = "write"
         /\ Program[6].val = 100 /\ Program[10].val = 101 /\ Program[12].val = 102
         /\ Program[16].val = 103
         /\ Program[20].kind = "deleteSub" /\ Program[20].op = "call"
<1>1. Program = slc_monitoring_mode
  BY DEF Program
<1>2. DeleteAt = 20 /\ StoreCap = MaxNotifications
  BY <1>1, ShapeOfMonitoring DEF DeleteAt, StoreCap, Collecting
<1>. QED  BY <1>1, <1>2 DEF slc_monitoring_mode, Create, Monitor, Wait, Pause,
                     Reset, Report, Write, DeleteSub, Call, Step, Mark

LEMMA HasEnqueue ==
  ASSUME NEW s \in ServerType, s.oldest, s.value = Target PROVE Has(Enqueue(s))
<1>1. PICK q : q = Enqueue(s)
  OBVIOUS
<1>2. /\ q \in Seq(Item) /\ Len(q) \in Nat \ {0} /\ q[Len(q)].val = s.value
  BY <1>1, EnqueueIs
<1>3. Len(q) \in DOMAIN q
  BY <1>2, LenProperties
<1>. QED  BY <1>1, <1>2, <1>3 DEF Has

(* The store is large enough for all a scenario samples.                    *)
LEMMA ArrivesWhole ==
  ASSUME Base, Accounted, OnTrack, Arrived, MaxNotifications >= 20
  PROVE  /\ toClient[1].items \in Seq(Item)
         /\ store' = store \/ store' = store \o toClient[1].items
<1>1. toClient[1] \in Message
  BY TailFacts DEF Arrived, Base, TypeOK
<1>2. /\ toClient[1].items \in Seq(Item) /\ store \in Seq(Item) /\ toClient \in Seq(Message)
  BY <1>1 DEF Message, Base, TypeOK
<1>3. PICK k \in Nat, q \in Nat, n \in Nat :
         k = Len(store) /\ q = Len(srv.queue) /\ n = Len(sampled)
  BY LenProperties DEF Base, TypeOK, ServerType
<1>4. InBudget(k, toClient, q, n) /\ n <= Past
  BY <1>3 DEF Accounted
<1>5. k + Len(toClient[1].items) <= n /\ Len(toClient[1].items) \in Nat
  <2>1. Len(toClient[1].items) \in Nat /\ toClient # <<>>
    BY <1>2, LenProperties DEF Arrived
  <2>2. k \in Nat /\ k <= k + Len(toClient[1].items)
    BY <2>1
  <2>. QED  BY <1>2, <1>3, <1>4, <2>1, <2>2, BudgetTail
<1>6. Past \in Nat /\ Past <= 20
  <2>1. DeleteAt <= 20 /\ DeleteAt \in Nat
    <3>1. CASE cmd = "monitoring"
      BY <3>1, MonitoringProgram DEF Base
    <3>2. CASE cmd = "publishing"
      <4>1. Len(Program) = 20 /\ ~ Collecting
        BY <3>2, PublishingProgram DEF Base, Collecting
      <4>. QED  BY <4>1 DEF DeleteAt
    <3>. QED  BY <3>1, <3>2 DEF OnTrack, Scenario
  <2>2. pc \in Nat /\ pc <= DeleteAt
    BY NumbersHere DEF Numbers, OnTrack
  <2>. QED  BY <2>1, <2>2, PastIs
<1>7. StoreCap = MaxNotifications /\ MaxNotifications \in Nat
  BY SubscriptionAssumption DEF StoreCap, OnTrack, Scenario
<1>8. Len(store) + Len(toClient[1].items) <= StoreCap
  BY <1>3, <1>4, <1>5, <1>6, <1>7
<1>9. Dispatch(toClient[1].items) = store \o toClient[1].items
  BY <1>2, <1>8, Delivers
<1>. QED  BY <1>2, <1>9 DEF Arrived

LEMMA LocalReports ==
  ASSUME Base, Base', OnTrack, OnTrack', cmd = "monitoring", Reports, Local PROVE Reports'
<1>1. UNCHANGED <<srv, toClient>> /\ pc \in Nat /\ pc <= 20 /\ Past \in Nat
  BY PastIs, NumbersHere, MonitoringProgram DEF Local, Numbers, OnTrack, Base
<1>2. CASE UNCHANGED <<pc, store, marks>> /\ Past' = Past
  BY <1>1, <1>2 DEF Reports, Delivering, Behind, Shows, Counts, Has
<1>3. CASE pc' = pc + 1 /\ pc = 0 /\ Past = 0 /\ Past' = 0 /\ UNCHANGED <<store, marks>>
  BY <1>1, <1>3 DEF Reports
<1>4. CASE /\ pc' = pc + 1 /\ pc > 0 /\ Past = pc - 1 /\ Past' = pc
           /\ Program[pc].op # "call"
           /\ store' = IF Program[pc].op = "reset" THEN <<>> ELSE store
           /\ marks' = IF Program[pc].op = "mark"
                       THEN [marks EXCEPT ![Program[pc].kind] = Len(store)] ELSE marks
  <2>1. /\ pc \in 1 .. 20 /\ pc \notin {1, 2, 5, 6, 9, 10, 12, 15, 16, 20}
        /\ Program[pc].op = "reset" <=> pc = 4
        /\ Program[pc].op = "mark" <=> pc \in {8, 14, 17, 19}
        /\ Program[17].kind = "before" /\ Program[19].kind = "reporting"
    <3>1. pc \in 1 .. 20
      BY <1>1, <1>4
    <3>2. /\ Program[pc].op = "call" <=> pc \in {1, 2, 5, 6, 9, 10, 12, 15, 16, 20}
          /\ Program[pc].op = "mark" <=> pc \in {8, 14, 17, 19}
          /\ Program[pc].op = "reset" <=> pc = 4
          /\ Program[17].kind = "before" /\ Program[19].kind = "reporting"
      BY <3>1, MonitoringProgram DEF Base
    <3>. QED  BY <1>4, <3>1, <3>2
  <2>2. marks \in [MarkNames -> Nat] /\ "before" \in MarkNames /\ "reporting" \in MarkNames
        /\ store \in Seq(Item) /\ Len(store) \in Nat /\ DOMAIN store = 1 .. Len(store)
    BY LenProperties DEF Base, TypeOK, MarkNames
  <2>3. Past' \in 2 .. 19 => srv'.item
    BY <1>1, <1>4, <2>1 DEF Reports
  <2>4. Past' \in 9 .. 19 => srv'.mode # Disabled
    BY <1>1, <1>4, <2>1 DEF Reports
  <2>5. Past' \in 12 .. 15 => srv'.value = 102 /\ srv'.last = 102
    BY <1>1, <1>4, <2>1 DEF Reports
  <2>7. Past' >= 16 => Delivering'
    <3>. SUFFICES ASSUME Past' >= 16 PROVE Delivering'
      OBVIOUS
    <3>1. pc >= 17 /\ Past >= 16
      BY <1>1, <1>4, <2>1
    <3>2. \A k : Behind(k)' = Behind(k)
      BY <1>1, <1>4, <3>1 DEF Behind
    <3>3. Delivering
      BY <3>1 DEF Reports
    <3>. QED  BY <1>1, <3>2, <3>3 DEF Delivering, Has
  <2>8. pc' >= 18 => Shows(marks["before"], Len(store))'
    <3>1. CASE pc = 17
      <4>1. store' = store /\ marks'["before"] = Len(store)
        BY <1>4, <2>1, <2>2, <3>1
      <4>. QED  BY <2>2, <4>1 DEF Shows
    <3>2. CASE pc >= 18
      <4>1. store' = store /\ marks'["before"] = marks["before"] /\ Shows(marks["before"], Len(store))
        BY <1>1, <1>4, <2>1, <2>2, <3>2 DEF Reports
      <4>. QED  BY <4>1 DEF Shows
    <3>. QED  BY <1>1, <1>4, <3>1, <3>2
  <2>9. pc' >= 20 => Counts'
    <3>. SUFFICES ASSUME pc' >= 20 PROVE Counts'
      OBVIOUS
    <3>1. pc = 19 /\ Shows(marks["before"], Len(store))
      BY <1>1, <1>4, <2>1 DEF Reports
    <3>2. /\ store' = store /\ marks'["before"] = marks["before"] /\ marks'["reporting"] = Len(store)
      BY <1>4, <2>1, <2>2, <3>1
    <3>. QED  BY <3>1, <3>2 DEF Counts, Shows
  <2>. QED  BY <2>3, <2>4, <2>5, <2>7, <2>8, <2>9 DEF Reports
<1>. QED  BY <1>2, <1>3, <1>4 DEF Local

LEMMA CarriedReports ==
  ASSUME Base, Base', OnTrack, Accounted, cmd = "monitoring", Reports, Carried PROVE Reports'
<1>1. PICK s \in ServerType, size \in Nat \ {0} : Sampled(s) /\ EffectOf(s, Program[pc], size)
  BY CarriedIs
<1>2. /\ UNCHANGED <<pc, store, marks>> /\ Past = pc - 1 /\ Past' = pc
      /\ pc \in {1, 2, 5, 6, 9, 10, 12, 15, 16, 20}
  <2>1. pc \in 1 .. 20 /\ Program[pc].op = "call"
    <3>1. pc \in Nat /\ pc > 0 /\ pc <= DeleteAt /\ DeleteAt = 20
      BY NumbersHere, MonitoringProgram DEF Carried, Base, Numbers, OnTrack
    <3>2. Program[pc].op = "call"
      BY DEF Carried
    <3>3. pc \in 1 .. 20
      BY <3>1
    <3>. QED  BY <3>2, <3>3
  <2>2. Program[pc].op = "call" <=> pc \in {1, 2, 5, 6, 9, 10, 12, 15, 16, 20}
    BY <2>1, MonitoringProgram DEF Base
  <2>. QED  BY <2>1, <2>2 DEF Carried
<1>4. /\ s.oldest = srv.oldest /\ Sampled(s)
      /\ s.mode = IF Program[pc].kind = "mode" THEN Program[pc].val ELSE srv.mode
      /\ s.value = IF Program[pc].kind = "write" THEN Program[pc].val ELSE srv.value
      /\ s.item = IF Program[pc].kind = "monitor" THEN TRUE
                  ELSE IF Program[pc].kind \in {"deleteItem", "deleteSub"} THEN FALSE
                  ELSE srv.item
      /\ s.queue = srv.queue \/ s.queue = <<>>
      /\ Program[pc].kind = "deleteSub" => s.queue = <<>>
      /\ s.last \in {srv.last, srv.value, NoValue}
      /\ Program[pc].kind \notin {"mode", "monitor"} => s.last = srv.last
  BY <1>1 DEF EffectOf
<1>5. srv'.item = s.item /\ srv'.mode = s.mode /\ srv'.value = s.value /\ s.oldest
  BY <1>4, <1>4 DEF Sampled, Accounted
<1>6. PICK m \in Message :
         m = [id |-> pc, good |-> TRUE, items |-> <<>>] /\ toClient' = Append(toClient, m)
  <2>1. pc \in Nat /\ <<>> \in Seq(Item)
    BY <1>2, EmptySeq
  <2>. QED  BY <2>1 DEF Carried, Message
<1>7. /\ Len(toClient) + 1 \in DOMAIN toClient' /\ toClient'[Len(toClient) + 1] = m
      /\ \A k \in DOMAIN toClient' :
            \/ k \in DOMAIN toClient /\ toClient'[k] = toClient[k] /\ k < Len(toClient) + 1
            \/ k = Len(toClient) + 1 /\ toClient'[k] = m
      /\ m.items = <<>> /\ m.id = pc
  <2>1. toClient \in Seq(Message)
    BY DEF Base, TypeOK
  <2>2. /\ toClient' \in Seq(Message) /\ Len(toClient') = Len(toClient) + 1 /\ Len(toClient) \in Nat
        /\ DOMAIN toClient = 1 .. Len(toClient) /\ DOMAIN toClient' = 1 .. Len(toClient')
    BY <1>6, <2>1, AppendFacts, LenProperties
  <2>. QED  BY <1>6, <2>1, <2>2, AppendFacts
<1>8. Past' \in 2 .. 19 => srv'.item
  <2>1. CASE pc \in {1, 20}
    BY <1>2, <2>1
  <2>2. CASE pc = 2
    BY <1>4, <1>5, <2>2, MonitoringProgram DEF Base
  <2>3. CASE pc \in {5, 6, 9, 10, 12, 15, 16}
    <3>1. Program[pc].kind \in {"mode", "write"} /\ srv.item
      BY <1>2, <2>3, MonitoringProgram DEF Base, Reports
    <3>. QED  BY <1>4, <1>5, <3>1
  <2>. QED  BY <1>2, <2>1, <2>2, <2>3
<1>9. Past' \in 9 .. 19 => srv'.mode # Disabled
  <2>1. CASE pc \in {9, 15}
    <3>1. Program[pc].kind = "mode" /\ Program[pc].val \in {Sampling, Reporting}
      BY <2>1, MonitoringProgram DEF Base
    <3>2. srv'.mode \in {Sampling, Reporting}
      BY <1>4, <1>5, <3>1
    <3>. QED  BY <3>2 DEF Disabled, Sampling, Reporting
  <2>2. CASE pc \in {10, 12, 16}
    <3>1. Program[pc].kind = "write" /\ srv.mode # Disabled
      BY <1>2, <2>2, MonitoringProgram DEF Base, Reports
    <3>. QED  BY <1>4, <1>5, <3>1
  <2>. QED  BY <1>2, <2>1, <2>2
<1>10. Past' \in 12 .. 15 => srv'.value = 102 /\ srv'.last = 102
  <2>. SUFFICES ASSUME pc \in {12, 15} PROVE srv'.value = 102 /\ srv'.last = 102
    BY <1>2
  <2>1. s.value = 102
    <3>1. pc = 15 => srv.value = 102 /\ Program[pc].kind = "mode"
      BY <1>2, MonitoringProgram DEF Base, Reports
    <3>2. pc = 12 => Program[pc].kind = "write" /\ Program[pc].val = 102
      BY MonitoringProgram DEF Base
    <3>. QED  BY <1>4, <3>1, <3>2
  <2>2. s.item /\ s.mode # Disabled
    BY <1>2, <1>5, <1>8, <1>9
  <2>. QED  BY <1>4, <1>5, <2>1, <2>2 DEF Sampled, Sampleable
<1>11. Past' >= 16 => Delivering'
  <2>1. CASE pc = 16
    <3>1. srv.item /\ srv.mode # Disabled /\ srv.last = 102
      BY <1>2, <2>1 DEF Reports
    <3>2. Program[pc].kind = "write" /\ Program[pc].val = Target
      BY <2>1, MonitoringProgram DEF Base, Target
    <3>3. s.value = Target /\ Sampleable(s)
      BY <1>4, <3>1, <3>2 DEF Sampleable, Target
    <3>4. Has(srv'.queue)
      BY <1>4, <1>5, <3>3, HasEnqueue DEF Sampled
    <3>5. ASSUME NEW k \in DOMAIN toClient', toClient'[k].items # <<>>
          PROVE  Behind(k)'
      <4>1. k \in DOMAIN toClient /\ toClient'[k] = toClient[k] /\ k < Len(toClient) + 1
        BY <1>7, <3>5
      <4>. QED  BY <1>2, <1>7, <2>1, <4>1 DEF Behind
    <3>. QED  BY <3>4, <3>5 DEF Delivering
  <2>2. CASE pc = 20
    <3>1. Delivering
      BY <1>2, <2>2 DEF Reports
    <3>2. srv'.queue = <<>>
      <4>1. s.queue = <<>> /\ ~ s.item
        BY <1>4, <2>2, MonitoringProgram DEF Base
      <4>. QED  BY <1>4, <4>1 DEF Sampled, Sampleable
    <3>3. ASSUME NEW k \in DOMAIN toClient', toClient'[k].items # <<>>
          PROVE  ~ Behind(k)' /\ Has(toClient'[k].items)
      <4>1. k \in DOMAIN toClient /\ toClient'[k] = toClient[k]
        BY <1>7, <3>3
      <4>. QED  BY <1>2, <2>2, <3>1, <3>3, <4>1 DEF Behind, Delivering
    <3>. QED  BY <3>2, <3>3 DEF Delivering
  <2>. QED  BY <1>2, <2>1, <2>2
<1>12. /\ pc' >= 18 => Shows(marks["before"], Len(store))'
       /\ pc' >= 20 => Counts'
  BY <1>2 DEF Reports, Shows, Counts
<1>. QED  BY <1>8, <1>9, <1>10, <1>11, <1>12 DEF Reports

(* The connection with a message appended, or without its first.            *)
LEMMA Appended ==
  ASSUME NEW msgs \in Seq(Message), NEW m \in Message, NEW more, more = Append(msgs, m)
  PROVE  /\ Len(msgs) + 1 \in DOMAIN more /\ more[Len(msgs) + 1] = m
         /\ \A k \in DOMAIN msgs : k \in DOMAIN more /\ more[k] = msgs[k]
         /\ \A k \in DOMAIN more :
               \/ k \in DOMAIN msgs /\ more[k] = msgs[k] /\ k < Len(msgs) + 1
               \/ k = Len(msgs) + 1 /\ more[k] = m
<1>1. /\ more \in Seq(Message) /\ Len(more) = Len(msgs) + 1 /\ Len(msgs) \in Nat
      /\ DOMAIN msgs = 1 .. Len(msgs) /\ DOMAIN more = 1 .. Len(more)
  BY AppendFacts, LenProperties
<1>. QED  BY <1>1, AppendFacts

LEMMA Shortened ==
  ASSUME NEW msgs \in Seq(Message), msgs # <<>>, NEW rest, rest = Tail(msgs)
  PROVE  /\ 1 \in DOMAIN msgs /\ msgs[1] \in Message /\ msgs[1].items \in Seq(Item)
         /\ \A k \in DOMAIN rest : k \in Nat \ {0} /\ k + 1 \in DOMAIN msgs /\ rest[k] = msgs[k + 1]
         /\ \A k \in DOMAIN msgs : k = 1 \/ (k \in Nat /\ k - 1 \in DOMAIN rest /\ rest[k - 1] = msgs[k])
<1>1. /\ 1 \in DOMAIN msgs /\ msgs[1] \in Message /\ rest \in Seq(Message)
      /\ Len(rest) = Len(msgs) - 1
      /\ \A k \in DOMAIN rest : k \in Nat \ {0} /\ k + 1 \in DOMAIN msgs /\ rest[k] = msgs[k + 1]
  BY TailFacts
<1>2. msgs[1].items \in Seq(Item)
  BY <1>1 DEF Message
<1>3. /\ DOMAIN msgs = 1 .. Len(msgs) /\ DOMAIN rest = 1 .. Len(rest) /\ Len(msgs) \in Nat
  BY <1>1, LenProperties
<1>4. ASSUME NEW k \in DOMAIN msgs, k # 1
      PROVE  k \in Nat /\ k - 1 \in DOMAIN rest /\ rest[k - 1] = msgs[k]
  <2>1. k \in Nat /\ k - 1 \in DOMAIN rest /\ (k - 1) + 1 = k
    BY <1>1, <1>3, <1>4
  <2>. QED  BY <1>1, <2>1
<1>. QED  BY <1>1, <1>2, <1>4

LEMMA PublishedReports ==
  ASSUME Base, Base', OnTrack, cmd = "monitoring", Reports, Published PROVE Reports'
<1>1. /\ srv'.queue = <<>> /\ srv.queue \in Seq(Item) /\ srv'.item = srv.item
      /\ srv'.mode = srv.mode /\ srv'.value = srv.value /\ srv'.last = srv.last
      /\ UNCHANGED <<pc, store, marks>> /\ Past' = Past /\ srv.queue # <<>>
  BY DEF Published, Base, TypeOK, ServerType
<1>2. PICK m \in Message :
         m = [id |-> 0, good |-> TRUE, items |-> srv.queue] /\ toClient' = Append(toClient, m)
  BY <1>1 DEF Published, Message
<1>3. m.id = 0 /\ m.items = srv.queue /\ toClient \in Seq(Message) /\ Len(toClient) \in Nat
  BY <1>2, LenProperties DEF Base, TypeOK
<1>4. Past' \in 12 .. 15 => srv'.value = 102 /\ srv'.last = 102
  BY <1>1 DEF Reports
<1>5. Past >= 16 => Delivering'
  <2>. SUFFICES ASSUME Past >= 16 PROVE Delivering'
    OBVIOUS
  <2>1. Delivering
    BY DEF Reports
  <2>2. ASSUME NEW k \in DOMAIN toClient', toClient'[k].items # <<>>, ~ Behind(k)'
        PROVE  Has(toClient'[k].items)
    <3>1. CASE k = Len(toClient) + 1
      <4>1. toClient'[k] = m
        BY <1>2, <1>3, <3>1, Appended
      <4>. QED  BY <1>1, <1>3, <2>1, <4>1 DEF Delivering
    <3>2. CASE k # Len(toClient) + 1
      <4>1. k \in DOMAIN toClient /\ toClient'[k] = toClient[k]
        BY <1>2, <1>3, <3>2, Appended
      <4>2. Behind(k)' <=> Behind(k)
        <5>1. ASSUME NEW j \in DOMAIN toClient', toClient'[j].id = 16
              PROVE  j \in DOMAIN toClient /\ toClient'[j] = toClient[j]
          BY <1>2, <1>3, <5>1, Appended
        <5>2. \A j \in DOMAIN toClient : j \in DOMAIN toClient' /\ toClient'[j] = toClient[j]
          BY <1>2, <1>3, Appended
        <5>. QED  BY <1>1, <5>1, <5>2 DEF Behind
      <4>. QED  BY <2>1, <2>2, <4>1, <4>2 DEF Delivering
    <3>. QED  BY <3>1, <3>2
  <2>. QED  BY <1>1, <2>2 DEF Delivering
<1>6. /\ pc' >= 18 => Shows(marks["before"], Len(store))'
      /\ pc' >= 20 => Counts'
  BY <1>1 DEF Reports, Shows, Counts
<1>7. (Past' \in 2 .. 19 => srv'.item) /\ (Past' \in 9 .. 19 => srv'.mode # Disabled)
  BY <1>1 DEF Reports
<1>. QED  BY <1>1, <1>4, <1>5, <1>6, <1>7 DEF Reports

LEMMA AnswerReports ==
  ASSUME Base, Base', OnTrack, OnTrack', cmd = "monitoring", Reports, AnswerCame PROVE Reports'
<1>1. /\ UNCHANGED <<srv, store, marks>> /\ pc' = pc + 1 /\ Past = pc /\ Past' = pc
      /\ toClient # <<>> /\ toClient' = Tail(toClient) /\ toClient \in Seq(Message)
  BY DEF AnswerCame, Base, TypeOK
<1>2. pc \in {1, 2, 5, 6, 9, 10, 12, 15, 16}
  <2>1. pc \in Nat /\ pc > 0 /\ pc <= DeleteAt /\ DeleteAt = 20 /\ DeleteAt' = 20
    BY NumbersHere, MonitoringProgram, ProgramKept DEF AnswerCame, Base, Numbers, OnTrack
  <2>2. Program[pc].op = "call" /\ pc' <= DeleteAt'
    BY DEF AnswerCame, OnTrack
  <2>3. pc \in 1 .. 20 /\ pc # 20
    BY <1>1, <2>1, <2>2
  <2>4. Program[pc].op = "call" <=> pc \in {1, 2, 5, 6, 9, 10, 12, 15, 16, 20}
    BY <2>3, MonitoringProgram DEF Base
  <2>. QED  BY <2>2, <2>3, <2>4
<1>3. \A k \in DOMAIN toClient' : k \in Nat \ {0} /\ k + 1 \in DOMAIN toClient
                                  /\ toClient'[k] = toClient[k + 1]
  BY <1>1, Shortened
<1>4. Past' \in 12 .. 15 => srv'.value = 102 /\ srv'.last = 102
  BY <1>1 DEF Reports
<1>5. Past >= 16 => Delivering'
  <2>. SUFFICES ASSUME Past >= 16 PROVE Delivering'
    OBVIOUS
  <2>1. Delivering /\ pc = 16
    BY <1>1, <1>2 DEF Reports
  <2>2. ASSUME NEW k \in DOMAIN toClient', toClient'[k].items # <<>>
        PROVE  Has(toClient'[k].items)
    <3>2. ~ Behind(k + 1)
      <4>. SUFFICES ASSUME NEW j \in DOMAIN toClient, k + 1 < j, toClient[j].id = 16 PROVE FALSE
        BY DEF Behind
      <4>1. j # 1
        BY <1>3 DEF Base
      <4>2. j - 1 \in DOMAIN toClient' /\ toClient'[j - 1] = toClient[j]
        BY <1>1, <4>1, Shortened
      <4>. QED  BY <4>2 DEF AnswerCame
    <3>3. k + 1 \in DOMAIN toClient /\ toClient'[k] = toClient[k + 1]
      BY <1>3
    <3>. QED  BY <2>1, <2>2, <3>2, <3>3 DEF Delivering
  <2>. QED  BY <1>1, <2>1, <2>2 DEF Delivering
<1>6. ~ (pc' >= 18) /\ ~ (pc' >= 20)
  BY <1>1, <1>2
<1>7. (Past' \in 2 .. 19 => srv'.item) /\ (Past' \in 9 .. 19 => srv'.mode # Disabled)
  BY <1>1 DEF Reports
<1>. QED  BY <1>1, <1>4, <1>5, <1>6, <1>7 DEF Reports

LEMMA Joined ==
  ASSUME NEW a \in Seq(Item), NEW b \in Seq(Item), NEW c, c = a \o b
  PROVE  /\ c \in Seq(Item) /\ Len(a) \in Nat /\ Len(b) \in Nat /\ Len(c) = Len(a) + Len(b)
         /\ DOMAIN a = 1 .. Len(a) /\ DOMAIN c = 1 .. Len(c)
         /\ \A i \in 1 .. Len(a) : i \in DOMAIN c /\ c[i] = a[i]
         /\ \A i \in 1 .. Len(b) : Len(a) + i \in DOMAIN c /\ c[Len(a) + i] = b[i]
         /\ b = <<>> => c = a
         /\ Has(a) => Has(c)
         /\ Has(b) => Has(c)
<1>1. /\ Len(c) = Len(a) + Len(b) /\ c \in Seq(Item) /\ Len(a) \in Nat /\ Len(b) \in Nat
      /\ \A i \in 1 .. Len(a) + Len(b) : c[i] = IF i <= Len(a) THEN a[i] ELSE b[i - Len(a)]
  BY ConcatProperties, LenProperties
<1>2. DOMAIN a = 1 .. Len(a) /\ DOMAIN b = 1 .. Len(b) /\ DOMAIN c = 1 .. Len(c)
  BY <1>1, LenProperties
<1>3. \A i \in 1 .. Len(a) : i \in DOMAIN c /\ c[i] = a[i]
  BY <1>1, <1>2
<1>4. ASSUME NEW i \in 1 .. Len(b) PROVE Len(a) + i \in DOMAIN c /\ c[Len(a) + i] = b[i]
  <2>1. Len(a) + i \in 1 .. Len(a) + Len(b) /\ ~ (Len(a) + i <= Len(a)) /\ (Len(a) + i) - Len(a) = i
    BY <1>1
  <2>. QED  BY <1>1, <1>2, <2>1
<1>5. b = <<>> => c = a
  BY ConcatEmptySeq
<1>6. (Has(a) => Has(c)) /\ (Has(b) => Has(c))
  BY <1>2, <1>3, <1>4 DEF Has
<1>. QED  BY <1>1, <1>2, <1>3, <1>4, <1>5, <1>6

LEMMA ArrivedReports ==
  ASSUME Base, Base', OnTrack, Accounted, cmd = "monitoring", MaxNotifications >= 20, Reports,
         Arrived
  PROVE  Reports'
<1>1. /\ UNCHANGED <<srv, pc, marks>> /\ Past' = Past /\ toClient[1].id = 0
      /\ toClient # <<>> /\ toClient' = Tail(toClient) /\ toClient \in Seq(Message)
      /\ store \in Seq(Item) /\ Past \in Nat /\ Past <= pc /\ pc \in Nat
  BY PastIs, NumbersHere DEF Arrived, Base, TypeOK, Numbers
<1>2. /\ 1 \in DOMAIN toClient /\ toClient[1].items \in Seq(Item)
      /\ \A k \in DOMAIN toClient' : k \in Nat \ {0} /\ k + 1 \in DOMAIN toClient
                                     /\ toClient'[k] = toClient[k + 1]
      /\ \A k \in DOMAIN toClient : k = 1 \/ (/\ k \in Nat /\ k - 1 \in DOMAIN toClient'
                                              /\ toClient'[k - 1] = toClient[k])
  BY <1>1, Shortened
<1>3. PICK items \in Seq(Item) : items = toClient[1].items
  BY <1>2
<1>4. store' = store \/ store' = store \o items
  BY <1>3, ArrivesWhole
<1>6. Past = IF \E k \in DOMAIN toClient : toClient[k].id = pc THEN pc ELSE pc - 1
  BY DEF Past, Arrived
<1>7. pc # 17 /\ pc # 19
  <2>1. pc \in {17, 19} => Program[pc].op = "mark"
    BY MonitoringProgram DEF Base
  <2>. QED  BY <2>1 DEF Arrived
<1>9. Past' \in 12 .. 15 => srv'.value = 102 /\ srv'.last = 102
  BY <1>1 DEF Reports
<1>10. Past >= 16 => Delivering'
  <2>. SUFFICES ASSUME Past >= 16 PROVE Delivering'
    OBVIOUS
  <2>1. Delivering
    BY DEF Reports
  <2>2. ASSUME NEW k \in DOMAIN toClient', toClient'[k].items # <<>>, ~ Behind(k)'
        PROVE  Has(toClient'[k].items)
    <3>2. Behind(k + 1) => Behind(k)'
      <4>. SUFFICES ASSUME pc = 16, NEW j \in DOMAIN toClient, k + 1 < j, toClient[j].id = 16
                    PROVE  Behind(k)'
        BY <1>1 DEF Behind
      <4>1. k \in Nat \ {0} /\ j \in Nat
        BY <1>2
      <4>2. j # 1
        BY <4>1
      <4>3. k < j - 1 /\ j - 1 \in DOMAIN toClient' /\ toClient'[j - 1].id = 16
        BY <1>2, <4>1, <4>2
      <4>. QED  BY <1>1, <4>3 DEF Behind
    <3>3. k + 1 \in DOMAIN toClient /\ toClient'[k] = toClient[k + 1]
      BY <1>2
    <3>. QED  BY <2>1, <2>2, <3>2, <3>3 DEF Delivering
  <2>. QED  BY <1>1, <2>1, <2>2 DEF Delivering
<1>12. pc >= 18 => Shows(marks["before"], Len(store))'
  <2>. SUFFICES ASSUME pc >= 18 PROVE Shows(marks["before"], Len(store))'
    OBVIOUS
  <2>1. PICK n \in Nat, l \in Nat : n = marks["before"] /\ l = Len(store)
    BY <1>1, LenProperties DEF Base, TypeOK, MarkNames
  <2>2. Shows(n, l) /\ marks' = marks
    BY <1>1, <2>1 DEF Reports
  <2>3. CASE store' = store
    BY <2>1, <2>2, <2>3 DEF Shows
  <2>4. CASE store' = store \o items
    <3>1. items = <<>> \/ Has(items)
      <4>1. Delivering /\ ~ Behind(1)
        BY <1>1, <1>6 DEF Reports, Behind
      <4>. QED  BY <1>2, <1>3, <4>1 DEF Delivering
    <3>2. CASE items = <<>>
      <4>1. store' = store
        BY <1>1, <2>4, <3>2, Joined
      <4>. QED  BY <2>1, <2>2, <4>1 DEF Shows
    <3>3. CASE Has(items)
      <4>1. Len(store') = l + Len(items) /\ Len(items) \in Nat
            /\ \A i \in 1 .. Len(items) : store'[l + i] = items[i]
        BY <1>1, <2>1, <2>4, Joined
      <4>2. PICK i \in 1 .. Len(items) : items[i].val = Target
        BY <3>3, LenProperties DEF Has
      <4>3. PICK e \in Nat : e = l + i
        BY <4>1
      <4>4. n <= l
        BY <2>1, <2>2 DEF Shows
      <4>5. n <= Len(store') /\ e \in n + 1 .. Len(store') /\ store'[e].val = Target
        BY <4>1, <4>2, <4>3, <4>4
      <4>6. Len(store') \in Nat
        BY <4>1
      <4>. QED  BY <2>1, <2>2, <4>5, <4>6 DEF Shows
    <3>. QED  BY <3>1, <3>2, <3>3
  <2>. QED  BY <1>4, <2>3, <2>4
<1>13. pc >= 20 => Counts'
  <2>. SUFFICES ASSUME pc >= 20 PROVE Counts'
    OBVIOUS
  <2>1. Counts /\ marks["before"] \in Nat /\ marks["reporting"] \in Nat /\ marks' = marks
        /\ Len(store) \in Nat
    BY <1>1, LenProperties DEF Reports, Base, TypeOK, MarkNames
  <2>2. /\ Len(store') \in Nat /\ Len(store) <= Len(store')
        /\ \A i \in 1 .. Len(store) : store'[i] = store[i]
    <3>1. CASE store' = store
      BY <2>1, <3>1
    <3>2. CASE store' = store \o items
      <4>1. Len(store') = Len(store) + Len(items) /\ Len(items) \in Nat
            /\ \A i \in 1 .. Len(store) : store'[i] = store[i]
        BY <1>1, <3>2, Joined
      <4>. QED  BY <2>1, <4>1
    <3>. QED  BY <1>4, <3>1, <3>2
  <2>3. marks["reporting"] <= Len(store')
        /\ \A i \in marks["before"] + 1 .. marks["reporting"] : store'[i] = store[i]
    BY <2>1, <2>2 DEF Counts, Shows
  <2>. QED  BY <2>1, <2>3 DEF Counts, Shows
<1>14. (Past' \in 2 .. 19 => srv'.item) /\ (Past' \in 9 .. 19 => srv'.mode # Disabled)
  BY <1>1 DEF Reports
<1>. QED  BY <1>1, <1>9, <1>10, <1>12, <1>13, <1>14 DEF Reports

LEMMA OvertakenReports ==
  ASSUME Base, Base', OnTrack, cmd = "monitoring", Reports, Overtaken PROVE Reports'
<1>1. UNCHANGED <<srv, pc, store, marks>> /\ Past' = Past
  BY DEF Overtaken
<1>2. PICK i \in Nat \ {0} :
         /\ Swapped(toClient, toClient', i)
         /\ toClient[i].id = pc /\ toClient[i].items = <<>> /\ toClient[i + 1].id = 0
  BY DEF Overtaken
<1>3. /\ i \in DOMAIN toClient /\ i + 1 \in DOMAIN toClient /\ DOMAIN toClient' = DOMAIN toClient
      /\ toClient'[i] = toClient[i + 1] /\ toClient'[i + 1] = toClient[i]
      /\ \A k \in DOMAIN toClient : k # i /\ k # i + 1 => toClient'[k] = toClient[k]
      /\ \A k \in DOMAIN toClient : k \in Nat
  <2>1. \A k \in DOMAIN toClient : k \in Nat
    BY NumbersHere DEF Numbers
  <2>. QED  BY <1>2, <2>1 DEF Swapped
<1>4. Past' >= 16 => Delivering'
  <2>. SUFFICES ASSUME Past >= 16 PROVE Delivering'
    BY <1>1
  <2>1. Delivering
    BY DEF Reports
  <2>2. ASSUME NEW k \in DOMAIN toClient', toClient'[k].items # <<>>, ~ Behind(k)'
        PROVE  Has(toClient'[k].items)
    <3>1. k # i + 1
      BY <1>2, <1>3, <2>2
    <3>2. CASE k = i
      <4>1. pc # 16
        <5>1. pc = 16 => i + 1 \in DOMAIN toClient' /\ k < i + 1 /\ toClient'[i + 1].id = 16
          BY <1>2, <1>3, <3>2
        <5>. QED  BY <1>1, <2>2, <5>1 DEF Behind
      <4>. QED  BY <1>3, <2>1, <2>2, <3>2, <4>1 DEF Delivering, Behind
    <3>3. CASE k # i
      <4>1. toClient'[k] = toClient[k] /\ k \in DOMAIN toClient
        BY <1>3, <3>1, <3>3
      <4>2. ~ Behind(k)
        <5>. SUFFICES ASSUME pc = 16, NEW j \in DOMAIN toClient, k < j, toClient[j].id = 16
                      PROVE  Behind(k)'
          BY <2>2 DEF Behind
        <5>1. CASE j = i
          <6>1. i + 1 \in DOMAIN toClient' /\ toClient'[i + 1].id = 16 /\ k < i + 1
            BY <1>3, <5>1
          <6>. QED  BY <1>1, <6>1 DEF Behind
        <5>2. CASE j # i
          <6>1. j # i + 1
            BY <1>2
          <6>2. j \in DOMAIN toClient' /\ toClient'[j].id = 16
            BY <1>3, <5>2, <6>1
          <6>. QED  BY <1>1, <6>2 DEF Behind
        <5>. QED  BY <5>1, <5>2
      <4>. QED  BY <2>1, <2>2, <4>1, <4>2 DEF Delivering
    <3>. QED  BY <3>2, <3>3
  <2>. QED  BY <1>1, <2>1, <2>2 DEF Delivering, Has
<1>5. /\ pc' >= 18 => Shows(marks["before"], Len(store))'
      /\ pc' >= 20 => Counts'
  BY <1>1 DEF Reports, Shows, Counts
<1>6. /\ Past' \in 2 .. 19 => srv'.item
      /\ Past' \in 9 .. 19 => srv'.mode # Disabled
      /\ Past' \in 12 .. 15 => srv'.value = 102 /\ srv'.last = 102
  BY <1>1 DEF Reports
<1>. QED  BY <1>4, <1>5, <1>6 DEF Reports

-----------------------------------------------------------------------------
(* The end of a scenario.                                                   *)

LEMMA Steady ==
  ASSUME Base, Scenario, [Next]_vars
  PROVE  /\ UNCHANGED fixed /\ cmd' = cmd /\ Program' = Program /\ DeleteAt' = DeleteAt
         /\ srv'.throttled = srv.throttled
<1>1. UNCHANGED fixed
  BY DEF Next, ClientStep, ServerStep, Connect, StepCall, Receive, Fault, WaitDone, TimeUp,
         StepLocal, Finish, Handle, Refuse, Sample, Change, Publish, Overtake, Die, vars, fixed
<1>2. cmd' = cmd /\ Program' = Program /\ DeleteAt' = DeleteAt
  BY <1>1, ProgramKept DEF fixed
<1>3. srv \in ServerType /\ srv.throttled \in BOOLEAN
  BY DEF Base, TypeOK, ServerType
<1>4. CASE Handle
  <2>1. PICK good \in BOOLEAN, size \in Nat \ {0}, s \in ServerType :
           /\ good = Accepts(Head(toServer).req)
           /\ s = (IF good THEN Effect(Head(toServer).req, size) ELSE srv)
           /\ ServerBecomes(s, ~srv.throttled)
    BY <1>4, HandleIs
  <2>2. Head(toServer).req \in StepType /\ Head(toServer).req.kind \in Called
    <3>1. toServer # <<>> /\ toServer \in Seq(Request)
      BY <1>4 DEF Handle, Base, TypeOK
    <3>2. 1 \in DOMAIN toServer /\ Head(toServer) = toServer[1]
      BY <3>1, TailFacts
    <3>3. PICK i \in 1 .. Len(Program) : Head(toServer).req = Program[i] /\ Program[i].op = "call"
      BY <3>2 DEF Base, Ordered, Requests
    <3>. QED  BY <3>3, ScenarioProgram, ElementOfSeq DEF Base
  <2>3. s.throttled = srv.throttled
    BY <1>3, <2>1, <2>2, EffectIs DEF EffectOf
  <2>4. (~ srv.throttled) \in BOOLEAN
    BY <1>3
  <2>. QED  BY <1>1, <1>2, <2>1, <2>3, <2>4, BecomesKeeps
<1>5. CASE Sample
  <2>1. ServerBecomes(srv, TRUE) /\ TRUE \in BOOLEAN
    BY <1>5 DEF Sample
  <2>. QED  BY <1>1, <1>2, <1>3, <2>1, BecomesKeeps
<1>6. ~ Change
  BY DEF Change, Scenario, Collecting
<1>7. CASE Publish
  BY <1>1, <1>2, <1>3, <1>7 DEF Publish, ServerType
<1>8. CASE ClientStep \/ Refuse \/ Overtake \/ Die \/ UNCHANGED vars
  <2>1. UNCHANGED srv
    BY <1>8 DEF ClientStep, Connect, StepCall, Receive, Fault, WaitDone, TimeUp,
                StepLocal, Finish, Refuse, Overtake, Die, vars, server
  <2>. QED  BY <1>1, <1>2, <2>1
<1>. QED  BY <1>4, <1>5, <1>6, <1>7, <1>8 DEF Next, ServerStep

LEMMA ScenarioEnd ==
  ASSUME TypeOK, Scenario
  PROVE  /\ Program[Len(Program)].op = "report" /\ Program[DeleteAt].op = "call"
         /\ DeleteAt = Len(Program) - 1 /\ Len(Program) \in Nat /\ Len(Program) >= 3
<1>1. CASE cmd = "monitoring"
  <2>1. Program = slc_monitoring_mode
    BY <1>1 DEF Program
  <2>. QED  BY <2>1, ShapeOfMonitoring, ScenarioProgram
            DEF slc_monitoring_mode, Report, DeleteSub, Call, Step
<1>2. CASE cmd = "publishing"
  <2>1. Program = slc_publishing_mode
    BY <1>2 DEF Program
  <2>. QED  BY <2>1, ShapeOfPublishing, ScenarioProgram
            DEF slc_publishing_mode, Report, DeleteSub, Call, Step
<1>. QED  BY <1>1, <1>2 DEF Scenario

(* Behind the DeleteSubscription only the result is printed.                *)
LEMMA Ended ==
  ASSUME Base, Scenario, [Next]_vars, pc > DeleteAt
  PROVE  /\ UNCHANGED <<store, marks, status, timedOut>>
         /\ \/ UNCHANGED <<pc, printed, exit>>
            \/ UNCHANGED <<pc, printed>> /\ exit' = ExitCode /\ pc > Len(Program)
            \/ /\ UNCHANGED exit /\ exit = NoExit /\ pc = Len(Program) /\ pc' = pc + 1
               /\ printed' = store
<1>1. /\ pc \in Nat /\ Len(Program) \in Nat /\ Len(Program) >= 3 /\ DeleteAt = Len(Program) - 1
      /\ Program[Len(Program)].op = "report"
  BY NumbersHere, ScenarioEnd DEF Base, Numbers
<1>2. ASSUME NEW op, At(op) PROVE op = "report" /\ pc = Len(Program)
  <2>1. pc \in 1 .. Len(Program) /\ Program[pc].op = op
    BY <1>2 DEF At, Running, Current
  <2>2. pc = Len(Program)
    BY <1>1, <2>1
  <2>. QED  BY <1>1, <2>1, <2>2
<1>3. ~ waiting
  BY <1>2 DEF Base, Ordered, CallWaits
<1>4. ~ Connect /\ ~ StepCall /\ ~ Receive /\ ~ Fault /\ ~ WaitDone /\ ~ TimeUp
  <2>1. ~ Connect
    BY <1>1 DEF Connect
  <2>2. ~ Listening
    BY <1>2, <1>3 DEF Listening
  <2>3. ~ At("call") /\ ~ At("wait") /\ ~ At("pause")
    BY <1>2
  <2>4. ~ StepCall /\ ~ WaitDone /\ ~ TimeUp
    BY <2>3 DEF StepCall, WaitDone, TimeUp
  <2>5. ~ Receive /\ ~ Fault
    BY <1>3, <2>2 DEF Receive, Fault
  <2>. QED  BY <2>1, <2>4, <2>5
<1>5. CASE StepLocal
  <2>1. At("report") /\ ~ At("reset") /\ ~ At("mark")
    BY <1>2, <1>5 DEF StepLocal
  <2>. QED  BY <1>2, <1>5, <2>1 DEF StepLocal, At, Running
<1>6. CASE Finish
  BY <1>6 DEF Finish
<1>7. CASE ServerStep \/ UNCHANGED vars
  BY <1>7 DEF ServerStep, Handle, Refuse, Sample, Change, Publish, Overtake, Die, vars, client
<1>. QED  BY <1>4, <1>5, <1>6, <1>7 DEF Next, ClientStep

(* ... which a scenario comes to with a Good answer, unless a call failed.  *)
LEMMA LastAnswer ==
  ASSUME Base, Base', Clean, Deleting, Scenario, [Next]_vars, pc <= DeleteAt, pc' > DeleteAt,
         AllGood', ~ srv'.throttled
  PROVE  OnTrack /\ AnswerCame
<1>1. /\ pc \in Nat /\ Len(Program) \in Nat /\ Len(Program) >= 3 /\ DeleteAt = Len(Program) - 1
      /\ Program[DeleteAt].op = "call"
  BY NumbersHere, ScenarioEnd DEF Base, Numbers
<1>2. pc' # pc
  BY <1>1
<1>3. ~ Connect
  BY <1>1, <1>2 DEF Connect
<1>4. ~ (WaitDone \/ TimeUp \/ StepLocal)
  <2>. SUFFICES ASSUME WaitDone \/ TimeUp \/ StepLocal PROVE FALSE
    OBVIOUS
  <2>1. PICK op \in {"wait", "pause", "reset", "mark", "report"} : At(op)
    BY DEF WaitDone, TimeUp, StepLocal
  <2>2. pc' = pc + 1
    BY DEF WaitDone, TimeUp, StepLocal
  <2>3. pc = DeleteAt
    BY <1>1, <2>2
  <2>. QED  BY <1>1, <2>1, <2>3 DEF At, Current
<1>5. ~ Fault
  <2>. SUFFICES ASSUME Fault PROVE FALSE
    OBVIOUS
  <2>1. waiting /\ CallEnds(FALSE) /\ UNCHANGED fixed /\ FALSE \in BOOLEAN
    BY DEF Fault
  <2>. QED  BY <2>1, CleanCall
<1>6. ~ (StepCall \/ Finish \/ ServerStep \/ UNCHANGED vars)
  BY <1>2 DEF StepCall, Finish, ServerStep, Handle, Refuse, Sample, Change, Publish, Overtake,
              Die, vars, client
<1>7. Receive
  BY <1>3, <1>4, <1>5, <1>6 DEF Next, ClientStep
<1>8. /\ waiting /\ toClient[1].id = pc /\ toClient[1].good \in BOOLEAN
      /\ CallEnds(toClient[1].good)
  BY <1>2, <1>7, ReceiveIs
<1>9. /\ UNCHANGED <<fixed, late>> /\ ~ dead /\ 1 \in DOMAIN toClient
      /\ \A i \in DOMAIN toClient' : i \in Nat \ {0} /\ i + 1 \in DOMAIN toClient
                                     /\ toClient'[i] = toClient[i + 1]
  BY <1>7, ReceiveIs
<1>10. AllGood
  BY <1>8, <1>9, CleanCall
<1>11. ASSUME NEW k \in DOMAIN toClient', toClient'[k].id # 0 PROVE FALSE
  <2>1. k + 1 \in DOMAIN toClient /\ toClient[k + 1].id # 0 /\ 1 < k + 1
    BY <1>9, <1>11
  <2>2. toClient[k + 1].id <= pc /\ pc < toClient[k + 1].id
    BY <1>8, <1>9, <2>1 DEF Base, Ordered, Answers, AnswerOrder
  <2>. QED  BY <1>1, <2>1, <2>2, NumbersHere DEF Numbers
<1>12. OnTrack /\ (AnswerCame \/ Arrived)
  BY <1>7, <1>11, ReceiveMoves
<1>. QED  BY <1>2, <1>12 DEF Arrived

LEMMA NextMonitoring ==
  ASSUME Base, Base', Clean, Deleting, Accounted, Monitoring, [Next]_vars, MaxNotifications >= 20
  PROVE  Monitoring'
<1>. SUFFICES ASSUME cmd' = "monitoring"
              PROVE  /\ OnTrack' => Reports'
                     /\ (AllGood /\ ~ srv.throttled /\ pc > 20 => Counts)'
  BY DEF Monitoring
<1>1. cmd = "monitoring" /\ Scenario
  <2>1. cmd' = cmd
    BY DEF Next, ClientStep, ServerStep, Connect, StepCall, Receive, Fault, WaitDone, TimeUp,
           StepLocal, Finish, Handle, Refuse, Sample, Change, Publish, Overtake, Die, vars, fixed
  <2>. QED  BY <2>1 DEF Scenario
<1>2. UNCHANGED fixed /\ srv'.throttled = srv.throttled
  BY <1>1, Steady
<1>3. OnTrack' => Reports'
  <2>. SUFFICES ASSUME OnTrack' PROVE Reports'
    OBVIOUS
  <2>1. OnTrack /\ (Local \/ Carried \/ Published \/ Overtaken \/ AnswerCame \/ Arrived)
    BY Moves
  <2>2. Reports
    BY <1>1, <2>1 DEF Monitoring
  <2>. QED  BY <1>1, <2>1, <2>2, LocalReports, CarriedReports, PublishedReports,
               OvertakenReports, AnswerReports, ArrivedReports
<1>4. ASSUME AllGood', ~ srv'.throttled, pc' > 20 PROVE Counts'
  <2>0. pc \in Nat /\ DeleteAt = 20
    BY <1>1, MonitoringProgram, NumbersHere DEF Base, Numbers
  <2>1. CASE pc > 20
    <3>1. UNCHANGED <<store, marks, status>>
      BY <1>1, <2>0, <2>1, Ended
    <3>2. AllGood /\ ~ srv.throttled
      BY <1>2, <1>4, <3>1 DEF AllGood
    <3>. QED  BY <1>1, <2>1, <3>1, <3>2 DEF Monitoring, Counts, Shows
  <2>2. CASE ~ (pc > 20)
    <3>1. OnTrack /\ AnswerCame
      <4>1. pc <= DeleteAt /\ pc' > DeleteAt
        BY <1>4, <2>0, <2>2
      <4>. QED  BY <1>1, <1>4, <4>1, LastAnswer
    <3>2. pc' = pc + 1 /\ UNCHANGED <<store, marks>>
      BY <3>1 DEF AnswerCame
    <3>3. pc >= 20
      BY <1>4, <2>0, <3>2
    <3>4. Counts
      BY <1>1, <3>1, <3>3 DEF Monitoring, Reports
    <3>. QED  BY <3>2, <3>4 DEF Counts, Shows
  <2>. QED  BY <2>1, <2>2
<1>. QED  BY <1>3, <1>4

LEMMA InitMonitoring == ASSUME Init PROVE Monitoring
<1>1. toClient = <<>> /\ pc = 0
  BY DEF Init
<1>2. Past = 0
  BY <1>1 DEF Past
<1>3. Reports
  BY <1>1, <1>2 DEF Reports
<1>. QED  BY <1>1, <1>3 DEF Monitoring

LEMMA AlwaysAccounted == Spec => [](Clean /\ Accounted)
<1>1. Init => Clean /\ Accounted
  BY InitClean, InitAccounted
<1>2. Base /\ Base' /\ Deleting /\ Clean /\ Accounted /\ [Next]_vars => Clean' /\ Accounted'
  BY NextClean, NextAccounted
<1>. QED  BY <1>1, <1>2, OrderInvariant, AlwaysDeleting, PTL DEF Spec

(* slc_monitoring_mode: whenever the Reporting count is positive, one of    *)
(* the notifications counted carries 103, for every queue size, whatever    *)
(* the node held at first and in every order of answers and notifications.  *)
(* The store has room for a value per step (MAX_NOTIFICATIONS is 256).      *)
THEOREM ReportingCountIsRight ==
  ASSUME MaxNotifications >= 20
  PROVE  Spec => []ReportingIsTheWrite
<1>1. Init => Monitoring
  BY InitMonitoring
<1>2. Base /\ Base' /\ Deleting /\ Clean /\ Accounted /\ Monitoring /\ [Next]_vars => Monitoring'
  BY NextMonitoring
<1>3. Base /\ Monitoring => ReportingIsTheWrite
  <2>. SUFFICES ASSUME Base, Monitoring, cmd = "monitoring", Done, AllGood, ~ srv.throttled,
                       ReportingCount >= 1
                PROVE  \E i \in marks["before"] + 1 .. marks["reporting"] : store[i].val = 103
    BY DEF ReportingIsTheWrite
  <2>1. pc \in Nat /\ pc > 20
    <3>1. pc \in Nat /\ Len(Program) = 21 /\ pc > Len(Program)
      BY MonitoringProgram, NumbersHere DEF Base, Numbers, Done
    <3>. QED  BY <3>1
  <2>2. Counts
    BY <2>1 DEF Monitoring
  <2>3. marks["before"] \in Nat /\ marks["reporting"] \in Nat
    BY DEF Base, TypeOK, MarkNames
  <2>. QED  BY <2>2, <2>3 DEF Counts, Shows, Target, ReportingCount
<1>. QED  BY <1>1, <1>2, <1>3, OrderInvariant, AlwaysDeleting, AlwaysAccounted, PTL DEF Spec

-----------------------------------------------------------------------------
(* Publishing mode.                                                         *)

LEMMA PublishingSteps ==
  ASSUME TypeOK, cmd = "publishing"
  PROVE  /\ Len(Program) = 20 /\ DeleteAt = 19
         /\ \A i \in 1 .. 19 :
               /\ Program[i].op = "call" <=> i \in {1, 2, 4, 6, 8, 10, 12, 14, 17, 19}
               /\ Program[i].op = "reset" <=> i = 5
         /\ Program[1].kind = "create" /\ Program[2].kind = "monitor"
         /\ Program[4].kind = "publish" /\ Program[17].kind = "publish"
         /\ \A i \in {6, 8, 10, 12, 14} : Program[i].kind = "write"
         /\ Program[6].val = 1 /\ Program[8].val = 2 /\ Program[10].val = 3
         /\ Program[12].val = 4 /\ Program[14].val = 5
         /\ Program[19].kind = "deleteSub" /\ Program[2].op = "call" /\ Program[2] = Monitor
<1>1. Program = slc_publishing_mode
  BY DEF Program
<1>2. DeleteAt = 19
  BY <1>1, ShapeOfPublishing DEF DeleteAt, Collecting
<1>. QED  BY <1>1, <1>2 DEF slc_publishing_mode, Create, Monitor, Wait, Pause,
                     Reset, Report, Write, DeleteSub, Call, Step

LEMMA WrittenIs ==
  /\ Written(6) = 1 /\ Written(7) = 1 /\ Written(8) = 2 /\ Written(9) = 2
  /\ Written(10) = 3 /\ Written(11) = 3 /\ Written(12) = 4 /\ Written(13) = 4
  /\ Written(14) = 5 /\ Written(15) = 5 /\ Written(16) = 5 /\ Written(17) = 5 /\ Written(18) = 5
BY DEF Written

(* The queue after one more write.                                          *)
LEMMA TailedEnqueue ==
  ASSUME NEW s \in ServerType, s.oldest, NEW w \in Nat \ {0}, Tailed(s.queue, s.size, w),
         s.value = w + 1
  PROVE  Tailed(Enqueue(s), s.size, w + 1)
<1>0. PICK q : q = Enqueue(s)
  OBVIOUS
<1>1. PICK old \in Seq(Item), n \in Nat \ {0} : q = Enqueue(s) /\ old = s.queue /\ n = s.size
  BY <1>0 DEF ServerType
<1>2. /\ Len(old) \in Nat /\ Len(q) \in Nat \ {0}
      /\ Len(q) = IF Len(old) < n THEN Len(old) + 1 ELSE IF n = 1 THEN 1 ELSE Len(old)
      /\ q[Len(q)].val = w + 1
      /\ \A j \in 1 .. (Len(q) - 1) :
            Len(old) + 1 - j \in 1 .. Len(old) /\ q[Len(q) - j].val = old[Len(old) + 1 - j].val
  BY <1>1, EnqueueIs, LenProperties DEF ServerType
<1>3. /\ Len(old) <= n /\ AtMost(w - 1, n) <= Len(old)
      /\ \A j \in 0 .. (w - 2) : j < Len(old) => old[Len(old) - j].val = w - j
  BY <1>1 DEF Tailed
<1>4. PICK l \in Nat, k \in Nat \ {0} : l = Len(old) /\ k = Len(q)
  BY <1>2
<1>5. k <= n /\ AtMost((w + 1) - 1, n) <= k
  BY <1>2, <1>3, <1>4 DEF AtMost
<1>6. ASSUME NEW j \in 0 .. ((w + 1) - 2), j < k PROVE q[k - j].val = (w + 1) - j
  <2>1. CASE j = 0
    BY <1>2, <1>4, <2>1
  <2>2. CASE j # 0
    <3>1. j \in 1 .. (k - 1)
      BY <1>4, <1>6, <2>2
    <3>2. l + 1 - j \in 1 .. l /\ q[k - j].val = old[l + 1 - j].val
      BY <1>2, <1>4, <3>1
    <3>3. PICK i \in 0 .. (w - 2) : i = j - 1 /\ i < l /\ l + 1 - j = l - i
      <4>1. j - 1 \in 0 .. (w - 2) /\ j - 1 < l /\ l + 1 - j = l - (j - 1)
        BY <1>4, <1>6, <2>2, <3>2
      <4>. QED  BY <4>1
    <3>4. old[l - i].val = w - i
      BY <1>3, <1>4, <3>3
    <3>5. w - i = (w + 1) - j
      BY <3>3
    <3>. QED  BY <3>2, <3>3, <3>4, <3>5
  <2>. QED  BY <2>1, <2>2
<1>7. Tailed(q, n, w + 1)
  BY <1>4, <1>5, <1>6 DEF Tailed
<1>. QED  BY <1>1, <1>7

LEMMA TailedWindow ==
  ASSUME NEW q \in Seq(Item), NEW n \in Nat \ {0}, Tailed(q, n, 5), q # <<>>
  PROVE  Window(q, n)
<1>1. Len(q) \in Nat \ {0}
  BY EmptySeq, LenProperties
<1>2. \A j \in 0 .. 3 : j < Len(q) => q[Len(q) - j].val = 5 - j
  <2>1. 5 - 2 = 3
    OBVIOUS
  <2>. QED  BY <2>1 DEF Tailed
<1>3. q[Len(q)].val = 5
  <2>1. 0 \in 0 .. 3 /\ 0 < Len(q) /\ Len(q) - 0 = Len(q) /\ 5 - 0 = 5
    BY <1>1
  <2>. QED  BY <1>2, <2>1
<1>4. Len(q) >= 3 => q[Len(q) - 1].val = 4 /\ q[Len(q) - 2].val = 3
  <2>. SUFFICES ASSUME Len(q) >= 3 PROVE q[Len(q) - 1].val = 4 /\ q[Len(q) - 2].val = 3
    OBVIOUS
  <2>1. 1 \in 0 .. 3 /\ 1 < Len(q) /\ 5 - 1 = 4 /\ 2 \in 0 .. 3 /\ 2 < Len(q) /\ 5 - 2 = 3
    BY <1>1
  <2>. QED  BY <1>2, <2>1
<1>4a. n >= 3 => Len(q) >= 3
  <2>1. AtMost(5 - 1, n) <= Len(q) /\ 5 - 1 = 4
    BY DEF Tailed
  <2>. QED  BY <1>1, <2>1 DEF AtMost
<1>5. CASE Len(q) >= 3
  BY <1>3, <1>4, <1>5 DEF Window
<1>6. CASE ~ (Len(q) >= 3)
  <2>1. PICK l \in Nat \ {0} : l = Len(q) /\ ~ (l >= 3)
    BY <1>1, <1>6
  <2>2. l = 1 \/ l = 2
    BY <2>1
  <2>. QED  BY <1>3, <1>4a, <2>1, <2>2 DEF Window
<1>. QED  BY <1>5, <1>6

(* While publishing is off nothing is published, and nothing is under way.  *)
LEMMA OffIsQuiet ==
  ASSUME Base, Clean, Silent, OnTrack, cmd = "publishing", Past \in 6 .. 16
  PROVE  /\ ~ srv.publishing
         /\ pc <= 17 /\ pc >= 6
         /\ store = <<>>
         /\ \A k \in DOMAIN toClient : toClient[k].id # 0
<1>1. pc \in Nat /\ Past <= pc /\ pc \in 6 .. 17 /\ ~ dead /\ AllGood
  <2>1. pc \in Nat /\ ~ dead /\ AllGood
    BY NumbersHere DEF Numbers, OnTrack
  <2>. QED  BY <2>1 DEF Past
<1>2. status[4] = "Good"
  <2>1. 4 \in DOMAIN status /\ Program[4].op = "call"
    <3>1. 4 \in 1 .. 19 /\ 4 \in 1 .. 20 /\ 4 \in {1, 2, 4, 6, 8, 10, 12, 14, 17, 19}
      OBVIOUS
    <3>2. Program[4].op = "call" /\ Len(Program) = 20
      BY <3>1, PublishingSteps DEF Base
    <3>. QED  BY <3>1, <3>2, NumbersHere DEF Numbers
  <2>. QED  BY <1>1, <2>1 DEF Clean
<1>3. \A k \in DOMAIN toClient : toClient[k].id # 17
  <2>. SUFFICES ASSUME NEW k \in DOMAIN toClient, toClient[k].id = 17 PROVE FALSE
    OBVIOUS
  <2>1. toClient[k].id <= pc
    BY DEF Base, Ordered, Answers
  <2>2. pc = 17
    BY <1>1, <2>1
  <2>. QED  BY <2>2 DEF Past
<1>4. ~ Over
  BY <1>1, <1>3 DEF Over, OnAt
<1>6. ~ srv.publishing
  BY <1>1, <1>2, <1>4 DEF Silent, StaysOff, TurnedOff, OffAt
<1>7. store = <<>> /\ \A k \in DOMAIN toClient : toClient[k].id # 0
  BY <1>1, <1>2, <1>4 DEF Silent, NoneArrives, OffAt
<1>. QED  BY <1>1, <1>6, <1>7

LEMMA LocalPublishes ==
  ASSUME Base, Base', OnTrack, OnTrack', cmd = "publishing", Publishes, Local PROVE Publishes'
<1>1. UNCHANGED <<srv, toClient>> /\ pc \in Nat /\ pc <= 19
  BY NumbersHere, PublishingSteps DEF Local, Numbers, OnTrack, Base
<1>2. CASE UNCHANGED <<store>> /\ Past' = Past
  <2>1. Windowed => Windowed'
    BY <1>1, <1>2 DEF Windowed, NoItems
  <2>. QED  BY <1>1, <1>2, <2>1 DEF Publishes
<1>3. CASE /\ pc > 0 /\ Past = pc - 1 /\ Past' = pc
           /\ Program[pc].op # "call"
           /\ store' = IF Program[pc].op = "reset" THEN <<>> ELSE store
  <2>1. pc \in 1 .. 19
    BY <1>1, <1>3
  <2>2. /\ Program[pc].op = "call" <=> pc \in {1, 2, 4, 6, 8, 10, 12, 14, 17, 19}
        /\ Program[pc].op = "reset" <=> pc = 5
    BY <2>1, PublishingSteps DEF Base
  <2>3. pc \in {3, 5, 7, 9, 11, 13, 15, 16, 18}
    BY <1>3, <2>1, <2>2
  <2>4. ~ (Past' < 2) /\ (Past' \in 2 .. 18 => srv'.item)
    BY <1>1, <1>3, <2>3 DEF Publishes
  <2>5. pc >= 6 => Past \in 6 .. 18 /\ Written(Past) = Written(pc) /\ (pc <= 16 => Past \in 6 .. 16)
    BY <1>3, <2>3, WrittenIs
  <2>6. Past' \in 6 .. 18 => srv'.value = Written(Past') /\ srv'.last = Written(Past')
    BY <1>1, <1>3, <2>5 DEF Publishes
  <2>7. Past' \in 6 .. 16 => Tailed(srv'.queue, srv'.size, Written(Past'))
    BY <1>1, <1>3, <2>5 DEF Publishes
  <2>8. Past' >= 17 => Windowed'
    <3>. SUFFICES ASSUME Past' >= 17 PROVE Windowed'
      OBVIOUS
    <3>1. pc = 18 /\ Past >= 17 /\ store' = store
      BY <1>3, <2>2, <2>3
    <3>. QED  BY <1>1, <3>1 DEF Publishes, Windowed, NoItems
  <2>9. srv'.mode = Reporting /\ Len(srv'.queue) <= srv'.size
    BY <1>1 DEF Publishes
  <2>. QED  BY <1>3, <2>4, <2>6, <2>7, <2>8, <2>9 DEF Publishes
<1>. QED  BY <1>2, <1>3 DEF Local

LEMMA PublishedPublishes ==
  ASSUME Base, Base', Clean, Silent, OnTrack, cmd = "publishing", Publishes, Published
  PROVE  Publishes'
<1>1. /\ srv'.queue = <<>> /\ srv.queue \in Seq(Item) /\ srv'.item = srv.item
      /\ srv'.mode = srv.mode /\ srv'.value = srv.value /\ srv'.last = srv.last
      /\ srv'.size = srv.size /\ srv.size \in Nat \ {0} /\ srv.publishing
      /\ UNCHANGED <<pc, store>> /\ Past' = Past /\ srv.queue # <<>>
  BY DEF Published, Base, TypeOK, ServerType
<1>2. PICK m \in Message :
         m = [id |-> 0, good |-> TRUE, items |-> srv.queue] /\ toClient' = Append(toClient, m)
  BY <1>1 DEF Published, Message
<1>3. m.items = srv.queue /\ toClient \in Seq(Message)
  BY <1>2 DEF Base, TypeOK
<1>4. Past \notin 6 .. 16
  BY <1>1, OffIsQuiet
<1>5. Len(srv'.queue) <= srv'.size
  <2>1. Len(srv'.queue) = 0
    BY <1>1
  <2>. QED  BY <1>1, <2>1
<1>6. Past >= 17 => Windowed'
  <2>. SUFFICES ASSUME Past >= 17 PROVE Windowed'
    OBVIOUS
  <2>1. Window(srv.queue, srv.size) /\ store = <<>> /\ NoItems
    BY <1>1 DEF Publishes, Windowed
  <2>2. \A k \in DOMAIN toClient' : toClient'[k].items # <<>> =>
           k = Len(toClient) + 1 /\ toClient'[k].items = srv.queue
    BY <1>2, <1>3, <2>1, Appended DEF NoItems
  <2>. QED  BY <1>1, <2>1, <2>2 DEF Windowed
<1>. QED  BY <1>1, <1>4, <1>5, <1>6 DEF Publishes

LEMMA ReceivedPublishes ==
  ASSUME Base, Base', OnTrack, Accounted, cmd = "publishing", MaxNotifications >= 20, Publishes,
         AnswerCame \/ Arrived
  PROVE  Publishes'
<1>1. /\ UNCHANGED srv /\ Past' = Past
      /\ toClient # <<>> /\ toClient' = Tail(toClient) /\ toClient \in Seq(Message)
      /\ store \in Seq(Item)
  BY DEF Arrived, AnswerCame, Base, TypeOK
<1>2. /\ 1 \in DOMAIN toClient /\ toClient[1].items \in Seq(Item)
      /\ \A k \in DOMAIN toClient' : k \in Nat \ {0} /\ k + 1 \in DOMAIN toClient
                                     /\ toClient'[k] = toClient[k + 1]
  BY <1>1, Shortened
<1>3. PICK items \in Seq(Item) : items = toClient[1].items
  BY <1>2
<1>4. store' = store \/ store' = store \o items
  <2>1. AnswerCame => store' = store
    BY DEF AnswerCame
  <2>. QED  BY <1>3, <2>1, ArrivesWhole
<1>5. Past >= 17 => Windowed'
  <2>. SUFFICES ASSUME Windowed PROVE Windowed'
    BY DEF Publishes
  <2>1. \A k \in DOMAIN toClient' : toClient'[k].items # <<>> =>
           /\ Window(toClient'[k].items, srv.size) /\ store = <<>> /\ items = <<>>
           /\ \A j \in DOMAIN toClient' : j # k => toClient'[j].items = <<>>
    <3>. SUFFICES ASSUME NEW k \in DOMAIN toClient', toClient'[k].items # <<>>
                  PROVE  /\ Window(toClient'[k].items, srv.size) /\ store = <<>> /\ items = <<>>
                         /\ \A j \in DOMAIN toClient' : j # k => toClient'[j].items = <<>>
      OBVIOUS
    <3>1. k + 1 \in DOMAIN toClient /\ toClient'[k] = toClient[k + 1] /\ k + 1 # 1 /\ k \in Nat
      BY <1>2
    <3>2. ASSUME NEW j \in DOMAIN toClient', j # k PROVE toClient'[j].items = <<>>
      <4>1. j + 1 \in DOMAIN toClient /\ toClient'[j] = toClient[j + 1] /\ j + 1 # k + 1
        BY <1>2, <3>1, <3>2
      <4>. QED  BY <3>1, <4>1 DEF Windowed
    <3>. QED  BY <1>2, <1>3, <3>1, <3>2 DEF Windowed
  <2>2. NoItems => items = <<>> /\ NoItems'
    BY <1>2, <1>3 DEF NoItems
  <2>3. CASE items = <<>>
    <3>1. store' = store
      BY <1>1, <1>4, <2>3, Joined
    <3>. QED  BY <1>1, <2>1, <2>2, <3>1 DEF Windowed
  <2>4. CASE items # <<>>
    <3>1. Window(items, srv.size) /\ store = <<>> /\ srv.queue = <<>>
      BY <1>2, <1>3, <2>2, <2>4 DEF Windowed
    <3>2. store' = <<>> \/ store' = items
      BY <1>4, <3>1, ConcatEmptySeq
    <3>3. \A k \in DOMAIN toClient' : toClient'[k].items = <<>>
      BY <2>1, <2>4
    <3>. QED  BY <1>1, <3>1, <3>2, <3>3 DEF Windowed
  <2>. QED  BY <2>3, <2>4
<1>. QED  BY <1>1, <1>5 DEF Publishes

LEMMA OvertakenPublishes ==
  ASSUME Base, OnTrack, cmd = "publishing", Publishes, Overtaken PROVE Publishes'
<1>1. UNCHANGED <<srv, store>> /\ Past' = Past
  BY DEF Overtaken
<1>2. PICK i \in Nat \ {0} : Swapped(toClient, toClient', i)
  BY DEF Overtaken
<1>3. /\ i \in DOMAIN toClient /\ i + 1 \in DOMAIN toClient /\ DOMAIN toClient' = DOMAIN toClient
      /\ toClient'[i] = toClient[i + 1] /\ toClient'[i + 1] = toClient[i] /\ i # i + 1
      /\ \A k \in DOMAIN toClient : k # i /\ k # i + 1 => toClient'[k] = toClient[k]
  BY <1>2 DEF Swapped
<1>4. ASSUME Windowed PROVE Windowed'
  <2>1. NoItems => NoItems'
    BY <1>3 DEF NoItems
  <2>2. ASSUME NEW k \in DOMAIN toClient', toClient'[k].items # <<>>
        PROVE  /\ Window(toClient'[k].items, srv.size) /\ store = <<>>
               /\ \A j \in DOMAIN toClient' : j # k => toClient'[j].items = <<>>
    <3>1. PICK m \in DOMAIN toClient :
             /\ toClient'[k] = toClient[m]
             /\ \A j \in DOMAIN toClient' : j # k =>
                   \E l \in DOMAIN toClient : l # m /\ toClient'[j] = toClient[l]
      <4>1. CASE k = i
        <5>1. \A j \in DOMAIN toClient' : j # k =>
                 \E l \in DOMAIN toClient : l # i + 1 /\ toClient'[j] = toClient[l]
          BY <1>3, <4>1
        <5>. QED  BY <1>3, <4>1, <5>1
      <4>2. CASE k = i + 1
        <5>1. \A j \in DOMAIN toClient' : j # k =>
                 \E l \in DOMAIN toClient : l # i /\ toClient'[j] = toClient[l]
          BY <1>3, <4>2
        <5>. QED  BY <1>3, <4>2, <5>1
      <4>3. CASE k # i /\ k # i + 1
        <5>1. \A j \in DOMAIN toClient' : j # k =>
                 \E l \in DOMAIN toClient : l # k /\ toClient'[j] = toClient[l]
          BY <1>3, <4>3
        <5>. QED  BY <1>3, <4>3, <5>1
      <4>. QED  BY <4>1, <4>2, <4>3
    <3>2. /\ Window(toClient[m].items, srv.size) /\ store = <<>>
          /\ \A l \in DOMAIN toClient : l # m => toClient[l].items = <<>>
      BY <1>4, <2>2, <3>1 DEF Windowed
    <3>. QED  BY <3>1, <3>2
  <2>. QED  BY <1>1, <1>4, <2>1, <2>2 DEF Windowed
<1>. QED  BY <1>1, <1>4 DEF Publishes

LEMMA CarriedPublishes ==
  ASSUME Base, Base', Clean, Silent, OnTrack, Accounted, cmd = "publishing", Publishes, Carried
  PROVE  Publishes'
<1>1. PICK s \in ServerType, size \in Nat \ {0} : Sampled(s) /\ EffectOf(s, Program[pc], size)
  BY CarriedIs
<1>2. /\ UNCHANGED <<pc, store>> /\ Past = pc - 1 /\ Past' = pc
      /\ pc \in {1, 2, 4, 6, 8, 10, 12, 14, 17, 19}
      /\ \A k \in DOMAIN toClient : toClient[k].id = 0
  <2>1. pc \in 1 .. 19 /\ Program[pc].op = "call"
    <3>1. pc \in Nat /\ pc > 0 /\ pc <= DeleteAt /\ DeleteAt = 19
      BY NumbersHere, PublishingSteps DEF Carried, Base, Numbers, OnTrack
    <3>2. Program[pc].op = "call"
      BY DEF Carried
    <3>3. pc \in 1 .. 19
      BY <3>1
    <3>. QED  BY <3>2, <3>3
  <2>2. Program[pc].op = "call" <=> pc \in {1, 2, 4, 6, 8, 10, 12, 14, 17, 19}
    BY <2>1, PublishingSteps DEF Base
  <2>. QED  BY <2>1, <2>2 DEF Carried
<1>3. /\ Program[1].kind = "create" /\ Program[2].kind = "monitor"
      /\ Program[4].kind = "publish" /\ Program[17].kind = "publish"
      /\ \A i \in {6, 8, 10, 12, 14} : Program[i].kind = "write" /\ Program[i].val = Written(i)
      /\ Program[19].kind = "deleteSub"
  BY PublishingSteps, WrittenIs DEF Base
<1>4. /\ s.oldest /\ Sampled(s) /\ s.size \in Nat \ {0} /\ s.queue \in Seq(Item)
      /\ Len(s.queue) \in Nat
      /\ s.mode = IF Program[pc].kind = "mode" THEN Program[pc].val ELSE srv.mode
      /\ s.value = IF Program[pc].kind = "write" THEN Program[pc].val ELSE srv.value
      /\ s.size = IF Program[pc].kind = "monitor" THEN size ELSE srv.size
      /\ s.item = IF Program[pc].kind = "monitor" THEN TRUE
                  ELSE IF Program[pc].kind \in {"deleteItem", "deleteSub"} THEN FALSE
                  ELSE srv.item
      /\ Program[pc].kind \notin {"mode", "deleteItem", "deleteSub"} => s.queue = srv.queue
      /\ Program[pc].kind = "deleteSub" => s.queue = <<>>
      /\ Program[pc].kind \notin {"mode", "monitor"} => s.last = srv.last
  BY <1>1, LenProperties DEF EffectOf, Accounted, ServerType
<1>5. /\ srv'.item = s.item /\ srv'.mode = s.mode /\ srv'.value = s.value /\ srv'.size = s.size
  BY <1>4 DEF Sampled
<1>6. srv'.mode = Reporting /\ s.mode # Disabled
  <2>1. Program[pc].kind # "mode"
    BY <1>2, <1>3
  <2>. QED  BY <1>4, <1>5, <2>1 DEF Publishes, Reporting, Disabled
<1>7. Len(s.queue) <= s.size
  <2>1. CASE pc = 2
    <3>1. s.queue = <<>>
      BY <1>2, <1>3, <1>4, <2>1 DEF Publishes
    <3>2. Len(s.queue) = 0
      BY <3>1
    <3>. QED  BY <1>4, <3>2
  <2>2. CASE pc = 19
    <3>1. s.queue = <<>>
      BY <1>3, <1>4, <2>2
    <3>2. Len(s.queue) = 0
      BY <3>1
    <3>. QED  BY <1>4, <3>2
  <2>3. CASE pc \notin {2, 19}
    <3>1. Program[pc].kind \in {"create", "publish", "write"}
      BY <1>2, <1>3, <2>3
    <3>2. s.queue = srv.queue /\ s.size = srv.size
      BY <1>4, <3>1
    <3>. QED  BY <3>2 DEF Publishes
  <2>. QED  BY <2>1, <2>2, <2>3
<1>8. Len(srv'.queue) <= srv'.size
  <2>1. CASE Sampleable(s)
    <3>1. srv'.queue = Enqueue(s) /\ srv'.size = s.size
      BY <1>4, <2>1 DEF Sampled
    <3>2. PICK n \in Nat : n = Len(Enqueue(s))
                  /\ n = IF Len(s.queue) < s.size THEN Len(s.queue) + 1
                         ELSE IF s.size = 1 THEN 1 ELSE Len(s.queue)
      BY <1>4, EnqueueIs
    <3>3. n <= s.size
      BY <1>4, <1>7, <3>2
    <3>. QED  BY <3>1, <3>2, <3>3
  <2>2. CASE ~ Sampleable(s)
    BY <1>4, <1>7, <2>2 DEF Sampled
  <2>. QED  BY <2>1, <2>2
<1>9. Past' < 2 => ~ srv'.item /\ srv'.queue = <<>>
  <2>. SUFFICES ASSUME pc = 1 PROVE ~ srv'.item /\ srv'.queue = <<>>
    BY <1>2
  <2>1. ~ s.item /\ s.queue = <<>>
    BY <1>2, <1>3, <1>4 DEF Publishes
  <2>. QED  BY <1>4, <1>5, <2>1 DEF Sampled, Sampleable
<1>10. Past' \in 2 .. 18 => srv'.item
  <2>1. CASE pc = 2
    BY <1>3, <1>4, <1>5, <2>1
  <2>2. CASE pc \in {4, 6, 8, 10, 12, 14, 17}
    <3>1. Program[pc].kind \in {"publish", "write"} /\ srv.item
      BY <1>2, <1>3, <2>2 DEF Publishes
    <3>. QED  BY <1>4, <1>5, <3>1
  <2>. QED  BY <1>2, <2>1, <2>2
<1>11. ASSUME pc \in {6, 8, 10, 12, 14}
       PROVE  /\ srv'.value = Written(pc) /\ srv'.last = Written(pc)
              /\ Tailed(srv'.queue, srv'.size, Written(pc))
  <2>1. s.value = Written(pc) /\ s.item /\ s.queue = srv.queue /\ s.size = srv.size
        /\ s.last = srv.last
    <3>1. Program[pc].kind = "write" /\ Program[pc].val = Written(pc) /\ srv.item
      BY <1>2, <1>3, <1>11 DEF Publishes
    <3>. QED  BY <1>4, <3>1
  <2>2. srv'.value = Written(pc) /\ srv'.last = Written(pc)
    BY <1>4, <1>6, <2>1 DEF Sampled, Sampleable
  <2>3. CASE pc = 6
    <3>1. Written(pc) = 1
      BY <2>3, WrittenIs
    <3>2. Tailed(srv'.queue, srv'.size, 1)
      <4>1. Len(srv'.queue) \in Nat /\ srv'.size \in Nat \ {0}
        BY LenProperties DEF Base, TypeOK, ServerType
      <4>2. AtMost(1 - 1, srv'.size) = 0
        BY <4>1 DEF AtMost
      <4>3. 0 .. (1 - 2) = {}
        OBVIOUS
      <4>. QED  BY <1>8, <4>1, <4>2, <4>3 DEF Tailed
    <3>. QED  BY <2>2, <3>1, <3>2
  <2>4. CASE pc # 6
    <3>1. Past \in 6 .. 18 /\ Past \in 6 .. 16
      BY <1>2, <1>11, <2>4
    <3>2. Written(Past) \in Nat \ {0} /\ Written(pc) = Written(Past) + 1
      BY <1>2, <1>11, <2>4, WrittenIs
    <3>3. srv.last = Written(Past) /\ Tailed(srv.queue, srv.size, Written(Past))
      BY <3>1 DEF Publishes
    <3>4. Sampleable(s)
      BY <1>6, <2>1, <3>2, <3>3 DEF Sampleable
    <3>5. Tailed(Enqueue(s), s.size, Written(Past) + 1)
      BY <1>4, <2>1, <3>2, <3>3, TailedEnqueue
    <3>6. srv'.queue = Enqueue(s) /\ srv'.size = s.size
      BY <1>4, <3>4 DEF Sampled
    <3>. QED  BY <2>2, <3>2, <3>5, <3>6
  <2>. QED  BY <2>3, <2>4
<1>12. PICK m \in Message :
          m = [id |-> pc, good |-> TRUE, items |-> <<>>] /\ toClient' = Append(toClient, m)
  <2>1. pc \in Nat /\ <<>> \in Seq(Item)
    BY <1>2, EmptySeq
  <2>. QED  BY <2>1 DEF Carried, Message
<1>13. m.items = <<>> /\ toClient \in Seq(Message)
  BY <1>12 DEF Base, TypeOK
<1>14. ASSUME pc = 17
       PROVE  Windowed' /\ srv'.value = Written(17) /\ srv'.last = Written(17)
  <2>1. Past = 16 /\ Past \in 6 .. 16 /\ Past \in 6 .. 18 /\ Written(16) = 5 /\ Written(17) = 5
    BY <1>2, <1>14, WrittenIs
  <2>2. srv.value = 5 /\ srv.last = 5 /\ Tailed(srv.queue, srv.size, 5)
    BY <2>1 DEF Publishes
  <2>3. s.queue = srv.queue /\ s.value = 5 /\ s.last = 5 /\ s.size = srv.size
    BY <1>3, <1>4, <1>14, <2>2
  <2>4. srv'.queue = srv.queue /\ srv'.value = 5 /\ srv'.last = 5 /\ srv'.size = srv.size
    BY <1>4, <2>3 DEF Sampled, Sampleable
  <2>5. store = <<>> /\ DOMAIN toClient = {}
    BY <1>2, <2>1, OffIsQuiet
  <2>6. \A k \in DOMAIN toClient' : toClient'[k].items = <<>>
    BY <1>12, <1>13, <2>5, Appended
  <2>7. srv.queue # <<>> => Window(srv.queue, srv.size)
    <3>1. srv.queue \in Seq(Item) /\ srv.size \in Nat \ {0}
      BY DEF Base, TypeOK, ServerType
    <3>. QED  BY <2>2, <3>1, TailedWindow
  <2>8. Windowed'
    BY <1>2, <2>4, <2>5, <2>6, <2>7 DEF Windowed, NoItems
  <2>. QED  BY <2>1, <2>4, <2>8
<1>15. ASSUME pc = 19 PROVE Windowed'
  <2>1. Windowed
    BY <1>2, <1>15 DEF Publishes
  <2>2. srv'.queue = <<>> /\ srv'.size = srv.size
    <3>1. s.queue = <<>> /\ ~ s.item /\ s.size = srv.size
      BY <1>3, <1>4, <1>15
    <3>. QED  BY <1>4, <3>1 DEF Sampled, Sampleable
  <2>3. \A k \in DOMAIN toClient' :
           (k \in DOMAIN toClient /\ toClient'[k] = toClient[k]) \/ toClient'[k].items = <<>>
    BY <1>12, <1>13, Appended
  <2>. QED  BY <1>2, <2>1, <2>2, <2>3 DEF Windowed
<1>16. Past' \in 6 .. 18 => srv'.value = Written(Past') /\ srv'.last = Written(Past')
  BY <1>2, <1>11, <1>14
<1>17. Past' \in 6 .. 16 => Tailed(srv'.queue, srv'.size, Written(Past'))
  BY <1>2, <1>11
<1>18. Past' >= 17 => Windowed'
  BY <1>2, <1>14, <1>15
<1>. QED  BY <1>6, <1>8, <1>9, <1>10, <1>16, <1>17, <1>18 DEF Publishes

LEMMA WindowIsOk ==
  ASSUME printed \in Seq(Item), NEW size, Window(printed, size)
  PROVE  WindowOk /\ (size >= 3 => FinalWindow)
<1>1. PICK n \in Nat : n = Len(printed) /\ DOMAIN printed = 1 .. n
  BY LenProperties
<1>2. CASE n >= 3 /\ printed[n - 2].val = 3 /\ printed[n - 1].val = 4 /\ printed[n].val = 5
  <2>1. PICK v : v = Values(printed)
    OBVIOUS
  <2>2. \A i \in 1 .. n : printed[i].val \in Int
    <3>1. \A i \in 1 .. n : printed[i] \in Item
      BY <1>1, ElementOfSeq
    <3>. QED  BY <3>1 DEF Item
  <2>3. v = [i \in 1 .. n |-> printed[i].val]
    BY <1>1, <2>1 DEF Values
  <2>4. v \in Seq(Int) /\ Len(v) = n
    BY <2>2, <2>3
  <2>5. n - 2 \in 1 .. n /\ n - 1 \in 1 .. n /\ n \in 1 .. n
    BY <1>2
  <2>6. v[n - 2] = 3 /\ v[n - 1] = 4 /\ v[n] = 5
    BY <1>2, <2>3, <2>5
  <2>7. SubSeq(v, n - 2, n) = <<3, 4, 5>>
    <3>1. PICK f : f = SubSeq(v, n - 2, n)
      OBVIOUS
    <3>2. f \in Seq(Int) /\ Len(f) = 3 /\ f[1] = 3 /\ f[2] = 4 /\ f[3] = 5
      BY <1>2, <2>4, <2>5, <2>6, <3>1
    <3>3. f \in [1 .. 3 -> Int]
      BY <3>2, LenProperties
    <3>4. \A i \in 1 .. 3 : f[i] = <<3, 4, 5>>[i]
      BY <3>2
    <3>5. <<3, 4, 5>> \in [1 .. 3 -> Int]
      OBVIOUS
    <3>6. f = <<3, 4, 5>>
      BY <3>3, <3>4, <3>5
    <3>. QED  BY <3>1, <3>6
  <2>. QED  BY <1>1, <1>2, <2>1, <2>7 DEF WindowOk, FinalWindow
<1>3. CASE n \in {1, 2} /\ printed[n].val = 5
  <2>1. ~ (size >= 3)
    BY <1>1, <1>3 DEF Window
  <2>. QED  BY <1>1, <1>3, <2>1 DEF WindowOk
<1>. QED  BY <1>1, <1>2, <1>3 DEF Window

(* Once the monitored item is there its queue keeps its size.               *)
LEMMA SizeKept ==
  ASSUME Base, Clean, AllGood, cmd = "publishing", pc > 19, [Next]_vars
  PROVE  srv'.size = srv.size
<1>1. /\ Len(Program) = 20 /\ Program[2].op = "call" /\ Scenario
      /\ \A i \in 1 .. Len(Program) : i # 2 => Program[i].kind # "monitor"
  <2>1. Program = slc_publishing_mode
    BY DEF Program
  <2>. QED  BY <2>1 DEF slc_publishing_mode, Create, Wait, Pause, Monitor, Reset, Report, Write,
                        DeleteSub, Call, Step, Scenario
<1>2. status[2] = "Good" /\ 2 \in DOMAIN status
  <2>1. DOMAIN status = 1 .. 20 /\ pc \in Nat
    BY <1>1, NumbersHere DEF Numbers
  <2>2. 2 \in DOMAIN status /\ 2 < pc
    BY <2>1
  <2>. QED  BY <1>1, <2>2 DEF Clean
<1>3. srv \in ServerType
  BY DEF Base, TypeOK
<1>4. CASE Handle
  <2>1. PICK good \in BOOLEAN, size \in Nat \ {0}, s \in ServerType :
           /\ good = Accepts(Head(toServer).req)
           /\ s = (IF good THEN Effect(Head(toServer).req, size) ELSE srv)
           /\ ServerBecomes(s, ~srv.throttled)
    BY <1>4, HandleIs
  <2>2. /\ Head(toServer).req \in StepType /\ Head(toServer).req.kind \in Called
        /\ Head(toServer).req.kind # "monitor"
    <3>1. toServer # <<>> /\ toServer \in Seq(Request)
      BY <1>4 DEF Handle, Base, TypeOK
    <3>2. 1 \in DOMAIN toServer /\ Head(toServer) = toServer[1]
      BY <3>1, TailFacts
    <3>3. PICK i \in 1 .. Len(Program) :
             Head(toServer).req = Program[i] /\ Program[i].op = "call" /\ i = toServer[1].id
      BY <3>2 DEF Base, Ordered, Requests
    <3>4. i > 2
      BY <1>2, <3>2, <3>3 DEF Base, Ordered, GoodIsOver
    <3>5. Head(toServer).req.kind # "monitor"
      <4>1. i # 2
        BY <3>4
      <4>. QED  BY <1>1, <3>3, <4>1
    <3>6. Head(toServer).req \in StepType /\ Head(toServer).req.kind \in Called
      BY <1>1, <3>3, ScenarioProgram, ElementOfSeq DEF Base
    <3>. QED  BY <3>5, <3>6
  <2>3. s.size = srv.size
    BY <1>3, <2>1, <2>2, EffectIs DEF EffectOf
  <2>4. CASE ~ srv.throttled /\ Sampleable(s)
    BY <2>1, <2>3, <2>4 DEF ServerBecomes, ServerType
  <2>5. CASE ~ (~ srv.throttled /\ Sampleable(s))
    BY <2>1, <2>3, <2>5 DEF ServerBecomes
  <2>. QED  BY <2>4, <2>5
<1>5. CASE Sample
  BY <1>3, <1>5 DEF Sample, ServerBecomes, ServerType
<1>6. ~ Change
  BY DEF Change, Collecting
<1>7. CASE Publish
  BY <1>3, <1>7 DEF Publish, ServerType
<1>8. CASE ClientStep \/ Refuse \/ Overtake \/ Die \/ UNCHANGED vars
  <2>1. UNCHANGED srv
    BY <1>8 DEF ClientStep, Connect, StepCall, Receive, Fault, WaitDone, TimeUp,
                StepLocal, Finish, Refuse, Overtake, Die, vars, server
  <2>. QED  BY <2>1
<1>. QED  BY <1>4, <1>5, <1>6, <1>7, <1>8 DEF Next, ServerStep

LEMMA NextPublishing ==
  ASSUME Base, Base', Clean, Clean', Deleting, Silent, Accounted, Publishing, [Next]_vars,
         MaxNotifications >= 20
  PROVE  Publishing'
<1>. SUFFICES ASSUME cmd' = "publishing"
              PROVE  /\ ~ timedOut'
                     /\ OnTrack' => Publishes'
                     /\ (AllGood /\ ~ srv.throttled /\ pc > 19 => Ends)'
  BY DEF Publishing
<1>1. cmd = "publishing" /\ Scenario /\ ~ Collecting
  <2>1. cmd' = cmd
    BY DEF Next, ClientStep, ServerStep, Connect, StepCall, Receive, Fault, WaitDone, TimeUp,
           StepLocal, Finish, Handle, Refuse, Sample, Change, Publish, Overtake, Die, vars, fixed
  <2>. QED  BY <2>1 DEF Scenario, Collecting
<1>2. UNCHANGED fixed /\ srv'.throttled = srv.throttled /\ Program' = Program
  BY <1>1, Steady
<1>3. ~ timedOut'
  <2>1. ~ timedOut
    BY <1>1 DEF Publishing
  <2>2. CASE TimeUp
    BY <1>1, <2>2 DEF TimeUp
  <2>3. CASE ~ TimeUp
    <3>1. timedOut' = timedOut
      BY <2>3 DEF Next, ClientStep, ServerStep, Connect, StepCall, Receive, Fault, WaitDone,
                  StepLocal, Finish, Handle, Refuse, Sample, Change, Publish, Overtake, Die,
                  vars, client
    <3>. QED  BY <2>1, <3>1
  <2>. QED  BY <2>2, <2>3
<1>4. OnTrack' => Publishes'
  <2>. SUFFICES ASSUME OnTrack' PROVE Publishes'
    OBVIOUS
  <2>1. OnTrack /\ (Local \/ Carried \/ Published \/ Overtaken \/ AnswerCame \/ Arrived)
    BY Moves
  <2>2. Publishes
    BY <1>1, <2>1 DEF Publishing
  <2>. QED  BY <1>1, <2>1, <2>2, LocalPublishes, CarriedPublishes, PublishedPublishes,
               OvertakenPublishes, ReceivedPublishes
<1>5. ASSUME AllGood', ~ srv'.throttled, pc' > 19 PROVE Ends'
  <2>0. pc \in Nat /\ DeleteAt = 19 /\ Len(Program) = 20
    BY <1>1, PublishingSteps, NumbersHere DEF Base, Numbers
  <2>1. CASE pc > 19
    <3>1. /\ UNCHANGED <<store, marks, status, timedOut>>
          /\ \/ UNCHANGED <<pc, printed, exit>>
             \/ UNCHANGED <<pc, printed>> /\ exit' = ExitCode /\ pc > Len(Program)
             \/ /\ UNCHANGED exit /\ exit = NoExit /\ pc = Len(Program) /\ pc' = pc + 1
                /\ printed' = store
      BY <1>1, <2>0, <2>1, Ended
    <3>2. AllGood /\ ~ srv.throttled
      BY <1>2, <1>5, <3>1 DEF AllGood
    <3>3. Ends
      BY <1>1, <2>1, <3>2 DEF Publishing
    <3>3a. srv'.size = srv.size
      BY <1>1, <2>0, <2>1, <3>2, SizeKept
    <3>4. CASE UNCHANGED <<pc, printed, exit>>
      BY <3>1, <3>3, <3>3a, <3>4 DEF Ends
    <3>5. CASE UNCHANGED <<pc, printed>> /\ exit' = ExitCode /\ pc > Len(Program)
      <4>1. pc = 21
        <5>1. pc \in 0 .. 21
          BY <2>0 DEF Base, TypeOK
        <5>. QED  BY <2>0, <3>5, <5>1
      <4>2. printed # <<>> => ExitCode = 0
        <5>. SUFFICES ASSUME printed # <<>> PROVE ExitCode = 0
          OBVIOUS
        <5>1. printed = store /\ Window(printed, srv.size)
          BY <3>3, <4>1 DEF Ends
        <5>2. WindowOk
          BY <5>1, WindowIsOk DEF Base, TypeOK
        <5>3. Monitored
          <6>1. 2 \in DOMAIN status /\ status[2] = "Good" /\ Program[2] = Monitor
            <7>1. Program[2].op = "call" /\ Program[2] = Monitor
              BY <1>1, PublishingSteps DEF Base
            <7>2. DOMAIN status = 1 .. 20
              BY <2>0, NumbersHere DEF Numbers
            <7>. QED  BY <3>2, <4>1, <7>1, <7>2 DEF Clean
          <6>2. Len(status) = 20
            <7>1. status \in [1 .. 20 -> {"none", "Good", "Bad"}]
              BY <2>0 DEF Base, TypeOK
            <7>. QED  BY <7>1
          <6>. QED  BY <6>1, <6>2 DEF Monitored
        <5>4. ~ timedOut /\ Verdict
          BY <1>1, <5>2 DEF Publishing, Verdict
        <5>. QED  BY <5>3, <5>4 DEF ExitCode
      <4>. QED  BY <3>1, <3>3, <3>3a, <3>5, <4>1, <4>2 DEF Ends
    <3>6. CASE /\ UNCHANGED exit /\ exit = NoExit /\ pc = Len(Program) /\ pc' = pc + 1
               /\ printed' = store
      BY <3>1, <3>3, <3>3a, <3>6 DEF Ends
    <3>. QED  BY <3>1, <3>4, <3>5, <3>6
  <2>2. CASE ~ (pc > 19)
    <3>1. OnTrack /\ AnswerCame
      <4>1. pc <= DeleteAt /\ pc' > DeleteAt
        BY <1>5, <2>0, <2>2
      <4>. QED  BY <1>1, <1>5, <4>1, LastAnswer
    <3>2. pc' = pc + 1 /\ UNCHANGED <<store, srv>> /\ Past = pc
      BY <3>1 DEF AnswerCame
    <3>3. pc = 19 /\ pc' = 20
      BY <1>5, <2>0, <2>2, <3>2
    <3>4. store = <<>> \/ Window(store, srv.size)
      BY <1>1, <3>1, <3>2, <3>3 DEF Publishing, Publishes, Windowed
    <3>. QED  BY <3>2, <3>3, <3>4 DEF Ends
  <2>. QED  BY <2>1, <2>2
<1>. QED  BY <1>3, <1>4, <1>5

LEMMA InitPublishing == ASSUME Init PROVE Publishing
<1>. SUFFICES ASSUME cmd = "publishing" PROVE Publishing
  BY DEF Publishing
<1>1. pc = 0 /\ ~ timedOut
  BY DEF Init
<1>2. srv.queue = <<>> /\ ~ srv.item /\ srv.mode = Reporting /\ srv.size = 1
  BY DEF Init, NoItem
<1>3. Past = 0 /\ Len(srv.queue) <= srv.size
  <2>1. Len(srv.queue) = 0
    BY <1>2
  <2>. QED  BY <1>1, <1>2, <2>1 DEF Past
<1>4. Publishes
  BY <1>2, <1>3 DEF Publishes
<1>. QED  BY <1>1, <1>4 DEF Publishing

(* slc_publishing_mode: against a server that samples every change, whose   *)
(* calls succeed, which grants a queue of three or more and publishes in    *)
(* time, the scenario succeeds on the window [3,4,5]: for every such queue  *)
(* size, every initial value of the node and wherever the values are when   *)
(* publishing is turned off and on. The store has room for a value per step *)
(* (MAX_NOTIFICATIONS is 256).                                              *)
THEOREM WindowIsAccepted ==
  ASSUME MaxNotifications >= 20 PROVE Spec => []WindowVerdict
<1>1. Init => Publishing
  BY InitPublishing
<1>2. Base /\ Base' /\ Deleting /\ Silent /\ Clean /\ Clean' /\ Accounted /\ Publishing
        /\ [Next]_vars => Publishing'
  BY NextPublishing
<1>3. Base /\ Publishing => WindowVerdict
  <2>. SUFFICES ASSUME Base, Publishing, cmd = "publishing", Done, AllGood, ~ srv.throttled,
                       printed # <<>>, srv.size >= 3
                PROVE  exit = 0 /\ FinalWindow
    BY DEF WindowVerdict
  <2>1. pc = 21 /\ pc > 19 /\ exit # NoExit
    <3>1. pc \in 0 .. Len(Program) + 1 /\ Len(Program) = 20 /\ pc > Len(Program) /\ exit # NoExit
      BY PublishingSteps DEF Base, TypeOK, Done
    <3>. QED  BY <3>1
  <2>2. exit = 0 /\ Window(printed, srv.size)
    BY <2>1 DEF Publishing, Ends
  <2>. QED  BY <2>2, WindowIsOk DEF Base, TypeOK
<1>. QED  BY <1>1, <1>2, <1>3, OrderInvariant, AlwaysDeleting, AlwaysSilent, AlwaysAccounted, PTL
          DEF Spec
=============================================================================
