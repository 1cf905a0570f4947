---------------------------- MODULE AlarmsProofs ----------------------------
(***************************************************************************)
(* Proofs about Alarms for any number of conditions, every size of the      *)
(* client's store, every set of command lines and any number of calls by    *)
(* other clients: Alarms.Reset arms a condition from whatever state it is   *)
(* in, the refreshed conditions are complete, and the exit code tells the   *)
(* truth.                                                                   *)
(*                                                                          *)
(* What the server has reported reaches the command in order: the events of *)
(* one condition, first the stored ones and then the ones that are queued,  *)
(* are a stream (Stream). The two results about the client rest on where a  *)
(* refresh and an action stand in it.                                       *)
(***************************************************************************)
EXTENDS Alarms, SequenceTheorems, FiniteSetTheorems, WellFoundedInduction, TLAPS

Acts == {"acknowledge", "confirm", "addComment"}

FieldType ==
    [enabled : BOOLEAN, retain : BOOLEAN, severity : Nat, acked : BOOLEAN,
     confirmed : BOOLEAN, active : BOOLEAN, message : {"stack", "interop-alarm"},
     comment : BOOLEAN]

EventType ==
    [kind : {"condition"}, c : Conds, id : Nat, fields : FieldType,
     by : Acts \cup {"none"}]

MessageType == EventType \cup {Marker("start"), Marker("end")}

StoreType ==
    [evs : Seq(EventType), phase : 0 .. 2, startSeen : BOOLEAN, endSeen : BOOLEAN,
     conds : Seq(Nat)]

ActionType ==
    [called : BOOLEAN, sc : {"none", "Good", "Bad"}, eventId : Nat, event : Nat,
     known : Nat, repeatSc : {"none", "Good", "Bad"}]

Locations ==
    {"parse", "connect", "subscribe", "monitor", "monitored", "refresh", "waitEnd",
     "next", "action", "followUp", "repeat", "report", "done"}

TypeOK ==
    /\ cond \in [Conds -> FieldType]
    /\ last \in [Conds -> EventType]
    /\ reports \in Nat
    /\ others \in Nat
    /\ rearmed \subseteq Conds
    /\ queue \in Seq(MessageType)
    /\ wanted \in CommandLines
    /\ pc \in Locations
    /\ call \in {"none", "sent", "Good", "Bad"}
    /\ st \in StoreType
    /\ act \in [k : 0 .. 4, eventId : Nat, mark : Nat]
    /\ done \in [Acts -> ActionType]
    /\ target \in Nat
    /\ late \in BOOLEAN
    /\ shown \subseteq EventType
    /\ own \in [Acts -> Nat]
    /\ exit \in {NoExit, 0, 2, 3, 4, 6, 7}

(* A condition's last event carries its state.                              *)
LastIsState ==
    \A c \in Conds : /\ last[c].c = c /\ last[c].fields = cond[c]
                     /\ last[c].id <= reports

(* A condition event.                                                       *)
Carries(e) == e.kind = "condition"

(* The events of a condition come to the command in the order of their ids, *)
(* none newer than the condition's last. (Two may be the same: the refresh  *)
(* sends the last event once more.)                                         *)
Stream ==
    /\ \A i \in DOMAIN st.evs : st.evs[i].id <= last[st.evs[i].c].id
    /\ \A j \in DOMAIN queue : Carries(queue[j]) =>
          /\ queue[j].id <= last[queue[j].c].id
          /\ \A i \in DOMAIN st.evs :
                st.evs[i].c = queue[j].c => st.evs[i].id <= queue[j].id
          /\ \A k \in DOMAIN queue : k < j /\ Carries(queue[k]) =>
                (queue[k].c = queue[j].c => queue[k].id <= queue[j].id)

(* cmd_alarms has a target.                                                 *)
Chosen == pc \in {"next", "action", "followUp", "repeat"}

(* ConditionRefresh has been carried out.                                   *)
Served ==
    \/ pc = "refresh" /\ call = "Good"
    \/ pc \in {"waitEnd", "next", "action", "followUp", "repeat"}

(* The refresh has an end, seen or still to come.                           *)
Ends == st.endSeen \/ \E p \in DOMAIN queue : queue[p].kind = "end"

(* Behind the end of the refresh every event is new.                        *)
News ==
    Served /\ Ends => \A j \in DOMAIN queue :
        Carries(queue[j]) /\ (\A p \in DOMAIN queue : p >= j => queue[p].kind # "end") =>
            /\ \A i \in DOMAIN st.evs :
                  st.evs[i].c = queue[j].c => st.evs[i].id < queue[j].id
            /\ \A k \in DOMAIN queue : k < j /\ Carries(queue[k]) =>
                  (queue[k].c = queue[j].c => queue[k].id < queue[j].id)

(* It has not.                                                              *)
Early ==
    \/ pc = "refresh" /\ call # "Good"
    \/ pc \in {"parse", "connect", "subscribe", "monitor", "monitored"}

(* The refresh ends once if at all, while the store is refreshing.          *)
Ending ==
    /\ Early => ~ st.endSeen /\ \A p \in DOMAIN queue : Carries(queue[p])
    /\ Served /\ ~ st.endSeen =>
          /\ st.phase = 1
          /\ \A p, q \in DOMAIN queue :
                queue[p].kind = "end" /\ queue[q].kind = "end" => p = q
    /\ Served /\ st.endSeen => \A p \in DOMAIN queue : queue[p].kind # "end"
    /\ Chosen => st.endSeen
    /\ pc = "refresh" /\ call # "Good" => st.phase = 1

(* The list of conditions points into the store, once for each condition.   *)
Listing ==
    /\ Len(st.conds) <= MaxConds
    /\ \A i \in DOMAIN st.conds : st.conds[i] \in DOMAIN st.evs
    /\ \A i, j \in DOMAIN st.conds :
          st.evs[st.conds[i]].c = st.evs[st.conds[j]].c => i = j

(* A refreshed event e is listed, or superseded, or there was no room ...   *)
Found(e) ==
    \/ Len(st.evs) >= MaxEvs
    \/ \E i \in DOMAIN st.conds :
          st.evs[st.conds[i]].c = e.c /\ st.evs[st.conds[i]].id >= e.id
    \/ HeldAt(st, e.c) = {} /\ Len(st.conds) = MaxConds

(* ... or still ahead of the end of the refresh.                            *)
Ahead(e) ==
    \E j, p \in DOMAIN queue : j < p /\ queue[j] = e /\ queue[p].kind = "end"

InRefresh == (pc = "refresh" /\ call = "Good") \/ pc = "waitEnd"

Refreshing == InRefresh /\ Ends => \A e \in shown : Found(e) \/ Ahead(e)

-----------------------------------------------------------------------------
(* An action of cmd_alarms is under way; it was carried out.                *)
Acting == pc \in {"action", "followUp", "repeat"}

CarriedOut == pc \in {"followUp", "repeat"} \/ (pc = "action" /\ call = "Good")

TargetCond == st.evs[target].c

Targeted ==
    /\ Chosen => target \in DOMAIN st.evs /\ act.k \in 1 .. 4
    /\ Acting => act.k \in 1 .. 3 /\ Current \in wanted.actions
    /\ pc = "repeat" => act.k = 1

(* No action has an effect without a target.                                *)
Anchored == \A a \in Acts : own[a] # 0 => target \in DOMAIN st.evs

(* Actions ahead have had no effect and nothing was looked for.             *)
Pending ==
    /\ ~ Chosen /\ pc \notin {"report", "done"} =>
          \A a \in Acts : own[a] = 0 /\ done[a].known = 0
    /\ Chosen => \A k \in 1 .. 3 :
          /\ k > act.k \/ (k = act.k /\ (pc = "next" \/ (pc = "action" /\ call # "Good")))
                => own[Actions[k]] = 0
          /\ k > act.k \/ (k = act.k /\ pc \in {"next", "action", "followUp"})
                => done[Actions[k]].known = 0

(* An event that reports an action of this command is the one the action    *)
(* led to: it is about the target and shows the effect.                     *)
Mine(e) ==
    e.by # "none" => /\ own[e.by] = e.id /\ e.id # 0
                     /\ e.c = TargetCond /\ Shows(e, e.by)

Traced ==
    /\ \A i \in DOMAIN st.evs : Mine(st.evs[i])
    /\ \A j \in DOMAIN queue : Carries(queue[j]) => Mine(queue[j])
    /\ \A c \in Conds : Mine(last[c])

(* Events of the target after the mark are newer than the event the action  *)
(* was called for, and, once it was carried out, not older than its own.    *)
Timeline ==
    Acting =>
        /\ act.mark <= Len(st.evs)
        /\ done[Current].eventId = act.eventId
        /\ act.eventId <= last[TargetCond].id
        /\ \A i \in DOMAIN st.evs :
              i > act.mark /\ st.evs[i].c = TargetCond => st.evs[i].id > act.eventId
        /\ \A j \in DOMAIN queue :
              Carries(queue[j]) /\ queue[j].c = TargetCond => queue[j].id > act.eventId
        /\ \A i \in DOMAIN st.evs : i <= act.mark => st.evs[i].by # Current

Effects ==
    CarriedOut =>
        /\ own[Current] > act.eventId /\ own[Current] <= last[TargetCond].id
        /\ \A i \in DOMAIN st.evs :
              i > act.mark /\ st.evs[i].c = TargetCond => st.evs[i].id >= own[Current]
        /\ \A j \in DOMAIN queue :
              Carries(queue[j]) /\ queue[j].c = TargetCond => queue[j].id >= own[Current]

(* Action a took effect and an event that is not old news shows it.         *)
Effective(a) ==
    /\ done[a].sc = "Good" /\ done[a].event \in DOMAIN st.evs
    /\ st.evs[done[a].event].c = TargetCond
    /\ own[a] > done[a].eventId /\ st.evs[done[a].event].id >= own[a]

Past ==
    /\ Chosen => \A k \in 1 .. 3 :
          k < act.k /\ Actions[k] \in wanted.actions => Effective(Actions[k])
    /\ pc \in {"followUp", "repeat"} => done[Current].sc = "Good"
    /\ pc = "repeat" => IF done[Current].event = NoEvent THEN late ELSE Effective(Current)

(* An event that an action led to had not been received when it was missed. *)
Missed ==
    \A a \in Acts :
        /\ done[a].known <= Len(st.evs)
        /\ done[a].sc = "Good" /\ done[a].event = NoEvent =>
              \A i \in 1 .. done[a].known : st.evs[i].by # a

Verdict ==
    pc = "report" =>
        /\ exit = 0 => st.endSeen /\ \A a \in wanted.actions : Effective(a)
        /\ exit = 7 => late

ActInv ==
    /\ Anchored /\ Pending /\ Traced
    /\ Timeline /\ Effects
    /\ Past /\ Missed /\ Verdict

-----------------------------------------------------------------------------
(* Sequences and numbers.                                                   *)

LEMMA TailFacts ==
  ASSUME NEW S, NEW s \in Seq(S), s # <<>>
  PROVE  /\ 1 \in DOMAIN s /\ Head(s) = s[1] /\ Head(s) \in S
         /\ Tail(s) \in Seq(S) /\ Len(Tail(s)) = Len(s) - 1
         /\ \A i \in DOMAIN Tail(s) :
               i \in Nat \ {0} /\ i + 1 \in DOMAIN s /\ Tail(s)[i] = s[i + 1]
BY HeadTailProperties, LenProperties, EmptySeq

LEMMA AppendFacts ==
  ASSUME NEW S, NEW s \in Seq(S), NEW e \in S
  PROVE  /\ Append(s, e) \in Seq(S) /\ Len(Append(s, e)) = Len(s) + 1
         /\ Append(s, e)[Len(s) + 1] = e
         /\ \A i \in DOMAIN s : i \in DOMAIN Append(s, e) /\ Append(s, e)[i] = s[i]
         /\ \A i \in DOMAIN Append(s, e) :
               \/ i \in DOMAIN s /\ Append(s, e)[i] = s[i]
               \/ i = Len(s) + 1 /\ Append(s, e)[i] = e
BY AppendProperties, LenProperties

LEMMA ConcatFacts ==
  ASSUME NEW S, NEW s \in Seq(S), NEW t \in Seq(S)
  PROVE  /\ s \o t \in Seq(S) /\ Len(s \o t) = Len(s) + Len(t)
         /\ \A i \in DOMAIN s : i \in DOMAIN (s \o t) /\ (s \o t)[i] = s[i]
         /\ \A i \in DOMAIN t : /\ Len(s) + i \in DOMAIN (s \o t)
                                /\ (s \o t)[Len(s) + i] = t[i]
         /\ \A i \in DOMAIN (s \o t) :
               \/ i \in DOMAIN s
               \/ i > Len(s) /\ i - Len(s) \in DOMAIN t /\ (s \o t)[i] = t[i - Len(s)]
<1>1. PICK m \in Nat, n \in Nat : m = Len(s) /\ n = Len(t)
  BY LenProperties
<1>2. /\ s \o t \in Seq(S) /\ Len(s \o t) = m + n
      /\ \A i \in 1 .. m + n : (s \o t)[i] = IF i <= m THEN s[i] ELSE t[i - m]
  BY <1>1, ConcatProperties
<1>3. DOMAIN s = 1 .. m /\ DOMAIN t = 1 .. n /\ DOMAIN (s \o t) = 1 .. m + n
  BY <1>1, <1>2, LenProperties
<1>4. \A i \in 1 .. m : i \in 1 .. m + n /\ (s \o t)[i] = s[i]
  BY <1>2
<1>5. \A i \in 1 .. n : m + i \in 1 .. m + n /\ (s \o t)[m + i] = t[i]
  <2>. TAKE i \in 1 .. n
  <2>1. m + i \in 1 .. m + n /\ ~ (m + i <= m) /\ m + i - m = i
    OBVIOUS
  <2>2. (s \o t)[m + i] = t[m + i - m]
    BY <1>2, <2>1
  <2>. QED  BY <2>1, <2>2
<1>6. \A i \in 1 .. m + n :
        i \in 1 .. m \/ (i > m /\ i - m \in 1 .. n /\ (s \o t)[i] = t[i - m])
  <2>. TAKE i \in 1 .. m + n
  <2>1. i \in 1 .. m \/ (i > m /\ ~ (i <= m) /\ i - m \in 1 .. n)
    OBVIOUS
  <2>. QED  BY <1>2, <2>1
<1>. QED  BY <1>1, <1>2, <1>3, <1>4, <1>5, <1>6

(* A set of numbers has a least one, by the well-foundedness of <.          *)
LEMMA Least ==
  ASSUME NEW T, T \subseteq Nat, T # {}
  PROVE  \E i \in T : \A j \in T : i <= j
<1>1. PICK R : R = OpToRel(<, Nat)
  OBVIOUS
<1>2. \E x \in T : \A y \in T : ~ (<<y, x>> \in R)
  BY <1>1, NatLessThanWellFounded, WFMin
<1>3. \A x, y \in Nat : <<y, x>> \in R <=> y < x
  BY <1>1 DEF OpToRel
<1>4. \A x, y \in Nat : ~ (y < x) <=> x <= y
  OBVIOUS
<1>. QED  BY <1>2, <1>3, <1>4, Zenon

(* A set of positions has a greatest one.                                   *)
LEMMA Greatest ==
  ASSUME NEW n \in Nat, NEW T, T \subseteq 1 .. n, T # {}
  PROVE  \E i \in T : \A j \in T : j <= i
<1>. DEFINE U == {k \in Nat : n - k \in T}
<1>1. U # {}
  <2>1. PICK i \in T : TRUE
    OBVIOUS
  <2>2. n - i \in Nat /\ n - (n - i) = i
    BY <2>1
  <2>. QED  BY <2>1, <2>2
<1>2. PICK k \in U : \A m \in U : k <= m
  BY <1>1, Least
<1>3. \A j \in T : j <= n - k
  <2>. TAKE j \in T
  <2>1. n - j \in Nat /\ n - (n - j) = j
    OBVIOUS
  <2>2. k <= n - j
    BY <1>2, <2>1
  <2>. QED  BY <1>2, <2>2
<1>. QED  BY <1>2, <1>3

-----------------------------------------------------------------------------
(* alarm_arm.                                                               *)

ArmType == [fields : FieldType, events : Seq(EventType), bad : Nat]

(* The events so far are numbered on from the last one reported.            *)
InOrder(c, s) ==
    /\ s \in ArmType
    /\ \A i \in DOMAIN s.events :
          s.events[i].c = c /\ s.events[i].id = reports + i /\ s.events[i].by = "none"

LEMMA TriggerInOrder ==
  ASSUME NEW c \in Conds, NEW s, InOrder(c, s), reports \in Nat,
         NEW t, t = Trigger(c, s)
  PROVE  /\ InOrder(c, t) /\ t.fields = s.fields /\ t.bad = s.bad
         /\ Len(t.events) \in Nat \ {0}
         /\ t.events[Len(t.events)] = Event(c, reports + Len(t.events), s.fields, "none")
<1>. DEFINE e == Event(c, reports + Len(s.events) + 1, s.fields, "none")
<1>1. s \in ArmType /\ s.events \in Seq(EventType) /\ s.fields \in FieldType
  BY DEF InOrder, ArmType
<1>2. Len(s.events) \in Nat
  BY <1>1, LenProperties
<1>3. e \in EventType /\ e.c = c /\ e.id = reports + (Len(s.events) + 1) /\ e.by = "none"
  BY <1>1, <1>2 DEF Event, EventType
<1>4. t = [s EXCEPT !.events = Append(s.events, e)]
  BY DEF Trigger
<1>. HIDE DEF e
<1>5. t \in ArmType /\ t.events = Append(s.events, e) /\ t.fields = s.fields /\ t.bad = s.bad
  <2>1. Append(s.events, e) \in Seq(EventType)
    BY <1>1, <1>3, AppendFacts
  <2>. QED  BY <1>1, <1>4, <2>1 DEF ArmType
<1>6. Len(t.events) = Len(s.events) + 1 /\ t.events[Len(s.events) + 1] = e
  BY <1>1, <1>3, <1>5, AppendFacts
<1>7. ASSUME NEW i \in DOMAIN t.events
      PROVE  t.events[i].c = c /\ t.events[i].id = reports + i /\ t.events[i].by = "none"
  <2>1. \/ i \in DOMAIN s.events /\ t.events[i] = s.events[i]
        \/ i = Len(s.events) + 1 /\ t.events[i] = e
    BY <1>1, <1>3, <1>5, AppendFacts
  <2>. QED  BY <1>3, <2>1 DEF InOrder
<1>8. InOrder(c, t)
  BY <1>5, <1>7 DEF InOrder
<1>9. t.events[Len(t.events)] = Event(c, reports + Len(t.events), s.fields, "none")
  <2>1. reports + Len(s.events) + 1 = reports + (Len(s.events) + 1)
    BY <1>2
  <2>. QED  BY <1>6, <2>1 DEF e
<1>. QED  BY <1>2, <1>5, <1>6, <1>8, <1>9

(* A write that succeeds leaves the fields f.                               *)
PutDone(c, s, i, f, t) ==
    InOrder(c, t) /\ t.bad = s.bad /\ (i # s.bad => t.fields = f)

LEMMA PutInOrder ==
  ASSUME NEW c \in Conds, NEW s, NEW i, NEW field, NEW value, InOrder(c, s),
         reports \in Nat, AfterWrite(s.fields, field, value) \in FieldType
  PROVE  PutDone(c, s, i, AfterWrite(s.fields, field, value), Put(c, s, i, field, value))
<1>. PICK t : t = Put(c, s, i, field, value)
  OBVIOUS
<1>1. PICK f \in FieldType : f = AfterWrite(s.fields, field, value)
  OBVIOUS
<1>2. PICK u : u = Written(s, field, value)
  OBVIOUS
<1>3. u.fields = f /\ u.bad = s.bad /\ u.events = s.events /\ u \in ArmType
  BY <1>1, <1>2 DEF InOrder, ArmType, Written
<1>4. InOrder(c, u)
  BY <1>3 DEF InOrder
<1>5. InOrder(c, Trigger(c, u)) /\ Trigger(c, u).fields = u.fields /\ Trigger(c, u).bad = u.bad
  BY <1>4, TriggerInOrder
<1>6. (t = s /\ i = s.bad) \/ t = Trigger(c, u) \/ t = u
  BY <1>2, Zenon DEF Put
<1>. QED  BY <1>1, <1>3, <1>4, <1>5, <1>6, Zenon DEF PutDone

(* The writes of alarm_arm one by one.                                      *)
LEMMA Writes ==
  ASSUME NEW f \in FieldType
  PROVE  /\ AfterWrite(f, "enabled", TRUE) = [f EXCEPT !.enabled = TRUE]
         /\ AfterWrite(f, "retain", TRUE) = [f EXCEPT !.retain = TRUE]
         /\ AfterWrite(f, "severity", 500) = [f EXCEPT !.severity = 500, !.message = "stack"]
         /\ AfterWrite(f, "acked", FALSE) = [f EXCEPT !.acked = FALSE]
         /\ AfterWrite(f, "confirmed", FALSE) = [f EXCEPT !.confirmed = FALSE]
         /\ AfterWrite(f, "active", FALSE) = [f EXCEPT !.active = FALSE, !.message = "stack"]
         /\ AfterWrite(f, "active", TRUE) = [f EXCEPT !.active = TRUE, !.message = "stack"]
         /\ AfterWrite(f, "message", "interop-alarm") = [f EXCEPT !.message = "interop-alarm"]
BY DEF AfterWrite

LEMMA WritesTyped ==
  ASSUME NEW f \in FieldType
  PROVE  /\ AfterWrite(f, "enabled", TRUE) \in FieldType
         /\ AfterWrite(f, "retain", TRUE) \in FieldType
         /\ AfterWrite(f, "severity", 500) \in FieldType
         /\ AfterWrite(f, "acked", FALSE) \in FieldType
         /\ AfterWrite(f, "confirmed", FALSE) \in FieldType
         /\ AfterWrite(f, "active", FALSE) \in FieldType
         /\ AfterWrite(f, "active", TRUE) \in FieldType
         /\ AfterWrite(f, "message", "interop-alarm") \in FieldType
<1>1. AfterWrite(f, "enabled", TRUE) \in FieldType
  BY DEF AfterWrite, FieldType
<1>2. AfterWrite(f, "retain", TRUE) \in FieldType
  BY DEF AfterWrite, FieldType
<1>3. AfterWrite(f, "severity", 500) \in FieldType
  <2>1. PICK n \in Nat : n = 500
    OBVIOUS
  <2>2. [f EXCEPT !.severity = n, !.message = "stack"] \in FieldType
    BY DEF FieldType
  <2>3. AfterWrite(f, "severity", 500) = [f EXCEPT !.severity = 500, !.message = "stack"]
    BY DEF AfterWrite
  <2>. QED  BY <2>1, <2>2, <2>3, ZenonT(90)
<1>4. AfterWrite(f, "acked", FALSE) \in FieldType
  BY DEF AfterWrite, FieldType
<1>5. AfterWrite(f, "confirmed", FALSE) \in FieldType
  BY DEF AfterWrite, FieldType
<1>6. AfterWrite(f, "active", FALSE) \in FieldType
  BY DEF AfterWrite, FieldType
<1>7. AfterWrite(f, "active", TRUE) \in FieldType
  BY DEF AfterWrite, FieldType
<1>8. AfterWrite(f, "message", "interop-alarm") \in FieldType
  BY DEF AfterWrite, FieldType
<1>. QED  BY <1>1, <1>2, <1>3, <1>4, <1>5, <1>6, <1>7, <1>8

(* The state a condition is armed in.                                       *)
ArmedState(comment) ==
    [enabled |-> TRUE, retain |-> TRUE, severity |-> 500, acked |-> FALSE,
     confirmed |-> FALSE, active |-> TRUE, message |-> "interop-alarm",
     comment |-> comment]

ArmDone(c, fields, bad, a) ==
    /\ InOrder(c, a) /\ Len(a.events) \in Nat \ {0}
    /\ a.events[Len(a.events)] = Event(c, reports + Len(a.events), a.fields, "none")
    /\ bad = 0 => a.fields = ArmedState(fields.comment)

LEMMA ArmIs ==
  ASSUME NEW c \in Conds, NEW fields \in FieldType, NEW bad \in Nat, reports \in Nat
  PROVE  ArmDone(c, fields, bad, alarm_arm(c, fields, bad))
<1>. PICK a : a = alarm_arm(c, fields, bad)
  OBVIOUS
<1>1. PICK s0 : s0 = Unarmed(fields, bad)
  OBVIOUS
<1>2. PICK s1 : s1 = Enable(c, s0)
  OBVIOUS
<1>3. PICK s2 : s2 = Put(c, s1, 2, "retain", TRUE)
  OBVIOUS
<1>4. PICK s3 : s3 = Put(c, s2, 3, "severity", 500)
  OBVIOUS
<1>5. PICK s4 : s4 = Put(c, s3, 4, "acked", FALSE)
  OBVIOUS
<1>6. PICK s5 : s5 = Put(c, s4, 5, "confirmed", FALSE)
  OBVIOUS
<1>7. PICK s6 : s6 = Put(c, s5, 6, "active", FALSE)
  OBVIOUS
<1>8. PICK s7 : s7 = Put(c, s6, 7, "active", TRUE)
  OBVIOUS
<1>9. PICK s8 : s8 = Put(c, s7, 8, "message", "interop-alarm")
  OBVIOUS
<1>10. a = Trigger(c, s8)
  BY <1>1, <1>2, <1>3, <1>4, <1>5, <1>6, <1>7, <1>8, <1>9, ZenonT(90) DEF alarm_arm
<1>11. InOrder(c, s0) /\ s0.bad = bad /\ s0.fields = fields
  <2>1. s0 = [fields |-> fields, events |-> <<>>, bad |-> bad]
    BY <1>1 DEF Unarmed
  <2>2. <<>> \in Seq(EventType) /\ DOMAIN <<>> = {}
    BY EmptySeq
  <2>. QED  BY <2>1, <2>2 DEF InOrder, ArmType
<1>12. /\ InOrder(c, s1) /\ s1.bad = bad
       /\ bad = 0 => s1.fields = [fields EXCEPT !.enabled = TRUE]
  <2>1. CASE s0.fields.enabled
    <3>1. s1 = s0
      BY <1>2, <2>1 DEF Enable
    <3>2. fields = [fields EXCEPT !.enabled = TRUE]
      BY <1>11, <2>1 DEF FieldType
    <3>. QED  BY <1>11, <3>1, <3>2
  <2>2. CASE ~ s0.fields.enabled
    <3>1. s1 = Put(c, s0, 1, "enabled", TRUE)
      BY <1>2, <2>2 DEF Enable
    <3>2. AfterWrite(s0.fields, "enabled", TRUE) \in FieldType
      BY <1>11, WritesTyped, ZenonT(90)
    <3>3. PutDone(c, s0, 1, AfterWrite(s0.fields, "enabled", TRUE), Put(c, s0, 1, "enabled", TRUE))
      BY <1>11, <3>2, PutInOrder, ZenonT(90)
    <3>4. AfterWrite(fields, "enabled", TRUE) = [fields EXCEPT !.enabled = TRUE]
      BY Writes, ZenonT(90)
    <3>5. bad = 0 => 1 # bad
      OBVIOUS
    <3>. QED  BY <1>11, <3>1, <3>3, <3>4, <3>5, ZenonT(90) DEF PutDone
  <2>. QED  BY <2>1, <2>2
<1>13. /\ InOrder(c, s2) /\ s2.bad = bad
       /\ bad = 0 => s2.fields = AfterWrite(s1.fields, "retain", TRUE)
  <2>1. AfterWrite(s1.fields, "retain", TRUE) \in FieldType
    BY <1>12, WritesTyped, ZenonT(90) DEF InOrder, ArmType
  <2>2. bad = 0 => 2 # bad
    OBVIOUS
  <2>3. PutDone(c, s1, 2, AfterWrite(s1.fields, "retain", TRUE), Put(c, s1, 2, "retain", TRUE))
    BY <1>12, <2>1, PutInOrder, ZenonT(90)
  <2>. QED  BY <1>3, <1>12, <2>2, <2>3, ZenonT(90) DEF PutDone
<1>14. /\ InOrder(c, s3) /\ s3.bad = bad
       /\ bad = 0 => s3.fields = AfterWrite(s2.fields, "severity", 500)
  <2>1. AfterWrite(s2.fields, "severity", 500) \in FieldType
    BY <1>13, WritesTyped, ZenonT(90) DEF InOrder, ArmType
  <2>2. bad = 0 => 3 # bad
    OBVIOUS
  <2>3. PutDone(c, s2, 3, AfterWrite(s2.fields, "severity", 500), Put(c, s2, 3, "severity", 500))
    <3>1. \A n : AfterWrite(s2.fields, "severity", n) \in FieldType =>
            PutDone(c, s2, 3, AfterWrite(s2.fields, "severity", n), Put(c, s2, 3, "severity", n))
      BY <1>13, PutInOrder, ZenonT(90)
    <3>. QED  BY <2>1, <3>1
  <2>. QED  BY <1>4, <1>13, <2>2, <2>3, ZenonT(90) DEF PutDone
<1>15. /\ InOrder(c, s4) /\ s4.bad = bad
       /\ bad = 0 => s4.fields = AfterWrite(s3.fields, "acked", FALSE)
  <2>1. AfterWrite(s3.fields, "acked", FALSE) \in FieldType
    BY <1>14, WritesTyped, ZenonT(90) DEF InOrder, ArmType
  <2>2. bad = 0 => 4 # bad
    OBVIOUS
  <2>3. PutDone(c, s3, 4, AfterWrite(s3.fields, "acked", FALSE), Put(c, s3, 4, "acked", FALSE))
    BY <1>14, <2>1, PutInOrder, ZenonT(90)
  <2>. QED  BY <1>5, <1>14, <2>2, <2>3, ZenonT(90) DEF PutDone
<1>16. /\ InOrder(c, s5) /\ s5.bad = bad
       /\ bad = 0 => s5.fields = AfterWrite(s4.fields, "confirmed", FALSE)
  <2>1. AfterWrite(s4.fields, "confirmed", FALSE) \in FieldType
    BY <1>15, WritesTyped DEF InOrder, ArmType
  <2>2. bad = 0 => 5 # bad
    OBVIOUS
  <2>3. PutDone(c, s4, 5, AfterWrite(s4.fields, "confirmed", FALSE), Put(c, s4, 5, "confirmed", FALSE))
    BY <1>15, <2>1, PutInOrder, ZenonT(90)
  <2>. QED  BY <1>6, <1>15, <2>2, <2>3, ZenonT(90) DEF PutDone
<1>17. /\ InOrder(c, s6) /\ s6.bad = bad
       /\ bad = 0 => s6.fields = AfterWrite(s5.fields, "active", FALSE)
  <2>1. AfterWrite(s5.fields, "active", FALSE) \in FieldType
    BY <1>16, WritesTyped, ZenonT(90) DEF InOrder, ArmType
  <2>2. bad = 0 => 6 # bad
    OBVIOUS
  <2>3. PutDone(c, s5, 6, AfterWrite(s5.fields, "active", FALSE), Put(c, s5, 6, "active", FALSE))
    BY <1>16, <2>1, PutInOrder, ZenonT(90)
  <2>. QED  BY <1>7, <1>16, <2>2, <2>3, ZenonT(90) DEF PutDone
<1>18. /\ InOrder(c, s7) /\ s7.bad = bad
       /\ bad = 0 => s7.fields = AfterWrite(s6.fields, "active", TRUE)
  <2>1. AfterWrite(s6.fields, "active", TRUE) \in FieldType
    BY <1>17, WritesTyped, ZenonT(90) DEF InOrder, ArmType
  <2>2. bad = 0 => 7 # bad
    OBVIOUS
  <2>3. PutDone(c, s6, 7, AfterWrite(s6.fields, "active", TRUE), Put(c, s6, 7, "active", TRUE))
    BY <1>17, <2>1, PutInOrder, ZenonT(90)
  <2>. QED  BY <1>8, <1>17, <2>2, <2>3, ZenonT(90) DEF PutDone
<1>19. /\ InOrder(c, s8) /\ s8.bad = bad
       /\ bad = 0 => s8.fields = AfterWrite(s7.fields, "message", "interop-alarm")
  <2>1. AfterWrite(s7.fields, "message", "interop-alarm") \in FieldType
    BY <1>18, WritesTyped, ZenonT(90) DEF InOrder, ArmType
  <2>2. bad = 0 => 8 # bad
    OBVIOUS
  <2>3. PutDone(c, s7, 8, AfterWrite(s7.fields, "message", "interop-alarm"), Put(c, s7, 8, "message", "interop-alarm"))
    BY <1>18, <2>1, PutInOrder, ZenonT(90)
  <2>. QED  BY <1>9, <1>18, <2>2, <2>3, ZenonT(90) DEF PutDone
<1>20. /\ InOrder(c, a) /\ a.fields = s8.fields /\ Len(a.events) \in Nat \ {0}
       /\ a.events[Len(a.events)] = Event(c, reports + Len(a.events), s8.fields, "none")
  BY <1>10, <1>19, TriggerInOrder, ZenonT(90)
<1>21. ASSUME bad = 0 PROVE s8.fields = ArmedState(fields.comment)
  <2>1. /\ s1.fields \in FieldType /\ s2.fields \in FieldType /\ s3.fields \in FieldType
        /\ s4.fields \in FieldType /\ s5.fields \in FieldType /\ s6.fields \in FieldType
        /\ s7.fields \in FieldType
    BY <1>12, <1>13, <1>14, <1>15, <1>16, <1>17, <1>18 DEF InOrder, ArmType
  <2>2. s2.fields = [s1.fields EXCEPT !.retain = TRUE]
    BY <1>13, <1>21, <2>1, Writes, ZenonT(90)
  <2>3. s3.fields = [s2.fields EXCEPT !.severity = 500, !.message = "stack"]
    BY <1>14, <1>21, <2>1, Writes, ZenonT(90)
  <2>4. s4.fields = [s3.fields EXCEPT !.acked = FALSE]
    BY <1>15, <1>21, <2>1, Writes, ZenonT(90)
  <2>5. s5.fields = [s4.fields EXCEPT !.confirmed = FALSE]
    BY <1>16, <1>21, <2>1, Writes, ZenonT(90)
  <2>6. s6.fields = [s5.fields EXCEPT !.active = FALSE, !.message = "stack"]
    BY <1>17, <1>21, <2>1, Writes, ZenonT(90)
  <2>7. s7.fields = [s6.fields EXCEPT !.active = TRUE, !.message = "stack"]
    BY <1>18, <1>21, <2>1, Writes, ZenonT(90)
  <2>8. s8.fields = [s7.fields EXCEPT !.message = "interop-alarm"]
    BY <1>19, <1>21, <2>1, Writes, ZenonT(90)
  <2>9. s1.fields = [fields EXCEPT !.enabled = TRUE]
    BY <1>12, <1>21
  <2>10. /\ s3.fields.enabled = TRUE /\ s3.fields.retain = TRUE /\ s3.fields.severity = 500
         /\ s3.fields.comment = fields.comment
    BY <2>1, <2>2, <2>3, <2>9 DEF FieldType
  <2>11. /\ s5.fields.acked = FALSE /\ s5.fields.confirmed = FALSE
         /\ s5.fields.enabled = TRUE /\ s5.fields.retain = TRUE /\ s5.fields.severity = 500
         /\ s5.fields.comment = fields.comment
    BY <2>1, <2>4, <2>5, <2>10 DEF FieldType
  <2>12. /\ s7.fields.acked = FALSE /\ s7.fields.confirmed = FALSE
         /\ s7.fields.enabled = TRUE /\ s7.fields.retain = TRUE /\ s7.fields.severity = 500
         /\ s7.fields.comment = fields.comment /\ s7.fields.active = TRUE
    BY <2>1, <2>6, <2>7, <2>11 DEF FieldType
  <2>13. PICK f \in FieldType : f = s8.fields
    BY <1>19 DEF InOrder, ArmType
  <2>14. /\ f.acked = FALSE /\ f.confirmed = FALSE /\ f.enabled = TRUE /\ f.retain = TRUE
         /\ f.severity = 500 /\ f.comment = fields.comment /\ f.active = TRUE
         /\ f.message = "interop-alarm"
    BY <2>1, <2>8, <2>12, <2>13 DEF FieldType
  <2>15. f = [enabled |-> f.enabled, retain |-> f.retain, severity |-> f.severity,
              acked |-> f.acked, confirmed |-> f.confirmed, active |-> f.active,
              message |-> f.message, comment |-> f.comment]
    BY <2>13 DEF FieldType
  <2>. QED  BY <2>13, <2>14, <2>15, ZenonT(90) DEF ArmedState
<1>. QED  BY <1>20, <1>21, ZenonT(90) DEF ArmDone

-----------------------------------------------------------------------------
(* Types.                                                                   *)

LEMMA ActionNames ==
  /\ Range(Actions) = Acts /\ Len(Actions) = 3
  /\ Actions[1] = "acknowledge" /\ Actions[2] = "confirm" /\ Actions[3] = "addComment"
  /\ \A k \in 1 .. 3 : Actions[k] \in Acts
  /\ \A a \in Acts : \E k \in 1 .. 3 : a = Actions[k]
  /\ \A j, k \in 1 .. 3 : Actions[j] = Actions[k] => j = k
<1>1. /\ Len(Actions) = 3 /\ DOMAIN Actions = 1 .. 3
      /\ Actions[1] = "acknowledge" /\ Actions[2] = "confirm" /\ Actions[3] = "addComment"
  BY DEF Actions
<1>2. \A k \in 1 .. 3 : k = 1 \/ k = 2 \/ k = 3
  OBVIOUS
<1>3. 1 \in 1 .. 3 /\ 2 \in 1 .. 3 /\ 3 \in 1 .. 3
  OBVIOUS
<1>4. Range(Actions) = {Actions[k] : k \in 1 .. 3}
  BY <1>1 DEF Range
<1>5. \A k \in 1 .. 3 : Actions[k] \in Acts
  BY <1>1, <1>2 DEF Acts
<1>6. \A a \in Acts : \E k \in 1 .. 3 : a = Actions[k]
  BY <1>1, <1>3 DEF Acts
<1>7. \A j, k \in 1 .. 3 : Actions[j] = Actions[k] => j = k
  BY <1>1, <1>2
<1>. QED  BY <1>1, <1>4, <1>5, <1>6, <1>7

LEMMA Messages ==
  ASSUME NEW e \in MessageType
  PROVE  /\ Carries(e) \/ e.kind = "start" \/ e.kind = "end"
         /\ Carries(e) <=> e \in EventType
         /\ Carries(e) => e.c \in Conds /\ e.c # NoCond /\ e.id \in Nat
         /\ e.kind = "end" <=> e = Marker("end")
         /\ Carries(e) => e.kind # "start" /\ e.kind # "end"
<1>1. CASE e \in EventType
  <2>1. e.kind = "condition" /\ e.c \in Conds /\ e.id \in Nat
    BY <1>1 DEF EventType
  <2>2. Marker("end").kind = "end"
    BY DEF Marker
  <2>. QED  BY <1>1, <2>1, <2>2, AlarmsAssumption DEF Carries
<1>2. CASE e \notin EventType
  <2>1. e = Marker("start") \/ e = Marker("end")
    BY <1>2 DEF MessageType
  <2>2. Marker("start").kind = "start" /\ Marker("end").kind = "end"
    BY DEF Marker
  <2>. QED  BY <1>2, <2>1, <2>2 DEF Carries
<1>. QED  BY <1>1, <1>2

LEMMA MarkerTypes ==
  /\ Marker("start") \in MessageType /\ Marker("end") \in MessageType
  /\ Marker("start").kind = "start" /\ Marker("end").kind = "end"
  /\ EventType \subseteq MessageType
BY DEF MessageType, Marker

(* The events of condition c, numbered on, and c as the last of them says.  *)
Emits(c, es, b) ==
    /\ c \in Conds /\ es \in Seq(EventType) /\ Len(es) \in Nat \ {0}
    /\ \A i \in DOMAIN es : es[i].c = c /\ es[i].id = reports + i /\ es[i].by = b
    /\ reports' = reports + Len(es)
    /\ last' = [last EXCEPT ![c] = es[Len(es)]]
    /\ cond' = [cond EXCEPT ![c] = es[Len(es)].fields]
    /\ queue' = queue \o es

LEMMA ResetEmits ==
  ASSUME TypeOK, NEW c \in Contested, Reset(c)
  PROVE  /\ \E es : Emits(c, es, "none")
         /\ rearmed' \subseteq rearmed \cup {c}
         /\ c \in rearmed' => cond'[c] = ArmedState(cond[c].comment)
         /\ Subscribed /\ others' \in Nat
         /\ UNCHANGED <<client, call, shown, own>>
<1>1. c \in Conds /\ cond[c] \in FieldType /\ reports \in Nat /\ others \in Nat
  BY AlarmsAssumption DEF TypeOK
<1>2. Subscribed /\ others' = others + 1 /\ UNCHANGED <<client, call, shown, own>>
  BY DEF Reset, Other
<1>3. PICK bad \in {0} \cup MayFail :
        /\ cond' = [cond EXCEPT ![c] = alarm_arm(c, cond[c], bad).fields]
        /\ last' = [last EXCEPT ![c] = Last(alarm_arm(c, cond[c], bad).events)]
        /\ reports' = reports + Len(alarm_arm(c, cond[c], bad).events)
        /\ queue' = Notify(alarm_arm(c, cond[c], bad).events)
        /\ rearmed' = IF bad = 0 THEN rearmed \cup {c} ELSE rearmed \ {c}
  BY Zenon DEF Reset
<1>4. bad \in Nat
  BY <1>3, AlarmsAssumption
<1>5. PICK a : a = alarm_arm(c, cond[c], bad)
  OBVIOUS
<1>6. /\ InOrder(c, a) /\ Len(a.events) \in Nat \ {0}
      /\ a.events[Len(a.events)] = Event(c, reports + Len(a.events), a.fields, "none")
      /\ bad = 0 => a.fields = ArmedState(cond[c].comment)
  <2>1. ArmDone(c, cond[c], bad, a)
    BY <1>1, <1>4, <1>5, ArmIs, ZenonT(90)
  <2>. QED  BY <2>1, Zenon DEF ArmDone
<1>7. a.events[Len(a.events)].fields = a.fields
  BY <1>6 DEF Event
<1>8. a.events \in Seq(EventType)
  BY <1>6 DEF InOrder, ArmType
<1>9. Emits(c, a.events, "none")
  <2>1. last' = [last EXCEPT ![c] = a.events[Len(a.events)]]
    BY <1>3, <1>5 DEF Last
  <2>2. cond' = [cond EXCEPT ![c] = a.events[Len(a.events)].fields]
    BY <1>3, <1>5, <1>7
  <2>3. queue' = queue \o a.events
    BY <1>2, <1>3, <1>5 DEF Notify
  <2>4. reports' = reports + Len(a.events)
    BY <1>3, <1>5
  <2>. QED  BY <1>1, <1>6, <1>8, <2>1, <2>2, <2>3, <2>4 DEF Emits, InOrder
<1>10. rearmed' \subseteq rearmed \cup {c}
  BY <1>3
<1>11. c \in rearmed' => cond'[c] = ArmedState(cond[c].comment)
  <2>1. cond' = [cond EXCEPT ![c] = a.fields]
    BY <1>3, <1>5
  <2>2. cond'[c] = a.fields
    BY <1>1, <2>1 DEF TypeOK
  <2>3. c \in rearmed' => bad = 0
    BY <1>3
  <2>. QED  BY <1>6, <2>2, <2>3
<1>. QED  BY <1>1, <1>2, <1>9, <1>10, <1>11

LEMMA ReportEmits ==
  ASSUME TypeOK, NEW c \in Conds, NEW f \in FieldType, NEW b \in Acts \cup {"none"},
         Subscribed, Report(c, f, b)
  PROVE  /\ Emits(c, <<Event(c, reports + 1, f, b)>>, b)
         /\ rearmed' = rearmed \ {c} /\ reports' = reports + 1
<1>. DEFINE e == Event(c, reports + 1, f, b)
<1>1. reports \in Nat /\ last \in [Conds -> EventType]
  BY DEF TypeOK
<1>2. /\ e \in EventType /\ e.c = c /\ e.id = reports + 1 /\ e.by = b /\ e.fields = f
  BY <1>1 DEF Event, EventType
<1>3. /\ reports' = reports + 1 /\ rearmed' = rearmed \ {c} /\ last' = [last EXCEPT ![c] = e]
      /\ cond' = [cond EXCEPT ![c] = f] /\ queue' = Notify(<<last'[c]>>)
  BY DEF Report
<1>. HIDE DEF e
<1>4. queue' = queue \o <<e>>
  BY <1>1, <1>2, <1>3 DEF Notify
<1>5. <<e>> \in Seq(EventType) /\ Len(<<e>>) = 1 /\ DOMAIN <<e>> = {1} /\ <<e>>[1] = e
  BY <1>2
<1>6. Emits(c, <<e>>, b)
  <2>1. PICK es : es = <<e>>
    OBVIOUS
  <2>2. es \in Seq(EventType) /\ Len(es) = 1 /\ DOMAIN es = {1} /\ es[1] = e
    BY <1>5, <2>1
  <2>3. queue' = queue \o es
    BY <1>4, <2>1
  <2>4. /\ Len(es) \in Nat \ {0}
        /\ \A i \in DOMAIN es : es[i].c = c /\ es[i].id = reports + i /\ es[i].by = b
    BY <1>2, <2>2
  <2>5. /\ reports' = reports + Len(es) /\ last' = [last EXCEPT ![c] = es[Len(es)]]
        /\ cond' = [cond EXCEPT ![c] = es[Len(es)].fields]
    BY <1>2, <1>3, <2>2, Zenon
  <2>6. Emits(c, es, b)
    BY <2>2, <2>3, <2>4, <2>5, Zenon DEF Emits
  <2>. QED  BY <2>1, <2>6
<1>. QED  BY <1>3, <1>6 DEF e

LEMMA EffectType ==
  ASSUME NEW a \in Acts, NEW f \in FieldType, NEW mine \in BOOLEAN
  PROVE  Effect(a, f, mine) \in FieldType
<1>1. CASE a = "acknowledge"
  <2>1. Effect(a, f, mine) = [f EXCEPT !.acked = TRUE, !.comment = mine, !.message = "stack"]
    BY <1>1 DEF Effect
  <2>. QED  BY <2>1 DEF FieldType
<1>2. CASE a = "confirm"
  <2>1. Effect(a, f, mine) = [f EXCEPT !.confirmed = TRUE, !.comment = mine, !.message = "stack"]
    BY <1>2 DEF Effect
  <2>. QED  BY <2>1 DEF FieldType
<1>3. CASE a = "addComment"
  <2>1. Effect(a, f, mine) = [f EXCEPT !.comment = mine, !.message = "stack"]
    BY <1>3 DEF Effect
  <2>. QED  BY <2>1 DEF FieldType
<1>. QED  BY <1>1, <1>2, <1>3 DEF Acts

LEMMA OtherEmits ==
  ASSUME TypeOK, NEW c \in Contested, OtherClient(c)
  PROVE  /\ \E es : Emits(c, es, "none")
         /\ rearmed' = rearmed \ {c}
         /\ Subscribed /\ others' \in Nat
         /\ UNCHANGED <<client, call, shown, own>>
<1>1. c \in Conds /\ cond[c] \in FieldType /\ others \in Nat
  BY AlarmsAssumption DEF TypeOK
<1>2. Subscribed /\ others' = others + 1 /\ UNCHANGED <<client, call, shown, own>>
  BY DEF OtherClient, Other
<1>3. \E f \in FieldType : Report(c, f, "none")
  <2>1. CASE \E a \in Range(Actions) : Report(c, Effect(a, cond[c], FALSE), "none")
    BY <1>1, <2>1, ActionNames, EffectType
  <2>2. CASE Report(c, [cond[c] EXCEPT !.enabled = FALSE, !.retain = FALSE], "none")
    <3>1. [cond[c] EXCEPT !.enabled = FALSE, !.retain = FALSE] \in FieldType
      BY <1>1 DEF FieldType
    <3>. QED  BY <2>2, <3>1
  <2>. QED  BY <2>1, <2>2 DEF OtherClient
<1>4. PICK f \in FieldType : Report(c, f, "none")
  BY <1>3
<1>5. "none" \in Acts \cup {"none"}
  OBVIOUS
<1>6. (\E es : Emits(c, es, "none")) /\ rearmed' = rearmed \ {c}
  BY <1>1, <1>2, <1>4, <1>5, ReportEmits, Zenon
<1>. QED  BY <1>1, <1>2, <1>6

(* Every action of the command knows its target.                            *)
LEMMA ActingFacts ==
  ASSUME TypeOK, Targeted, Acting
  PROVE  /\ act.k \in 1 .. 3 /\ Current \in Acts /\ Current \in wanted.actions
         /\ target \in DOMAIN st.evs /\ TargetCond \in Conds
<1>1. act.k \in 1 .. 3 /\ Current \in wanted.actions /\ target \in DOMAIN st.evs
  BY DEF Targeted, Acting, Chosen
<1>2. Current \in Acts
  BY <1>1, ActionNames DEF Current
<1>3. st.evs \in Seq(EventType)
  BY DEF TypeOK, StoreType
<1>4. st.evs[target] \in EventType
  BY <1>1, <1>3, ElementOfSeq, LenProperties
<1>5. TargetCond \in Conds
  BY <1>4 DEF TargetCond, EventType
<1>. QED  BY <1>1, <1>2, <1>5

(* The two outcomes of an action at the server.                             *)
Executed ==
    /\ Allowed(Current, TargetCond, act.eventId)
    /\ Emits(TargetCond, <<Event(TargetCond, reports + 1,
                                 Effect(Current, cond[TargetCond], TRUE), Current)>>, Current)
    /\ rearmed' = rearmed \ {TargetCond}
    /\ call' = "Good" /\ own' = [own EXCEPT ![Current] = reports + 1]

LEMMA ServeActionIs ==
  ASSUME TypeOK, Targeted, ServeAction
  PROVE  /\ pc \in {"action", "repeat"} /\ call = "sent" /\ Acting
         /\ UNCHANGED <<client, shown, others>>
         /\ Executed \/ (call' = "Bad" /\ UNCHANGED <<condition, queue, own>>)
<1>1. pc \in {"action", "repeat"} /\ call = "sent" /\ UNCHANGED <<client, shown, others>>
  BY DEF ServeAction
<1>2. Acting /\ Subscribed
  BY <1>1 DEF Acting, Subscribed
<1>3. Current \in Acts /\ TargetCond \in Conds /\ cond[TargetCond] \in FieldType
  BY <1>2, ActingFacts DEF TypeOK
<1>4. \/ /\ Allowed(Current, TargetCond, act.eventId)
         /\ Report(TargetCond, Effect(Current, cond[TargetCond], TRUE), Current)
         /\ call' = "Good"
         /\ own' = [own EXCEPT ![Current] = reports']
      \/ call' = "Bad" /\ UNCHANGED <<condition, queue, own>>
  BY Zenon DEF ServeAction, Current, TargetCond
<1>5. ASSUME Allowed(Current, TargetCond, act.eventId),
             Report(TargetCond, Effect(Current, cond[TargetCond], TRUE), Current),
             call' = "Good", own' = [own EXCEPT ![Current] = reports']
      PROVE  Executed
  <2>1. PICK f \in FieldType : f = Effect(Current, cond[TargetCond], TRUE)
    BY <1>3, EffectType
  <2>2. Current \in Acts \cup {"none"}
    BY <1>3
  <2>3. /\ Emits(TargetCond, <<Event(TargetCond, reports + 1, f, Current)>>, Current)
        /\ rearmed' = rearmed \ {TargetCond} /\ reports' = reports + 1
    BY <1>2, <1>3, <1>5, <2>1, <2>2, ReportEmits, Zenon
  <2>. QED  BY <1>5, <2>1, <2>3, Zenon DEF Executed
<1>. QED  BY <1>1, <1>2, <1>4, <1>5, Zenon

-----------------------------------------------------------------------------
(* What an event does to the queue.                                         *)

(* Message j is one of the new events of condition c.                       *)
Fresh(j, c, b) ==
    /\ j \in Nat /\ j > Len(queue) /\ queue'[j] \in EventType
    /\ queue'[j].c = c /\ queue'[j].by = b
    /\ queue'[j].id = reports + (j - Len(queue)) /\ queue'[j].id <= reports'

LEMMA EmitQueue ==
  ASSUME TypeOK, NEW c, NEW es, NEW b, Emits(c, es, b)
  PROVE  /\ queue' \in Seq(MessageType)
         /\ \A j \in DOMAIN queue : j \in DOMAIN queue' /\ queue'[j] = queue[j]
         /\ \A j \in DOMAIN queue' :
               (j \in DOMAIN queue /\ queue'[j] = queue[j]) \/ Fresh(j, c, b)
<1>1. queue \in Seq(MessageType) /\ reports \in Nat
  BY DEF TypeOK
<1>2. es \in Seq(EventType) /\ queue' = queue \o es /\ reports' = reports + Len(es)
  BY DEF Emits
<1>3. es \in Seq(MessageType)
  <2>1. PICK n \in Nat : es \in [1 .. n -> EventType]
    BY <1>2, SeqDef
  <2>2. es \in [1 .. n -> MessageType]
    BY <2>1, MarkerTypes
  <2>. QED  BY <2>2, SeqDef
<1>4. /\ queue' \in Seq(MessageType)
      /\ \A i \in DOMAIN queue : i \in DOMAIN queue' /\ queue'[i] = queue[i]
      /\ \A i \in DOMAIN queue' :
            \/ i \in DOMAIN queue
            \/ i > Len(queue) /\ i - Len(queue) \in DOMAIN es /\ queue'[i] = es[i - Len(queue)]
  BY <1>1, <1>2, <1>3, ConcatFacts
<1>5. ASSUME NEW j \in DOMAIN queue', j > Len(queue), j - Len(queue) \in DOMAIN es,
             queue'[j] = es[j - Len(queue)]
      PROVE  Fresh(j, c, b)
  <2>1. PICK m \in Nat, n \in Nat : m = Len(queue) /\ n = Len(es)
    BY <1>1, <1>2, LenProperties
  <2>2. DOMAIN queue' \subseteq Nat /\ DOMAIN es = 1 .. n
    BY <1>2, <1>4, <2>1, LenProperties
  <2>3. PICK i \in 1 .. n : i = j - m
    BY <1>5, <2>1, <2>2
  <2>4. es[i] \in EventType /\ es[i].c = c /\ es[i].by = b /\ es[i].id = reports + i
    BY <1>2, <2>1, <2>2, <2>3, ElementOfSeq DEF Emits
  <2>5. reports + i <= reports + n
    BY <1>1, <2>3
  <2>6. j \in Nat /\ j > Len(queue) /\ queue'[j] = es[i] /\ reports' = reports + n
        /\ i = j - Len(queue)
    BY <1>2, <1>5, <2>1, <2>2, <2>3
  <2>. QED  BY <2>4, <2>5, <2>6 DEF Fresh
<1>. QED  BY <1>4, <1>5, Zenon

LEMMA EmitLast ==
  ASSUME TypeOK, NEW c, NEW es, NEW b, Emits(c, es, b)
  PROVE  /\ c \in Conds /\ last'[c].c = c /\ last'[c].fields = cond'[c] /\ last'[c].by = b
         /\ last'[c].id = reports' /\ reports' \in Nat /\ reports' > reports
         /\ last' \in [Conds -> EventType] /\ cond' \in [Conds -> FieldType]
         /\ \A d \in Conds : d # c => last'[d] = last[d] /\ cond'[d] = cond[d]
<1>1. /\ c \in Conds /\ reports \in Nat
      /\ last \in [Conds -> EventType] /\ cond \in [Conds -> FieldType]
  BY DEF TypeOK, Emits
<1>2. /\ es \in Seq(EventType) /\ Len(es) \in Nat \ {0} /\ reports' = reports + Len(es)
      /\ last' = [last EXCEPT ![c] = es[Len(es)]]
      /\ cond' = [cond EXCEPT ![c] = es[Len(es)].fields]
  BY DEF Emits
<1>3. PICK n \in Nat \ {0} : n = Len(es)
  BY <1>2
<1>4. n \in DOMAIN es
  BY <1>2, <1>3, LenProperties
<1>5. es[n] \in EventType /\ es[n].c = c /\ es[n].id = reports + n /\ es[n].by = b
  BY <1>2, <1>3, <1>4, ElementOfSeq DEF Emits
<1>6. es[n].fields \in FieldType
  BY <1>5 DEF EventType
<1>7. last'[c] = es[n] /\ cond'[c] = es[n].fields
  BY <1>1, <1>2, <1>3
<1>8. /\ last' \in [Conds -> EventType] /\ cond' \in [Conds -> FieldType]
      /\ \A d \in Conds : d # c => last'[d] = last[d] /\ cond'[d] = cond[d]
  BY <1>1, <1>2, <1>3, <1>5, <1>6
<1>9. reports' = reports + n /\ reports' \in Nat /\ reports' > reports
  BY <1>1, <1>2, <1>3
<1>. QED  BY <1>1, <1>5, <1>7, <1>8, <1>9

-----------------------------------------------------------------------------
(* What the callback does to the store.                                     *)

Kept(s, t) == t.evs = s.evs /\ t.conds = s.conds

Stored(s, e, t) ==
    /\ t.evs = Append(s.evs, e)
    /\ t.phase = s.phase /\ t.endSeen = s.endSeen
    /\ \/ s.phase # 1 /\ t.conds = s.conds
       \/ s.phase = 1 /\ HeldAt(s, e.c) = {} /\ Len(s.conds) >= MaxConds /\ t.conds = s.conds
       \/ s.phase = 1 /\ HeldAt(s, e.c) = {} /\ Len(s.conds) < MaxConds
             /\ t.conds = Append(s.conds, Len(s.evs) + 1)
       \/ s.phase = 1 /\ \E i \in HeldAt(s, e.c) : t.conds = [s.conds EXCEPT ![i] = Len(s.evs) + 1]

Handled(s, e, t) ==
    \/ e.kind = "start" /\ Kept(s, t) /\ t.phase = s.phase /\ t.endSeen = s.endSeen
    \/ e.kind = "end" /\ s.phase = 1 /\ Kept(s, t) /\ t.phase = 2 /\ t.endSeen = TRUE
    \/ e.kind = "end" /\ s.phase # 1 /\ t = s
    \/ Carries(e) /\ Len(s.evs) >= MaxEvs /\ t = s
    \/ Carries(e) /\ Len(s.evs) < MaxEvs /\ Stored(s, e, t)

LEMMA ListedIs ==
  ASSUME NEW s \in StoreType, NEW e \in EventType, s.phase = 1,
         \A i \in DOMAIN s.conds : s.conds[i] \in DOMAIN s.evs,
         NEW u, u = [s EXCEPT !.evs = Append(s.evs, e)],
         NEW t, t = Listed(u, e.c, Len(u.evs))
  PROVE  t \in StoreType /\ Stored(s, e, t)
<1>1. s.evs \in Seq(EventType) /\ s.conds \in Seq(Nat)
  BY DEF StoreType
<1>2. PICK n \in Nat : n = Len(s.evs)
  BY <1>1, LenProperties
<1>3. /\ u.evs \in Seq(EventType) /\ Len(u.evs) = n + 1
      /\ \A i \in DOMAIN s.evs : u.evs[i] = s.evs[i]
  BY <1>1, <1>2, AppendFacts DEF StoreType
<1>4. /\ u.conds = s.conds /\ u.evs = Append(s.evs, e) /\ u.phase = s.phase
      /\ u.endSeen = s.endSeen /\ u \in StoreType
  BY <1>3 DEF StoreType
<1>5. HeldAt(u, e.c) = HeldAt(s, e.c)
  BY <1>3, <1>4 DEF HeldAt
<1>6. CASE HeldAt(s, e.c) # {}
  <2>1. PICK i : i = CHOOSE k \in HeldAt(s, e.c) : TRUE
    OBVIOUS
  <2>2. i \in HeldAt(s, e.c) /\ i \in DOMAIN s.conds
    BY <1>6, <2>1 DEF HeldAt
  <2>3. t = [u EXCEPT !.conds[i] = n + 1]
    BY <1>3, <1>5, <1>6, <2>1 DEF Listed
  <2>4. PICK cs : cs = [s.conds EXCEPT ![i] = n + 1]
    OBVIOUS
  <2>5. cs \in Seq(Nat)
    BY <1>1, <2>2, <2>4, ExceptSeq, SMTT(30)
  <2>6. t = [u EXCEPT !.conds = cs]
    BY <1>4, <2>3, <2>4
  <2>7. /\ t.conds = cs /\ t.evs = u.evs /\ t.phase = u.phase /\ t.endSeen = u.endSeen
        /\ t \in StoreType
    BY <1>4, <2>5, <2>6 DEF StoreType
  <2>. QED  BY <1>2, <1>4, <2>2, <2>4, <2>7, ZenonT(90) DEF Stored
<1>7. CASE HeldAt(s, e.c) = {} /\ Len(s.conds) < MaxConds
  <2>1. t = [u EXCEPT !.conds = Append(s.conds, n + 1)]
    BY <1>3, <1>4, <1>5, <1>7 DEF Listed
  <2>2. Append(s.conds, n + 1) \in Seq(Nat)
    BY <1>1
  <2>3. /\ t.conds = Append(s.conds, n + 1) /\ t.evs = u.evs /\ t.phase = u.phase
        /\ t.endSeen = u.endSeen /\ t \in StoreType
    BY <1>4, <2>1, <2>2 DEF StoreType
  <2>. QED  BY <1>2, <1>4, <1>7, <2>3 DEF Stored
<1>8. CASE HeldAt(s, e.c) = {} /\ ~ (Len(s.conds) < MaxConds)
  <2>1. t = u
    BY <1>4, <1>5, <1>8 DEF Listed
  <2>2. Len(s.conds) >= MaxConds
    BY <1>1, <1>8, LenProperties, AlarmsAssumption
  <2>. QED  BY <1>4, <1>8, <2>1, <2>2 DEF Stored
<1>. QED  BY <1>6, <1>7, <1>8

LEMMA Callback ==
  ASSUME NEW s \in StoreType, NEW e \in MessageType,
         \A i \in DOMAIN s.conds : s.conds[i] \in DOMAIN s.evs
  PROVE  /\ alarm_notif_cb(s, e) \in StoreType
         /\ Handled(s, e, alarm_notif_cb(s, e))
<1>. PICK t : t = alarm_notif_cb(s, e)
  OBVIOUS
<1>1. CASE e.kind = "start"
  <2>1. t = [s EXCEPT !.startSeen = s.startSeen \/ s.phase = 1]
    BY <1>1 DEF alarm_notif_cb
  <2>2. t \in StoreType /\ Kept(s, t) /\ t.phase = s.phase /\ t.endSeen = s.endSeen
    BY <2>1 DEF StoreType, Kept
  <2>. QED  BY <1>1, <2>2 DEF Handled
<1>2. CASE e.kind = "end"
  <2>1. CASE s.phase = 1
    <3>1. t = [s EXCEPT !.endSeen = TRUE, !.phase = 2]
      BY <1>2, <2>1 DEF alarm_notif_cb
    <3>2. t \in StoreType /\ Kept(s, t) /\ t.phase = 2 /\ t.endSeen = TRUE
      <4>1. PICK p \in 0 .. 2 : p = 2
        OBVIOUS
      <4>2. t = [s EXCEPT !.endSeen = TRUE, !.phase = p]
        BY <3>1, <4>1, Zenon
      <4>3. t \in StoreType
        BY <4>2, Zenon DEF StoreType
      <4>4. Kept(s, t) /\ t.phase = p /\ t.endSeen = TRUE
        BY <4>2 DEF StoreType, Kept
      <4>. QED  BY <4>1, <4>3, <4>4, Zenon
    <3>. QED  BY <1>2, <2>1, <3>2 DEF Handled
  <2>2. CASE s.phase # 1
    <3>1. t = s
      BY <1>2, <2>2 DEF alarm_notif_cb
    <3>. QED  BY <1>2, <2>2, <3>1 DEF Handled
  <2>. QED  BY <2>1, <2>2
<1>3. CASE Carries(e)
  <2>1. e.kind = "condition" /\ e.c # NoCond /\ e \in EventType
    BY <1>3, Messages DEF Carries
  <2>2. Len(s.evs) \in Nat /\ s.evs \in Seq(EventType)
    BY LenProperties DEF StoreType
  <2>3. CASE Len(s.evs) >= MaxEvs
    <3>1. t = s
      BY <2>1, <2>3 DEF alarm_notif_cb
    <3>. QED  BY <1>3, <2>3, <3>1 DEF Handled
  <2>4. CASE ~ (Len(s.evs) >= MaxEvs)
    <3>1. Len(s.evs) < MaxEvs
      BY <2>2, <2>4, AlarmsAssumption
    <3>2. PICK u : u = [s EXCEPT !.evs = Append(s.evs, e)]
      OBVIOUS
    <3>3. t = IF s.phase = 1 THEN Listed(u, e.c, Len(u.evs)) ELSE u
      BY <2>1, <2>4, <3>2 DEF alarm_notif_cb
    <3>4. CASE s.phase = 1
      <4>1. t \in StoreType /\ Stored(s, e, t)
        BY <2>1, <3>2, <3>3, <3>4, ListedIs
      <4>. QED  BY <1>3, <3>1, <4>1 DEF Handled
    <3>5. CASE s.phase # 1
      <4>1. Append(s.evs, e) \in Seq(EventType)
        BY <2>1, <2>2
      <4>2. /\ t.evs = Append(s.evs, e) /\ t.conds = s.conds /\ t.phase = s.phase
            /\ t.endSeen = s.endSeen /\ t \in StoreType
        BY <3>2, <3>3, <3>5, <4>1 DEF StoreType
      <4>3. Stored(s, e, t)
        BY <3>5, <4>2 DEF Stored
      <4>. QED  BY <1>3, <3>1, <4>2, <4>3 DEF Handled
    <3>. QED  BY <3>4, <3>5
  <2>. QED  BY <2>3, <2>4
<1>. QED  BY <1>1, <1>2, <1>3, Messages

-----------------------------------------------------------------------------
(* What the answer to ConditionRefresh does to the queue: behind what is    *)
(* there come the last events of the refreshed conditions in some order,    *)
(* between the start and the end of the refresh (h = 1) or alone (h = 0).   *)

Refreshes(order, n, h) ==
    /\ n \in Nat /\ order \in [1 .. n -> Refreshed] /\ n = Cardinality(Refreshed)
    /\ \A i, j \in 1 .. n : i # j => order[i] # order[j]
    /\ h \in {0, 1}
    /\ queue' \in Seq(MessageType)
    /\ \A j \in DOMAIN queue : j \in DOMAIN queue' /\ queue'[j] = queue[j]
    /\ Len(queue') = Len(queue) + n + h + h
    /\ h = 1 => queue'[Len(queue) + 1] = Marker("start")
    /\ \A i \in 1 .. n : queue'[Len(queue) + h + i] = last[order[i]]
    /\ h = 1 => queue'[Len(queue) + n + 2] = Marker("end")

LEMMA ServeRefreshIs ==
  ASSUME TypeOK, ServeRefresh
  PROVE  /\ pc = "refresh" /\ call = "sent" /\ UNCHANGED <<server, client, own>>
         /\ \/ /\ call' = "Good" /\ shown' = {last[c] : c \in Refreshed}
               /\ \E order, n, h : Refreshes(order, n, h)
            \/ call' = "Bad" /\ UNCHANGED <<queue, shown>>
<1>1. pc = "refresh" /\ call = "sent" /\ UNCHANGED <<server, client, own>>
  BY DEF ServeRefresh
<1>2. CASE call' = "Bad" /\ UNCHANGED <<queue, shown>>
  BY <1>1, <1>2
<1>3. ASSUME NEW order \in SetToSeqs(Refreshed)
      PROVE  \E n, es :
                /\ n \in Nat
                /\ es = [i \in DOMAIN order |-> last[order[i]]]
                /\ es = [i \in 1 .. n |-> last[order[i]]]
                /\ es \in Seq(MessageType) /\ Len(es) = n /\ DOMAIN es = 1 .. n
                /\ order \in [1 .. n -> Refreshed] /\ n = Cardinality(Refreshed)
                /\ \A i, j \in 1 .. n : i # j => order[i] # order[j]
  <2>1. queue \in Seq(MessageType) /\ last \in [Conds -> EventType]
    BY DEF TypeOK
  <2>2. Refreshed \subseteq Conds /\ IsFiniteSet(Conds)
    <3>1. Conditions \in Seq(Conds) /\ Conds = {Conditions[i] : i \in DOMAIN Conditions}
      BY AlarmsAssumption DEF Conds, Range
    <3>2. PICK k \in Nat : k = Len(Conditions) /\ DOMAIN Conditions = 1 .. k
      BY <3>1, LenProperties
    <3>3. IsFiniteSet(1 .. k)
      BY <3>2, FS_Interval
    <3>4. Conditions \in Surjection(1 .. k, Conds)
      BY <3>1, <3>2 DEF Surjection
    <3>5. IsFiniteSet(Conds)
      BY <3>3, <3>4, FS_Surjection
    <3>. QED  BY <3>5 DEF Refreshed
  <2>3. IsFiniteSet(Refreshed)
    BY <2>2, FS_Subset
  <2>4. PICK n \in Nat : n = Cardinality(Refreshed)
    BY <2>3, FS_CardinalityType
  <2>5. order \in [1 .. n -> Refreshed] /\ \A i, j \in 1 .. n : i # j => order[i] # order[j]
    BY <1>3, <2>4, Zenon DEF SetToSeqs
  <2>6. DOMAIN order = 1 .. n
    BY <2>5
  <2>7. PICK es : es = [i \in 1 .. n |-> last[order[i]]]
    OBVIOUS
  <2>8. es \in [1 .. n -> MessageType]
    BY <2>1, <2>2, <2>5, <2>7, MarkerTypes
  <2>9. es \in Seq(MessageType) /\ Len(es) = n /\ DOMAIN es = 1 .. n
    BY <2>8, SeqDef
  <2>. QED  BY <2>4, <2>5, <2>6, <2>7, <2>9
<1>4. ASSUME NEW order, NEW n \in Nat, NEW es,
             es = [i \in 1 .. n |-> last[order[i]]],
             es \in Seq(MessageType), Len(es) = n, DOMAIN es = 1 .. n,
             order \in [1 .. n -> Refreshed], n = Cardinality(Refreshed),
             \A i, j \in 1 .. n : i # j => order[i] # order[j],
             queue' = queue \o <<Marker("start")>> \o es \o <<Marker("end")>>
      PROVE  Refreshes(order, n, 1)
  <2>1. queue \in Seq(MessageType)
    BY DEF TypeOK
  <2>10. PICK q1 : q1 = queue \o <<Marker("start")>>
    OBVIOUS
  <2>11. PICK m \in Nat : m = Len(queue) /\ DOMAIN queue = 1 .. m
    BY <2>1, LenProperties
  <2>12. q1 = Append(queue, Marker("start"))
    BY <2>1, <2>10
  <2>13. /\ q1 \in Seq(MessageType) /\ Len(q1) = m + 1 /\ q1[m + 1] = Marker("start")
         /\ \A i \in 1 .. m : q1[i] = queue[i]
    BY <2>1, <2>11, <2>12, MarkerTypes, AppendFacts
  <2>14. PICK q2 : q2 = q1 \o es
    OBVIOUS
  <2>15. /\ q2 \in Seq(MessageType) /\ Len(q2) = (m + 1) + n
         /\ \A i \in 1 .. (m + 1) + n : q2[i] = IF i <= m + 1 THEN q1[i] ELSE es[i - (m + 1)]
    <3>1. PICK l \in Nat : l = m + 1
      OBVIOUS
    <3>2. q1 \in Seq(MessageType) /\ Len(q1) = l
      BY <2>13, <3>1
    <3>3. /\ q2 \in Seq(MessageType) /\ Len(q2) = l + n
          /\ \A i \in 1 .. l + n : q2[i] = IF i <= l THEN q1[i] ELSE es[i - l]
      BY <1>4, <2>14, <3>2, ConcatProperties
    <3>. QED  BY <3>1, <3>3
  <2>16. queue' = Append(q2, Marker("end"))
    <3>1. queue' = q2 \o <<Marker("end")>>
      BY <1>4, <2>10, <2>14, Zenon
    <3>. QED  BY <2>15, <3>1
  <2>17. /\ queue' \in Seq(MessageType) /\ Len(queue') = (m + 1) + n + 1
         /\ queue'[(m + 1) + n + 1] = Marker("end")
         /\ \A i \in 1 .. (m + 1) + n : queue'[i] = q2[i]
    BY <2>15, <2>16, MarkerTypes, AppendFacts, LenProperties
  <2>18. Len(queue') = m + n + 2 /\ queue'[m + n + 2] = Marker("end")
    <3>1. (m + 1) + n + 1 = m + n + 2
      OBVIOUS
    <3>. QED  BY <2>17, <3>1
  <2>19. \A j \in 1 .. m : j \in DOMAIN queue' /\ queue'[j] = queue[j]
    <3>. TAKE j \in 1 .. m
    <3>1. j \in 1 .. (m + 1) + n /\ j <= m + 1 /\ j \in 1 .. m + n + 2
      OBVIOUS
    <3>2. queue'[j] = q1[j]
      BY <2>15, <2>17, <3>1
    <3>. QED  BY <2>13, <2>17, <2>18, <3>1, <3>2, LenProperties
  <2>20. queue'[m + 1] = Marker("start")
    <3>1. m + 1 \in 1 .. (m + 1) + n /\ m + 1 <= m + 1
      OBVIOUS
    <3>. QED  BY <2>13, <2>15, <2>17, <3>1
  <2>21. \A i \in 1 .. n : queue'[m + 1 + i] = last[order[i]]
    <3>. TAKE i \in 1 .. n
    <3>1. m + 1 + i \in 1 .. (m + 1) + n /\ ~ (m + 1 + i <= m + 1) /\ m + 1 + i - (m + 1) = i
      OBVIOUS
    <3>2. queue'[m + 1 + i] = es[m + 1 + i - (m + 1)]
      BY <2>15, <2>17, <3>1
    <3>3. queue'[m + 1 + i] = es[i]
      BY <3>1, <3>2
    <3>. QED  BY <1>4, <3>3
  <2>22. Len(queue') = m + n + 1 + 1
    BY <2>18
  <2>. QED
    BY <1>4, <2>11, <2>17, <2>18, <2>19, <2>20, <2>21, <2>22 DEF Refreshes
<1>5. ASSUME NEW order, NEW n \in Nat, NEW es,
             es = [i \in 1 .. n |-> last[order[i]]],
             es \in Seq(MessageType), Len(es) = n, DOMAIN es = 1 .. n,
             order \in [1 .. n -> Refreshed], n = Cardinality(Refreshed),
             \A i, j \in 1 .. n : i # j => order[i] # order[j],
             queue' = queue \o es
      PROVE  Refreshes(order, n, 0)
  <2>1. queue \in Seq(MessageType)
    BY DEF TypeOK
  <2>2. PICK m \in Nat : m = Len(queue) /\ DOMAIN queue = 1 .. m
    BY <2>1, LenProperties
  <2>3. /\ queue' \in Seq(MessageType) /\ Len(queue') = m + n
        /\ \A i \in 1 .. m + n : queue'[i] = IF i <= m THEN queue[i] ELSE es[i - m]
    BY <1>5, <2>1, <2>2, ConcatProperties
  <2>4. \A j \in 1 .. m : j \in DOMAIN queue' /\ queue'[j] = queue[j]
    <3>1. DOMAIN queue' = 1 .. m + n
      BY <2>3, LenProperties
    <3>. QED  BY <2>3, <3>1
  <2>5. \A i \in 1 .. n : queue'[m + 0 + i] = last[order[i]]
    <3>. TAKE i \in 1 .. n
    <3>1. m + 0 + i \in 1 .. m + n /\ ~ (m + 0 + i <= m) /\ m + 0 + i - m = i
      OBVIOUS
    <3>2. queue'[m + 0 + i] = es[i]
      BY <2>3, <3>1
    <3>. QED  BY <1>5, <3>2
  <2>6. Len(queue') = m + n + 0 + 0
    BY <2>3
  <2>. QED  BY <1>5, <2>2, <2>3, <2>4, <2>5, <2>6 DEF Refreshes
<1>6. ASSUME NEW order \in SetToSeqs(Refreshed), NEW f,
             f = [i \in DOMAIN order |-> last[order[i]]],
             \/ queue' = queue \o <<Marker("start")>> \o f \o <<Marker("end")>>
             \/ queue' = queue \o f
      PROVE  \E o, n, h : Refreshes(o, n, h)
  <2>1. PICK n, es :
                /\ n \in Nat
                /\ es = [i \in DOMAIN order |-> last[order[i]]]
                /\ es = [i \in 1 .. n |-> last[order[i]]]
                /\ es \in Seq(MessageType) /\ Len(es) = n /\ DOMAIN es = 1 .. n
                /\ order \in [1 .. n -> Refreshed] /\ n = Cardinality(Refreshed)
                /\ \A i, j \in 1 .. n : i # j => order[i] # order[j]
    BY <1>3
  <2>2. f = es
    BY <1>6, <2>1, Zenon
  <2>3. Refreshes(order, n, 1) \/ Refreshes(order, n, 0)
    BY <1>4, <1>5, <1>6, <2>1, <2>2
  <2>. QED  BY <2>3
<1>. QED  BY <1>1, <1>2, <1>6, Zenon DEF ServeRefresh

(* The positions in the new queue.                                          *)
LEMMA RefreshPositions ==
  ASSUME TypeOK, NEW order, NEW n, NEW h, Refreshes(order, n, h), NEW m, m = Len(queue)
  PROVE  /\ m \in Nat /\ n \in Nat /\ h \in {0, 1} /\ DOMAIN queue = 1 .. m
         /\ DOMAIN queue' = 1 .. m + n + h + h
         /\ \A j \in DOMAIN queue' :
               \/ j \in 1 .. m /\ queue'[j] = queue[j]
               \/ h = 1 /\ j = m + 1 /\ queue'[j] = Marker("start")
               \/ j > m + h /\ j <= m + n + h /\ j - (m + h) \in 1 .. n
                     /\ queue'[j] = last[order[j - (m + h)]]
               \/ h = 1 /\ j = m + n + 2 /\ queue'[j] = Marker("end")
<1>1. queue \in Seq(MessageType)
  BY DEF TypeOK
<1>2. m \in Nat /\ n \in Nat /\ h \in {0, 1} /\ DOMAIN queue = 1 .. m
  BY <1>1, LenProperties DEF Refreshes
<1>3. DOMAIN queue' = 1 .. m + n + h + h
  BY LenProperties DEF Refreshes
<1>4. ASSUME NEW j \in 1 .. m + n + h + h
      PROVE  \/ j \in 1 .. m /\ queue'[j] = queue[j]
             \/ h = 1 /\ j = m + 1 /\ queue'[j] = Marker("start")
             \/ j > m + h /\ j <= m + n + h /\ j - (m + h) \in 1 .. n
                   /\ queue'[j] = last[order[j - (m + h)]]
             \/ h = 1 /\ j = m + n + 2 /\ queue'[j] = Marker("end")
  <2>1. \/ j \in 1 .. m
        \/ h = 1 /\ j = m + 1
        \/ j > m + h /\ j <= m + n + h /\ j - (m + h) \in 1 .. n /\ m + h + (j - (m + h)) = j
        \/ h = 1 /\ j = m + n + 2
    BY <1>2
  <2>2. CASE j \in 1 .. m
    BY <1>2, <2>2 DEF Refreshes
  <2>3. CASE h = 1 /\ j = m + 1
    BY <2>3 DEF Refreshes
  <2>4. CASE j > m + h /\ j <= m + n + h /\ j - (m + h) \in 1 .. n /\ m + h + (j - (m + h)) = j
    <3>1. PICK i \in 1 .. n : i = j - (m + h)
      BY <2>4
    <3>2. queue'[m + h + i] = last[order[i]]
      BY DEF Refreshes
    <3>. QED  BY <2>4, <3>1, <3>2
  <2>5. CASE h = 1 /\ j = m + n + 2
    BY <2>5 DEF Refreshes
  <2>. QED  BY <2>1, <2>2, <2>3, <2>4, <2>5
<1>. QED  BY <1>2, <1>3, <1>4

-----------------------------------------------------------------------------
(* Type correctness: an action knows its target, and the list of conditions *)
(* points into the store.                                                   *)

TypeInv == TypeOK /\ Targeted /\ Listing

LEMMA InitTypes ==
  ASSUME Init
  PROVE  TypeInv /\ LastIsState /\ \A c \in rearmed : cond[c] = ArmedState(cond[c].comment)
<1>1. Normal \in FieldType /\ Normal.comment = FALSE
  <2>1. PICK n \in Nat : n = 0
    OBVIOUS
  <2>2. Normal = [enabled |-> TRUE, retain |-> FALSE, severity |-> n, acked |-> TRUE,
                  confirmed |-> TRUE, active |-> FALSE, message |-> "stack", comment |-> FALSE]
    BY <2>1, Zenon DEF Normal
  <2>. QED  BY <2>2 DEF FieldType
<1>2. Conditions \in Seq(Conds) /\ Conds = {Conditions[i] : i \in DOMAIN Conditions}
  BY AlarmsAssumption DEF Conds, Range
<1>3. PICK m \in Nat : m = Len(Conditions) /\ DOMAIN Conditions = 1 .. m
  BY <1>2, LenProperties
<1>4. reports = m /\ reports \in Nat /\ rearmed \subseteq Conds
  BY <1>3 DEF Init
<1>5. ASSUME NEW c \in Conds
      PROVE  /\ alarm_arm(c, Normal, 0).fields \in FieldType
             /\ alarm_arm(c, Normal, 0).fields = ArmedState(FALSE)
  <2>1. 0 \in Nat
    OBVIOUS
  <2>2. ArmDone(c, Normal, 0, alarm_arm(c, Normal, 0))
    BY <1>1, <1>4, <2>1, ArmIs, Zenon
  <2>3. PICK a : a = alarm_arm(c, Normal, 0)
    OBVIOUS
  <2>4. a \in ArmType /\ a.fields = ArmedState(FALSE)
    BY <1>1, <2>2, <2>3, Zenon DEF ArmDone, InOrder
  <2>. QED  BY <2>3, <2>4 DEF ArmType
<1>6. ASSUME NEW c \in Conds
      PROVE  /\ cond[c] \in FieldType
             /\ c \in rearmed => cond[c] = ArmedState(FALSE)
  BY <1>1, <1>5 DEF Init
<1>7. ASSUME NEW c \in rearmed  PROVE cond[c] = ArmedState(cond[c].comment)
  <2>1. cond[c] = ArmedState(FALSE)
    BY <1>4, <1>6
  <2>2. ArmedState(FALSE).comment = FALSE
    BY DEF ArmedState
  <2>. QED  BY <2>1, <2>2, Zenon
<1>8. cond \in [Conds -> FieldType]
  <2>1. cond = [c \in Conds |-> cond[c]]
    BY DEF Init
  <2>. QED  BY <1>6, <2>1
<1>9. ASSUME NEW c \in Conds
      PROVE  /\ last[c] \in EventType /\ last[c].c = c /\ last[c].fields = cond[c]
             /\ last[c].id <= reports /\ last[c].by = "none"
  <2>1. PICK i : i = CHOOSE k \in DOMAIN Conditions : Conditions[k] = c
    OBVIOUS
  <2>2. \E k \in DOMAIN Conditions : Conditions[k] = c
    BY <1>2
  <2>3. i \in 1 .. m
    BY <1>3, <2>1, <2>2
  <2>4. last[c] = Event(c, i, cond[c], "none")
    BY <2>1 DEF Init
  <2>5. i \in Nat /\ i <= reports
    BY <1>4, <2>3
  <2>6. PICK f \in FieldType : f = cond[c]
    BY <1>6
  <2>7. last[c] = [kind |-> "condition", c |-> c, id |-> i, fields |-> f, by |-> "none"]
    BY <2>4, <2>6, Zenon DEF Event
  <2>8. last[c] \in EventType /\ last[c].c = c /\ last[c].fields = f /\ last[c].id = i
        /\ last[c].by = "none"
    BY <2>5, <2>7 DEF EventType
  <2>. QED  BY <2>5, <2>6, <2>8, Zenon
<1>10. last \in [Conds -> EventType]
  <2>1. last = [c \in Conds |-> last[c]]
    BY DEF Init
  <2>. QED  BY <1>9, <2>1
<1>11. /\ queue \in Seq(MessageType) /\ st \in StoreType
       /\ st.evs = <<>> /\ st.conds = <<>> /\ pc = "parse"
  BY DEF Init, EmptyStore, StoreType
<1>12. act \in [k : 0 .. 4, eventId : Nat, mark : Nat]
  BY DEF Init
<1>13. /\ done \in [Acts -> ActionType]
       /\ own \in [Acts -> Nat]
  BY ActionNames DEF Init, NoAction, NoEvent, ActionType
<1>14. /\ others \in Nat /\ wanted \in CommandLines /\ pc \in Locations
       /\ call \in {"none", "sent", "Good", "Bad"} /\ target \in Nat /\ late \in BOOLEAN
       /\ shown \subseteq EventType /\ exit \in {NoExit, 0, 2, 3, 4, 6, 7}
  BY DEF Init, Locations, NoEvent
<1>15. TypeOK
  BY <1>4, <1>8, <1>10, <1>11, <1>12, <1>13, <1>14 DEF TypeOK
<1>16. Targeted
  BY <1>11 DEF Targeted, Chosen, Acting
<1>17. Listing
  BY <1>11, AlarmsAssumption DEF Listing
<1>18. LastIsState
  BY <1>9 DEF LastIsState
<1>. QED  BY <1>7, <1>15, <1>16, <1>17, <1>18 DEF TypeInv

(* Steps that leave the target and the store alone.                         *)
LEMMA SameTarget ==
  ASSUME Targeted, Listing, UNCHANGED <<wanted, pc, st, act, target>>
  PROVE  Targeted' /\ Listing'
<1>1. Targeted'
  BY DEF Targeted, Chosen, Acting, Current
<1>2. Listing'
  BY DEF Listing
<1>. QED  BY <1>1, <1>2

LEMMA ServerTypes ==
  ASSUME TypeInv,
         \/ \E c \in Contested : Reset(c) \/ OtherClient(c)
         \/ ServeAction \/ ServeRefresh
  PROVE  TypeInv'
<1>. USE DEF TypeInv
<1>1. ASSUME NEW c, NEW es, NEW b, Emits(c, es, b), rearmed' \subseteq rearmed \cup {c},
             others' \in Nat, own' \in [Acts -> Nat], UNCHANGED <<client, shown>>,
             call' \in {"none", "sent", "Good", "Bad"}
      PROVE  TypeInv'
  <2>1. queue' \in Seq(MessageType)
    BY <1>1, EmitQueue
  <2>2. /\ c \in Conds /\ reports' \in Nat
        /\ last' \in [Conds -> EventType] /\ cond' \in [Conds -> FieldType]
    BY <1>1, EmitLast
  <2>3. UNCHANGED <<wanted, pc, st, act, done, target, late, exit, shown>>
    BY <1>1 DEF client
  <2>4. rearmed' \subseteq Conds
    BY <1>1, <2>2 DEF TypeOK
  <2>5. TypeOK'
    BY <1>1, <2>1, <2>2, <2>3, <2>4 DEF TypeOK
  <2>. QED  BY <2>3, <2>5, SameTarget
<1>2. ASSUME NEW c \in Contested, Reset(c)  PROVE TypeInv'
  <2>1. /\ \E es : Emits(c, es, "none")
        /\ rearmed' \subseteq rearmed \cup {c}
        /\ others' \in Nat /\ UNCHANGED <<client, call, shown, own>>
    BY <1>2, ResetEmits
  <2>2. own' \in [Acts -> Nat] /\ call' \in {"none", "sent", "Good", "Bad"}
    BY <2>1 DEF TypeOK
  <2>. QED  BY <1>1, <2>1, <2>2
<1>3. ASSUME NEW c \in Contested, OtherClient(c)  PROVE TypeInv'
  <2>1. /\ \E es : Emits(c, es, "none")
        /\ rearmed' = rearmed \ {c}
        /\ others' \in Nat /\ UNCHANGED <<client, call, shown, own>>
    BY <1>3, OtherEmits
  <2>2. own' \in [Acts -> Nat] /\ call' \in {"none", "sent", "Good", "Bad"}
    BY <2>1 DEF TypeOK
  <2>. QED  BY <1>1, <2>1, <2>2
<1>4. CASE ServeAction
  <2>1. /\ pc \in {"action", "repeat"} /\ Acting /\ UNCHANGED <<client, shown, others>>
        /\ Executed \/ (call' = "Bad" /\ UNCHANGED <<condition, queue, own>>)
    BY <1>4, ServeActionIs
  <2>2. CASE Executed
    <3>1. reports \in Nat /\ others \in Nat /\ own \in [Acts -> Nat] /\ Current \in Acts
      BY <2>1, ActingFacts DEF TypeOK
    <3>2. own' = [own EXCEPT ![Current] = reports + 1] /\ call' = "Good"
          /\ rearmed' = rearmed \ {TargetCond}
      BY <2>2 DEF Executed
    <3>3. own' \in [Acts -> Nat]
      BY <3>1, <3>2
    <3>4. \E c, es, b : Emits(c, es, b) /\ rearmed' \subseteq rearmed \cup {c}
      BY <2>2, <3>2 DEF Executed
    <3>. QED  BY <1>1, <2>1, <3>1, <3>2, <3>3, <3>4
  <2>3. CASE call' = "Bad" /\ UNCHANGED <<condition, queue, own>>
    <3>1. UNCHANGED <<cond, last, reports, rearmed, queue, own, shown, others,
                      wanted, pc, st, act, done, target, late, exit>>
      BY <2>1, <2>3 DEF condition, client
    <3>2. TypeOK'
      BY <2>3, <3>1 DEF TypeOK
    <3>. QED  BY <3>1, <3>2, SameTarget
  <2>. QED  BY <2>1, <2>2, <2>3
<1>5. CASE ServeRefresh
  <2>1. /\ UNCHANGED <<server, client, own>>
        /\ \/ /\ call' = "Good" /\ shown' = {last[c] : c \in Refreshed}
              /\ \E order, n, h : Refreshes(order, n, h)
           \/ call' = "Bad" /\ UNCHANGED <<queue, shown>>
    BY <1>5, ServeRefreshIs
  <2>2. UNCHANGED <<cond, last, reports, rearmed, own, others,
                    wanted, pc, st, act, done, target, late, exit>>
    BY <2>1 DEF server, condition, client
  <2>3. queue' \in Seq(MessageType) /\ shown' \subseteq EventType
    <3>1. queue \in Seq(MessageType) /\ shown \subseteq EventType /\ last \in [Conds -> EventType]
      BY DEF TypeOK
    <3>2. {last[c] : c \in Refreshed} \subseteq EventType
      BY <3>1 DEF Refreshed
    <3>3. \A order, n, h : Refreshes(order, n, h) => queue' \in Seq(MessageType)
      BY DEF Refreshes
    <3>. QED  BY <2>1, <3>1, <3>2, <3>3
  <2>4. call' \in {"none", "sent", "Good", "Bad"}
    BY <2>1
  <2>5. TypeOK'
    BY <2>2, <2>3, <2>4 DEF TypeOK
  <2>. QED  BY <2>2, <2>5, SameTarget
<1>. QED  BY <1>2, <1>3, <1>4, <1>5

LEMMA HeldFacts ==
  ASSUME NEW s \in StoreType, NEW c
  PROVE  HeldAt(s, c) = {} <=> \A i \in DOMAIN s.conds : s.evs[s.conds[i]].c # c
BY DEF HeldAt

(* Storing an event keeps the list in order.                                *)
LEMMA StoredListing ==
  ASSUME Listing, st \in StoreType, st' \in StoreType, NEW e \in EventType,
         Stored(st, e, st')
  PROVE  Listing'
<1>1. st.evs \in Seq(EventType) /\ st.conds \in Seq(Nat) /\ st'.evs = Append(st.evs, e)
  BY DEF StoreType, Stored
<1>2. PICK n \in Nat, m \in Nat : /\ n = Len(st.evs) /\ DOMAIN st.evs = 1 .. n
                                  /\ m = Len(st.conds) /\ DOMAIN st.conds = 1 .. m
  BY <1>1, LenProperties
<1>3. /\ DOMAIN st'.evs = 1 .. n + 1 /\ st'.evs[n + 1] = e
      /\ \A i \in DOMAIN st.evs : st'.evs[i] = st.evs[i]
  BY <1>1, <1>2, AppendFacts, LenProperties
<1>4. /\ m <= MaxConds /\ \A i \in 1 .. m : st.conds[i] \in 1 .. n
      /\ \A i, j \in 1 .. m : st.evs[st.conds[i]].c = st.evs[st.conds[j]].c => i = j
  BY <1>2 DEF Listing
<1>5. CASE st'.conds = st.conds
  <2>1. \A i \in 1 .. m : st'.conds[i] \in 1 .. n + 1 /\ st'.evs[st'.conds[i]] = st.evs[st.conds[i]]
    BY <1>2, <1>3, <1>4, <1>5
  <2>. QED  BY <1>2, <1>3, <1>4, <1>5, <2>1 DEF Listing
<1>6. CASE HeldAt(st, e.c) = {} /\ Len(st.conds) < MaxConds /\ st'.conds = Append(st.conds, n + 1)
  <2>1. /\ Len(st'.conds) = m + 1 /\ DOMAIN st'.conds = 1 .. m + 1 /\ st'.conds[m + 1] = n + 1
        /\ \A i \in 1 .. m : st'.conds[i] = st.conds[i]
    BY <1>1, <1>2, <1>6, AppendFacts, LenProperties
  <2>2. \A i \in 1 .. m + 1 : i \in 1 .. m \/ i = m + 1
    OBVIOUS
  <2>3. \A i \in 1 .. m : st.evs[st.conds[i]].c # e.c
    BY <1>2, <1>6, HeldFacts
  <2>4. \A i \in 1 .. m : st'.evs[st'.conds[i]] = st.evs[st.conds[i]] /\ st'.conds[i] \in 1 .. n + 1
    BY <1>2, <1>3, <1>4, <2>1, SMTT(30)
  <2>5. st'.evs[st'.conds[m + 1]] = e /\ st'.conds[m + 1] \in 1 .. n + 1
    BY <1>3, <2>1
  <2>6. m + 1 <= MaxConds
    BY <1>2, <1>6, AlarmsAssumption
  <2>7. \A i \in 1 .. m + 1 : st'.conds[i] \in 1 .. n + 1
    BY <2>2, <2>4, <2>5
  <2>8. \A i, j \in 1 .. m + 1 : st'.evs[st'.conds[i]].c = st'.evs[st'.conds[j]].c => i = j
    BY <1>4, <2>2, <2>3, <2>4, <2>5, Zenon
  <2>. QED  BY <1>3, <2>1, <2>6, <2>7, <2>8 DEF Listing
<1>7. ASSUME NEW k \in HeldAt(st, e.c), st'.conds = [st.conds EXCEPT ![k] = n + 1]
      PROVE  Listing'
  <2>1. k \in 1 .. m /\ st.evs[st.conds[k]].c = e.c
    BY <1>2, <1>7 DEF HeldAt
  <2>2. st'.conds \in Seq(Nat) /\ Len(st'.conds) = m
    <3>1. n + 1 \in Nat
      OBVIOUS
    <3>. QED  BY <1>1, <1>2, <1>7, <2>1, <3>1, ExceptSeq
  <2>3. /\ DOMAIN st'.conds = 1 .. m /\ st'.conds[k] = n + 1
        /\ \A i \in 1 .. m : i # k => st'.conds[i] = st.conds[i]
    BY <1>1, <1>2, <1>7, <2>1, <2>2, LenProperties
  <2>4. \A i \in 1 .. m : /\ st'.evs[st'.conds[i]].c = st.evs[st.conds[i]].c
                          /\ st'.conds[i] \in 1 .. n + 1
    <3>. TAKE i \in 1 .. m
    <3>1. CASE i = k
      BY <1>3, <2>1, <2>3, <3>1
    <3>2. CASE i # k
      <4>1. st'.conds[i] = st.conds[i] /\ st.conds[i] \in 1 .. n
        BY <1>4, <2>3, <3>2
      <4>2. st'.evs[st.conds[i]] = st.evs[st.conds[i]] /\ st.conds[i] \in 1 .. n + 1
        BY <1>2, <1>3, <4>1
      <4>. QED  BY <4>1, <4>2
    <3>. QED  BY <3>1, <3>2
  <2>. QED  BY <1>3, <1>4, <2>2, <2>3, <2>4 DEF Listing
<1>. QED  BY <1>2, <1>5, <1>6, <1>7, Zenon DEF Stored

LEMMA DeliverIs ==
  ASSUME TypeInv, Deliver
  PROVE  /\ queue # <<>> /\ Waiting /\ queue' = Tail(queue) /\ Head(queue) \in MessageType
         /\ st' \in StoreType /\ Handled(st, Head(queue), st')
         /\ UNCHANGED <<server, wanted, pc, act, done, target, late, exit, call, shown, own>>
<1>1. /\ queue # <<>> /\ queue' = Tail(queue) /\ st' = alarm_notif_cb(st, Head(queue)) /\ Waiting
      /\ UNCHANGED <<server, wanted, pc, act, done, target, late, exit, call, shown, own>>
  BY DEF Deliver
<1>2. queue \in Seq(MessageType) /\ st \in StoreType
  BY DEF TypeInv, TypeOK
<1>3. Head(queue) \in MessageType
  BY <1>1, <1>2, TailFacts
<1>4. \A i \in DOMAIN st.conds : st.conds[i] \in DOMAIN st.evs
  BY DEF TypeInv, Listing
<1>5. st' \in StoreType /\ Handled(st, Head(queue), st')
  BY <1>1, <1>2, <1>3, <1>4, Callback, Zenon
<1>. QED  BY <1>1, <1>3, <1>5

(* Events stay where they are.                                              *)
LEMMA StoreGrows ==
  ASSUME NEW s \in StoreType, NEW t \in StoreType, NEW e \in MessageType, Handled(s, e, t)
  PROVE  /\ \A i \in DOMAIN s.evs : i \in DOMAIN t.evs /\ t.evs[i] = s.evs[i]
         /\ Len(t.evs) >= Len(s.evs)
         /\ \A i \in DOMAIN t.evs :
               \/ i \in DOMAIN s.evs
               \/ Carries(e) /\ i = Len(s.evs) + 1 /\ t.evs[i] = e
<1>1. s.evs \in Seq(EventType) /\ Len(s.evs) \in Nat
  BY LenProperties DEF StoreType
<1>2. CASE t.evs = s.evs
  BY <1>1, <1>2
<1>3. CASE Carries(e) /\ t.evs = Append(s.evs, e)
  <2>1. e \in EventType
    BY <1>3, Messages
  <2>2. /\ Len(t.evs) = Len(s.evs) + 1
        /\ \A i \in DOMAIN s.evs : i \in DOMAIN t.evs /\ t.evs[i] = s.evs[i]
        /\ \A i \in DOMAIN t.evs :
               \/ i \in DOMAIN s.evs /\ t.evs[i] = s.evs[i]
               \/ i = Len(s.evs) + 1 /\ t.evs[i] = e
    BY <1>1, <1>3, <2>1, AppendFacts
  <2>. QED  BY <1>1, <1>3, <2>2
<1>. QED  BY <1>2, <1>3, Zenon DEF Handled, Kept, Stored

LEMMA DeliverTypes ==
  ASSUME TypeInv, Deliver
  PROVE  TypeInv'
<1>1. /\ queue # <<>> /\ queue' = Tail(queue) /\ Head(queue) \in MessageType
      /\ st' \in StoreType /\ Handled(st, Head(queue), st')
      /\ UNCHANGED <<server, wanted, pc, act, done, target, late, exit, call, shown, own>>
  BY DeliverIs
<1>2. TypeOK /\ Targeted /\ Listing /\ st \in StoreType /\ queue \in Seq(MessageType)
  BY DEF TypeInv, TypeOK
<1>3. queue' \in Seq(MessageType)
  BY <1>1, <1>2, TailFacts
<1>4. TypeOK'
  BY <1>1, <1>2, <1>3 DEF TypeOK, server, condition
<1>5. \A i \in DOMAIN st.evs : i \in DOMAIN st'.evs
  BY <1>1, <1>2, StoreGrows
<1>6. Targeted'
  BY <1>1, <1>2, <1>5 DEF Targeted, Chosen, Acting, Current
<1>7. Listing'
  <2>1. CASE Kept(st, st') \/ st' = st
    BY <1>2, <2>1 DEF Kept, Listing
  <2>2. CASE Carries(Head(queue)) /\ Stored(st, Head(queue), st')
    <3>1. Head(queue) \in EventType
      BY <1>1, <2>2, Messages
    <3>. QED  BY <1>1, <1>2, <2>2, <3>1, StoredListing
  <2>. QED  BY <1>1, <2>1, <2>2, Zenon DEF Handled
<1>. QED  BY <1>4, <1>6, <1>7 DEF TypeInv

(* al_latest finds the latest event of the target.                          *)
LEMMA LatestIs ==
  ASSUME TypeOK, target \in DOMAIN st.evs
  PROVE  /\ al_latest(TargetCond) \in DOMAIN st.evs
         /\ st.evs[al_latest(TargetCond)].c = TargetCond
         /\ \A j \in DOMAIN st.evs : st.evs[j].c = TargetCond => j <= al_latest(TargetCond)
<1>. DEFINE T == {i \in DOMAIN st.evs : st.evs[i].c = TargetCond}
<1>1. PICK n \in Nat : DOMAIN st.evs = 1 .. n
  BY LenProperties DEF TypeOK, StoreType
<1>2. target \in T /\ T \subseteq 1 .. n
  BY <1>1 DEF TargetCond
<1>3. PICK k \in T : \A j \in T : j <= k
  BY <1>2, Greatest
<1>4. \E i \in DOMAIN st.evs :
        st.evs[i].c = TargetCond /\ \A j \in DOMAIN st.evs : st.evs[j].c = TargetCond => j <= i
  BY <1>3
<1>. QED  BY <1>4, Zenon DEF al_latest

(* al_find_followup finds the first event that shows the effect.            *)
LEMMA FollowUpIs ==
  ASSUME TypeOK, NEW from,
         NEW found, found = {i \in DOMAIN st.evs :
            i > from /\ st.evs[i].c = st.evs[target].c /\ Shows(st.evs[i], Current)}
  PROVE  \/ found = {} /\ al_find_followup(from) = NoEvent
         \/ al_find_followup(from) \in found
<1>1. st.evs \in Seq(EventType)
  BY DEF TypeOK, StoreType
<1>2. CASE found = {}
  BY <1>2 DEF al_find_followup
<1>3. CASE found # {}
  <2>1. found \subseteq Nat
    BY <1>1, LenProperties
  <2>2. \E i \in found : \A j \in found : i <= j
    BY <1>3, <2>1, Least
  <2>3. PICK k : k = CHOOSE i \in found : \A j \in found : i <= j
    OBVIOUS
  <2>4. k \in found
    BY <2>2, <2>3
  <2>5. al_find_followup(from) = k
    BY <1>3, <2>3 DEF al_find_followup
  <2>. QED  BY <2>4, <2>5
<1>. QED  BY <1>2, <1>3

LEMMA FollowUpType ==
  ASSUME TypeOK
  PROVE  al_find_followup(act.mark) \in Nat
<1>1. DOMAIN st.evs \subseteq Nat
  BY LenProperties DEF TypeOK, StoreType
<1>2. PICK found : found = {i \in DOMAIN st.evs :
            i > act.mark /\ st.evs[i].c = st.evs[target].c /\ Shows(st.evs[i], Current)}
  OBVIOUS
<1>3. al_find_followup(act.mark) = NoEvent \/ al_find_followup(act.mark) \in found
  BY <1>2, FollowUpIs, Zenon
<1>4. NoEvent \in Nat
  BY DEF NoEvent
<1>. QED  BY <1>1, <1>2, <1>3, <1>4

LEMMA CommandTypes ==
  ASSUME TypeInv, Command \/ Deadline
  PROVE  TypeInv' /\ UNCHANGED <<server, wanted, shown, own>>
<1>. DEFINE Same == UNCHANGED <<cond, last, reports, rearmed, others, wanted, shown, own>>
<1>1. TypeOK /\ Targeted /\ Listing
  BY DEF TypeInv
<1>2. ASSUME NEW code \in {2, 3, 4, 6, 7}, Quit(code)  PROVE TypeInv' /\ Same
  <2>1. pc' = "done" /\ exit' = code
        /\ UNCHANGED <<cond, last, reports, rearmed, others, wanted, shown, own,
                       queue, st, act, done, target, late, call>>
    BY <1>2 DEF Quit, server, condition
  <2>2. pc' \in Locations /\ exit' \in {NoExit, 0, 2, 3, 4, 6, 7}
    BY <2>1 DEF Locations
  <2>3. TypeOK'
    BY <1>1, <2>1, <2>2 DEF TypeOK
  <2>4. Targeted' /\ Listing'
    BY <1>1, <2>1 DEF Targeted, Chosen, Acting, Listing
  <2>. QED  BY <2>1, <2>3, <2>4 DEF TypeInv
<1>3. ASSUME NEW next \in {"connect", "subscribe", "monitor", "monitored"}, GoTo(next)
      PROVE  TypeInv' /\ Same
  <2>1. pc' = next
        /\ UNCHANGED <<cond, last, reports, rearmed, others, wanted, shown, own,
                       queue, st, act, done, target, late, call, exit>>
    BY <1>3 DEF GoTo, server, condition
  <2>2. pc' \in Locations
    BY <2>1 DEF Locations
  <2>3. TypeOK'
    BY <1>1, <2>1, <2>2 DEF TypeOK
  <2>4. Targeted' /\ Listing'
    BY <1>1, <2>1 DEF Targeted, Chosen, Acting, Listing
  <2>. QED  BY <2>1, <2>3, <2>4 DEF TypeInv
<1>4. ASSUME NEW code \in {0, 4, 7}, Stop(code), Same, UNCHANGED <<queue, st, late>>,
             act' = act, target' \in Nat,
             done' \in [Acts -> ActionType]
      PROVE  TypeInv'
  <2>1. pc' = "report" /\ exit' = code /\ call' = "none"
    BY <1>4 DEF Stop
  <2>2. /\ pc' \in Locations /\ exit' \in {NoExit, 0, 2, 3, 4, 6, 7}
        /\ call' \in {"none", "sent", "Good", "Bad"}
    BY <2>1 DEF Locations
  <2>3. TypeOK'
    BY <1>1, <1>4, <2>2 DEF TypeOK
  <2>4. Targeted' /\ Listing'
    BY <1>1, <1>4, <2>1 DEF Targeted, Chosen, Acting, Listing
  <2>. QED  BY <2>3, <2>4 DEF TypeInv
<1>5. CASE Parse \/ Connect \/ Subscribe
  <2>1. (\E code \in {2, 3, 4, 6, 7} : Quit(code)) \/ \E next \in {"connect", "subscribe", "monitor", "monitored"} : GoTo(next)
    BY <1>5 DEF Parse, Connect, Subscribe
  <2>. QED  BY <1>2, <1>3, <2>1 DEF server, condition
<1>6. CASE Monitor
  <2>1. CASE GoTo("monitored")
    BY <1>3, <2>1 DEF server, condition
  <2>2. CASE Stop(4) /\ UNCHANGED <<server, queue, wanted, st, act, done, target, late, shown, own>>
    BY <1>1, <1>4, <2>2 DEF server, condition, TypeOK
  <2>. QED  BY <1>6, <2>1, <2>2 DEF Monitor
<1>7. CASE CallRefresh
  <2>1. /\ pc' = "refresh" /\ call' = "sent" /\ st' = [st EXCEPT !.phase = 1]
        /\ Same /\ UNCHANGED <<queue, act, done, target, late, exit>>
    BY <1>7 DEF CallRefresh, server, condition
  <2>2. pc' \in Locations /\ call' \in {"none", "sent", "Good", "Bad"}
    BY <2>1 DEF Locations
  <2>3. st' \in StoreType /\ st'.evs = st.evs /\ st'.conds = st.conds
    <3>1. PICK p \in 0 .. 2 : p = 1
      OBVIOUS
    <3>2. st' = [st EXCEPT !.phase = p] /\ st \in StoreType
      BY <1>1, <2>1, <3>1 DEF TypeOK
    <3>. QED  BY <3>2 DEF StoreType
  <2>4. TypeOK'
    BY <1>1, <2>1, <2>2, <2>3 DEF TypeOK
  <2>5. Targeted' /\ Listing'
    BY <1>1, <2>1, <2>3 DEF Targeted, Chosen, Acting, Listing
  <2>. QED  BY <2>1, <2>4, <2>5 DEF TypeInv, server, condition
<1>8. CASE RefreshReturns
  <2>1. Same /\ UNCHANGED <<queue, st, act, done, target, late>>
    BY <1>8 DEF RefreshReturns, server, condition
  <2>2. CASE Stop(4)
    BY <1>1, <1>4, <2>1, <2>2 DEF TypeOK, server, condition
  <2>3. CASE pc' = "waitEnd" /\ call' = "none" /\ exit' = exit
    <3>1. pc' \in Locations /\ call' \in {"none", "sent", "Good", "Bad"}
      BY <2>3 DEF Locations
    <3>2. TypeOK'
      BY <1>1, <2>1, <2>3, <3>1 DEF TypeOK
    <3>3. Targeted' /\ Listing'
      BY <1>1, <2>1, <2>3 DEF Targeted, Chosen, Acting, Listing
    <3>. QED  BY <2>1, <3>2, <3>3 DEF TypeInv, server, condition
  <2>. QED  BY <1>8, <2>2, <2>3 DEF RefreshReturns
<1>9. CASE NoEnd \/ AllActed
  BY <1>1, <1>4, <1>9 DEF NoEnd, AllActed, server, condition, TypeOK
<1>10. CASE Choose
  <2>1. Same /\ UNCHANGED <<queue, st, done, late>> /\ target' = Target
    BY <1>10 DEF Choose, server, condition
  <2>2. Target = NoEvent \/ Target \in DOMAIN st.evs
    <3>1. PICK found : found = {i \in DOMAIN st.conds : Matches(st.evs[st.conds[i]])}
      OBVIOUS
    <3>2. CASE found = {}
      BY <3>1, <3>2 DEF Target
    <3>3. CASE found # {}
      <4>1. st.conds \in Seq(Nat)
        BY <1>1 DEF TypeOK, StoreType
      <4>2. found \subseteq Nat /\ found \subseteq DOMAIN st.conds
        BY <3>1, <4>1, LenProperties
      <4>3. \E i \in found : \A j \in found : i <= j
        BY <3>3, <4>2, Least
      <4>4. PICK i : i = CHOOSE k \in found : \A j \in found : k <= j
        OBVIOUS
      <4>5. i \in found
        BY <4>3, <4>4
      <4>6. Target = st.conds[i]
        BY <3>1, <3>3, <4>4 DEF Target
      <4>. QED  BY <1>1, <4>2, <4>5, <4>6 DEF Listing
    <3>. QED  BY <3>2, <3>3
  <2>3. target' \in Nat
    <3>1. st.evs \in Seq(EventType)
      BY <1>1 DEF TypeOK, StoreType
    <3>2. DOMAIN st.evs \subseteq Nat
      BY <3>1, LenProperties
    <3>. QED  BY <2>1, <2>2, <3>2 DEF NoEvent
  <2>4. CASE Target = NoEvent /\ Stop(IF wanted.actions # {} THEN 4 ELSE 0) /\ act' = act
    <3>1. \E code \in {0, 4, 7} : Stop(code)
      BY <2>4
    <3>. QED  BY <1>1, <1>4, <2>1, <2>3, <2>4, <3>1 DEF TypeOK, server, condition
  <2>5. CASE /\ Target # NoEvent /\ act' = [act EXCEPT !.k = 1] /\ pc' = "next"
             /\ UNCHANGED <<exit, call>>
    <3>1. act' \in [k : 0 .. 4, eventId : Nat, mark : Nat] /\ act'.k = 1
      <4>1. PICK k \in 0 .. 4 : k = 1
        OBVIOUS
      <4>2. act' = [act EXCEPT !.k = k] /\ act \in [k : 0 .. 4, eventId : Nat, mark : Nat]
        BY <1>1, <2>5, <4>1 DEF TypeOK
      <4>. QED  BY <4>1, <4>2
    <3>2. pc' \in Locations
      BY <2>5 DEF Locations
    <3>3. TypeOK'
      BY <1>1, <2>1, <2>3, <2>5, <3>1, <3>2 DEF TypeOK
    <3>4. 1 \in 1 .. 4
      OBVIOUS
    <3>5. Targeted' /\ Listing'
      BY <1>1, <2>1, <2>2, <2>5, <3>1, <3>4 DEF Targeted, Chosen, Acting, Listing
    <3>. QED  BY <2>1, <3>3, <3>5 DEF TypeInv, server, condition
  <2>. QED  BY <1>10, <2>4, <2>5 DEF Choose
<1>11. CASE CallAction
  <2>1. pc = "next" /\ act.k <= Len(Actions) /\ Same /\ UNCHANGED <<queue, st, target, late, exit>>
    BY <1>11 DEF CallAction, server, condition
  <2>2. /\ act.k \in 1 .. 3 /\ target \in DOMAIN st.evs /\ Current \in Acts
        /\ act.k + 1 \in 1 .. 4 /\ act.k + 1 \in 0 .. 4 /\ act.k \in 1 .. 4
    <3>1. act.k \in 1 .. 4 /\ target \in DOMAIN st.evs
      BY <1>1, <2>1 DEF Targeted, Chosen
    <3>2. act.k \in 1 .. 3
      BY <2>1, <3>1, ActionNames
    <3>. QED  BY <3>1, <3>2, ActionNames DEF Current
  <2>3. CASE act' = [act EXCEPT !.k = act.k + 1] /\ UNCHANGED <<pc, call, done>>
    <3>1. act' \in [k : 0 .. 4, eventId : Nat, mark : Nat] /\ act'.k = act.k + 1
      BY <1>1, <2>2, <2>3 DEF TypeOK, ActionType
    <3>2. TypeOK'
      BY <1>1, <2>1, <2>3, <3>1 DEF TypeOK
    <3>3. Targeted' /\ Listing'
      BY <1>1, <2>1, <2>2, <2>3, <3>1 DEF Targeted, Chosen, Acting, Listing
    <3>. QED  BY <2>1, <3>2, <3>3 DEF TypeInv, server, condition
  <2>4. CASE /\ Current \in wanted.actions
             /\ act' = [act EXCEPT !.eventId = st.evs[al_latest(st.evs[target].c)].id,
                                   !.mark = Len(st.evs)]
             /\ done' = [done EXCEPT ![Current].called = TRUE, ![Current].eventId = act'.eventId]
             /\ pc' = "action" /\ call' = "sent"
    <3>1. al_latest(TargetCond) \in DOMAIN st.evs
      BY <1>1, <2>2, LatestIs
    <3>2. /\ st.evs[al_latest(TargetCond)].id \in Nat /\ Len(st.evs) \in Nat
      <4>1. st.evs \in Seq(EventType)
        BY <1>1 DEF TypeOK, StoreType
      <4>2. st.evs[al_latest(TargetCond)] \in EventType
        BY <3>1, <4>1, ElementOfSeq, LenProperties
      <4>. QED  BY <4>1, <4>2, LenProperties DEF EventType
    <3>3. /\ act' \in [k : 0 .. 4, eventId : Nat, mark : Nat] /\ act'.k = act.k /\ act'.eventId \in Nat
      BY <1>1, <2>4, <3>2 DEF TypeOK, TargetCond
    <3>4. PICK n \in Nat : n = act'.eventId
      BY <3>3
    <3>5. done' = [done EXCEPT ![Current].called = TRUE, ![Current].eventId = n]
      BY <2>4, <3>4
    <3>6. done' \in [Acts -> ActionType]
      <4>1. PICK d : d = [done[Current] EXCEPT !.called = TRUE, !.eventId = n]
        OBVIOUS
      <4>2. done[Current] \in ActionType /\ done \in [Acts -> ActionType]
        BY <1>1, <2>2 DEF TypeOK
      <4>3. d \in ActionType
        BY <4>1, <4>2 DEF ActionType
      <4>4. done' = [done EXCEPT ![Current] = d]
        BY <2>2, <3>5, <4>1, <4>2
      <4>. QED  BY <2>2, <4>2, <4>3, <4>4
    <3>7. pc' \in Locations /\ call' \in {"none", "sent", "Good", "Bad"}
      BY <2>4 DEF Locations
    <3>8. TypeOK'
      BY <1>1, <2>1, <3>3, <3>6, <3>7 DEF TypeOK
    <3>9. Current' = Current
      BY <3>3, SMTT(30) DEF Current
    <3>10. Targeted' /\ Listing'
      BY <1>1, <2>1, <2>2, <2>4, <3>3, <3>9 DEF Targeted, Chosen, Acting, Listing
    <3>. QED  BY <2>1, <3>8, <3>10 DEF TypeInv, server, condition
  <2>. QED  BY <1>11, <2>3, <2>4 DEF CallAction
<1>12. CASE ActionReturns
  <2>1. pc = "action" /\ Same /\ UNCHANGED <<queue, st, act, target, late>>
    BY <1>12 DEF ActionReturns, server, condition
  <2>2. Acting /\ Current \in Acts
    BY <1>1, <2>1, ActingFacts DEF Acting
  <2>3. PICK sc \in {"Good", "Bad"} :
          /\ done' = [done EXCEPT ![Current].sc = sc]
          /\ (pc' = "followUp" /\ call' = "none" /\ exit' = exit) \/ Stop(4)
    BY <1>12 DEF ActionReturns, Answers
  <2>4. done' \in [Acts -> ActionType]
    BY <1>1, <2>2, <2>3, ZenonT(90) DEF TypeOK, ActionType
  <2>5. CASE Stop(4)
    BY <1>1, <1>4, <2>1, <2>4, <2>5 DEF TypeOK, server, condition
  <2>6. CASE pc' = "followUp" /\ call' = "none" /\ exit' = exit
    <3>1. pc' \in Locations /\ call' \in {"none", "sent", "Good", "Bad"}
      BY <2>6 DEF Locations
    <3>2. TypeOK'
      BY <1>1, <2>1, <2>4, <2>6, <3>1 DEF TypeOK
    <3>3. Current' = Current
      BY <2>1 DEF Current
    <3>4. Targeted' /\ Listing'
      BY <1>1, <2>1, <2>2, <2>6, <3>3 DEF Targeted, Chosen, Acting, Listing
    <3>. QED  BY <2>1, <3>2, <3>4 DEF TypeInv, server, condition
  <2>. QED  BY <2>3, <2>5, <2>6
<1>13. ASSUME Acting, NEW event, AfterAction(event), Same, UNCHANGED <<queue, st, target, late>>,
              done' \in [Acts -> ActionType]
       PROVE  TypeInv'
  <2>1. CASE Stop(7) /\ act' = act
    BY <1>1, <1>4, <1>13, <2>1 DEF TypeOK
  <2>2. CASE /\ pc' = "next" /\ call' = "none" /\ act' = [act EXCEPT !.k = act.k + 1]
             /\ exit' = exit
    <3>1. act.k \in 1 .. 3 /\ target \in DOMAIN st.evs
      BY <1>1, <1>13, ActingFacts
    <3>2. act.k + 1 \in 0 .. 4 /\ act.k + 1 \in 1 .. 4
      BY <3>1
    <3>3. act' \in [k : 0 .. 4, eventId : Nat, mark : Nat] /\ act'.k = act.k + 1
      BY <1>1, <2>2, <3>2 DEF TypeOK
    <3>4. pc' \in Locations /\ call' \in {"none", "sent", "Good", "Bad"}
      BY <2>2 DEF Locations
    <3>5. TypeOK'
      BY <1>1, <1>13, <2>2, <3>3, <3>4 DEF TypeOK
    <3>6. Targeted' /\ Listing'
      BY <1>1, <1>13, <2>2, <3>1, <3>2, <3>3 DEF Targeted, Chosen, Acting, Listing
    <3>. QED  BY <3>5, <3>6 DEF TypeInv
  <2>. QED  BY <1>13, <2>1, <2>2 DEF AfterAction
<1>14. CASE FollowUp
  <2>1. /\ pc = "followUp" /\ Same /\ UNCHANGED <<queue, st, target, late>>
        /\ done' = [done EXCEPT ![Current].event = al_find_followup(act.mark),
                                ![Current].known = Len(st.evs)]
        /\ IF act.k = 1 THEN pc' = "repeat" /\ call' = "sent" /\ UNCHANGED <<act, exit>>
           ELSE AfterAction(al_find_followup(act.mark))
    BY <1>14 DEF FollowUp, server, condition
  <2>2. Acting /\ Current \in Acts /\ Current \in wanted.actions /\ act.k \in 1 .. 3
        /\ target \in DOMAIN st.evs
    BY <1>1, <2>1, ActingFacts DEF Acting
  <2>3. PICK event \in Nat : event = al_find_followup(act.mark)
    BY <1>1, FollowUpType
  <2>4. PICK n \in Nat : n = Len(st.evs)
    BY <1>1, LenProperties DEF TypeOK, StoreType
  <2>5. done' = [done EXCEPT ![Current].event = event, ![Current].known = n]
    BY <2>1, <2>3, <2>4
  <2>6. done' \in [Acts -> ActionType]
    <3>1. PICK d : d = [done[Current] EXCEPT !.event = event, !.known = n]
      OBVIOUS
    <3>2. done[Current] \in ActionType /\ done \in [Acts -> ActionType]
      BY <1>1, <2>2 DEF TypeOK
    <3>3. d \in ActionType
      BY <3>1, <3>2 DEF ActionType
    <3>4. done' = [done EXCEPT ![Current] = d]
      BY <2>2, <2>5, <3>1, <3>2
    <3>. QED  BY <2>2, <3>2, <3>3, <3>4
  <2>7. CASE act.k = 1
    <3>1. pc' = "repeat" /\ call' = "sent" /\ UNCHANGED <<act, exit>>
      BY <2>1, <2>7
    <3>2. pc' \in Locations /\ call' \in {"none", "sent", "Good", "Bad"}
      BY <3>1 DEF Locations
    <3>3. TypeOK'
      BY <1>1, <2>1, <2>6, <3>1, <3>2 DEF TypeOK
    <3>4. Current' = Current /\ act.k \in 1 .. 4
      BY <2>2, <3>1 DEF Current
    <3>5. Targeted' /\ Listing'
      BY <1>1, <2>1, <2>2, <2>7, <3>1, <3>4 DEF Targeted, Chosen, Acting, Listing
    <3>. QED  BY <2>1, <3>3, <3>5 DEF TypeInv, server, condition
  <2>8. CASE act.k # 1
    BY <1>13, <2>1, <2>2, <2>6, <2>8 DEF server, condition
  <2>. QED  BY <2>7, <2>8
<1>15. CASE RepeatReturns
  <2>1. /\ pc = "repeat" /\ Same /\ UNCHANGED <<queue, st, target, late>>
        /\ AfterAction(done[Current].event)
    BY <1>15 DEF RepeatReturns, server, condition
  <2>2. PICK sc \in {"Good", "Bad"} : done' = [done EXCEPT ![Current].repeatSc = sc]
    BY <1>15 DEF RepeatReturns, Answers
  <2>3. Acting /\ Current \in Acts
    BY <1>1, <2>1, ActingFacts DEF Acting
  <2>4. done' \in [Acts -> ActionType]
    BY <1>1, <2>2, <2>3, ZenonT(90) DEF TypeOK, ActionType
  <2>. QED  BY <1>13, <2>1, <2>3, <2>4 DEF server, condition
<1>16. CASE Envelope
  <2>1. /\ pc' = "done" /\ queue' = <<>> /\ Same
        /\ UNCHANGED <<st, act, done, target, late, call, exit>>
    BY <1>16 DEF Envelope, server, condition
  <2>2. pc' \in Locations /\ queue' \in Seq(MessageType)
    BY <2>1 DEF Locations
  <2>3. TypeOK'
    BY <1>1, <2>1, <2>2 DEF TypeOK
  <2>4. Targeted' /\ Listing'
    BY <1>1, <2>1 DEF Targeted, Chosen, Acting, Listing
  <2>. QED  BY <2>1, <2>3, <2>4 DEF TypeInv, server, condition
<1>17. CASE Deadline
  <2>1. /\ late' = TRUE /\ Same
        /\ UNCHANGED <<queue, pc, st, act, done, target, call, exit>>
    BY <1>17 DEF Deadline, server, condition
  <2>2. TypeOK'
    BY <1>1, <2>1 DEF TypeOK
  <2>. QED  BY <1>1, <2>1, <2>2, SameTarget DEF TypeInv, server, condition
<1>. QED
  BY <1>5, <1>6, <1>7, <1>8, <1>9, <1>10, <1>11, <1>12, <1>14, <1>15, <1>16, <1>17
  DEF Command

(* Types, and two facts that make the indices of cmd_alarms safe to use: a  *)
(* target, once chosen, and every entry of the list of conditions (AlStore, *)
(* conds) point to an event that is stored, the list never outgrows         *)
(* AL_MAX_CONDS and holds no condition twice.                               *)
THEOREM TypeCorrect == Spec => [](TypeOK /\ Targeted /\ Listing)
<1>1. Init => TypeInv
  BY InitTypes
<1>2. ASSUME TypeInv, [Next]_vars  PROVE TypeInv'
  <2>1. CASE UNCHANGED vars
    <3>1. TypeOK' /\ UNCHANGED <<wanted, pc, st, act, target>>
      BY <1>2, <2>1 DEF TypeInv, TypeOK, vars, server, condition, client
    <3>. QED  BY <1>2, <3>1, SameTarget DEF TypeInv
  <2>2. CASE Command \/ Deadline
    BY <1>2, <2>2, CommandTypes
  <2>3. CASE Deliver
    BY <1>2, <2>3, DeliverTypes
  <2>4. CASE \/ \E c \in Contested : Reset(c) \/ OtherClient(c)
             \/ ServeAction \/ ServeRefresh
    BY <1>2, <2>4, ServerTypes
  <2>. QED  BY <1>2, <2>1, <2>2, <2>3, <2>4 DEF Next
<1>. QED  BY <1>1, <1>2, PTL DEF Spec, TypeInv

-----------------------------------------------------------------------------
(* Alarms.Reset arms a condition.                                           *)

ArmedInv == LastIsState /\ \A c \in rearmed : cond[c] = ArmedState(cond[c].comment)

(* A step leaves the conditions alone, or one of them reports.              *)
LEMMA ServerSteps ==
  ASSUME TypeInv, [Next]_vars
  PROVE  \/ UNCHANGED <<cond, last, reports, rearmed>>
         \/ \E c, es, b : /\ Emits(c, es, b) /\ rearmed' \subseteq rearmed \cup {c}
                          /\ c \in rearmed' => cond'[c] = ArmedState(cond[c].comment)
<1>1. TypeOK /\ Targeted
  BY DEF TypeInv
<1>2. CASE UNCHANGED vars
  BY <1>2 DEF vars, server, condition
<1>3. CASE Command \/ Deadline
  BY <1>3, CommandTypes DEF server, condition
<1>4. CASE Deliver
  BY <1>4 DEF Deliver, server, condition
<1>5. CASE ServeRefresh
  BY <1>5 DEF ServeRefresh, server, condition
<1>6. CASE ServeAction
  <2>1. Executed \/ UNCHANGED condition
    BY <1>1, <1>6, ServeActionIs
  <2>2. CASE Executed
    <3>1. \E es, b : Emits(TargetCond, es, b)
      BY <2>2 DEF Executed
    <3>2. rearmed' = rearmed \ {TargetCond}
      BY <2>2 DEF Executed
    <3>. QED  BY <3>1, <3>2
  <2>. QED  BY <2>1, <2>2 DEF condition
<1>7. ASSUME NEW c \in Contested, Reset(c) \/ OtherClient(c)
      PROVE  \E es, b : /\ Emits(c, es, b) /\ rearmed' \subseteq rearmed \cup {c}
                        /\ c \in rearmed' => cond'[c] = ArmedState(cond[c].comment)
  <2>1. CASE Reset(c)
    BY <1>1, <2>1, ResetEmits
  <2>2. CASE OtherClient(c)
    <3>1. (\E es : Emits(c, es, "none")) /\ rearmed' = rearmed \ {c}
      BY <1>1, <2>2, OtherEmits
    <3>. QED  BY <3>1
  <2>. QED  BY <1>7, <2>1, <2>2
<1>. QED  BY <1>2, <1>3, <1>4, <1>5, <1>6, <1>7 DEF Next

LEMMA ArmedStep ==
  ASSUME TypeInv, ArmedInv, [Next]_vars
  PROVE  ArmedInv'
<1>1. TypeOK
  BY DEF TypeInv
<1>2. CASE UNCHANGED <<cond, last, reports, rearmed>>
  BY <1>2 DEF ArmedInv, LastIsState
<1>3. ASSUME NEW c, NEW es, NEW b, Emits(c, es, b), rearmed' \subseteq rearmed \cup {c},
             c \in rearmed' => cond'[c] = ArmedState(cond[c].comment)
      PROVE  ArmedInv'
  <2>1. /\ c \in Conds /\ last'[c].c = c /\ last'[c].fields = cond'[c]
        /\ last'[c].id = reports' /\ reports' \in Nat /\ reports' > reports
        /\ \A d \in Conds : d # c => last'[d] = last[d] /\ cond'[d] = cond[d]
    BY <1>1, <1>3, EmitLast
  <2>2. reports \in Nat /\ \A d \in Conds : last[d].id \in Nat
    BY <1>1 DEF TypeOK, EventType
  <2>3. LastIsState'
    <3>1. ASSUME NEW d \in Conds
          PROVE  last'[d].c = d /\ last'[d].fields = cond'[d] /\ last'[d].id <= reports'
      <4>1. CASE d = c
        BY <2>1, <4>1
      <4>2. CASE d # c
        <5>1. last[d].c = d /\ last[d].fields = cond[d] /\ last[d].id <= reports
          BY DEF ArmedInv, LastIsState
        <5>2. last'[d] = last[d] /\ cond'[d] = cond[d]
          BY <2>1, <4>2
        <5>3. last[d].id <= reports'
          BY <2>1, <2>2, <5>1
        <5>. QED  BY <5>1, <5>2, <5>3
      <4>. QED  BY <4>1, <4>2
    <3>. QED  BY <3>1 DEF LastIsState
  <2>4. ASSUME NEW d \in rearmed'
        PROVE  cond'[d] = ArmedState(cond'[d].comment)
    <3>1. CASE d = c
      <4>1. PICK x : x = cond[c].comment
        OBVIOUS
      <4>2. cond'[d] = ArmedState(x)
        BY <1>3, <2>4, <3>1, <4>1, Zenon
      <4>3. ArmedState(x).comment = x
        BY DEF ArmedState
      <4>. QED  BY <4>2, <4>3, Zenon
    <3>2. CASE d # c
      <4>1. d \in rearmed /\ d \in Conds
        BY <1>1, <1>3, <3>2 DEF TypeOK
      <4>2. cond'[d] = cond[d]
        BY <2>1, <3>2, <4>1
      <4>. QED  BY <4>1, <4>2, Zenon DEF ArmedInv
    <3>. QED  BY <3>1, <3>2
  <2>. QED  BY <2>3, <2>4 DEF ArmedInv
<1>. QED  BY <1>2, <1>3, ServerSteps

(* "(Re-)arm: Enabled, Active, unacknowledged, unconfirmed, Retain, Severity*)
(* 500, Message" (server.c, alarm_arm), for every state the condition may   *)
(* have been in and with the event reported last saying the same.           *)
THEOREM ResetArmsCorrect == Spec => []ResetArms
<1>1. Init => ArmedInv
  BY InitTypes DEF ArmedInv
<1>2. TypeInv /\ ArmedInv /\ [Next]_vars => ArmedInv'
  BY ArmedStep
<1>3. TypeInv /\ ArmedInv => ResetArms
  BY DEF TypeInv, TypeOK, ArmedInv, LastIsState, ResetArms, ArmedState
<1>4. Spec => []TypeInv
  BY TypeCorrect DEF TypeInv
<1>. QED  BY <1>1, <1>2, <1>3, <1>4, PTL DEF Spec

-----------------------------------------------------------------------------
(* The stream of events.                                                    *)

LEMMA StreamTypes ==
  ASSUME TypeOK
  PROVE  /\ \A j \in DOMAIN queue : j \in Nat /\ queue[j] \in MessageType
         /\ \A i \in DOMAIN st.evs : /\ st.evs[i] \in EventType /\ i \in Nat \ {0}
                                     /\ st.evs[i].c \in Conds /\ st.evs[i].id \in Nat
         /\ \A j \in DOMAIN queue : Carries(queue[j]) => queue[j].c \in Conds /\ queue[j].id \in Nat
         /\ \A c \in Conds : last[c] \in EventType /\ last[c].id \in Nat
         /\ reports \in Nat
<1>1. /\ queue \in Seq(MessageType) /\ st.evs \in Seq(EventType)
      /\ last \in [Conds -> EventType] /\ reports \in Nat
  BY DEF TypeOK, StoreType
<1>2. \A j \in DOMAIN queue : j \in Nat /\ queue[j] \in MessageType
  BY <1>1, LenProperties, ElementOfSeq
<1>3. \A i \in DOMAIN st.evs : i \in Nat \ {0} /\ st.evs[i] \in EventType
  BY <1>1, LenProperties, ElementOfSeq
<1>4. \A e \in EventType : e.c \in Conds /\ e.id \in Nat
  BY DEF EventType
<1>5. \A j \in DOMAIN queue : Carries(queue[j]) => queue[j] \in EventType
  BY <1>2, Messages
<1>. QED  BY <1>1, <1>2, <1>3, <1>4, <1>5

(* A new event of condition c is newer than all the others of c.            *)
LEMMA FreshIsNewer ==
  ASSUME TypeOK, LastIsState, Stream, NEW c, NEW es, NEW b, Emits(c, es, b),
         NEW j \in DOMAIN queue', Fresh(j, c, b)
  PROVE  /\ queue'[j].id <= last'[c].id
         /\ queue'[j].id > reports
         /\ \A i \in DOMAIN st.evs : st.evs[i].c = c => st.evs[i].id < queue'[j].id
         /\ \A k \in DOMAIN queue' : k < j /\ Carries(queue'[k]) =>
               (queue'[k].c = c => queue'[k].id < queue'[j].id)
<1>1. c \in Conds /\ last'[c].id = reports' /\ reports \in Nat /\ reports' \in Nat
  BY EmitLast DEF TypeOK
<1>2. last[c].id \in Nat /\ last[c].id <= reports
  BY <1>1, StreamTypes DEF LastIsState
<1>3. PICK m \in Nat : m = Len(queue)
  BY LenProperties DEF TypeOK
<1>4. j \in Nat /\ j > m /\ queue'[j].id = reports + (j - m) /\ queue'[j].id <= reports'
  BY <1>3 DEF Fresh
<1>5. queue'[j].id > reports /\ queue'[j].id \in Nat
  BY <1>1, <1>3, <1>4
<1>6. ASSUME NEW i \in DOMAIN st.evs, st.evs[i].c = c
      PROVE  st.evs[i].id < queue'[j].id
  <2>1. st.evs[i].id \in Nat /\ st.evs[i].id <= last[c].id
    BY <1>6, StreamTypes DEF Stream
  <2>. QED  BY <1>1, <1>2, <1>5, <2>1
<1>7. ASSUME NEW k \in DOMAIN queue', k < j, Carries(queue'[k]), queue'[k].c = c
      PROVE  queue'[k].id < queue'[j].id
  <2>1. (k \in DOMAIN queue /\ queue'[k] = queue[k]) \/ Fresh(k, c, b)
    BY EmitQueue
  <2>2. CASE k \in DOMAIN queue /\ queue'[k] = queue[k]
    <3>1. queue[k].id \in Nat /\ queue[k].id <= last[c].id
      BY <1>7, <2>2, StreamTypes DEF Stream
    <3>. QED  BY <1>1, <1>2, <1>5, <2>2, <3>1
  <2>3. CASE Fresh(k, c, b)
    <3>1. k \in Nat /\ queue'[k].id = reports + (k - m)
      BY <1>3, <2>3 DEF Fresh
    <3>. QED  BY <1>1, <1>3, <1>4, <1>7, <3>1
  <2>. QED  BY <2>1, <2>2, <2>3
<1>. QED  BY <1>1, <1>4, <1>5, <1>6, <1>7

LEMMA EmitStream ==
  ASSUME TypeOK, LastIsState, Stream, NEW c, NEW es, NEW b, Emits(c, es, b), st' = st
  PROVE  Stream'
<1>1. /\ c \in Conds /\ last'[c].id = reports' /\ reports \in Nat /\ reports' \in Nat
      /\ reports' > reports /\ \A d \in Conds : d # c => last'[d] = last[d]
  BY EmitLast DEF TypeOK
<1>2. \A d \in Conds : last[d].id \in Nat /\ last[d].id <= last'[d].id /\ last'[d].id \in Nat
  <2>. TAKE d \in Conds
  <2>1. last[d].id \in Nat /\ last[d].id <= reports
    BY StreamTypes DEF LastIsState
  <2>. QED  BY <1>1, <2>1
<1>3. ASSUME NEW i \in DOMAIN st.evs  PROVE st.evs[i].id <= last'[st.evs[i].c].id
  <2>1. st.evs[i].c \in Conds /\ st.evs[i].id \in Nat /\ st.evs[i].id <= last[st.evs[i].c].id
    BY StreamTypes DEF Stream
  <2>. QED  BY <1>2, <2>1
<1>4. ASSUME NEW j \in DOMAIN queue', Carries(queue'[j])
      PROVE  /\ queue'[j].id <= last'[queue'[j].c].id
             /\ \A i \in DOMAIN st.evs :
                   st.evs[i].c = queue'[j].c => st.evs[i].id <= queue'[j].id
             /\ \A k \in DOMAIN queue' : k < j /\ Carries(queue'[k]) =>
                   (queue'[k].c = queue'[j].c => queue'[k].id <= queue'[j].id)
  <2>1. (j \in DOMAIN queue /\ queue'[j] = queue[j]) \/ Fresh(j, c, b)
    BY EmitQueue
  <2>2. CASE j \in DOMAIN queue /\ queue'[j] = queue[j]
    <3>1. /\ queue[j].id <= last[queue[j].c].id
          /\ \A i \in DOMAIN st.evs : st.evs[i].c = queue[j].c => st.evs[i].id <= queue[j].id
          /\ \A k \in DOMAIN queue : k < j /\ Carries(queue[k]) =>
                (queue[k].c = queue[j].c => queue[k].id <= queue[j].id)
      BY <1>4, <2>2 DEF Stream
    <3>2. queue[j].c \in Conds /\ queue[j].id \in Nat /\ j \in Nat
      BY <1>4, <2>2, StreamTypes
    <3>3. queue'[j].id <= last'[queue'[j].c].id
      BY <1>2, <2>2, <3>1, <3>2
    <3>4. ASSUME NEW k \in DOMAIN queue', k < j  PROVE k \in DOMAIN queue /\ queue'[k] = queue[k]
      <4>1. PICK m \in Nat : m = Len(queue) /\ DOMAIN queue = 1 .. m
        BY LenProperties DEF TypeOK
      <4>2. j <= m /\ (k \in DOMAIN queue \/ (k \in Nat /\ k > m))
        BY <2>2, <4>1, EmitQueue DEF Fresh
      <4>3. k \in DOMAIN queue
        BY <3>2, <3>4, <4>1, <4>2
      <4>. QED  BY <4>3, EmitQueue
    <3>. QED  BY <2>2, <3>1, <3>3, <3>4, Zenon
  <2>3. CASE Fresh(j, c, b)
    <3>1. queue'[j].c = c /\ queue'[j].id \in Nat
      BY <2>3, StreamTypes DEF Fresh, EventType
    <3>2. /\ queue'[j].id <= last'[c].id
          /\ \A i \in DOMAIN st.evs : st.evs[i].c = c => st.evs[i].id < queue'[j].id
          /\ \A k \in DOMAIN queue' : k < j /\ Carries(queue'[k]) =>
                (queue'[k].c = c => queue'[k].id < queue'[j].id)
      BY <2>3, FreshIsNewer, Zenon
    <3>3. \A i \in DOMAIN st.evs : st.evs[i].c = c => st.evs[i].id <= queue'[j].id
      BY <3>1, <3>2, StreamTypes
    <3>4. ASSUME NEW k \in DOMAIN queue', k < j, Carries(queue'[k]), queue'[k].c = c
          PROVE  queue'[k].id <= queue'[j].id
      <4>1. queue'[k].id < queue'[j].id
        BY <3>2, <3>4
      <4>2. queue'[k].id \in Nat
        BY <3>4, EmitQueue, StreamTypes DEF Fresh, EventType
      <4>. QED  BY <3>1, <4>1, <4>2
    <3>. QED  BY <3>1, <3>2, <3>3, <3>4
  <2>. QED  BY <2>1, <2>2, <2>3
<1>. QED  BY <1>3, <1>4 DEF Stream

LEMMA EmitNews ==
  ASSUME TypeOK, LastIsState, Stream, News, NEW c, NEW es, NEW b, Emits(c, es, b), st' = st,
         Served' => Served
  PROVE  News'
<1>0. Ends' => Ends
  <2>1. \A j \in DOMAIN queue' : (j \in DOMAIN queue /\ queue'[j] = queue[j])
                                 \/ queue'[j].kind # "end"
    BY EmitQueue DEF Fresh, EventType
  <2>. QED  BY <2>1 DEF Ends
<1>1. SUFFICES ASSUME Served, Ends, NEW j \in DOMAIN queue', Carries(queue'[j]),
                      \A p \in DOMAIN queue' : p >= j => queue'[p].kind # "end"
               PROVE  /\ \A i \in DOMAIN st.evs :
                            st.evs[i].c = queue'[j].c => st.evs[i].id < queue'[j].id
                      /\ \A k \in DOMAIN queue' : k < j /\ Carries(queue'[k]) =>
                            (queue'[k].c = queue'[j].c => queue'[k].id < queue'[j].id)
  BY <1>0 DEF News
<1>2. (j \in DOMAIN queue /\ queue'[j] = queue[j]) \/ Fresh(j, c, b)
  BY EmitQueue
<1>3. CASE Fresh(j, c, b)
  <2>1. queue'[j].c = c
    BY <1>3 DEF Fresh
  <2>. QED  BY <1>3, <2>1, FreshIsNewer
<1>4. CASE j \in DOMAIN queue /\ queue'[j] = queue[j]
  <2>1. \A p \in DOMAIN queue : p >= j => queue[p].kind # "end"
    BY <1>1, EmitQueue
  <2>2. /\ \A i \in DOMAIN st.evs : st.evs[i].c = queue[j].c => st.evs[i].id < queue[j].id
        /\ \A k \in DOMAIN queue : k < j /\ Carries(queue[k]) =>
              (queue[k].c = queue[j].c => queue[k].id < queue[j].id)
    BY <1>1, <1>4, <2>1 DEF News
  <2>3. ASSUME NEW k \in DOMAIN queue', k < j  PROVE k \in DOMAIN queue /\ queue'[k] = queue[k]
    <3>1. PICK m \in Nat : m = Len(queue) /\ DOMAIN queue = 1 .. m
      BY LenProperties DEF TypeOK
    <3>2. j <= m /\ j \in Nat /\ (k \in DOMAIN queue \/ (k \in Nat /\ k > m))
      BY <1>4, <3>1, EmitQueue DEF Fresh
    <3>3. k \in DOMAIN queue
      BY <2>3, <3>1, <3>2
    <3>. QED  BY <3>3, EmitQueue
  <2>. QED  BY <1>4, <2>2, <2>3, Zenon
<1>. QED  BY <1>2, <1>3, <1>4

LEMMA EmitEnding ==
  ASSUME TypeOK, Ending, NEW c, NEW es, NEW b, Emits(c, es, b), st' = st, pc' = pc,
         Served' => Served, Early' => Early, pc = "refresh" => call' = call
  PROVE  Ending'
<1>1. \A j \in DOMAIN queue' :
        (j \in DOMAIN queue /\ queue'[j] = queue[j]) \/ (Carries(queue'[j]) /\ queue'[j].kind # "end")
  BY EmitQueue DEF Fresh, EventType, Carries
<1>2. \A j \in DOMAIN queue : j \in DOMAIN queue' /\ queue'[j] = queue[j]
  BY EmitQueue
<1>3. Early' => ~ st'.endSeen /\ \A p \in DOMAIN queue' : Carries(queue'[p])
  BY <1>1 DEF Ending
<1>4. ASSUME Served', ~ st'.endSeen
      PROVE  /\ st'.phase = 1
             /\ \A p, q \in DOMAIN queue' :
                   queue'[p].kind = "end" /\ queue'[q].kind = "end" => p = q
  BY <1>1, <1>2, <1>4 DEF Ending
<1>5. Served' /\ st'.endSeen => \A p \in DOMAIN queue' : queue'[p].kind # "end"
  BY <1>1 DEF Ending
<1>6. Chosen' => st'.endSeen
  BY DEF Ending, Chosen
<1>7. pc' = "refresh" /\ call' # "Good" => st'.phase = 1
  BY DEF Ending
<1>. QED  BY <1>3, <1>4, <1>5, <1>6, <1>7, Zenon DEF Ending

LEMMA RefreshStream ==
  ASSUME TypeOK, LastIsState, Stream, Ending, NEW order, NEW n, NEW h, Refreshes(order, n, h),
         pc = "refresh", call = "sent", call' = "Good", UNCHANGED <<pc, st, last>>
  PROVE  Stream' /\ News' /\ Ending'
<1>1. PICK m : m = Len(queue)
  OBVIOUS
<1>2. /\ m \in Nat /\ n \in Nat /\ h \in {0, 1} /\ DOMAIN queue = 1 .. m
      /\ DOMAIN queue' = 1 .. m + n + h + h
      /\ \A j \in DOMAIN queue' :
            \/ j \in 1 .. m /\ queue'[j] = queue[j]
            \/ h = 1 /\ j = m + 1 /\ queue'[j] = Marker("start")
            \/ j > m + h /\ j <= m + n + h /\ j - (m + h) \in 1 .. n
                  /\ queue'[j] = last[order[j - (m + h)]]
            \/ h = 1 /\ j = m + n + 2 /\ queue'[j] = Marker("end")
  BY <1>1, RefreshPositions
<1>3. \A i \in 1 .. n : /\ order[i] \in Conds /\ last[order[i]].c = order[i]
                        /\ last[order[i]] \in EventType /\ last[order[i]].id \in Nat
  BY StreamTypes DEF Refreshes, Refreshed, LastIsState
<1>4. \A i, j \in 1 .. n : i # j => order[i] # order[j]
  BY DEF Refreshes
<1>5. ~ Carries(Marker("start")) /\ ~ Carries(Marker("end"))
  BY MarkerTypes DEF Carries
<1>6. ASSUME NEW j \in DOMAIN queue', Carries(queue'[j])
      PROVE  \/ j \in DOMAIN queue /\ queue'[j] = queue[j]
             \/ /\ j > m + h /\ j <= m + n + h
                /\ \E i \in 1 .. n : i = j - (m + h) /\ queue'[j] = last[order[i]]
  BY <1>2, <1>5, <1>6, Zenon
<1>7. Early /\ ~ st.endSeen /\ st.phase = 1 /\ \A p \in DOMAIN queue : Carries(queue[p])
  BY DEF Ending, Early
<1>8. Stream'
  <2>1. ASSUME NEW j \in DOMAIN queue', Carries(queue'[j])
        PROVE  /\ queue'[j].id <= last[queue'[j].c].id
               /\ \A i \in DOMAIN st.evs :
                     st.evs[i].c = queue'[j].c => st.evs[i].id <= queue'[j].id
               /\ \A k \in DOMAIN queue' : k < j /\ Carries(queue'[k]) =>
                     (queue'[k].c = queue'[j].c => queue'[k].id <= queue'[j].id)
    <3>1. CASE j \in DOMAIN queue /\ queue'[j] = queue[j]
      <4>1. \A k \in DOMAIN queue' : k < j => k \in DOMAIN queue
        BY <1>2, <3>1
      <4>2. \A k \in DOMAIN queue : queue'[k] = queue[k]
        BY DEF Refreshes
      <4>3. /\ queue[j].id <= last[queue[j].c].id
            /\ \A i \in DOMAIN st.evs : st.evs[i].c = queue[j].c => st.evs[i].id <= queue[j].id
            /\ \A k \in DOMAIN queue : k < j /\ Carries(queue[k]) =>
                  (queue[k].c = queue[j].c => queue[k].id <= queue[j].id)
        BY <2>1, <3>1 DEF Stream
      <4>. QED  BY <3>1, <4>1, <4>2, <4>3, Zenon
    <3>2. ASSUME NEW i \in 1 .. n, i = j - (m + h), queue'[j] = last[order[i]], j > m + h
          PROVE  /\ queue'[j].id <= last[queue'[j].c].id
                 /\ \A g \in DOMAIN st.evs :
                       st.evs[g].c = queue'[j].c => st.evs[g].id <= queue'[j].id
                 /\ \A k \in DOMAIN queue' : k < j /\ Carries(queue'[k]) =>
                       (queue'[k].c = queue'[j].c => queue'[k].id <= queue'[j].id)
      <4>1. queue'[j].c = order[i] /\ queue'[j].id = last[order[i]].id /\ queue'[j].id \in Nat
        BY <1>3, <3>2
      <4>2. queue'[j].id <= last[queue'[j].c].id
        BY <4>1
      <4>3. \A g \in DOMAIN st.evs : st.evs[g].c = queue'[j].c => st.evs[g].id <= queue'[j].id
        BY <4>1, Zenon DEF Stream
      <4>4. ASSUME NEW k \in DOMAIN queue', k < j, Carries(queue'[k]), queue'[k].c = queue'[j].c
            PROVE  queue'[k].id <= queue'[j].id
        <5>1. CASE k \in DOMAIN queue /\ queue'[k] = queue[k]
          <6>1. queue[k].id <= last[queue[k].c].id
            BY <4>4, <5>1 DEF Stream
          <6>. QED  BY <4>1, <4>4, <5>1, <6>1
        <5>2. ASSUME NEW g \in 1 .. n, g = k - (m + h), queue'[k] = last[order[g]], k > m + h
              PROVE  FALSE
          <6>1. order[g] = order[i]
            BY <1>3, <4>1, <4>4, <5>2
          <6>2. g # i
            BY <1>2, <3>2, <4>4, <5>2
          <6>. QED  BY <1>4, <6>1, <6>2
        <5>. QED  BY <1>6, <4>4, <5>1, <5>2
      <4>. QED  BY <4>2, <4>3, <4>4
    <3>. QED  BY <1>6, <2>1, <3>1, <3>2
  <2>2. \A i \in DOMAIN st.evs : st.evs[i].id <= last[st.evs[i].c].id
    BY DEF Stream
  <2>. QED  BY <2>1, <2>2 DEF Stream
<1>9. \A q \in DOMAIN queue' : queue'[q].kind = "end" => h = 1 /\ q = m + n + 2
  <2>. TAKE q \in DOMAIN queue'
  <2>1. CASE Carries(queue'[q])
    BY <2>1 DEF Carries
  <2>2. CASE ~ Carries(queue'[q])
    <3>1. \A i \in 1 .. n : Carries(last[order[i]])
      BY <1>3 DEF EventType, Carries
    <3>2. q \in 1 .. m => Carries(queue'[q])
      BY <1>2, <1>7, <2>2 DEF Refreshes
    <3>3. Marker("start").kind # "end"
      BY MarkerTypes
    <3>. QED  BY <1>2, <2>2, <3>1, <3>2, <3>3
  <2>. QED  BY <2>1, <2>2
<1>10. News'
  <2>1. CASE h = 1
    <3>1. m + n + 2 \in DOMAIN queue' /\ queue'[m + n + 2] = Marker("end")
      BY <1>1, <1>2, <2>1 DEF Refreshes
    <3>2. \A j \in DOMAIN queue' : m + n + 2 >= j
      BY <1>2, <2>1
    <3>3. queue'[m + n + 2].kind = "end"
      BY <3>1, MarkerTypes
    <3>. QED  BY <3>1, <3>2, <3>3, Zenon DEF News
  <2>2. CASE h # 1
    BY <1>7, <1>9, <2>2 DEF News, Ends
  <2>. QED  BY <2>1, <2>2
<1>11. Ending'
  <2>2. ~ st'.endSeen /\ st'.phase = 1 /\ pc' = "refresh" /\ call' = "Good"
    BY <1>7
  <2>. QED  BY <1>9, <2>2 DEF Ending, Early, Chosen
<1>. QED  BY <1>8, <1>10, <1>11

(* Delivery: the first message goes, an event into the store.               *)
LEMMA DeliverStream ==
  ASSUME TypeInv, Stream, News, Ending, Deliver
  PROVE  Stream' /\ News' /\ Ending'
<1>1. /\ queue # <<>> /\ queue' = Tail(queue) /\ Head(queue) \in MessageType
      /\ st' \in StoreType /\ Handled(st, Head(queue), st')
      /\ UNCHANGED <<server, wanted, pc, act, done, target, late, exit, call, shown, own>>
  BY DeliverIs
<1>2. TypeOK /\ st \in StoreType /\ queue \in Seq(MessageType) /\ last' = last
  BY <1>1 DEF TypeInv, TypeOK, server, condition
<1>3. /\ 1 \in DOMAIN queue /\ Head(queue) = queue[1]
      /\ \A i \in DOMAIN queue' : i \in Nat \ {0} /\ i + 1 \in DOMAIN queue /\ queue'[i] = queue[i + 1]
      /\ Len(queue') = Len(queue) - 1 /\ queue' \in Seq(MessageType)
  BY <1>1, <1>2, TailFacts
<1>4. \A i \in DOMAIN st'.evs :
        \/ i \in DOMAIN st.evs /\ st'.evs[i] = st.evs[i]
        \/ Carries(queue[1]) /\ st'.evs[i] = queue[1]
  BY <1>1, <1>2, <1>3, StoreGrows
<1>5. ASSUME NEW q \in DOMAIN queue, q # 1
      PROVE  \E p \in DOMAIN queue' : q = p + 1 /\ queue'[p] = queue[q]
  <2>1. PICK m \in Nat : m = Len(queue) /\ DOMAIN queue = 1 .. m
    BY <1>2, LenProperties
  <2>2. DOMAIN queue' = 1 .. m - 1
    BY <1>3, <2>1, LenProperties
  <2>3. q - 1 \in 1 .. m - 1 /\ (q - 1) + 1 = q
    BY <1>5, <2>1
  <2>. QED  BY <1>3, <2>2, <2>3
<1>6. Stream'
  <2>1. ASSUME NEW i \in DOMAIN st'.evs  PROVE st'.evs[i].id <= last[st'.evs[i].c].id
    <3>1. CASE i \in DOMAIN st.evs /\ st'.evs[i] = st.evs[i]
      BY <3>1 DEF Stream
    <3>2. CASE Carries(queue[1]) /\ st'.evs[i] = queue[1]
      BY <1>3, <3>2 DEF Stream
    <3>. QED  BY <1>4, <3>1, <3>2
  <2>2. ASSUME NEW j \in DOMAIN queue', Carries(queue'[j])
        PROVE  /\ queue'[j].id <= last[queue'[j].c].id
               /\ \A i \in DOMAIN st'.evs :
                     st'.evs[i].c = queue'[j].c => st'.evs[i].id <= queue'[j].id
               /\ \A k \in DOMAIN queue' : k < j /\ Carries(queue'[k]) =>
                     (queue'[k].c = queue'[j].c => queue'[k].id <= queue'[j].id)
    <3>1. j \in Nat /\ j # 0 /\ j + 1 \in DOMAIN queue /\ queue'[j] = queue[j + 1]
      BY <1>3
    <3>2. /\ queue[j + 1].id <= last[queue[j + 1].c].id
          /\ \A i \in DOMAIN st.evs :
                st.evs[i].c = queue[j + 1].c => st.evs[i].id <= queue[j + 1].id
          /\ \A k \in DOMAIN queue : k < j + 1 /\ Carries(queue[k]) =>
                (queue[k].c = queue[j + 1].c => queue[k].id <= queue[j + 1].id)
      BY <2>2, <3>1 DEF Stream
    <3>3. ASSUME NEW i \in DOMAIN st'.evs, st'.evs[i].c = queue'[j].c
          PROVE  st'.evs[i].id <= queue'[j].id
      <4>1. CASE i \in DOMAIN st.evs /\ st'.evs[i] = st.evs[i]
        BY <3>1, <3>2, <3>3, <4>1
      <4>2. CASE Carries(queue[1]) /\ st'.evs[i] = queue[1]
        <5>1. 1 < j + 1
          BY <3>1
        <5>. QED  BY <1>3, <3>1, <3>2, <3>3, <4>2, <5>1
      <4>. QED  BY <1>4, <4>1, <4>2
    <3>4. ASSUME NEW k \in DOMAIN queue', k < j, Carries(queue'[k]), queue'[k].c = queue'[j].c
          PROVE  queue'[k].id <= queue'[j].id
      <4>1. k \in Nat /\ k + 1 \in DOMAIN queue /\ queue'[k] = queue[k + 1]
        BY <1>3
      <4>2. k + 1 < j + 1
        BY <3>1, <3>4, <4>1
      <4>. QED  BY <3>1, <3>2, <3>4, <4>1, <4>2
    <3>. QED  BY <3>1, <3>2, <3>3, <3>4
  <2>. QED  BY <1>2, <2>1, <2>2 DEF Stream
<1>7. News'
  <2>0. Ends' => Ends
    <3>1. (\E p \in DOMAIN queue' : queue'[p].kind = "end")
            => \E p \in DOMAIN queue : queue[p].kind = "end"
      BY <1>3
    <3>2. st'.endSeen => st.endSeen \/ queue[1].kind = "end"
      BY <1>1, <1>3, Zenon DEF Handled, Stored, Kept
    <3>. QED  BY <1>3, <3>1, <3>2 DEF Ends
  <2>1. SUFFICES ASSUME Served, Ends, NEW j \in DOMAIN queue', Carries(queue'[j]),
                        \A p \in DOMAIN queue' : p >= j => queue'[p].kind # "end"
                 PROVE  /\ \A i \in DOMAIN st'.evs :
                              st'.evs[i].c = queue'[j].c => st'.evs[i].id < queue'[j].id
                        /\ \A k \in DOMAIN queue' : k < j /\ Carries(queue'[k]) =>
                              (queue'[k].c = queue'[j].c => queue'[k].id < queue'[j].id)
    BY <1>1, <2>0 DEF News, Served
  <2>2. j \in Nat /\ j # 0 /\ j + 1 \in DOMAIN queue /\ queue'[j] = queue[j + 1]
    BY <1>3
  <2>3. ASSUME NEW p \in DOMAIN queue, p >= j + 1  PROVE queue[p].kind # "end"
    <3>1. p \in Nat /\ p # 1
      BY <1>2, <2>2, <2>3, LenProperties
    <3>2. PICK q \in DOMAIN queue' : p = q + 1 /\ queue'[q] = queue[p]
      BY <1>5, <3>1
    <3>3. q >= j
      BY <1>3, <2>2, <2>3, <3>2
    <3>. QED  BY <2>1, <3>2, <3>3
  <2>4. /\ \A i \in DOMAIN st.evs : st.evs[i].c = queue[j + 1].c => st.evs[i].id < queue[j + 1].id
        /\ \A k \in DOMAIN queue : k < j + 1 /\ Carries(queue[k]) =>
              (queue[k].c = queue[j + 1].c => queue[k].id < queue[j + 1].id)
    BY <2>1, <2>2, <2>3 DEF News
  <2>5. ASSUME NEW i \in DOMAIN st'.evs, st'.evs[i].c = queue'[j].c
        PROVE  st'.evs[i].id < queue'[j].id
    <3>1. CASE i \in DOMAIN st.evs /\ st'.evs[i] = st.evs[i]
      BY <2>2, <2>4, <2>5, <3>1
    <3>2. CASE Carries(queue[1]) /\ st'.evs[i] = queue[1]
      <4>1. 1 < j + 1
        BY <2>2
      <4>. QED  BY <1>3, <2>2, <2>4, <2>5, <3>2, <4>1
    <3>. QED  BY <1>4, <3>1, <3>2
  <2>6. ASSUME NEW k \in DOMAIN queue', k < j, Carries(queue'[k]), queue'[k].c = queue'[j].c
        PROVE  queue'[k].id < queue'[j].id
    <3>1. k \in Nat /\ k + 1 \in DOMAIN queue /\ queue'[k] = queue[k + 1]
      BY <1>3
    <3>2. k + 1 < j + 1
      BY <2>2, <2>6, <3>1
    <3>. QED  BY <2>2, <2>4, <2>6, <3>1, <3>2
  <2>. QED  BY <2>5, <2>6
<1>8. Ending'
  <2>1. /\ Early' <=> Early
        /\ Served' <=> Served
        /\ Chosen' <=> Chosen
        /\ pc' = pc /\ call' = call
    BY <1>1 DEF Early, Served, Chosen
  <2>2. ASSUME Carries(queue[1]) \/ queue[1].kind = "start" \/ (queue[1].kind = "end" /\ st.phase # 1)
        PROVE  st'.phase = st.phase /\ st'.endSeen = st.endSeen
    BY <1>1, <1>3, <2>2, Zenon DEF Handled, Stored, Carries
  <2>3. ASSUME queue[1].kind = "end", st.phase = 1
        PROVE  st'.endSeen = TRUE
    BY <1>1, <1>3, <2>3, Zenon DEF Handled, Stored, Carries
  <2>4. Carries(queue[1]) \/ queue[1].kind = "start" \/ queue[1].kind = "end"
    BY <1>1, <1>3, Messages
  <2>5. ASSUME Early
        PROVE  /\ ~ st'.endSeen /\ \A p \in DOMAIN queue' : Carries(queue'[p])
               /\ pc = "refresh" /\ call # "Good" => st'.phase = 1
    <3>1. ~ st.endSeen /\ \A p \in DOMAIN queue : Carries(queue[p])
      BY <2>5 DEF Ending
    <3>2. st'.phase = st.phase /\ st'.endSeen = st.endSeen
      BY <1>3, <2>2, <3>1
    <3>. QED  BY <1>3, <3>1, <3>2 DEF Ending
  <2>6. ASSUME Served, ~ st'.endSeen
        PROVE  /\ st'.phase = 1
               /\ \A p, q \in DOMAIN queue' :
                     queue'[p].kind = "end" /\ queue'[q].kind = "end" => p = q
    <3>1. ~ st.endSeen
      BY <2>2, <2>3, <2>4, <2>6
    <3>2. /\ st.phase = 1
          /\ \A p, q \in DOMAIN queue :
                queue[p].kind = "end" /\ queue[q].kind = "end" => p = q
      BY <2>6, <3>1 DEF Ending
    <3>4. queue[1].kind # "end"
      BY <2>3, <2>6, <3>2
    <3>7. ASSUME NEW p \in DOMAIN queue', NEW q \in DOMAIN queue',
                 queue'[p].kind = "end", queue'[q].kind = "end"
          PROVE  p = q
      <4>1. /\ q \in Nat /\ q + 1 \in DOMAIN queue /\ queue'[q] = queue[q + 1]
            /\ p \in Nat /\ p + 1 \in DOMAIN queue /\ queue'[p] = queue[p + 1]
        BY <1>3
      <4>2. p + 1 = q + 1
        BY <3>2, <3>7, <4>1
      <4>. QED  BY <4>1, <4>2
    <3>8. st'.phase = 1
      BY <2>2, <2>4, <3>2, <3>4
    <3>. QED  BY <3>7, <3>8
  <2>7. ASSUME Served, st'.endSeen, NEW p \in DOMAIN queue'
        PROVE  queue'[p].kind # "end"
    <3>1. p \in Nat \ {0} /\ p + 1 \in DOMAIN queue /\ queue'[p] = queue[p + 1]
      BY <1>3
    <3>2. CASE st.endSeen
      BY <2>7, <3>1, <3>2 DEF Ending
    <3>3. CASE ~ st.endSeen
      <4>1. queue[1].kind = "end"
        BY <2>2, <2>4, <2>7, <3>3
      <4>2. \A q \in DOMAIN queue : queue[q].kind = "end" => q = 1
        BY <1>3, <2>7, <3>3, <4>1 DEF Ending
      <4>3. p + 1 # 1
        BY <1>3, <3>1
      <4>. QED  BY <3>1, <4>2, <4>3
    <3>. QED  BY <3>2, <3>3
  <2>8. Chosen => st'.endSeen
    <3>1. Chosen => st.endSeen
      BY DEF Ending
    <3>. QED  BY <2>2, <2>3, <2>4, <3>1
  <2>9. pc = "refresh" /\ call # "Good" => st'.phase = 1
    BY <2>5 DEF Early
  <2>. QED  BY <2>1, <2>5, <2>6, <2>7, <2>8, <2>9, Zenon DEF Ending
<1>. QED  BY <1>6, <1>7, <1>8

-----------------------------------------------------------------------------
(* A step that changes neither what the server has reported nor what the    *)
(* command has been told; at most the refresh begins, or all ends.          *)
Quiet ==
    /\ UNCHANGED <<cond, last, reports, wanted, shown, own>>
    /\ st'.evs = st.evs /\ st'.conds = st.conds /\ st'.endSeen = st.endSeen
    /\ queue' = queue \/ (pc' = "done" /\ queue' = <<>>)
    /\ Served' => Served /\ st'.phase = st.phase
    /\ Early' => Early
    /\ Chosen' => Chosen \/ st.endSeen
    /\ pc' = "refresh" /\ call' # "Good" =>
          st'.phase = 1 \/ (pc = "refresh" /\ call # "Good" /\ st'.phase = st.phase)
    /\ InRefresh' => InRefresh

(* The places the command goes to.                                          *)
LEMMA CommandQuiet ==
  ASSUME TypeInv, Command \/ Deadline
  PROVE  Quiet
<1>1. UNCHANGED <<cond, last, reports, wanted, shown, own>>
  BY CommandTypes DEF server, condition
<1>2. TypeOK /\ Targeted /\ st \in StoreType
  BY DEF TypeInv, TypeOK
<1>. USE DEF Served, Early, Chosen, InRefresh
<1>3. ASSUME queue' = queue, st' = st, pc' = "report" \/ pc' = "done"
      PROVE  Quiet
  BY <1>1, <1>3 DEF Quiet
<1>4. CASE Parse \/ Connect \/ Subscribe
  BY <1>1, <1>4 DEF Parse, Connect, Subscribe, Quit, GoTo, Quiet
<1>5. CASE Monitor
  BY <1>1, <1>5 DEF Monitor, GoTo, Stop, Quiet
<1>6. CASE CallRefresh
  <2>1. pc = "monitored" /\ pc' = "refresh" /\ call' = "sent" /\ queue' = queue
    BY <1>6 DEF CallRefresh
  <2>2. /\ st'.evs = st.evs /\ st'.conds = st.conds /\ st'.endSeen = st.endSeen
        /\ st'.phase = 1
    BY <1>2, <1>6 DEF CallRefresh, StoreType
  <2>. QED  BY <1>1, <2>1, <2>2 DEF Quiet
<1>7. CASE RefreshReturns
  <2>1. pc = "refresh" /\ queue' = queue /\ st' = st
    BY <1>7 DEF RefreshReturns
  <2>2. \/ call = "Good" /\ pc' = "waitEnd"
        \/ pc' = "report"
    BY <1>7 DEF RefreshReturns, Answers, Stop
  <2>. QED  BY <1>1, <2>1, <2>2 DEF Quiet
<1>8. CASE NoEnd \/ AllActed
  BY <1>3, <1>8 DEF NoEnd, AllActed, Stop
<1>9. CASE Choose
  <2>1. /\ pc = "waitEnd" /\ st.endSeen /\ queue' = queue /\ st' = st
        /\ pc' = "report" \/ pc' = "next"
    BY <1>9 DEF Choose, Stop
  <2>. QED  BY <1>1, <2>1 DEF Quiet
<1>10. CASE CallAction
  <2>1. pc = "next" /\ queue' = queue /\ st' = st /\ pc' \in {"next", "action"}
    BY <1>10 DEF CallAction
  <2>. QED  BY <1>1, <2>1 DEF Quiet
<1>11. CASE ActionReturns
  <2>1. /\ pc = "action" /\ queue' = queue /\ st' = st /\ pc' \in {"followUp", "report"}
    BY <1>11 DEF ActionReturns, Stop
  <2>. QED  BY <1>1, <2>1 DEF Quiet
<1>12. CASE FollowUp
  <2>1. /\ pc = "followUp" /\ queue' = queue /\ st' = st /\ pc' \in {"repeat", "next", "report"}
    BY <1>12 DEF FollowUp, AfterAction, Stop
  <2>. QED  BY <1>1, <2>1 DEF Quiet
<1>13. CASE RepeatReturns
  <2>1. /\ pc = "repeat" /\ queue' = queue /\ st' = st /\ pc' \in {"next", "report"}
    BY <1>13 DEF RepeatReturns, AfterAction, Stop
  <2>. QED  BY <1>1, <2>1 DEF Quiet
<1>14. CASE Envelope
  BY <1>1, <1>14 DEF Envelope, Quiet
<1>15. CASE Deadline
  BY <1>1, <1>15 DEF Deadline, Quiet
<1>. QED  BY <1>4, <1>5, <1>6, <1>7, <1>8, <1>9, <1>10, <1>11, <1>12, <1>13, <1>14, <1>15
          DEF Command

(* The steps, as the stream of events sees them.                            *)
LEMMA Kinds ==
  ASSUME TypeInv, [Next]_vars
  PROVE  \/ Quiet
         \/ Deliver
         \/ /\ pc = "refresh" /\ call = "sent" /\ call' = "Good"
            /\ UNCHANGED <<cond, last, reports, client, own>>
            /\ shown' = {last[c] : c \in Refreshed}
            /\ \E order, n, h : Refreshes(order, n, h)
         \/ /\ \E c, es, b : Emits(c, es, b)
            /\ UNCHANGED <<client, shown>> /\ (pc \in {"action", "repeat"} \/ call' = call)
<1>1. TypeOK /\ Targeted
  BY DEF TypeInv
<1>2. CASE UNCHANGED vars
  BY <1>2 DEF vars, server, condition, client, Quiet, Served, Early, Chosen, InRefresh
<1>3. CASE Command \/ Deadline
  BY <1>3, CommandQuiet
<1>4. CASE ServeRefresh
  <2>1. /\ pc = "refresh" /\ call = "sent" /\ UNCHANGED <<server, client, own>>
        /\ \/ /\ call' = "Good" /\ shown' = {last[c] : c \in Refreshed}
              /\ \E order, n, h : Refreshes(order, n, h)
           \/ call' = "Bad" /\ UNCHANGED <<queue, shown>>
    BY <1>1, <1>4, ServeRefreshIs
  <2>2. UNCHANGED <<cond, last, reports, pc, st, wanted, own>>
    BY <2>1 DEF server, condition, client
  <2>3. CASE call' = "Bad" /\ UNCHANGED <<queue, shown>>
    BY <2>1, <2>2, <2>3 DEF Quiet, Served, Early, Chosen, InRefresh
  <2>. QED  BY <2>1, <2>2, <2>3
<1>5. CASE ServeAction
  <2>1. /\ pc \in {"action", "repeat"} /\ call = "sent" /\ UNCHANGED <<client, shown, others>>
        /\ Executed \/ (call' = "Bad" /\ UNCHANGED <<condition, queue, own>>)
    BY <1>1, <1>5, ServeActionIs
  <2>2. CASE Executed
    BY <2>1, <2>2 DEF Executed
  <2>3. CASE call' = "Bad" /\ UNCHANGED <<condition, queue, own>>
    BY <2>1, <2>3 DEF Quiet, Served, Early, Chosen, InRefresh, condition, client
  <2>. QED  BY <2>1, <2>2, <2>3
<1>6. ASSUME NEW c \in Contested, Reset(c) \/ OtherClient(c)
      PROVE  (\E es, b : Emits(c, es, b)) /\ UNCHANGED <<client, shown, call>>
  BY <1>1, <1>6, ResetEmits, OtherEmits
<1>. QED  BY <1>2, <1>3, <1>4, <1>5, <1>6 DEF Next

StreamInv == Stream /\ News /\ Ending

LEMMA StreamStep ==
  ASSUME TypeInv, TypeInv', LastIsState, StreamInv, [Next]_vars
  PROVE  StreamInv'
<1>1. TypeOK /\ Stream /\ News /\ Ending
  BY DEF TypeInv, StreamInv
<1>2. CASE Quiet
  <2>1. CASE queue' = queue
    <3>1. /\ last' = last /\ st'.evs = st.evs /\ st'.conds = st.conds /\ st'.endSeen = st.endSeen
          /\ Served' => Served /\ st'.phase = st.phase
          /\ Early' => Early
          /\ Chosen' => Chosen \/ st.endSeen
          /\ pc' = "refresh" /\ call' # "Good" =>
                st'.phase = 1 \/ (pc = "refresh" /\ call # "Good" /\ st'.phase = st.phase)
      BY <1>2 DEF Quiet
    <3>2. Stream'
      BY <1>1, <2>1, <3>1 DEF Stream
    <3>3. News'
      BY <1>1, <2>1, <3>1 DEF News, Ends
    <3>4. Ending'
      BY <1>1, <2>1, <3>1, Zenon DEF Ending
    <3>. QED  BY <3>2, <3>3, <3>4 DEF StreamInv
  <2>2. CASE pc' = "done" /\ queue' = <<>>
    <3>1. last' = last /\ st'.evs = st.evs
      BY <1>2 DEF Quiet
    <3>2. DOMAIN queue' = {}
      BY <2>2
    <3>3. Stream'
      BY <1>1, <3>1, <3>2 DEF Stream
    <3>. QED  BY <2>2, <3>2, <3>3 DEF StreamInv, News, Ending, Served, Early, Chosen
  <2>. QED  BY <1>2, <2>1, <2>2 DEF Quiet
<1>3. CASE Deliver
  BY <1>1, <1>3, DeliverStream DEF StreamInv
<1>4. ASSUME pc = "refresh", call = "sent", call' = "Good",
             UNCHANGED <<cond, last, reports, client, own>>,
             NEW order, NEW n, NEW h, Refreshes(order, n, h)
      PROVE  StreamInv'
  <2>1. UNCHANGED <<pc, st, last>>
    BY <1>4 DEF client
  <2>. QED  BY <1>1, <1>4, <2>1, RefreshStream DEF StreamInv
<1>5. ASSUME NEW c, NEW es, NEW b, Emits(c, es, b), UNCHANGED <<client, shown>>,
             pc \in {"action", "repeat"} \/ call' = call
      PROVE  StreamInv'
  <2>1. st' = st /\ pc' = pc
    BY <1>5 DEF client
  <2>2. (Served' => Served) /\ (Early' => Early) /\ (pc = "refresh" => call' = call)
    BY <1>5, <2>1 DEF Served, Early
  <2>3. Stream'
    BY <1>1, <1>5, <2>1, EmitStream
  <2>4. News'
    BY <1>1, <1>5, <2>1, <2>2, EmitNews
  <2>5. Ending'
    BY <1>1, <1>5, <2>1, <2>2, EmitEnding
  <2>. QED  BY <2>3, <2>4, <2>5 DEF StreamInv
<1>. QED  BY <1>2, <1>3, <1>4, <1>5, Kinds

LEMMA StreamInit ==
  ASSUME Init
  PROVE  StreamInv
<1>1. queue = <<>> /\ st.evs = <<>> /\ ~ st.endSeen /\ pc = "parse"
  BY DEF Init, EmptyStore
<1>2. DOMAIN queue = {} /\ DOMAIN st.evs = {}
  BY <1>1
<1>. QED  BY <1>1, <1>2 DEF StreamInv, Stream, News, Ending, Served, Early, Chosen

(* What alarm_notif_cb has stored and what is still queued for it are, for  *)
(* each condition, the server's events in the order it reported them; all   *)
(* that follows the end of the refresh is new, and the end comes at most    *)
(* once.                                                                    *)
THEOREM InStream == Spec => [](LastIsState /\ StreamInv)
<1>1. Init => ArmedInv /\ StreamInv
  BY InitTypes, StreamInit DEF ArmedInv
<1>2. TypeInv /\ ArmedInv /\ [Next]_vars => ArmedInv'
  BY ArmedStep
<1>3. TypeInv /\ TypeInv' /\ ArmedInv /\ StreamInv /\ [Next]_vars => StreamInv'
  BY StreamStep DEF ArmedInv
<1>4. Spec => []TypeInv
  BY TypeCorrect DEF TypeInv
<1>5. ArmedInv => LastIsState
  BY DEF ArmedInv
<1>. QED  BY <1>1, <1>2, <1>3, <1>4, <1>5, PTL DEF Spec

-----------------------------------------------------------------------------
(* The refresh is complete.                                                 *)

(* Each refreshed condition has a place in the order.                       *)
LEMMA RefreshesAll ==
  ASSUME TypeOK, NEW order, NEW n, NEW h, Refreshes(order, n, h), NEW c \in Refreshed
  PROVE  \E i \in 1 .. n : order[i] = c
<1>1. /\ n \in Nat /\ order \in [1 .. n -> Refreshed] /\ n = Cardinality(Refreshed)
      /\ \A i, j \in 1 .. n : i # j => order[i] # order[j]
  BY DEF Refreshes
<1>2. order \in Injection(1 .. n, Refreshed)
  BY <1>1 DEF Injection, IsInjective
<1>3. IsFiniteSet(1 .. n) /\ Cardinality(1 .. n) = n
  BY <1>1, FS_Interval
<1>4. IsFiniteSet(Refreshed)
  <2>1. Conditions \in Seq(Conds) /\ Conds = {Conditions[i] : i \in DOMAIN Conditions}
    BY AlarmsAssumption DEF Conds, Range
  <2>2. PICK k \in Nat : k = Len(Conditions) /\ DOMAIN Conditions = 1 .. k
    BY <2>1, LenProperties
  <2>3. Conditions \in Surjection(1 .. k, Conds)
    BY <2>1, <2>2 DEF Surjection
  <2>4. IsFiniteSet(1 .. k)
    BY <2>2, FS_Interval
  <2>5. IsFiniteSet(Conds) /\ Refreshed \subseteq Conds
    BY <2>3, <2>4, FS_Surjection DEF Refreshed
  <2>. QED  BY <2>5, FS_Subset
<1>5. order \in Surjection(1 .. n, Refreshed)
  BY <1>1, <1>2, <1>3, <1>4, FS_Injection
<1>. QED  BY <1>5, Zenon DEF Surjection

(* What is found stays found when an event is handled.                      *)
LEMMA FoundStays ==
  ASSUME TypeInv, Stream, NEW e \in EventType, NEW x \in MessageType, Found(e),
         1 \in DOMAIN queue, x = queue[1], st' \in StoreType, Handled(st, x, st')
  PROVE  Found(e)'
<1>1. st \in StoreType /\ st.evs \in Seq(EventType) /\ st.conds \in Seq(Nat) /\ TypeOK
  BY DEF TypeInv, TypeOK, StoreType
<1>2. PICK n \in Nat, m \in Nat : /\ n = Len(st.evs) /\ DOMAIN st.evs = 1 .. n
                                  /\ m = Len(st.conds) /\ DOMAIN st.conds = 1 .. m
  BY <1>1, LenProperties
<1>3. /\ \A i \in DOMAIN st.evs : i \in DOMAIN st'.evs /\ st'.evs[i] = st.evs[i]
      /\ Len(st'.evs) >= Len(st.evs)
  BY <1>1, StoreGrows
<1>4. \A i \in 1 .. m : st.conds[i] \in DOMAIN st.evs
  BY <1>2 DEF TypeInv, Listing
<1>5. CASE Len(st.evs) >= MaxEvs
  <2>1. Len(st'.evs) \in Nat
    BY LenProperties DEF StoreType
  <2>2. Len(st'.evs) >= MaxEvs
    BY <1>2, <1>3, <1>5, <2>1, AlarmsAssumption
  <2>. QED  BY <2>2 DEF Found
<1>6. CASE st'.conds = st.conds
  <2>1. \A i \in 1 .. m : st'.evs[st'.conds[i]] = st.evs[st.conds[i]]
    BY <1>3, <1>4, <1>6
  <2>2. HeldAt(st', e.c) = HeldAt(st, e.c)
    BY <1>2, <1>6, <2>1 DEF HeldAt
  <2>3. CASE Len(st.evs) >= MaxEvs
    BY <1>5, <2>3
  <2>. QED  BY <1>2, <1>6, <2>1, <2>2, <2>3 DEF Found
<1>7. ASSUME x \in EventType, st'.evs = Append(st.evs, x), HeldAt(st, x.c) = {},
             Len(st.conds) < MaxConds, st'.conds = Append(st.conds, n + 1)
      PROVE  Found(e)'
  <2>1. \A i \in 1 .. m : i \in DOMAIN st'.conds /\ st'.conds[i] = st.conds[i]
    BY <1>1, <1>2, <1>7, AppendFacts
  <2>2. \A i \in 1 .. m : st'.evs[st'.conds[i]] = st.evs[st.conds[i]]
    BY <1>3, <1>4, <2>1
  <2>3. CASE Len(st.evs) >= MaxEvs
    BY <1>5, <2>3
  <2>4. Len(st.conds) # MaxConds
    BY <1>2, <1>7, AlarmsAssumption
  <2>. QED  BY <1>2, <2>1, <2>2, <2>3, <2>4 DEF Found
<1>8. ASSUME x \in EventType, st'.evs = Append(st.evs, x), NEW k \in HeldAt(st, x.c),
             st'.conds = [st.conds EXCEPT ![k] = n + 1]
      PROVE  Found(e)'
  <2>1. k \in 1 .. m /\ st.evs[st.conds[k]].c = x.c
    BY <1>2, <1>8 DEF HeldAt
  <2>2. /\ DOMAIN st'.conds = 1 .. m /\ st'.conds[k] = n + 1
        /\ \A i \in 1 .. m : i # k => st'.conds[i] = st.conds[i]
    BY <1>1, <1>2, <1>8, <2>1
  <2>3. st'.evs[n + 1] = x
    BY <1>1, <1>2, <1>8, AppendFacts
  <2>4. \A i \in 1 .. m : i # k => st'.evs[st'.conds[i]] = st.evs[st.conds[i]]
    BY <1>3, <1>4, <2>2
  <2>5. st'.evs[st'.conds[k]] = x
    BY <2>2, <2>3
  <2>6. st.evs[st.conds[k]].id <= x.id /\ st.evs[st.conds[k]].id \in Nat /\ x.id \in Nat
    <3>1. Carries(x)
      BY <1>8, Messages
    <3>. QED  BY <1>1, <1>2, <1>4, <1>8, <2>1, <3>1, StreamTypes DEF Stream, EventType
  <2>7. CASE Len(st.evs) >= MaxEvs
    BY <1>5, <2>7
  <2>8. ASSUME NEW i \in DOMAIN st.conds, st.evs[st.conds[i]].c = e.c, st.evs[st.conds[i]].id >= e.id
        PROVE  Found(e)'
    <3>1. i \in DOMAIN st'.conds
      BY <1>2, <2>2
    <3>2. e.id \in Nat
      BY DEF EventType
    <3>3. CASE i = k
      <4>1. st'.evs[st'.conds[i]].c = e.c /\ st'.evs[st'.conds[i]].id >= e.id
        BY <2>1, <2>5, <2>6, <2>8, <3>2, <3>3
      <4>. QED  BY <3>1, <4>1 DEF Found
    <3>4. CASE i # k
      <4>1. st'.evs[st'.conds[i]] = st.evs[st.conds[i]]
        BY <1>2, <2>4, <3>4
      <4>. QED  BY <2>8, <3>1, <4>1 DEF Found
    <3>. QED  BY <3>3, <3>4
  <2>9. CASE HeldAt(st, e.c) = {} /\ Len(st.conds) = MaxConds
    <3>1. \A i \in 1 .. m : st.evs[st.conds[i]].c # e.c
      BY <1>1, <1>2, <2>9, HeldFacts, ZenonT(90)
    <3>2. \A i \in 1 .. m : st'.evs[st'.conds[i]].c # e.c
      BY <2>1, <2>4, <2>5, <3>1
    <3>3. HeldAt(st', e.c) = {}
      BY <2>2, <3>2, HeldFacts
    <3>4. st'.conds \in Seq(Nat)
      BY DEF StoreType
    <3>5. Len(st'.conds) = m
      BY <1>2, <2>2, <3>4, LenProperties
    <3>. QED  BY <1>2, <2>9, <3>3, <3>5 DEF Found
  <2>. QED  BY <2>7, <2>8, <2>9 DEF Found
<1>9. CASE Kept(st, st') \/ st' = st
  BY <1>6, <1>9 DEF Kept
<1>10. CASE Carries(x) /\ Stored(st, x, st')
  <2>1. x \in EventType
    BY <1>10, Messages
  <2>. QED  BY <1>2, <1>6, <1>7, <1>8, <1>10, <2>1, Zenon DEF Stored
<1>. QED  BY <1>9, <1>10, Zenon DEF Handled

(* A refreshed event that is handled is found.                              *)
LEMMA HandledIsFound ==
  ASSUME TypeInv, NEW e \in EventType, st.phase = 1, st' \in StoreType, Handled(st, e, st')
  PROVE  Found(e)'
<1>1. st \in StoreType /\ st.evs \in Seq(EventType) /\ st.conds \in Seq(Nat)
  BY DEF TypeInv, TypeOK, StoreType
<1>2. PICK n \in Nat, m \in Nat : /\ n = Len(st.evs) /\ DOMAIN st.evs = 1 .. n
                                  /\ m = Len(st.conds) /\ DOMAIN st.conds = 1 .. m
  BY <1>1, LenProperties
<1>3. e.kind = "condition" /\ e.id \in Nat
  BY DEF EventType
<1>4. CASE Len(st.evs) >= MaxEvs /\ st' = st
  BY <1>4 DEF Found
<1>5. CASE Stored(st, e, st')
  <2>1. st'.evs = Append(st.evs, e)
    BY <1>5 DEF Stored
  <2>2. st'.evs[n + 1] = e /\ \A i \in 1 .. n : st'.evs[i] = st.evs[i]
    BY <1>1, <1>2, <2>1, AppendFacts
  <2>3. CASE HeldAt(st, e.c) = {} /\ Len(st.conds) >= MaxConds /\ st'.conds = st.conds
    <3>1. \A i \in 1 .. m : st.conds[i] \in 1 .. n
      BY <1>2 DEF TypeInv, Listing
    <3>2. HeldAt(st', e.c) = HeldAt(st, e.c)
      BY <1>2, <2>2, <2>3, <3>1 DEF HeldAt
    <3>3. m <= MaxConds /\ m >= MaxConds
      BY <1>2, <2>3 DEF TypeInv, Listing
    <3>4. Len(st'.conds) = MaxConds
      BY <1>2, <2>3, <3>3, AlarmsAssumption
    <3>. QED  BY <2>3, <3>2, <3>4 DEF Found
  <2>4. CASE st'.conds = Append(st.conds, n + 1)
    <3>1. m + 1 \in DOMAIN st'.conds /\ st'.conds[m + 1] = n + 1
      BY <1>1, <1>2, <2>4, AppendFacts, LenProperties
    <3>2. e.id >= e.id
      BY <1>3
    <3>. QED  BY <2>2, <3>1, <3>2 DEF Found
  <2>5. ASSUME NEW k \in HeldAt(st, e.c), st'.conds = [st.conds EXCEPT ![k] = n + 1]
        PROVE  Found(e)'
    <3>1. k \in DOMAIN st'.conds /\ st'.conds[k] = n + 1
      BY <1>1, <2>5 DEF HeldAt
    <3>2. e.id >= e.id
      BY <1>3
    <3>. QED  BY <2>2, <3>1, <3>2 DEF Found
  <2>. QED  BY <1>2, <1>5, <2>3, <2>4, <2>5, Zenon DEF Stored
<1>. QED  BY <1>3, <1>4, <1>5, Zenon DEF Handled

LEMMA RefreshingStep ==
  ASSUME TypeInv, TypeInv', StreamInv, Refreshing, [Next]_vars
  PROVE  Refreshing'
<1>1. TypeOK /\ Stream /\ Ending
  BY DEF TypeInv, StreamInv
<1>2. CASE Quiet
  <2>1. SUFFICES ASSUME InRefresh', Ends'  PROVE \A e \in shown' : Found(e)' \/ Ahead(e)'
    BY DEF Refreshing
  <2>2. /\ InRefresh /\ shown' = shown /\ queue' = queue
        /\ st'.evs = st.evs /\ st'.conds = st.conds /\ Ends
    BY <1>2, <2>1 DEF Quiet, InRefresh, Ends
  <2>3. \A e : Found(e)' <=> Found(e)
    BY <2>2 DEF Found, HeldAt
  <2>4. \A e : Ahead(e)' <=> Ahead(e)
    BY <2>2 DEF Ahead
  <2>. QED  BY <2>2, <2>3, <2>4 DEF Refreshing
<1>3. CASE Deliver
  <2>1. /\ queue # <<>> /\ queue' = Tail(queue) /\ Head(queue) \in MessageType
        /\ st' \in StoreType /\ Handled(st, Head(queue), st')
        /\ UNCHANGED <<server, wanted, pc, act, done, target, late, exit, call, shown, own>>
    BY <1>3, DeliverIs
  <2>2. queue \in Seq(MessageType) /\ shown \subseteq EventType /\ shown' = shown
    BY <1>1, <2>1 DEF TypeOK
  <2>3. /\ 1 \in DOMAIN queue /\ Head(queue) = queue[1]
        /\ \A i \in DOMAIN queue' : i \in Nat \ {0} /\ i + 1 \in DOMAIN queue /\ queue'[i] = queue[i + 1]
        /\ Len(queue') = Len(queue) - 1 /\ queue' \in Seq(MessageType)
    BY <2>1, <2>2, TailFacts
  <2>4. ASSUME InRefresh', Ends', NEW e \in shown'  PROVE Found(e)' \/ Ahead(e)'
    <3>0. Ends
      <4>1. (\E p \in DOMAIN queue' : queue'[p].kind = "end")
              => \E p \in DOMAIN queue : queue[p].kind = "end"
        BY <2>3
      <4>2. st'.endSeen => st.endSeen \/ queue[1].kind = "end"
        BY <2>1, <2>3, Zenon DEF Handled, Stored, Kept
      <4>. QED  BY <2>3, <2>4, <4>1, <4>2 DEF Ends
    <3>1. InRefresh /\ e \in shown /\ e \in EventType
      BY <2>1, <2>2, <2>4 DEF InRefresh
    <3>2. CASE Found(e)
      BY <1>1, <2>1, <2>3, <3>1, <3>2, FoundStays
    <3>3. ASSUME NEW j \in DOMAIN queue, NEW p \in DOMAIN queue, j < p, queue[j] = e,
                 queue[p].kind = "end"
          PROVE  Found(e)' \/ Ahead(e)'
      <4>1. CASE j = 1
        <5>1. Served /\ ~ st.endSeen
          BY <1>1, <3>1, <3>3 DEF Ending, Served, InRefresh
        <5>2. st.phase = 1
          BY <1>1, <5>1 DEF Ending
        <5>. QED  BY <2>1, <2>3, <3>1, <3>3, <4>1, <5>2, HandledIsFound
      <4>2. CASE j # 1
        <5>1. PICK m \in Nat : m = Len(queue) /\ DOMAIN queue = 1 .. m
          BY <2>2, LenProperties
        <5>2. DOMAIN queue' = 1 .. m - 1
          BY <2>3, <5>1, LenProperties
        <5>3. /\ j - 1 \in DOMAIN queue' /\ p - 1 \in DOMAIN queue' /\ j - 1 < p - 1
              /\ (j - 1) + 1 = j /\ (p - 1) + 1 = p
          BY <3>3, <4>2, <5>1, <5>2
        <5>4. queue'[j - 1] = e /\ queue'[p - 1].kind = "end"
          BY <2>3, <3>3, <5>3
        <5>. QED  BY <5>3, <5>4 DEF Ahead
      <4>. QED  BY <4>1, <4>2
    <3>. QED  BY <3>0, <3>1, <3>2, <3>3 DEF Refreshing, Ahead
  <2>. QED  BY <2>4 DEF Refreshing
<1>4. ASSUME pc = "refresh", call = "sent", UNCHANGED client,
             shown' = {last[c] : c \in Refreshed},
             NEW order, NEW n, NEW h, Refreshes(order, n, h)
      PROVE  Refreshing'
  <2>0. PICK m : m = Len(queue)
    OBVIOUS
  <2>1. /\ m \in Nat /\ n \in Nat /\ h \in {0, 1} /\ DOMAIN queue = 1 .. m
        /\ DOMAIN queue' = 1 .. m + n + h + h
        /\ \A j \in DOMAIN queue' :
              \/ j \in 1 .. m /\ queue'[j] = queue[j]
              \/ h = 1 /\ j = m + 1 /\ queue'[j] = Marker("start")
              \/ j > m + h /\ j <= m + n + h /\ j - (m + h) \in 1 .. n
                    /\ queue'[j] = last[order[j - (m + h)]]
              \/ h = 1 /\ j = m + n + 2 /\ queue'[j] = Marker("end")
    BY <1>1, <1>4, <2>0, RefreshPositions
  <2>2. CASE h = 1
    <3>1. ASSUME NEW c \in Refreshed, NEW e, e = last[c]  PROVE Ahead(e)'
      <4>1. PICK i \in 1 .. n : order[i] = c
        BY <1>1, <1>4, RefreshesAll
      <4>2. /\ m + 1 + i \in DOMAIN queue' /\ m + n + 2 \in DOMAIN queue'
            /\ m + 1 + i < m + n + 2
        BY <2>1, <2>2
      <4>3. queue'[m + 1 + i] = e /\ queue'[m + n + 2] = Marker("end")
        BY <1>4, <2>0, <2>2, <3>1, <4>1 DEF Refreshes
      <4>4. queue'[m + n + 2].kind = "end"
        BY <4>3, MarkerTypes
      <4>5. \E j, p \in DOMAIN queue' : j < p /\ queue'[j] = e /\ queue'[p].kind = "end"
        BY <4>2, <4>3, <4>4
      <4>. QED  BY <4>5 DEF Ahead
    <3>2. \A e \in shown' : Ahead(e)'
      BY <1>4, <3>1
    <3>. QED  BY <3>2 DEF Refreshing
  <2>3. CASE h = 0
    <3>1. ~ st.endSeen /\ st' = st /\ \A p \in DOMAIN queue : Carries(queue[p])
      BY <1>1, <1>4 DEF Ending, Early, client
    <3>2. \A i \in 1 .. n : last[order[i]].kind = "condition"
      <4>1. \A i \in 1 .. n : order[i] \in Conds
        BY <1>4 DEF Refreshes, Refreshed
      <4>. QED  BY <1>1, <4>1 DEF TypeOK, EventType
    <3>3. \A j \in DOMAIN queue' : queue'[j].kind # "end"
      BY <2>1, <2>3, <3>1, <3>2 DEF Carries
    <3>. QED  BY <3>1, <3>3 DEF Refreshing, Ends
  <2>. QED  BY <2>1, <2>2, <2>3
<1>5. ASSUME NEW c, NEW es, NEW b, Emits(c, es, b), UNCHANGED <<client, shown>>,
             pc \in {"action", "repeat"} \/ call' = call
      PROVE  Refreshing'
  <2>1. st' = st /\ pc' = pc /\ shown' = shown
    BY <1>5 DEF client
  <2>2. InRefresh' => InRefresh
    BY <1>5, <2>1 DEF InRefresh
  <2>3. \A e : Found(e) => Found(e)'
    BY <2>1 DEF Found, HeldAt
  <2>4. \A j \in DOMAIN queue : j \in DOMAIN queue' /\ queue'[j] = queue[j]
    BY <1>1, <1>5, EmitQueue
  <2>5. \A e : Ahead(e) => Ahead(e)'
    BY <2>4 DEF Ahead
  <2>6. Ends' => Ends
    <3>1. \A j \in DOMAIN queue' : (j \in DOMAIN queue /\ queue'[j] = queue[j])
                                   \/ queue'[j].kind # "end"
      BY <1>1, <1>5, EmitQueue DEF Fresh, EventType
    <3>. QED  BY <2>1, <3>1 DEF Ends
  <2>. QED  BY <2>1, <2>2, <2>3, <2>5, <2>6 DEF Refreshing
<1>. QED  BY <1>2, <1>3, <1>4, <1>5, Kinds

(* When cmd_alarms has seen the end of the refresh, every condition that    *)
(* the server refreshed is in the list alarm_notif_cb keeps, once and with  *)
(* an event that is not older than the refreshed one, unless the store or   *)
(* the list is full: for every order of the refreshed events and however    *)
(* the events of other clients mix with them.                               *)
THEOREM RefreshCompleteCorrect == Spec => []RefreshComplete
<1>1. Init => ArmedInv /\ StreamInv /\ Refreshing
  BY InitTypes, StreamInit DEF ArmedInv, Refreshing, InRefresh, Init
<1>2. TypeInv /\ TypeInv' /\ StreamInv /\ Refreshing /\ [Next]_vars => Refreshing'
  BY RefreshingStep
<1>3. TypeInv /\ StreamInv /\ Refreshing => RefreshComplete
  <2>1. SUFFICES ASSUME TypeInv, StreamInv, Refreshing, pc = "waitEnd"
        PROVE  /\ \A i, j \in DOMAIN st.conds :
                    st.evs[st.conds[i]].c = st.evs[st.conds[j]].c => i = j
               /\ st.endSeen /\ Len(st.evs) < MaxEvs =>
                    \A e \in shown :
                        \/ \E i \in Range(st.conds) : st.evs[i].c = e.c /\ st.evs[i].id >= e.id
                        \/ HeldAt(st, e.c) = {} /\ Len(st.conds) = MaxConds
    BY DEF RefreshComplete
  <2>2. TypeOK /\ Ending /\ Served /\ InRefresh
    BY <2>1 DEF TypeInv, StreamInv, Served, InRefresh
  <2>3. \A i, j \in DOMAIN st.conds : st.evs[st.conds[i]].c = st.evs[st.conds[j]].c => i = j
    BY <2>1 DEF TypeInv, Listing
  <2>5. ASSUME st.endSeen, Len(st.evs) < MaxEvs, NEW e \in shown
        PROVE  \/ \E i \in Range(st.conds) : st.evs[i].c = e.c /\ st.evs[i].id >= e.id
               \/ HeldAt(st, e.c) = {} /\ Len(st.conds) = MaxConds
    <3>1. Found(e) \/ Ahead(e)
      BY <2>1, <2>2, <2>5 DEF Refreshing, Ends
    <3>2. ~ Ahead(e)
      BY <2>2, <2>5 DEF Ending, Ahead
    <3>3. Len(st.evs) \in Nat
      BY <2>2, LenProperties DEF TypeOK, StoreType
    <3>4. ~ (Len(st.evs) >= MaxEvs)
      BY <2>5, <3>3, AlarmsAssumption
    <3>. QED  BY <3>1, <3>2, <3>4 DEF Found, Range
  <2>. QED  BY <2>3, <2>5
<1>4. Spec => [](TypeInv /\ StreamInv)
  BY TypeCorrect, InStream, PTL DEF TypeInv
<1>. QED  BY <1>1, <1>2, <1>3, <1>4, PTL DEF Spec

-----------------------------------------------------------------------------
(* What the exit code tells.                                                *)

LEMMA EffectiveStays ==
  ASSUME TypeOK, Anchored, NEW a \in Acts, Effective(a), target' = target, own'[a] = own[a],
         done'[a].sc = done[a].sc, done'[a].event = done[a].event,
         done'[a].eventId = done[a].eventId,
         \A i \in DOMAIN st.evs : i \in DOMAIN st'.evs /\ st'.evs[i] = st.evs[i]
  PROVE  Effective(a)'
<1>1. done[a].eventId \in Nat /\ own[a] \in Nat /\ own[a] > done[a].eventId
  BY DEF TypeOK, ActionType, Effective
<1>2. own[a] # 0
  BY <1>1
<1>3. target \in DOMAIN st.evs
  BY <1>2 DEF Anchored
<1>4. TargetCond' = TargetCond
  BY <1>3 DEF TargetCond
<1>. QED  BY <1>4 DEF Effective

(* The parts of the invariant that speak of the client alone.               *)
LEMMA SameClient ==
  ASSUME Anchored, Pending, Past, Missed, Verdict,
         UNCHANGED <<wanted, pc, st, act, done, target, late, exit, own>>,
         pc = "action" => (call' # "Good" => call # "Good")
  PROVE  Anchored' /\ Pending' /\ Past' /\ Missed' /\ Verdict'
<1>1. Anchored'
  BY DEF Anchored
<1>2. Pending'
  BY DEF Pending, Chosen
<1>3. TargetCond' = TargetCond /\ Current' = Current /\ Chosen' = Chosen
  BY DEF TargetCond, Current, Chosen
<1>4. \A a : Effective(a)' <=> Effective(a)
  BY <1>3 DEF Effective
<1>5. Past'
  BY <1>3, <1>4 DEF Past
<1>6. Missed'
  BY DEF Missed
<1>7. Verdict'
  BY <1>4 DEF Verdict
<1>. QED  BY <1>1, <1>2, <1>5, <1>6, <1>7

(* Another client's events.                                                 *)
LEMMA EmitAct ==
  ASSUME TypeInv, LastIsState, Stream, ActInv, NEW c, NEW es, Emits(c, es, "none"),
         UNCHANGED <<client, call, own>>
  PROVE  ActInv'
<1>1. UNCHANGED <<wanted, pc, st, act, done, target, late, exit, own, call>>
  BY DEF client
<1>2. TypeOK /\ Targeted
  BY DEF TypeInv
<1>3. Anchored' /\ Pending' /\ Past' /\ Missed' /\ Verdict'
  BY <1>1, SameClient DEF ActInv
<1>4. TargetCond' = TargetCond /\ Current' = Current
  BY <1>1 DEF TargetCond, Current
<1>5. \A e : Mine(e)' <=> Mine(e)
  BY <1>1, <1>4 DEF Mine
<1>6. \A j \in DOMAIN queue' :
        (j \in DOMAIN queue /\ queue'[j] = queue[j]) \/ Fresh(j, c, "none")
  BY <1>2, EmitQueue
<1>7. /\ c \in Conds /\ last'[c].by = "none" /\ last'[c].id = reports'
      /\ reports \in Nat /\ reports' \in Nat /\ reports' > reports
      /\ \A d \in Conds : d # c => last'[d] = last[d]
  BY <1>2, EmitLast DEF TypeOK
<1>8. Traced'
  <2>1. \A i \in DOMAIN st.evs : Mine(st.evs[i])
    BY DEF ActInv, Traced
  <2>2. ASSUME NEW j \in DOMAIN queue', Carries(queue'[j])  PROVE Mine(queue'[j])
    <3>1. CASE j \in DOMAIN queue /\ queue'[j] = queue[j]
      BY <2>2, <3>1 DEF ActInv, Traced
    <3>2. CASE Fresh(j, c, "none")
      BY <3>2 DEF Fresh, Mine
    <3>. QED  BY <1>6, <3>1, <3>2
  <2>3. ASSUME NEW d \in Conds  PROVE Mine(last'[d])
    <3>1. CASE d = c
      BY <1>7, <3>1 DEF Mine
    <3>2. CASE d # c
      <4>1. last'[d] = last[d] /\ Mine(last[d])
        BY <1>7, <3>2 DEF ActInv, Traced
      <4>. QED  BY <4>1
    <3>. QED  BY <3>1, <3>2
  <2>. QED  BY <1>1, <1>4, <2>1, <2>2, <2>3 DEF Traced, Mine, Carries
<1>9. ASSUME Acting
      PROVE  /\ act.eventId \in Nat /\ act.eventId <= last[TargetCond].id
             /\ last[TargetCond].id \in Nat /\ last[TargetCond].id <= reports
             /\ last[TargetCond].id <= last'[TargetCond].id /\ last'[TargetCond].id \in Nat
  <2>1. TargetCond \in Conds
    BY <1>2, <1>9, ActingFacts
  <2>2. act.eventId \in Nat /\ act.eventId <= last[TargetCond].id
    BY <1>2, <1>9 DEF TypeOK, ActInv, Timeline
  <2>3. last[TargetCond].id \in Nat /\ last[TargetCond].id <= reports
    BY <1>2, <2>1, StreamTypes DEF LastIsState
  <2>4. CASE TargetCond = c
    BY <1>7, <2>2, <2>3, <2>4
  <2>5. CASE TargetCond # c
    BY <1>7, <2>1, <2>2, <2>3, <2>5
  <2>. QED  BY <2>4, <2>5
<1>10. Timeline'
  <2>1. SUFFICES ASSUME Acting
        PROVE  /\ act.mark <= Len(st.evs)
               /\ done[Current].eventId = act.eventId
               /\ act.eventId <= last'[TargetCond].id
               /\ \A i \in DOMAIN st.evs :
                     i > act.mark /\ st.evs[i].c = TargetCond => st.evs[i].id > act.eventId
               /\ \A j \in DOMAIN queue' :
                     Carries(queue'[j]) /\ queue'[j].c = TargetCond => queue'[j].id > act.eventId
               /\ \A i \in DOMAIN st.evs : i <= act.mark => st.evs[i].by # Current
    BY <1>1, <1>4 DEF Timeline, Acting
  <2>2. /\ act.mark <= Len(st.evs)
        /\ done[Current].eventId = act.eventId
        /\ \A i \in DOMAIN st.evs :
              i > act.mark /\ st.evs[i].c = TargetCond => st.evs[i].id > act.eventId
        /\ \A i \in DOMAIN st.evs : i <= act.mark => st.evs[i].by # Current
    BY <2>1 DEF ActInv, Timeline
  <2>3. act.eventId <= last'[TargetCond].id
    BY <1>9, <2>1
  <2>4. ASSUME NEW j \in DOMAIN queue', Carries(queue'[j]), queue'[j].c = TargetCond
        PROVE  queue'[j].id > act.eventId
    <3>1. CASE j \in DOMAIN queue /\ queue'[j] = queue[j]
      BY <2>1, <2>4, <3>1 DEF ActInv, Timeline
    <3>2. CASE Fresh(j, c, "none")
      <4>1. queue'[j].id > reports /\ queue'[j].id \in Nat
        BY <1>2, <3>2, FreshIsNewer DEF Fresh, EventType
      <4>. QED  BY <1>7, <1>9, <2>1, <4>1
    <3>. QED  BY <1>6, <3>1, <3>2
  <2>. QED  BY <2>2, <2>3, <2>4
<1>11. Effects'
  <2>1. CarriedOut' => CarriedOut
    BY <1>1 DEF CarriedOut
  <2>2. SUFFICES ASSUME CarriedOut
        PROVE  /\ own[Current] > act.eventId /\ own[Current] <= last'[TargetCond].id
               /\ \A i \in DOMAIN st.evs :
                     i > act.mark /\ st.evs[i].c = TargetCond => st.evs[i].id >= own[Current]
               /\ \A j \in DOMAIN queue' :
                     Carries(queue'[j]) /\ queue'[j].c = TargetCond => queue'[j].id >= own[Current]
    BY <1>1, <1>4, <2>1 DEF Effects
  <2>3. Acting
    BY <2>2 DEF CarriedOut, Acting
  <2>4. /\ own[Current] > act.eventId /\ own[Current] <= last[TargetCond].id
        /\ \A i \in DOMAIN st.evs :
              i > act.mark /\ st.evs[i].c = TargetCond => st.evs[i].id >= own[Current]
    BY <2>2 DEF ActInv, Effects
  <2>5. own[Current] \in Nat
    BY <1>2, <2>3, ActingFacts DEF TypeOK
  <2>6. own[Current] <= last'[TargetCond].id
    BY <1>9, <2>3, <2>4, <2>5
  <2>7. ASSUME NEW j \in DOMAIN queue', Carries(queue'[j]), queue'[j].c = TargetCond
        PROVE  queue'[j].id >= own[Current]
    <3>1. CASE j \in DOMAIN queue /\ queue'[j] = queue[j]
      BY <2>2, <2>7, <3>1 DEF ActInv, Effects
    <3>2. CASE Fresh(j, c, "none")
      <4>1. queue'[j].id > reports /\ queue'[j].id \in Nat
        BY <1>2, <3>2, FreshIsNewer DEF Fresh, EventType
      <4>. QED  BY <1>7, <1>9, <2>3, <2>4, <2>5, <4>1
    <3>. QED  BY <1>6, <3>1, <3>2
  <2>. QED  BY <2>4, <2>6, <2>7
<1>. QED  BY <1>3, <1>8, <1>10, <1>11 DEF ActInv

(* One event, reported and queued.                                          *)
OneEvent(c, e, b) ==
    /\ c \in Conds /\ e \in EventType /\ e.c = c /\ e.by = b
    /\ e.id = reports + 1 /\ reports' = reports + 1
    /\ last'[c] = e /\ \A d \in Conds : d # c => last'[d] = last[d]
    /\ \A j \in DOMAIN queue' : (j \in DOMAIN queue /\ queue'[j] = queue[j]) \/ queue'[j] = e

LEMMA EmitOne ==
  ASSUME TypeOK, NEW c, NEW e, NEW b, Emits(c, <<e>>, b)
  PROVE  OneEvent(c, e, b)
<1>1. PICK es : es = <<e>>
  OBVIOUS
<1>2. Emits(c, es, b)
  BY <1>1
<1>3. Len(es) = 1 /\ es[1] = e /\ DOMAIN es = {1}
  BY <1>1
<1>4. es \in Seq(EventType) /\ es[1].c = c /\ es[1].id = reports + 1 /\ es[1].by = b
  BY <1>2, <1>3 DEF Emits
<1>5. e \in EventType
  BY <1>3, <1>4, ElementOfSeq, SMTT(30)
<1>6. reports' = reports + 1 /\ queue' = queue \o <<e>>
  BY <1>1, <1>2, <1>3 DEF Emits
<1>7. c \in Conds /\ last'[c] = e /\ \A d \in Conds : d # c => last'[d] = last[d]
  BY <1>2, <1>3 DEF Emits, TypeOK
<1>8. queue \in Seq(MessageType) /\ e \in MessageType
  BY <1>5, MarkerTypes DEF TypeOK
<1>9. queue' = Append(queue, e)
  BY <1>6, <1>8
<1>10. \A j \in DOMAIN queue' : (j \in DOMAIN queue /\ queue'[j] = queue[j]) \/ queue'[j] = e
  BY <1>8, <1>9, AppendFacts
<1>. QED  BY <1>3, <1>4, <1>5, <1>6, <1>7, <1>10 DEF OneEvent

LEMMA EffectShows ==
  ASSUME NEW a \in Acts, NEW f \in FieldType, NEW e, e.fields = Effect(a, f, TRUE)
  PROVE  Shows(e, a)
<1>1. CASE a = "acknowledge"
  <2>1. Effect(a, f, TRUE) = [f EXCEPT !.acked = TRUE, !.comment = TRUE, !.message = "stack"]
    BY <1>1 DEF Effect
  <2>2. e.fields.acked = TRUE
    BY <2>1, ZenonT(90) DEF FieldType
  <2>. QED  BY <1>1, <2>2 DEF Shows
<1>2. CASE a = "confirm"
  <2>1. Effect(a, f, TRUE) = [f EXCEPT !.confirmed = TRUE, !.comment = TRUE, !.message = "stack"]
    BY <1>2 DEF Effect
  <2>2. e.fields.confirmed = TRUE
    BY <2>1 DEF FieldType
  <2>. QED  BY <1>2, <2>2 DEF Shows
<1>3. CASE a = "addComment"
  <2>1. Effect(a, f, TRUE) = [f EXCEPT !.comment = TRUE, !.message = "stack"]
    BY <1>3 DEF Effect
  <2>2. e.fields.comment = TRUE
    BY <2>1 DEF FieldType
  <2>. QED  BY <1>3, <2>2 DEF Shows
<1>. QED  BY <1>1, <1>2, <1>3 DEF Acts

(* The action is carried out: nothing newer than the event it was called    *)
(* for has been reported, so everything after the mark is its own event or  *)
(* later. The repetition of Acknowledge is never carried out.               *)
LEMMA ExecutedAct ==
  ASSUME TypeInv, LastIsState, Stream, ActInv, pc \in {"action", "repeat"}, call = "sent",
         UNCHANGED client, Executed
  PROVE  ActInv'
<1>1. UNCHANGED <<wanted, pc, st, act, done, target, late, exit>>
  BY DEF client
<1>2. TypeOK /\ Targeted /\ Acting /\ Chosen
  BY DEF TypeInv, Acting, Chosen
<1>3. /\ act.k \in 1 .. 3 /\ Current \in Acts
      /\ target \in DOMAIN st.evs /\ TargetCond \in Conds
  BY <1>2, ActingFacts
<1>4. TargetCond' = TargetCond /\ Current' = Current
  BY <1>1 DEF TargetCond, Current
<1>5. PICK e : e = Event(TargetCond, reports + 1, Effect(Current, cond[TargetCond], TRUE), Current)
  OBVIOUS
<1>6. /\ e \in EventType /\ e.c = TargetCond /\ e.by = Current
      /\ e.id = reports + 1 /\ reports' = reports + 1
      /\ last'[TargetCond] = e /\ \A d \in Conds : d # TargetCond => last'[d] = last[d]
      /\ \A j \in DOMAIN queue' : (j \in DOMAIN queue /\ queue'[j] = queue[j]) \/ queue'[j] = e
  <2>1. Emits(TargetCond, <<e>>, Current)
    BY <1>5 DEF Executed
  <2>2. OneEvent(TargetCond, e, Current)
    BY <1>2, <2>1, EmitOne, Zenon
  <2>. QED  BY <2>2 DEF OneEvent
<1>7. /\ reports \in Nat /\ last[TargetCond].id = act.eventId /\ last[TargetCond].id <= reports
      /\ act.eventId \in Nat /\ call' = "Good"
      /\ own' = [own EXCEPT ![Current] = reports + 1] /\ own \in [Acts -> Nat]
  BY <1>2, <1>3 DEF Executed, Allowed, TypeOK, LastIsState
<1>8. pc = "action"
  <2>1. ASSUME pc = "repeat"  PROVE FALSE
    <3>1. own[Current] > act.eventId /\ own[Current] <= last[TargetCond].id
      BY <2>1 DEF ActInv, Effects, CarriedOut
    <3>2. own[Current] \in Nat
      BY <1>3, <1>7
    <3>. QED  BY <1>7, <3>1, <3>2
  <2>. QED  BY <2>1
<1>9. /\ own'[Current] = reports + 1 /\ \A a \in Acts : a # Current => own'[a] = own[a]
  BY <1>3, <1>7
<1>10. own[Current] = 0
  BY <1>2, <1>3, <1>8 DEF ActInv, Pending, Current
<1>11. Anchored'
  BY <1>1, <1>3 DEF Anchored
<1>12. Pending'
  <2>1. ASSUME NEW k \in 1 .. 3, k > act.k  PROVE own'[Actions[k]] = own[Actions[k]]
    <3>1. Actions[k] \in Acts /\ Actions[k] # Current
      <4>1. k # act.k
        BY <1>3, <2>1
      <4>. QED  BY <1>3, <4>1, ActionNames DEF Current
    <3>. QED  BY <1>9, <3>1
  <2>2. \A k \in 1 .. 3 : k > act.k => own[Actions[k]] = 0
    BY <1>2 DEF ActInv, Pending
  <2>3. \A k \in 1 .. 3 :
          k > act.k \/ (k = act.k /\ pc \in {"next", "action", "followUp"})
             => done[Actions[k]].known = 0
    BY <1>2 DEF ActInv, Pending
  <2>4. Chosen'
    BY <1>1, <1>2 DEF Chosen
  <2>. QED  BY <1>1, <1>7, <1>8, <2>1, <2>2, <2>3, <2>4 DEF Pending
<1>13. Traced'
  <2>1. ASSUME NEW x \in EventType, Mine(x), x.by # "none"
        PROVE  own'[x.by] = x.id /\ x.id # 0 /\ x.c = TargetCond /\ Shows(x, x.by)
    <3>1. own[x.by] = x.id /\ x.id # 0 /\ x.c = TargetCond /\ Shows(x, x.by)
      BY <2>1 DEF Mine
    <3>2. x.by \in Acts /\ x.by # Current
      BY <1>10, <2>1, <3>1 DEF EventType
    <3>. QED  BY <1>9, <3>1, <3>2
  <2>2. own'[e.by] = e.id /\ e.id # 0 /\ e.c = TargetCond /\ Shows(e, e.by)
    <3>1. e.fields = Effect(Current, cond[TargetCond], TRUE)
      BY <1>5 DEF Event
    <3>2. cond[TargetCond] \in FieldType
      BY <1>2, <1>3 DEF TypeOK
    <3>3. Shows(e, Current)
      BY <1>3, <3>1, <3>2, EffectShows
    <3>. QED  BY <1>6, <1>7, <1>9, <3>3
  <2>3. ASSUME NEW i \in DOMAIN st.evs, st.evs[i].by # "none"
        PROVE  /\ own'[st.evs[i].by] = st.evs[i].id /\ st.evs[i].id # 0
               /\ st.evs[i].c = TargetCond /\ Shows(st.evs[i], st.evs[i].by)
    BY <1>2, <2>1, <2>3, StreamTypes DEF ActInv, Traced
  <2>4. ASSUME NEW j \in DOMAIN queue', Carries(queue'[j]), queue'[j].by # "none"
        PROVE  /\ own'[queue'[j].by] = queue'[j].id /\ queue'[j].id # 0
               /\ queue'[j].c = TargetCond /\ Shows(queue'[j], queue'[j].by)
    <3>1. CASE j \in DOMAIN queue /\ queue'[j] = queue[j]
      <4>1. queue[j] \in EventType /\ Mine(queue[j])
        BY <1>2, <2>4, <3>1, StreamTypes, Messages DEF ActInv, Traced
      <4>. QED  BY <2>1, <2>4, <3>1, <4>1
    <3>2. CASE queue'[j] = e
      BY <2>2, <3>2
    <3>. QED  BY <1>6, <3>1, <3>2
  <2>5. ASSUME NEW d \in Conds, last'[d].by # "none"
        PROVE  /\ own'[last'[d].by] = last'[d].id /\ last'[d].id # 0
               /\ last'[d].c = TargetCond /\ Shows(last'[d], last'[d].by)
    <3>1. CASE d = TargetCond
      BY <1>6, <2>2, <3>1
    <3>2. CASE d # TargetCond
      <4>1. last'[d] = last[d] /\ last[d] \in EventType /\ Mine(last[d])
        BY <1>2, <1>6, <3>2, StreamTypes DEF ActInv, Traced
      <4>. QED  BY <2>1, <2>5, <4>1
    <3>. QED  BY <3>1, <3>2
  <2>. QED  BY <1>1, <1>4, <2>3, <2>4, <2>5 DEF Traced, Mine, Carries, Shows
<1>14. ASSUME NEW i \in DOMAIN st.evs, i > act.mark, st.evs[i].c = TargetCond
       PROVE  FALSE
  <2>1. st.evs[i].id > act.eventId
    BY <1>2, <1>14 DEF ActInv, Timeline
  <2>2. st.evs[i].id <= last[TargetCond].id /\ st.evs[i].id \in Nat
    BY <1>2, <1>14, StreamTypes DEF Stream
  <2>. QED  BY <1>7, <2>1, <2>2
<1>15. ASSUME NEW j \in DOMAIN queue', Carries(queue'[j]), queue'[j].c = TargetCond
       PROVE  queue'[j].id = reports + 1
  <2>1. ASSUME j \in DOMAIN queue, queue'[j] = queue[j]  PROVE FALSE
    <3>1. queue[j].id > act.eventId
      BY <1>2, <1>15, <2>1 DEF ActInv, Timeline
    <3>2. queue[j].id <= last[TargetCond].id /\ queue[j].id \in Nat
      BY <1>2, <1>15, <2>1, StreamTypes DEF Stream
    <3>. QED  BY <1>7, <3>1, <3>2
  <2>. QED  BY <1>6, <2>1
<1>16. last'[TargetCond].id = reports + 1 /\ reports + 1 > act.eventId /\ reports + 1 >= act.eventId
       /\ reports + 1 <= reports + 1
  BY <1>6, <1>7
<1>17. Timeline'
  <2>1. /\ act.mark <= Len(st.evs)
        /\ done[Current].eventId = act.eventId
        /\ \A i \in DOMAIN st.evs : i <= act.mark => st.evs[i].by # Current
    BY <1>2 DEF ActInv, Timeline
  <2>2. act.eventId <= last'[TargetCond].id
    BY <1>7, <1>16
  <2>3. \A j \in DOMAIN queue' :
           Carries(queue'[j]) /\ queue'[j].c = TargetCond => queue'[j].id > act.eventId
    BY <1>15, <1>16
  <2>. QED  BY <1>1, <1>4, <1>14, <2>1, <2>2, <2>3 DEF Timeline, Carries
<1>18. Effects'
  <2>1. \A j \in DOMAIN queue' :
           Carries(queue'[j]) /\ queue'[j].c = TargetCond => queue'[j].id >= reports + 1
    BY <1>7, <1>15
  <2>. QED  BY <1>1, <1>4, <1>9, <1>14, <1>16, <2>1 DEF Effects, Carries
<1>19. Past'
  <2>1. ASSUME NEW k \in 1 .. 3, k < act.k, Actions[k] \in wanted.actions
        PROVE  Effective(Actions[k])'
    <3>1. Actions[k] \in Acts /\ Actions[k] # Current
      <4>1. k # act.k
        BY <1>3, <2>1
      <4>. QED  BY <1>3, <4>1, ActionNames DEF Current
    <3>2. Effective(Actions[k])
      BY <1>2, <2>1 DEF ActInv, Past
    <3>3. PICK a \in Acts : a = Actions[k]
      BY <3>1
    <3>4. Effective(a)'
      BY <1>1, <1>2, <1>9, <3>1, <3>2, <3>3, EffectiveStays DEF ActInv
    <3>. QED  BY <3>3, <3>4
  <2>. QED  BY <1>1, <1>8, <2>1 DEF Past
<1>20. Missed'
  BY <1>1 DEF ActInv, Missed
<1>21. Verdict'
  BY <1>1, <1>8 DEF Verdict
<1>. QED  BY <1>11, <1>12, <1>13, <1>17, <1>18, <1>19, <1>20, <1>21 DEF ActInv


(* A notification is taken from the queue to the end of the store.          *)
Moves ==
    /\ \A i \in DOMAIN st.evs : i \in DOMAIN st'.evs /\ st'.evs[i] = st.evs[i]
    /\ Len(st'.evs) >= Len(st.evs)
    /\ \A i \in DOMAIN st'.evs :
          \/ i \in DOMAIN st.evs /\ st'.evs[i] = st.evs[i]
          \/ /\ 1 \in DOMAIN queue /\ Carries(queue[1])
             /\ i = Len(st.evs) + 1 /\ st'.evs[i] = queue[1]
    /\ \A j \in DOMAIN queue' : j + 1 \in DOMAIN queue /\ queue'[j] = queue[j + 1]

LEMMA DeliverMoves ==
  ASSUME TypeInv, Deliver
  PROVE  /\ Moves /\ (st.endSeen => st'.endSeen)
         /\ UNCHANGED <<cond, last, reports, wanted, pc, act, done, target, late, exit, call, own>>
<1>1. /\ queue # <<>> /\ queue' = Tail(queue) /\ Head(queue) \in MessageType
      /\ st' \in StoreType /\ Handled(st, Head(queue), st')
      /\ UNCHANGED <<server, wanted, pc, act, done, target, late, exit, call, own>>
  BY DeliverIs
<1>2. st \in StoreType /\ queue \in Seq(MessageType)
  BY DEF TypeInv, TypeOK
<1>3. PICK e \in MessageType : e = Head(queue)
  BY <1>1
<1>4. 1 \in DOMAIN queue /\ e = queue[1]
  BY <1>1, <1>2, <1>3, TailFacts
<1>5. \A j \in DOMAIN queue' : j + 1 \in DOMAIN queue /\ queue'[j] = queue[j + 1]
  BY <1>1, <1>2, TailFacts
<1>6. Handled(st, e, st')
  BY <1>1, <1>3
<1>7. /\ \A i \in DOMAIN st.evs : i \in DOMAIN st'.evs /\ st'.evs[i] = st.evs[i]
      /\ Len(st'.evs) >= Len(st.evs)
      /\ \A i \in DOMAIN st'.evs :
            \/ i \in DOMAIN st.evs
            \/ Carries(e) /\ i = Len(st.evs) + 1 /\ st'.evs[i] = e
  BY <1>1, <1>2, <1>6, StoreGrows
<1>8. Moves
  BY <1>4, <1>5, <1>7 DEF Moves
<1>9. st.endSeen => st'.endSeen
  BY <1>6 DEF Handled, Stored, Kept
<1>. QED  BY <1>1, <1>8, <1>9 DEF server, condition

(* What was traced stays traced while the store only grows.                 *)
LEMMA MineStays ==
  ASSUME TypeOK, Anchored, target' = target, own' = own,
         \A i \in DOMAIN st.evs : i \in DOMAIN st'.evs /\ st'.evs[i] = st.evs[i],
         NEW x \in EventType, Mine(x), x.by # "none"
  PROVE  own'[x.by] = x.id /\ x.id # 0 /\ x.c = TargetCond' /\ Shows(x, x.by)
<1>1. own[x.by] = x.id /\ x.id # 0 /\ x.c = TargetCond /\ Shows(x, x.by)
  BY DEF Mine
<1>2. x.by \in Acts
  BY DEF EventType
<1>3. target \in DOMAIN st.evs
  BY <1>1, <1>2 DEF Anchored
<1>4. TargetCond' = TargetCond
  BY <1>3 DEF TargetCond
<1>. QED  BY <1>1, <1>4

LEMMA WantedActs ==
  ASSUME TypeOK
  PROVE  wanted.actions \subseteq Acts
BY AlarmsAssumption, ActionNames DEF TypeOK

LEMMA DeliverAct ==
  ASSUME TypeInv, ActInv, Deliver
  PROVE  ActInv'
<1>1. /\ Moves /\ (st.endSeen => st'.endSeen)
      /\ UNCHANGED <<cond, last, reports, wanted, pc, act, done, target, late, exit, call, own>>
  BY DeliverMoves
<1>2. TypeOK /\ Targeted /\ Anchored
  BY DEF TypeInv, ActInv
<1>3. \A i \in DOMAIN st.evs : i \in DOMAIN st'.evs /\ st'.evs[i] = st.evs[i]
  BY <1>1 DEF Moves
<1>4. Current' = Current
  BY <1>1 DEF Current
<1>5. ASSUME Chosen  PROVE TargetCond' = TargetCond
  BY <1>1, <1>2, <1>3, <1>5 DEF Targeted, TargetCond
<1>6. ASSUME NEW i \in DOMAIN st'.evs
      PROVE  \/ i \in DOMAIN st.evs /\ st'.evs[i] = st.evs[i]
             \/ /\ 1 \in DOMAIN queue /\ Carries(queue[1])
                /\ i = Len(st.evs) + 1 /\ st'.evs[i] = queue[1]
  BY <1>1 DEF Moves
<1>7. ASSUME NEW j \in DOMAIN queue'
      PROVE  j + 1 \in DOMAIN queue /\ queue'[j] = queue[j + 1]
  BY <1>1 DEF Moves
<1>8. Len(st.evs) \in Nat /\ Len(st'.evs) \in Nat /\ Len(st'.evs) >= Len(st.evs)
  <2>1. st' \in StoreType
    BY DeliverIs
  <2>2. st.evs \in Seq(EventType) /\ st'.evs \in Seq(EventType)
    BY <1>2, <2>1 DEF TypeOK, StoreType
  <2>3. Len(st.evs) \in Nat /\ Len(st'.evs) \in Nat
    BY <2>2, LenProperties
  <2>. QED  BY <1>1, <2>3 DEF Moves
<1>9. Anchored'
  BY <1>1, <1>2, <1>3 DEF Anchored
<1>10. Pending'
  BY <1>1 DEF ActInv, Pending, Chosen
<1>11. Traced'
  <2>1. ASSUME NEW x \in EventType, Mine(x), x.by # "none"
        PROVE  own'[x.by] = x.id /\ x.id # 0 /\ x.c = TargetCond' /\ Shows(x, x.by)
    BY <1>1, <1>2, <1>3, <2>1, MineStays
  <2>2. ASSUME NEW j \in DOMAIN queue, Carries(queue[j])  PROVE queue[j] \in EventType /\ Mine(queue[j])
    BY <1>2, <2>2, StreamTypes, Messages DEF ActInv, Traced
  <2>3. ASSUME NEW i \in DOMAIN st'.evs, st'.evs[i].by # "none"
        PROVE  /\ own'[st'.evs[i].by] = st'.evs[i].id /\ st'.evs[i].id # 0
               /\ st'.evs[i].c = TargetCond' /\ Shows(st'.evs[i], st'.evs[i].by)
    <3>1. st'.evs[i] \in EventType /\ Mine(st'.evs[i])
      <4>1. CASE i \in DOMAIN st.evs /\ st'.evs[i] = st.evs[i]
        <5>1. st.evs[i] \in EventType /\ Mine(st.evs[i])
          BY <1>2, <4>1, StreamTypes DEF ActInv, Traced
        <5>. QED  BY <4>1, <5>1
      <4>2. CASE 1 \in DOMAIN queue /\ Carries(queue[1]) /\ st'.evs[i] = queue[1]
        <5>1. queue[1] \in EventType /\ Mine(queue[1])
          BY <2>2, <4>2
        <5>. QED  BY <4>2, <5>1
      <4>. QED  BY <1>6, <4>1, <4>2
    <3>. QED  BY <2>1, <2>3, <3>1
  <2>4. ASSUME NEW j \in DOMAIN queue', Carries(queue'[j]), queue'[j].by # "none"
        PROVE  /\ own'[queue'[j].by] = queue'[j].id /\ queue'[j].id # 0
               /\ queue'[j].c = TargetCond' /\ Shows(queue'[j], queue'[j].by)
    <3>1. j + 1 \in DOMAIN queue /\ queue'[j] = queue[j + 1]
      BY <1>7
    <3>2. queue[j + 1] \in EventType /\ Mine(queue[j + 1])
      BY <2>2, <2>4, <3>1
    <3>. QED  BY <2>1, <2>4, <3>1, <3>2
  <2>5. ASSUME NEW d \in Conds, last[d].by # "none"
        PROVE  /\ own'[last[d].by] = last[d].id /\ last[d].id # 0
               /\ last[d].c = TargetCond' /\ Shows(last[d], last[d].by)
    <3>1. last[d] \in EventType /\ Mine(last[d])
      BY <1>2, StreamTypes DEF ActInv, Traced
    <3>. QED  BY <2>1, <2>5, <3>1
  <2>. QED  BY <1>1, <2>3, <2>4, <2>5 DEF Traced, Mine, Carries, Shows
<1>12. Timeline'
  <2>1. Acting' => Acting /\ Chosen
    BY <1>1 DEF Acting, Chosen
  <2>2. SUFFICES ASSUME Acting, Chosen
        PROVE  /\ act.mark <= Len(st'.evs)
               /\ done[Current].eventId = act.eventId
               /\ act.eventId <= last[TargetCond].id
               /\ \A i \in DOMAIN st'.evs :
                     i > act.mark /\ st'.evs[i].c = TargetCond => st'.evs[i].id > act.eventId
               /\ \A j \in DOMAIN queue' :
                     Carries(queue'[j]) /\ queue'[j].c = TargetCond => queue'[j].id > act.eventId
               /\ \A i \in DOMAIN st'.evs : i <= act.mark => st'.evs[i].by # Current
    BY <1>1, <1>4, <1>5, <2>1 DEF Timeline, Carries
  <2>3. /\ act.mark <= Len(st.evs)
        /\ done[Current].eventId = act.eventId
        /\ act.eventId <= last[TargetCond].id
        /\ \A i \in DOMAIN st.evs :
              i > act.mark /\ st.evs[i].c = TargetCond => st.evs[i].id > act.eventId
        /\ \A j \in DOMAIN queue :
              Carries(queue[j]) /\ queue[j].c = TargetCond => queue[j].id > act.eventId
        /\ \A i \in DOMAIN st.evs : i <= act.mark => st.evs[i].by # Current
    BY <2>2 DEF ActInv, Timeline
  <2>4. act.mark \in Nat
    BY <1>2 DEF TypeOK
  <2>5. act.mark <= Len(st'.evs)
    BY <1>8, <2>3, <2>4
  <2>6. ASSUME NEW i \in DOMAIN st'.evs, i > act.mark, st'.evs[i].c = TargetCond
        PROVE  st'.evs[i].id > act.eventId
    BY <1>6, <2>3, <2>6
  <2>7. ASSUME NEW j \in DOMAIN queue', Carries(queue'[j]), queue'[j].c = TargetCond
        PROVE  queue'[j].id > act.eventId
    BY <1>7, <2>3, <2>7
  <2>8. ASSUME NEW i \in DOMAIN st'.evs, i <= act.mark
        PROVE  st'.evs[i].by # Current
    <3>1. i # Len(st.evs) + 1
      BY <1>8, <2>3, <2>4, <2>8
    <3>. QED  BY <1>6, <2>3, <2>8, <3>1
  <2>. QED  BY <2>3, <2>5, <2>6, <2>7, <2>8
<1>13. Effects'
  <2>1. CarriedOut' => CarriedOut /\ Chosen
    BY <1>1 DEF CarriedOut, Chosen
  <2>2. SUFFICES ASSUME CarriedOut, Chosen
        PROVE  /\ own[Current] > act.eventId /\ own[Current] <= last[TargetCond].id
               /\ \A i \in DOMAIN st'.evs :
                     i > act.mark /\ st'.evs[i].c = TargetCond => st'.evs[i].id >= own[Current]
               /\ \A j \in DOMAIN queue' :
                     Carries(queue'[j]) /\ queue'[j].c = TargetCond => queue'[j].id >= own[Current]
    BY <1>1, <1>4, <1>5, <2>1 DEF Effects, Carries
  <2>3. /\ own[Current] > act.eventId /\ own[Current] <= last[TargetCond].id
        /\ \A i \in DOMAIN st.evs :
              i > act.mark /\ st.evs[i].c = TargetCond => st.evs[i].id >= own[Current]
        /\ \A j \in DOMAIN queue :
              Carries(queue[j]) /\ queue[j].c = TargetCond => queue[j].id >= own[Current]
    BY <2>2 DEF ActInv, Effects
  <2>4. ASSUME NEW i \in DOMAIN st'.evs, i > act.mark, st'.evs[i].c = TargetCond
        PROVE  st'.evs[i].id >= own[Current]
    BY <1>6, <2>3, <2>4
  <2>5. ASSUME NEW j \in DOMAIN queue', Carries(queue'[j]), queue'[j].c = TargetCond
        PROVE  queue'[j].id >= own[Current]
    BY <1>7, <2>3, <2>5
  <2>. QED  BY <2>3, <2>4, <2>5
<1>14. ASSUME NEW a \in Acts, Effective(a)  PROVE Effective(a)'
  BY <1>1, <1>2, <1>3, <1>14, EffectiveStays
<1>15. Past'
  <2>1. ASSUME NEW k \in 1 .. 3, Effective(Actions[k])  PROVE Effective(Actions[k])'
    <3>1. PICK a \in Acts : a = Actions[k]
      BY ActionNames
    <3>2. Effective(a)'
      BY <1>14, <2>1, <3>1
    <3>. QED  BY <3>1, <3>2
  <2>2. ASSUME Chosen'  PROVE \A k \in 1 .. 3 :
          k < act'.k /\ Actions[k] \in wanted'.actions => Effective(Actions[k])'
    BY <1>1, <2>1, <2>2 DEF ActInv, Past, Chosen
  <2>3. pc' \in {"followUp", "repeat"} => done'[Current].sc = "Good"
    BY <1>1 DEF ActInv, Past
  <2>4. ASSUME pc' = "repeat"
        PROVE IF done'[Current].event = NoEvent THEN late' ELSE Effective(Current)'
    <3>1. IF done[Current].event = NoEvent THEN late ELSE Effective(Current)
      BY <1>1, <2>4 DEF ActInv, Past
    <3>2. Current \in Acts
      BY <1>1, <1>2, <2>4, ActingFacts DEF Acting
    <3>3. PICK a \in Acts : a = Current
      BY <3>2
    <3>4. Effective(a) => Effective(a)'
      BY <1>14
    <3>5. Effective(Current) => Effective(Current)'
      BY <1>4, <3>3, <3>4
    <3>. QED  BY <1>1, <3>1, <3>5
  <2>. QED  BY <1>4, <2>2, <2>3, <2>4 DEF Past
<1>16. Missed'
  <2>1. ASSUME NEW a \in Acts  PROVE done[a].known \in Nat
    BY <1>2 DEF TypeOK, ActionType
  <2>2. \A a \in Acts : done[a].known <= Len(st'.evs)
    BY <1>8, <2>1 DEF ActInv, Missed
  <2>3. ASSUME NEW a \in Acts, done[a].sc = "Good", done[a].event = NoEvent,
               NEW i \in 1 .. done[a].known
        PROVE  st'.evs[i].by # a
    <3>1. st.evs[i].by # a /\ done[a].known <= Len(st.evs)
      BY <2>3 DEF ActInv, Missed
    <3>2. i \in DOMAIN st.evs
      <4>1. st.evs \in Seq(EventType)
        BY <1>2 DEF TypeOK, StoreType
      <4>2. DOMAIN st.evs = 1 .. Len(st.evs)
        BY <4>1, LenProperties
      <4>. QED  BY <1>8, <2>1, <3>1, <4>2
    <3>. QED  BY <1>3, <3>1, <3>2
  <2>. QED  BY <1>1, <2>2, <2>3 DEF Missed
<1>17. Verdict'
  <2>1. wanted.actions \subseteq Acts
    BY <1>2, WantedActs
  <2>2. ASSUME pc = "report", exit = 0  PROVE st'.endSeen /\ \A a \in wanted.actions : Effective(a)'
    BY <1>1, <1>14, <2>1, <2>2 DEF ActInv, Verdict
  <2>3. pc = "report" /\ exit = 7 => late
    BY DEF ActInv, Verdict
  <2>. QED  BY <1>1, <2>2, <2>3 DEF Verdict
<1>. QED  BY <1>9, <1>10, <1>11, <1>12, <1>13, <1>15, <1>16, <1>17 DEF ActInv

(* A step of the server that changes no condition.                          *)
LEMMA CalmAct ==
  ASSUME ActInv, UNCHANGED <<last, wanted, pc, st, act, done, target, late, exit, own>>,
         pc = "action" => (call = "Good" <=> call' = "Good"),
         \A j \in DOMAIN queue' : Carries(queue'[j]) =>
            \/ \E i \in DOMAIN queue : queue[i] = queue'[j]
            \/ pc = "refresh" /\ \E c \in Conds : queue'[j] = last[c]
  PROVE  ActInv'
<1>1. Anchored' /\ Pending' /\ Past' /\ Missed' /\ Verdict'
  BY SameClient DEF ActInv
<1>2. TargetCond' = TargetCond /\ Current' = Current
  BY DEF TargetCond, Current
<1>3. Traced'
  <2>1. \A e : Mine(e)' <=> Mine(e)
    BY <1>2 DEF Mine
  <2>2. ASSUME NEW j \in DOMAIN queue', Carries(queue'[j])  PROVE Mine(queue'[j])
    <3>1. ASSUME NEW i \in DOMAIN queue, queue[i] = queue'[j]  PROVE Mine(queue'[j])
      <4>1. Mine(queue[i])
        BY <2>2, <3>1 DEF ActInv, Traced
      <4>. QED  BY <3>1, <4>1
    <3>2. ASSUME NEW c \in Conds, queue'[j] = last[c]  PROVE Mine(queue'[j])
      <4>1. Mine(last[c])
        BY DEF ActInv, Traced
      <4>. QED  BY <3>2, <4>1
    <3>. QED  BY <2>2, <3>1, <3>2
  <2>3. (\A i \in DOMAIN st.evs : Mine(st.evs[i])) /\ \A c \in Conds : Mine(last[c])
    BY DEF ActInv, Traced
  <2>. QED  BY <1>2, <2>2, <2>3 DEF Traced, Mine, Carries
<1>4. ASSUME Acting, NEW j \in DOMAIN queue', Carries(queue'[j])
      PROVE  \E i \in DOMAIN queue : queue[i] = queue'[j]
  BY <1>4 DEF Acting
<1>5. Timeline'
  BY <1>2, <1>4 DEF ActInv, Timeline, Acting, Carries
<1>6. Effects'
  <2>1. CarriedOut' => CarriedOut /\ Acting
    BY DEF CarriedOut, Acting
  <2>. QED  BY <1>2, <1>4, <2>1 DEF ActInv, Effects, Carries
<1>. QED  BY <1>1, <1>3, <1>5, <1>6 DEF ActInv

LEMMA ServerAct ==
  ASSUME TypeInv, LastIsState, Stream, ActInv,
         \/ \E c \in Contested : Reset(c) \/ OtherClient(c)
         \/ ServeAction \/ ServeRefresh
  PROVE  ActInv'
<1>1. TypeOK /\ Targeted
  BY DEF TypeInv
<1>2. ASSUME NEW c \in Contested, Reset(c) \/ OtherClient(c)  PROVE ActInv'
  <2>1. (\E es : Emits(c, es, "none")) /\ UNCHANGED <<client, call, own>>
    BY <1>1, <1>2, ResetEmits, OtherEmits
  <2>. QED  BY <2>1, EmitAct
<1>3. CASE ServeAction
  <2>1. /\ pc \in {"action", "repeat"} /\ call = "sent" /\ UNCHANGED client
        /\ Executed \/ (call' = "Bad" /\ UNCHANGED <<condition, queue, own>>)
    BY <1>1, <1>3, ServeActionIs
  <2>2. CASE Executed
    BY <2>1, <2>2, ExecutedAct
  <2>3. CASE call' = "Bad" /\ UNCHANGED <<condition, queue, own>>
    <3>1. UNCHANGED <<last, wanted, pc, st, act, done, target, late, exit, own>>
      BY <2>1, <2>3 DEF client, condition
    <3>. QED  BY <2>1, <2>3, <3>1, CalmAct
  <2>. QED  BY <2>1, <2>2, <2>3
<1>4. CASE ServeRefresh
  <2>1. /\ pc = "refresh" /\ UNCHANGED <<server, client, own>>
        /\ \/ /\ call' = "Good" /\ shown' = {last[c] : c \in Refreshed}
              /\ \E order, n, h : Refreshes(order, n, h)
           \/ call' = "Bad" /\ UNCHANGED <<queue, shown>>
    BY <1>1, <1>4, ServeRefreshIs
  <2>2. UNCHANGED <<last, wanted, pc, st, act, done, target, late, exit, own>>
    BY <2>1 DEF client, server, condition
  <2>3. CASE queue' = queue
    BY <2>1, <2>2, <2>3, CalmAct
  <2>4. ASSUME NEW order, NEW n, NEW h, Refreshes(order, n, h)  PROVE ActInv'
    <3>1. PICK m : m = Len(queue)
      OBVIOUS
    <3>2. ASSUME NEW j \in DOMAIN queue', Carries(queue'[j])
          PROVE  (\E i \in DOMAIN queue : queue[i] = queue'[j])
                 \/ \E c \in Conds : queue'[j] = last[c]
      <4>1. /\ DOMAIN queue = 1 .. m
            /\ \/ j \in 1 .. m /\ queue'[j] = queue[j]
               \/ queue'[j] = Marker("start")
               \/ j - (m + h) \in 1 .. n /\ queue'[j] = last[order[j - (m + h)]]
               \/ queue'[j] = Marker("end")
        BY <1>1, <2>4, <3>1, RefreshPositions
      <4>2. CASE j \in 1 .. m /\ queue'[j] = queue[j]
        BY <4>1, <4>2
      <4>3. CASE queue'[j] = Marker("start") \/ queue'[j] = Marker("end")
        BY <3>2, <4>3 DEF Marker, Carries
      <4>4. CASE j - (m + h) \in 1 .. n /\ queue'[j] = last[order[j - (m + h)]]
        <5>1. PICK i \in 1 .. n : queue'[j] = last[order[i]]
          BY <4>4
        <5>2. order[i] \in Conds
          BY <2>4 DEF Refreshes, Refreshed
        <5>. QED  BY <5>1, <5>2
      <4>. QED  BY <4>1, <4>2, <4>3, <4>4
    <3>. QED  BY <2>1, <2>2, <3>2, CalmAct
  <2>. QED  BY <2>1, <2>3, <2>4
<1>. QED  BY <1>2, <1>3, <1>4

(* A step of the command after which no action is under way.                *)
LEMMA IdleAct ==
  ASSUME ActInv, st'.evs = st.evs, UNCHANGED <<last, own, target>>,
         queue' = queue \/ queue' = <<>>, ~ Acting', Pending', Past', Missed', Verdict'
  PROVE  ActInv'
<1>1. Anchored'
  BY DEF ActInv, Anchored
<1>2. TargetCond' = TargetCond
  BY DEF TargetCond
<1>3. Traced'
  <2>1. CASE queue' = queue
    BY <1>2, <2>1 DEF ActInv, Traced, Mine, Carries
  <2>2. CASE queue' = <<>>
    <3>1. DOMAIN queue' = {}
      BY <2>2
    <3>. QED  BY <1>2, <3>1 DEF ActInv, Traced, Mine
  <2>. QED  BY <2>1, <2>2
<1>4. Timeline'
  BY DEF Timeline
<1>5. ~ CarriedOut'
  BY DEF CarriedOut, Acting
<1>6. Effects'
  BY <1>5 DEF Effects
<1>. QED  BY <1>1, <1>3, <1>4, <1>6 DEF ActInv

(* A step before a target is chosen, or to the end.                         *)
LEMMA PlainAct ==
  ASSUME ActInv, st'.evs = st.evs, UNCHANGED <<last, own, target, done, wanted>>,
         queue' = queue \/ queue' = <<>>, ~ Chosen', Verdict',
         pc' \in {"report", "done"} \/ (~ Chosen /\ pc \notin {"report", "done"})
  PROVE  ActInv'
<1>1. Pending'
  <2>1. CASE pc' \in {"report", "done"}
    BY <2>1 DEF Pending, Chosen
  <2>2. CASE ~ Chosen /\ pc \notin {"report", "done"}
    BY <2>2 DEF ActInv, Pending
  <2>. QED  BY <2>1, <2>2
<1>2. ~ Acting'
  BY DEF Acting, Chosen
<1>3. Past'
  BY DEF Past, Chosen
<1>4. Missed'
  BY DEF ActInv, Missed
<1>. QED  BY <1>1, <1>2, <1>3, <1>4, IdleAct

LEMMA BeforeAct ==
  ASSUME ActInv,
         \/ Parse \/ Connect \/ Subscribe \/ Monitor \/ CallRefresh \/ RefreshReturns
         \/ NoEnd \/ Envelope,
         st'.evs = st.evs, UNCHANGED <<last, own, wanted>>
  PROVE  ActInv'
<1>1. UNCHANGED <<target, done>> /\ (queue' = queue \/ queue' = <<>>)
  BY DEF Parse, Connect, Subscribe, Monitor, CallRefresh, RefreshReturns, NoEnd, Envelope,
         Quit, GoTo
<1>2. /\ pc \notin {"next", "action", "followUp", "repeat"}
      /\ pc' \notin {"next", "action", "followUp", "repeat"}
      /\ pc' = "report" => exit' = 4 \/ (exit' = 7 /\ late')
  BY DEF Parse, Connect, Subscribe, Monitor, CallRefresh, RefreshReturns, NoEnd, Envelope,
         Quit, GoTo, Stop
<1>3. pc' = "done" \/ pc \notin {"report", "done"}
  BY DEF Parse, Connect, Subscribe, Monitor, CallRefresh, RefreshReturns, NoEnd, Envelope
<1>4. Verdict'
  BY <1>2 DEF Verdict
<1>. QED  BY <1>1, <1>2, <1>3, <1>4, PlainAct DEF Chosen

(* Nothing has been done for another target.                                *)
LEMMA ChooseAct ==
  ASSUME TypeOK, ActInv, Choose
  PROVE  ActInv'
<1>1. /\ pc = "waitEnd" /\ st.endSeen
      /\ UNCHANGED <<server, queue, wanted, st, done, late, shown, own>>
  BY DEF Choose
<1>2. \A a \in Acts : own[a] = 0 /\ done[a].known = 0
  BY <1>1 DEF ActInv, Pending, Chosen
<1>3. last' = last
  BY <1>1 DEF server, condition
<1>4. Anchored'
  BY <1>1, <1>2 DEF Anchored
<1>5. ASSUME NEW x \in EventType, Mine(x)  PROVE x.by = "none"
  BY <1>2, <1>5 DEF Mine, EventType
<1>6. Traced'
  <2>1. \A i \in DOMAIN st.evs : st.evs[i].by = "none"
    BY <1>5, StreamTypes DEF ActInv, Traced
  <2>2. \A j \in DOMAIN queue : Carries(queue[j]) => queue[j].by = "none"
    BY <1>5, StreamTypes, Messages DEF ActInv, Traced
  <2>3. \A c \in Conds : last[c].by = "none"
    BY <1>5, StreamTypes DEF ActInv, Traced
  <2>. QED  BY <1>1, <1>3, <2>1, <2>2, <2>3 DEF Traced, Mine, Carries
<1>7. Missed'
  BY <1>1 DEF ActInv, Missed
<1>8. CASE Stop(IF wanted.actions # {} THEN 4 ELSE 0)
  <2>1. pc' = "report" /\ (exit' = 4 \/ (exit' = 0 /\ wanted.actions = {}))
    BY <1>8 DEF Stop
  <2>2. ~ Chosen' /\ ~ Acting' /\ ~ CarriedOut'
    BY <2>1 DEF Chosen, Acting, CarriedOut
  <2>3. Pending' /\ Past'
    BY <2>1, <2>2 DEF Pending, Past
  <2>4. Timeline' /\ Effects'
    BY <2>2 DEF Timeline, Effects
  <2>5. Verdict'
    BY <1>1, <2>1 DEF Verdict
  <2>. QED  BY <1>4, <1>6, <1>7, <2>3, <2>4, <2>5 DEF ActInv
<1>9. CASE act' = [act EXCEPT !.k = 1] /\ pc' = "next"
  <2>1. act'.k = 1
    BY <1>9 DEF TypeOK
  <2>2. ~ Acting' /\ ~ CarriedOut'
    BY <1>9 DEF Acting, CarriedOut
  <2>3. Timeline' /\ Effects'
    BY <2>2 DEF Timeline, Effects
  <2>4. Pending'
    BY <1>1, <1>2, <1>9, ActionNames DEF Pending, Chosen
  <2>5. Past'
    BY <1>9, <2>1 DEF Past
  <2>6. Verdict'
    BY <1>9 DEF Verdict
  <2>. QED  BY <1>4, <1>6, <1>7, <2>3, <2>4, <2>5, <2>6 DEF ActInv
<1>. QED  BY <1>8, <1>9 DEF Choose

(* All actions are behind.                                                  *)
LEMMA AllActedAct ==
  ASSUME TypeInv, Ending, ActInv, AllActed
  PROVE  ActInv'
<1>1. /\ pc = "next" /\ act.k > 3 /\ pc' = "report" /\ exit' = 0
      /\ UNCHANGED <<server, queue, wanted, st, act, done, target, late, shown, own>>
  BY ActionNames DEF AllActed, Stop
<1>2. TypeOK /\ act.k \in 0 .. 4 /\ Chosen /\ st.endSeen
  BY <1>1 DEF TypeInv, TypeOK, Chosen, Ending
<1>3. TargetCond' = TargetCond
  BY <1>1 DEF TargetCond
<1>4. ASSUME NEW a \in wanted.actions  PROVE Effective(a)'
  <2>1. PICK k \in 1 .. 3 : a = Actions[k]
    BY <1>2, WantedActs, ActionNames
  <2>2. k < act.k
    BY <1>1, <1>2
  <2>3. Effective(a)
    BY <1>2, <1>4, <2>1, <2>2 DEF ActInv, Past
  <2>. QED  BY <1>1, <1>3, <2>3 DEF Effective
<1>5. Verdict'
  BY <1>1, <1>2, <1>4 DEF Verdict
<1>6. last' = last /\ ~ Chosen' /\ st'.evs = st.evs
  BY <1>1 DEF server, condition, Chosen
<1>. QED  BY <1>1, <1>5, <1>6, PlainAct

LEMMA DeadlineAct ==
  ASSUME ActInv, Deadline
  PROVE  ActInv'
<1>1. /\ pc \in {"waitEnd", "followUp"} /\ late' = TRUE /\ last' = last
      /\ UNCHANGED <<queue, wanted, pc, st, act, done, target, call, own, exit>>
  BY DEF Deadline, server, condition
<1>2. TargetCond' = TargetCond /\ Current' = Current /\ Chosen' = Chosen
      /\ Acting' = Acting /\ CarriedOut' = CarriedOut
  BY <1>1 DEF TargetCond, Current, Chosen, Acting, CarriedOut
<1>3. Anchored' /\ Pending'
  BY <1>1, <1>2 DEF ActInv, Anchored, Pending
<1>4. Traced'
  BY <1>1, <1>2 DEF ActInv, Traced, Mine, Carries
<1>5. Timeline' /\ Effects'
  BY <1>1, <1>2 DEF ActInv, Timeline, Effects, Carries
<1>6. Past'
  <2>1. \A a : Effective(a)' <=> Effective(a)
    BY <1>1, <1>2 DEF Effective
  <2>. QED  BY <1>1, <1>2, <2>1 DEF ActInv, Past
<1>7. Missed' /\ Verdict'
  BY <1>1 DEF ActInv, Missed, Verdict
<1>. QED  BY <1>3, <1>4, <1>5, <1>6, <1>7 DEF ActInv

(* An action that is not asked for.                                         *)
LEMMA PassAct ==
  ASSUME TypeInv, ActInv, pc = "next", act.k <= 3, Current \notin wanted.actions,
         act' = [act EXCEPT !.k = @ + 1],
         UNCHANGED <<pc, call, done, last, queue, wanted, st, target, late, own, exit>>
  PROVE  ActInv'
<1>1. TypeOK /\ Chosen /\ act.k \in 1 .. 3
  BY DEF TypeInv, TypeOK, Targeted, Chosen
<1>2. act'.k = act.k + 1
  BY <1>1 DEF TypeOK
<1>3. Chosen' /\ ~ Acting' /\ TargetCond' = TargetCond
  BY DEF Chosen, Acting, TargetCond
<1>4. Pending'
  <2>1. ASSUME NEW k \in 1 .. 3, k > act'.k \/ k = act'.k
        PROVE  own[Actions[k]] = 0 /\ done[Actions[k]].known = 0
    <3>1. k > act.k
      BY <1>1, <1>2, <2>1
    <3>. QED  BY <1>1, <3>1 DEF ActInv, Pending
  <2>. QED  BY <1>3, <2>1 DEF Pending
<1>5. Past'
  <2>1. ASSUME NEW k \in 1 .. 3, k < act'.k, Actions[k] \in wanted.actions
        PROVE  Effective(Actions[k])
    <3>1. k < act.k \/ k = act.k
      BY <1>1, <1>2, <2>1
    <3>2. k # act.k
      BY <2>1 DEF Current
    <3>. QED  BY <1>1, <2>1, <3>1, <3>2 DEF ActInv, Past
  <2>2. \A a : Effective(a)' <=> Effective(a)
    BY <1>3 DEF Effective
  <2>. QED  BY <2>1, <2>2 DEF Past
<1>6. Missed' /\ Verdict'
  BY DEF ActInv, Missed, Verdict
<1>. QED  BY <1>3, <1>4, <1>5, <1>6, IdleAct

(* The actions behind stay in effect.                                       *)
LEMMA BehindStays ==
  ASSUME TypeOK, ActInv, Chosen, act.k \in 1 .. 3, st' = st,
         UNCHANGED <<target, own, wanted>>,
         \A a \in Acts : a # Current => done'[a] = done[a]
  PROVE  \A k \in 1 .. 3 :
            k < act.k /\ Actions[k] \in wanted.actions => Effective(Actions[k])'
<1>1. SUFFICES ASSUME NEW k \in 1 .. 3, k < act.k, Actions[k] \in wanted.actions
      PROVE  Effective(Actions[k])'
  OBVIOUS
<1>2. Actions[k] \in Acts /\ Actions[k] # Current
  <2>1. k # act.k
    BY <1>1
  <2>. QED  BY <2>1, ActionNames DEF Current
<1>3. Effective(Actions[k])
  BY <1>1 DEF ActInv, Past
<1>4. PICK a \in Acts : a = Actions[k]
  BY <1>2
<1>5. Effective(a)'
  BY <1>2, <1>3, <1>4, EffectiveStays DEF ActInv
<1>. QED  BY <1>4, <1>5

(* An action is called: all that is queued is newer than the latest event   *)
(* of the target that is stored, since the refresh is over.                 *)
LEMMA CallAct ==
  ASSUME TypeInv, StreamInv, ActInv, pc = "next", act.k <= 3, Current \in wanted.actions,
         act' = [act EXCEPT !.eventId = st.evs[al_latest(st.evs[target].c)].id,
                            !.mark = Len(st.evs)],
         done' = [done EXCEPT ![Current].called = TRUE, ![Current].eventId = act'.eventId],
         pc' = "action", call' = "sent",
         UNCHANGED <<last, queue, wanted, st, target, late, own, exit>>
  PROVE  ActInv'
<1>1. /\ TypeOK /\ Chosen /\ act.k \in 1 .. 3 /\ target \in DOMAIN st.evs
      /\ Stream /\ News /\ Ending
  BY DEF TypeInv, TypeOK, Targeted, Chosen, StreamInv
<1>2. PICK l : l = al_latest(TargetCond)
  OBVIOUS
<1>3. /\ l \in DOMAIN st.evs /\ st.evs[l].c = TargetCond /\ st.evs[l].id \in Nat
  BY <1>1, <1>2, LatestIs, StreamTypes
<1>4. /\ act'.k = act.k /\ act'.eventId = st.evs[l].id /\ act'.mark = Len(st.evs)
  <2>1. act' = [act EXCEPT !.eventId = st.evs[l].id, !.mark = Len(st.evs)]
    BY <1>2 DEF TargetCond
  <2>2. act \in [k : 0 .. 4, eventId : Nat, mark : Nat]
    BY <1>1 DEF TypeOK
  <2>. QED  BY <2>1, <2>2
<1>5. Current' = Current /\ TargetCond' = TargetCond /\ Current \in Acts
  BY <1>1, <1>4, ActionNames DEF Current, TargetCond
<1>6. /\ done'[Current].eventId = act'.eventId
      /\ \A a \in Acts : a # Current => done'[a] = done[a]
      /\ \A a \in Acts : /\ done'[a].sc = done[a].sc /\ done'[a].event = done[a].event
                         /\ done'[a].known = done[a].known
  BY <1>1, <1>5, SMTT(30) DEF TypeOK, ActionType
<1>7. Chosen' /\ Acting' /\ ~ CarriedOut'
  BY DEF Chosen, Acting, CarriedOut
<1>8. Anchored'
  BY DEF ActInv, Anchored
<1>9. own[Current] = 0
  BY <1>1 DEF ActInv, Pending, Current
<1>10. Pending'
  <2>1. ASSUME NEW k \in 1 .. 3, k > act.k \/ k = act.k
        PROVE  own[Actions[k]] = 0 /\ done'[Actions[k]].known = 0
    <3>1. own[Actions[k]] = 0 /\ done[Actions[k]].known = 0
      BY <1>1, <2>1 DEF ActInv, Pending
    <3>. QED  BY <1>6, <3>1, ActionNames
  <2>. QED  BY <1>4, <1>7, <2>1 DEF Pending
<1>11. Traced'
  BY <1>5 DEF ActInv, Traced, Mine, Carries
<1>12. Timeline'
  <2>1. Len(st.evs) \in Nat /\ DOMAIN st.evs = 1 .. Len(st.evs)
    <3>1. st.evs \in Seq(EventType)
      BY <1>1 DEF TypeOK, StoreType
    <3>. QED  BY <3>1, LenProperties
  <2>2. act'.mark <= Len(st.evs)
    BY <1>4, <2>1
  <2>3. act'.eventId <= last[TargetCond].id
    BY <1>1, <1>3, <1>4 DEF Stream
  <2>4. \A i \in DOMAIN st.evs : ~ (i > act'.mark)
    BY <1>4, <2>1
  <2>5. ASSUME NEW j \in DOMAIN queue, Carries(queue[j]), queue[j].c = TargetCond
        PROVE  queue[j].id > act'.eventId
    <3>1. Served /\ st.endSeen
      BY <1>1 DEF Served, Ending
    <3>2. \A p \in DOMAIN queue : queue[p].kind # "end"
      BY <1>1, <3>1 DEF Ending
    <3>3. st.evs[l].id < queue[j].id
      BY <1>1, <1>3, <2>5, <3>1, <3>2 DEF News, Ends
    <3>4. queue[j].id \in Nat
      BY <1>1, <2>5, StreamTypes
    <3>. QED  BY <1>3, <1>4, <3>3, <3>4
  <2>6. \A i \in DOMAIN st.evs : st.evs[i].by # Current
    <3>1. ASSUME NEW i \in DOMAIN st.evs, st.evs[i].by = Current  PROVE FALSE
      <4>1. Mine(st.evs[i]) /\ Current # "none"
        BY <1>5 DEF ActInv, Traced, Acts
      <4>. QED  BY <1>9, <3>1, <4>1 DEF Mine
    <3>. QED  BY <3>1
  <2>. QED  BY <1>5, <1>6, <2>2, <2>3, <2>4, <2>5, <2>6 DEF Timeline, Carries
<1>13. Effects'
  BY <1>7 DEF Effects
<1>14. Past'
  BY <1>1, <1>4, <1>6, BehindStays DEF Past
<1>15. Missed'
  BY <1>6 DEF ActInv, Missed
<1>16. Verdict'
  BY DEF Verdict
<1>. QED  BY <1>8, <1>10, <1>11, <1>12, <1>13, <1>14, <1>15, <1>16 DEF ActInv

LEMMA CallActionAct ==
  ASSUME TypeInv, StreamInv, ActInv, CallAction
  PROVE  ActInv'
<1>1. /\ pc = "next" /\ act.k <= 3
      /\ UNCHANGED <<last, queue, wanted, st, target, late, own, exit>>
  BY ActionNames DEF CallAction, server, condition
<1>2. CASE /\ Current \notin wanted.actions
           /\ act' = [act EXCEPT !.k = @ + 1]
           /\ UNCHANGED <<pc, call, done>>
  BY <1>1, <1>2, PassAct
<1>3. CASE /\ Current \in wanted.actions
           /\ act' = [act EXCEPT !.eventId = st.evs[al_latest(st.evs[target].c)].id,
                                 !.mark = Len(st.evs)]
           /\ done' = [done EXCEPT ![Current].called = TRUE, ![Current].eventId = act'.eventId]
           /\ pc' = "action"
           /\ call' = "sent"
  BY <1>1, <1>3, CallAct
<1>. QED  BY <1>2, <1>3 DEF CallAction

(* The entry of the action under way changes; its place in the stream does  *)
(* not.                                                                     *)
LEMMA OngoingAct ==
  ASSUME ActInv, Acting, Acting', CarriedOut,
         UNCHANGED <<last, queue, wanted, st, act, target, own>>,
         done'[Current].eventId = done[Current].eventId
  PROVE  Anchored' /\ Traced' /\ Timeline' /\ Effects'
<1>1. TargetCond' = TargetCond /\ Current' = Current
  BY DEF TargetCond, Current
<1>2. Anchored'
  BY DEF ActInv, Anchored
<1>3. Traced'
  BY <1>1 DEF ActInv, Traced, Mine, Carries
<1>4. Timeline'
  BY <1>1 DEF ActInv, Timeline, Carries
<1>5. Effects'
  BY <1>1 DEF ActInv, Effects, Carries
<1>. QED  BY <1>2, <1>3, <1>4, <1>5

LEMMA ActionReturnsAct ==
  ASSUME TypeInv, ActInv, ActionReturns
  PROVE  ActInv'
<1>1. PICK sc \in Answers :
        /\ done' = [done EXCEPT ![Current].sc = sc]
        /\ \/ sc = "Good" /\ pc' = "followUp" /\ call' = "none" /\ UNCHANGED exit
           \/ sc = "Bad" /\ Stop(4)
  BY DEF ActionReturns
<1>2. /\ pc = "action"
      /\ UNCHANGED <<last, queue, wanted, st, act, target, late, own>>
  BY DEF ActionReturns, server, condition
<1>3. TypeOK /\ Targeted /\ Acting /\ Chosen
  BY <1>2 DEF TypeInv, Acting, Chosen
<1>4. act.k \in 1 .. 3 /\ Current \in Acts
  BY <1>3, ActingFacts
<1>5. /\ done'[Current].sc = sc /\ done'[Current].eventId = done[Current].eventId
      /\ \A a \in Acts : a # Current => done'[a] = done[a]
      /\ \A a \in Acts : done'[a].known = done[a].known
  BY <1>1, <1>3, <1>4 DEF TypeOK, ActionType
<1>6. done[Current].known = 0
  BY <1>2, <1>3, <1>4 DEF ActInv, Pending, Current
<1>7. Missed'
  <2>1. ASSUME NEW a \in Acts
        PROVE  /\ done'[a].known <= Len(st.evs)
               /\ done'[a].sc = "Good" /\ done'[a].event = NoEvent =>
                     \A i \in 1 .. done'[a].known : st.evs[i].by # a
    <3>1. done[a].known <= Len(st.evs)
      BY DEF ActInv, Missed
    <3>2. CASE a = Current
      <4>1. done'[a].known = 0
        BY <1>5, <1>6, <3>2
      <4>2. 1 .. done'[a].known = {}
        BY <4>1
      <4>. QED  BY <1>5, <3>1, <4>2
    <3>3. CASE a # Current
      BY <1>5, <3>3 DEF ActInv, Missed
    <3>. QED  BY <3>2, <3>3
  <2>. QED  BY <1>2, <2>1 DEF Missed
<1>8. CASE sc = "Bad" /\ Stop(4)
  <2>1. pc' = "report" /\ exit' = 4
    BY <1>8 DEF Stop
  <2>2. ~ Acting' /\ Pending' /\ Past' /\ Verdict'
    BY <2>1 DEF Acting, Pending, Past, Verdict, Chosen
  <2>. QED  BY <1>2, <1>7, <2>2, IdleAct
<1>9. CASE sc = "Good" /\ pc' = "followUp" /\ call' = "none"
  <2>1. CarriedOut
    BY <1>2, <1>9 DEF CarriedOut, Answers
  <2>2. Chosen' /\ Acting' /\ Current' = Current
    BY <1>2, <1>9 DEF Chosen, Acting, Current
  <2>3. Anchored' /\ Traced' /\ Timeline' /\ Effects'
    BY <1>2, <1>3, <1>5, <2>1, <2>2, OngoingAct
  <2>4. Pending'
    <3>1. \A k \in 1 .. 3 : k > act.k => own[Actions[k]] = 0
      BY <1>3 DEF ActInv, Pending
    <3>2. \A k \in 1 .. 3 : k > act.k \/ k = act.k => done[Actions[k]].known = 0
      BY <1>2, <1>3 DEF ActInv, Pending
    <3>3. \A k \in 1 .. 3 : k > act.k \/ k = act.k => done'[Actions[k]].known = 0
      BY <1>5, <3>2, ActionNames
    <3>. QED  BY <1>2, <1>9, <2>2, <3>1, <3>3 DEF Pending
  <2>5. Past'
    BY <1>2, <1>3, <1>4, <1>5, <1>9, <2>2, BehindStays DEF ActInv, Past
  <2>6. Verdict'
    BY <1>9 DEF Verdict
  <2>. QED  BY <1>7, <2>3, <2>4, <2>5, <2>6 DEF ActInv
<1>. QED  BY <1>1, <1>8, <1>9

(* The wait for an action is over, with or without an event.                *)
LEMMA AfterAct ==
  ASSUME TypeInv, ActInv, pc \in {"followUp", "repeat"}, NEW event, AfterAction(event),
         UNCHANGED <<last, queue, wanted, st, target, late, own>>,
         \A a \in Acts : a # Current => done'[a] = done[a], Missed',
         event = NoEvent => late,
         event # NoEvent => \A a : a = Current => Effective(a)'
  PROVE  ActInv'
<1>1. TypeOK /\ Targeted /\ Acting /\ Chosen
  BY DEF TypeInv, Acting, Chosen
<1>2. act.k \in 1 .. 3 /\ Current \in Acts
  BY <1>1, ActingFacts
<1>3. CASE event = NoEvent
  <2>1. pc' = "report" /\ exit' = 7 /\ late'
    BY <1>3 DEF AfterAction, Stop
  <2>2. ~ Acting' /\ Pending' /\ Past' /\ Verdict'
    BY <2>1 DEF Acting, Pending, Past, Verdict, Chosen
  <2>. QED  BY <2>2, IdleAct
<1>4. CASE event # NoEvent
  <2>1. pc' = "next" /\ act' = [act EXCEPT !.k = @ + 1]
    BY <1>4 DEF AfterAction
  <2>2. act'.k = act.k + 1
    BY <1>1, <2>1 DEF TypeOK
  <2>3. Chosen' /\ ~ Acting' /\ Verdict'
    BY <2>1 DEF Chosen, Acting, Verdict
  <2>4. Pending'
    <3>1. ASSUME NEW k \in 1 .. 3, k > act'.k \/ k = act'.k
          PROVE  own[Actions[k]] = 0 /\ done'[Actions[k]].known = 0
      <4>1. k > act.k /\ k # act.k
        BY <1>2, <2>2, <3>1
      <4>2. own[Actions[k]] = 0 /\ done[Actions[k]].known = 0
        BY <1>1, <4>1 DEF ActInv, Pending
      <4>3. Actions[k] \in Acts /\ Actions[k] # Current
        BY <1>2, <4>1, ActionNames DEF Current
      <4>. QED  BY <4>2, <4>3
    <3>. QED  BY <2>3, <3>1 DEF Pending
  <2>5. Past'
    <3>1. ASSUME NEW k \in 1 .. 3, k < act'.k, Actions[k] \in wanted.actions
          PROVE  Effective(Actions[k])'
      <4>1. k < act.k \/ k = act.k
        BY <1>2, <2>2, <3>1
      <4>2. CASE k < act.k
        BY <1>1, <1>2, <3>1, <4>2, BehindStays
      <4>3. CASE k = act.k
        <5>1. PICK a \in Acts : a = Actions[k]
          BY ActionNames
        <5>2. a = Current
          BY <4>3, <5>1 DEF Current
        <5>3. Effective(a)'
          BY <1>4, <5>2
        <5>. QED  BY <5>1, <5>3
      <4>. QED  BY <4>1, <4>2, <4>3
    <3>. QED  BY <2>1, <3>1 DEF Past
  <2>. QED  BY <2>3, <2>4, <2>5, IdleAct
<1>. QED  BY <1>3, <1>4

(* The event that was found is after the mark: it is not older than the one *)
(* the action led to. If none was found, that one is not in the store: it   *)
(* would be after the mark and show the effect.                             *)
LEMMA FollowUpAct ==
  ASSUME TypeInv, ActInv, FollowUp
  PROVE  ActInv'
<1>1. PICK event : event = al_find_followup(act.mark)
  OBVIOUS
<1>2. /\ pc = "followUp" /\ LoopEnds(event)
      /\ done' = [done EXCEPT ![Current].event = event, ![Current].known = Len(st.evs)]
      /\ IF act.k = 1 THEN pc' = "repeat" /\ call' = "sent" /\ UNCHANGED <<act, exit>>
         ELSE AfterAction(event)
      /\ UNCHANGED <<last, queue, wanted, st, target, late, own>>
  BY <1>1 DEF FollowUp, server, condition
<1>3. TypeOK /\ Targeted /\ Acting /\ Chosen /\ CarriedOut
  BY <1>2 DEF TypeInv, Acting, Chosen, CarriedOut
<1>4. act.k \in 1 .. 3 /\ Current \in Acts /\ TargetCond \in Conds /\ own[Current] \in Nat
  BY <1>3, ActingFacts DEF TypeOK
<1>5. PICK n \in Nat : n = Len(st.evs) /\ DOMAIN st.evs = 1 .. n
  <2>1. st.evs \in Seq(EventType)
    BY <1>3 DEF TypeOK, StoreType
  <2>. QED  BY <2>1, LenProperties
<1>6. /\ done'[Current].event = event /\ done'[Current].known = n
      /\ done'[Current].sc = done[Current].sc /\ done'[Current].eventId = done[Current].eventId
      /\ \A a \in Acts : a # Current => done'[a] = done[a]
  BY <1>2, <1>3, <1>4, <1>5 DEF TypeOK, ActionType
<1>7. PICK found : found = {i \in DOMAIN st.evs :
          i > act.mark /\ st.evs[i].c = st.evs[target].c /\ Shows(st.evs[i], Current)}
  OBVIOUS
<1>8. (found = {} /\ event = NoEvent) \/ event \in found
  BY <1>1, <1>3, <1>7, FollowUpIs
<1>9. done[Current].sc = "Good" /\ done[Current].eventId = act.eventId
  BY <1>2, <1>3 DEF ActInv, Past, Timeline
<1>10. Missed'
  <2>1. ASSUME event = NoEvent, NEW i \in 1 .. n  PROVE st.evs[i].by # Current
    <3>1. event \notin found
      BY <1>5, <1>7, <2>1 DEF NoEvent
    <3>2. ASSUME st.evs[i].by = Current  PROVE FALSE
      <4>1. i \in DOMAIN st.evs /\ Current # "none"
        BY <1>4, <1>5 DEF Acts
      <4>2. st.evs[i].c = TargetCond /\ Shows(st.evs[i], Current)
        BY <3>2, <4>1 DEF ActInv, Traced, Mine
      <4>3. ~ (i <= act.mark)
        BY <1>3, <3>2, <4>1 DEF ActInv, Timeline
      <4>4. i > act.mark
        BY <1>3, <4>3 DEF TypeOK
      <4>5. i \in found
        BY <1>7, <4>1, <4>2, <4>4 DEF TargetCond
      <4>. QED  BY <1>8, <3>1, <4>5
    <3>. QED  BY <3>2
  <2>2. ASSUME NEW a \in Acts
        PROVE  /\ done'[a].known <= Len(st.evs)
               /\ done'[a].sc = "Good" /\ done'[a].event = NoEvent =>
                     \A i \in 1 .. done'[a].known : st.evs[i].by # a
    <3>1. CASE a = Current
      BY <1>5, <1>6, <2>1, <3>1
    <3>2. CASE a # Current
      BY <1>6, <3>2 DEF ActInv, Missed
    <3>. QED  BY <3>1, <3>2
  <2>. QED  BY <1>2, <2>2 DEF Missed
<1>11. event = NoEvent => late
  BY <1>2 DEF LoopEnds
<1>12. ASSUME event # NoEvent, NEW a, a = Current  PROVE Effective(a)'
  <2>1. event \in DOMAIN st.evs /\ event > act.mark /\ st.evs[event].c = TargetCond
    BY <1>7, <1>8, <1>12 DEF TargetCond
  <2>2. st.evs[event].id >= own[Current] /\ own[Current] > act.eventId
    BY <1>3, <2>1 DEF ActInv, Effects
  <2>3. TargetCond' = TargetCond
    BY <1>2 DEF TargetCond
  <2>4. /\ done'[a].sc = "Good" /\ done'[a].event = event /\ done'[a].eventId = act.eventId
    BY <1>6, <1>9, <1>12
  <2>. QED  BY <1>2, <1>12, <2>1, <2>2, <2>3, <2>4 DEF Effective
<1>13. CASE act.k # 1
  BY <1>2, <1>6, <1>10, <1>11, <1>12, <1>13, AfterAct
<1>14. CASE act.k = 1
  <2>1. pc' = "repeat" /\ UNCHANGED <<act, exit>>
    BY <1>2, <1>14
  <2>2. Chosen' /\ Acting' /\ Current' = Current
    BY <2>1 DEF Chosen, Acting, Current
  <2>3. Anchored' /\ Traced' /\ Timeline' /\ Effects'
    BY <1>2, <1>3, <1>6, <2>1, <2>2, OngoingAct
  <2>4. Pending'
    <3>1. ASSUME NEW k \in 1 .. 3, k > act.k
          PROVE  own[Actions[k]] = 0 /\ done'[Actions[k]].known = 0
      <4>1. own[Actions[k]] = 0 /\ done[Actions[k]].known = 0
        BY <1>3, <3>1 DEF ActInv, Pending
      <4>2. Actions[k] \in Acts /\ Actions[k] # Current
        <5>1. k # act.k
          BY <1>4, <3>1
        <5>. QED  BY <1>4, <5>1, ActionNames DEF Current
      <4>. QED  BY <1>6, <4>1, <4>2
    <3>. QED  BY <1>2, <2>1, <2>2, <3>1 DEF Pending
  <2>5. Past'
    <3>1. \A k \in 1 .. 3 :
            k < act.k /\ Actions[k] \in wanted.actions => Effective(Actions[k])'
      BY <1>2, <1>3, <1>4, <1>6, BehindStays
    <3>2. IF done'[Current].event = NoEvent THEN late' ELSE Effective(Current)'
      <4>1. CASE event = NoEvent
        BY <1>2, <1>6, <1>11, <4>1
      <4>2. CASE event # NoEvent
        <5>1. PICK a : a = Current
          OBVIOUS
        <5>2. Effective(a)'
          BY <1>12, <4>2, <5>1
        <5>. QED  BY <1>6, <2>2, <4>2, <5>1, <5>2
      <4>. QED  BY <4>1, <4>2
    <3>. QED  BY <1>2, <1>6, <1>9, <2>1, <2>2, <3>1, <3>2 DEF Past
  <2>6. Verdict'
    BY <2>1 DEF Verdict
  <2>. QED  BY <1>10, <2>3, <2>4, <2>5, <2>6 DEF ActInv
<1>. QED  BY <1>13, <1>14

LEMMA RepeatReturnsAct ==
  ASSUME TypeInv, ActInv, RepeatReturns
  PROVE  ActInv'
<1>1. PICK sc : done' = [done EXCEPT ![Current].repeatSc = sc]
  BY DEF RepeatReturns
<1>2. /\ pc = "repeat" /\ AfterAction(done[Current].event)
      /\ UNCHANGED <<last, queue, wanted, st, target, late, own>>
  BY DEF RepeatReturns, server, condition
<1>3. TypeOK /\ Targeted /\ Acting /\ Anchored
  BY <1>2 DEF TypeInv, Acting, ActInv
<1>4. act.k \in 1 .. 3 /\ Current \in Acts
  BY <1>3, ActingFacts
<1>5. /\ \A a \in Acts : a # Current => done'[a] = done[a]
      /\ \A a \in Acts : /\ done'[a].sc = done[a].sc /\ done'[a].event = done[a].event
                         /\ done'[a].eventId = done[a].eventId /\ done'[a].known = done[a].known
  BY <1>1, <1>3, <1>4 DEF TypeOK, ActionType
<1>6. Missed'
  BY <1>2, <1>5 DEF ActInv, Missed
<1>7. IF done[Current].event = NoEvent THEN late ELSE Effective(Current)
  BY <1>2 DEF ActInv, Past
<1>8. ASSUME done[Current].event # NoEvent, NEW a, a = Current  PROVE Effective(a)'
  <2>1. a \in Acts /\ Effective(a)
    BY <1>4, <1>7, <1>8
  <2>2. \A i \in DOMAIN st.evs : i \in DOMAIN st'.evs /\ st'.evs[i] = st.evs[i]
    BY <1>2
  <2>. QED  BY <1>2, <1>3, <1>5, <2>1, <2>2, EffectiveStays
<1>9. PICK event : event = done[Current].event
  OBVIOUS
<1>10. /\ AfterAction(event) /\ (event = NoEvent => late)
       /\ event # NoEvent => \A a : a = Current => Effective(a)'
  BY <1>2, <1>7, <1>8, <1>9
<1>. QED  BY <1>2, <1>5, <1>6, <1>10, AfterAct

LEMMA ActStep ==
  ASSUME TypeInv, LastIsState, StreamInv, ActInv, [Next]_vars
  PROVE  ActInv'
<1>1. TypeOK /\ Stream /\ Ending
  BY DEF TypeInv, StreamInv
<1>2. CASE UNCHANGED vars
  <2>1. UNCHANGED <<last, wanted, pc, st, act, done, target, late, exit, own, call, queue>>
    BY <1>2 DEF vars, server, condition, client
  <2>. QED  BY <2>1, CalmAct
<1>3. CASE Command
  <2>1. Quiet
    BY <1>3, CommandQuiet
  <2>2. st'.evs = st.evs /\ UNCHANGED <<last, own, wanted>>
    BY <2>1 DEF Quiet
  <2>3. CASE \/ Parse \/ Connect \/ Subscribe \/ Monitor \/ CallRefresh \/ RefreshReturns
             \/ NoEnd \/ Envelope
    BY <2>2, <2>3, BeforeAct
  <2>4. CASE Choose
    BY <1>1, <2>4, ChooseAct
  <2>5. CASE CallAction
    BY <2>5, CallActionAct
  <2>6. CASE ActionReturns
    BY <2>6, ActionReturnsAct
  <2>7. CASE FollowUp
    BY <2>7, FollowUpAct
  <2>8. CASE RepeatReturns
    BY <2>8, RepeatReturnsAct
  <2>9. CASE AllActed
    BY <1>1, <2>9, AllActedAct
  <2>. QED  BY <1>3, <2>3, <2>4, <2>5, <2>6, <2>7, <2>8, <2>9 DEF Command
<1>4. CASE Deliver
  BY <1>4, DeliverAct
<1>5. CASE Deadline
  BY <1>5, DeadlineAct
<1>6. CASE \/ \E c \in Contested : Reset(c) \/ OtherClient(c)
           \/ ServeAction \/ ServeRefresh
  BY <1>1, <1>6, ServerAct
<1>. QED  BY <1>2, <1>3, <1>4, <1>5, <1>6 DEF Next

LEMMA ActInit ==
  ASSUME Init, TypeOK
  PROVE  ActInv
<1>1. /\ pc = "parse" /\ queue = <<>> /\ st.evs = <<>>
      /\ own = [a \in Range(Actions) |-> 0] /\ done = [a \in Range(Actions) |-> NoAction]
  BY DEF Init, EmptyStore
<1>2. \A a \in Acts : /\ own[a] = 0 /\ done[a].known = 0
  BY <1>1, ActionNames DEF NoAction
<1>3. DOMAIN st.evs = {} /\ DOMAIN queue = {} /\ Len(st.evs) = 0
  BY <1>1
<1>4. Anchored /\ Pending
  BY <1>1, <1>2 DEF Anchored, Pending, Chosen
<1>5. \A c \in Conds : last[c].by = "none"
  BY DEF Init, Event
<1>6. Traced
  BY <1>3, <1>5 DEF Traced, Mine
<1>7. Timeline /\ Effects /\ Past /\ Verdict
  BY <1>1 DEF Timeline, Effects, Past, Verdict, Acting, CarriedOut, Chosen
<1>8. Missed
  BY <1>2, <1>3 DEF Missed
<1>. QED  BY <1>4, <1>6, <1>7, <1>8 DEF ActInv

(* The exit code of cmd_alarms tells what happened, for every command line, *)
(* whatever other clients do to the conditions and wherever answers and the *)
(* deadline fall among the notifications. 0: the refresh was complete, each *)
(* action asked for took effect on the target, and the event reported for   *)
(* it is not older than the one the action led to. 7: the deadline has      *)
(* passed, and an event that was missed had not been received by then.      *)
THEOREM ExitTellsCorrect == Spec => []ExitTells
<1>1. Init => ActInv
  <2>1. ASSUME Init  PROVE ActInv
    BY <2>1, InitTypes, ActInit DEF TypeInv
  <2>. QED  BY <2>1
<1>2. TypeInv /\ LastIsState /\ StreamInv /\ ActInv /\ [Next]_vars => ActInv'
  BY ActStep
<1>3. TypeInv /\ ActInv => ExitTells
  <2>1. SUFFICES ASSUME TypeInv, ActInv  PROVE ExitTells
    OBVIOUS
  <2>2. NoEvent \notin DOMAIN st.evs
    BY <2>1, StreamTypes DEF TypeInv, NoEvent
  <2>3. ASSUME NEW a, Effective(a)
        PROVE  /\ done[a].sc = "Good" /\ done[a].event # NoEvent
               /\ st.evs[done[a].event].c = st.evs[target].c
               /\ own[a] > done[a].eventId /\ st.evs[done[a].event].id >= own[a]
    BY <2>2, <2>3 DEF Effective, TargetCond
  <2>4. ASSUME NEW a \in wanted.actions
        PROVE  done[a].sc = "Good" /\ done[a].event = NoEvent =>
                  \A i \in 1 .. done[a].known : st.evs[i].by # a
    BY <2>1, WantedActs DEF TypeInv, ActInv, Missed
  <2>. QED  BY <2>1, <2>3, <2>4 DEF ActInv, Verdict, ExitTells
<1>4. Spec => []TypeInv
  BY TypeCorrect, PTL DEF TypeInv
<1>. QED  BY <1>1, <1>2, <1>3, <1>4, InStream, PTL DEF Spec
=============================================================================
