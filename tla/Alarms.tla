------------------------------- MODULE Alarms -------------------------------
(***************************************************************************)
(* The client's alarms command (client.c, cmd_alarms) and the alarm fixture *)
(* of the server (server.c, alarm_arm).                                     *)
(*                                                                          *)
(* The command subscribes to events, asks for a ConditionRefresh, chooses   *)
(* one of the refreshed conditions and acknowledges, confirms and comments  *)
(* it, each time with the EventId of the latest event it has been shown and *)
(* then waiting for an event that shows the effect. Other clients work on   *)
(* the same conditions meanwhile. Notifications are delivered in order, but *)
(* before or after the answer to the call that caused them: the callback    *)
(* runs inside synchronous calls as well as in the wait loops.              *)
(*                                                                          *)
(* The methods of a condition are the stack's own (external).               *)
(***************************************************************************)
EXTENDS Integers, Sequences, SequencesExt, FiniteSets

CONSTANTS
    Conditions,  \* conditions of the server, in the order of their creation
    MaxEvs,      \* AL_MAX_EVS
    MaxConds,    \* AL_MAX_CONDS
    CommandLines, \* [actions, name]: what commands ask for
    Contested,   \* bound: conditions that other clients work on
    MaxOthers,   \* bound: calls of other clients while the command runs
    MayFail      \* bound: the writes of alarm_arm that may fail

Conds == Range(Conditions)

Actions == <<"acknowledge", "confirm", "addComment">>
AnyName == "any"          \* no --condition-name
NoCond == "null"          \* an event without ConditionId
NoEvent == 0              \* an index into evs that is not there
NoExit == -1

ASSUME AlarmsAssumption ==
    /\ Conditions \in Seq(Conds) /\ NoCond \notin Conds
    /\ Contested \subseteq Conds
    /\ \A w \in CommandLines : w.actions \subseteq Range(Actions)
    /\ MaxEvs \in Nat /\ MaxConds \in Nat /\ MaxOthers \in Nat /\ MayFail \subseteq Nat

VARIABLES
    cond,     \* server: cond[c], the fields of condition c
    last,     \* server: last[c], the event c reported last
    reports,  \* server: events reported so far; the EventIds
    others,   \* calls of other clients so far
    rearmed,  \* history: conditions a Good Reset left, untouched since
    queue,    \* notifications for the command's subscription
    wanted,   \* [actions, name]: what the command line asks for
    pc,       \* where cmd_alarms is
    call,     \* the call under way: "none", "sent" or its answer
    st,       \* AlStore
    act,      \* [k, eventId, mark]: the action under way
    done,     \* done[a]: AlAction of a; known: the events its wait loop saw (history)
    target,   \* index into evs, or NoEvent
    late,     \* the deadline has passed
    shown,    \* history: the events the server refreshed
    own,      \* history: own[a], the EventId that action a of the command led to
    exit      \* exit code

condition == <<cond, last, reports, rearmed>>
server == <<condition, others>>
client == <<wanted, pc, st, act, done, target, late, exit>>
vars == <<server, queue, client, call, shown, own>>

-----------------------------------------------------------------------------
(* The server.                                                              *)

Normal == [enabled |-> TRUE, retain |-> FALSE, severity |-> 0, acked |-> TRUE,
           confirmed |-> TRUE, active |-> FALSE, message |-> "stack", comment |-> FALSE]

(* An event carries the fields of its condition. by: the action of this     *)
(* command it reports, if any (history).                                    *)
Event(c, id, fields, by) ==
    [kind |-> "condition", c |-> c, id |-> id, fields |-> fields, by |-> by]

Marker(kind) == [kind |-> kind, c |-> NoCond, id |-> 0, fields |-> Normal, by |-> "none"]

(* Conditions report to the item while it exists and is looked at.          *)
Subscribed == pc \notin {"parse", "connect", "subscribe", "monitor", "report", "done"}

Notify(events) == IF Subscribed THEN queue \o events ELSE queue

(* A callback of the stack follows some of the writes: a new severity and a *)
(* new active state overwrite the message, and becoming active or enabled   *)
(* reports an event.                                                        *)
AfterWrite(fields, field, value) ==
    IF field \in {"severity", "active"}
    THEN [fields EXCEPT ![field] = value, !.message = "stack"]
    ELSE [fields EXCEPT ![field] = value]

Reports(field, value) == field \in {"active", "enabled"} /\ value

(* The condition as alarm_arm has changed it so far, its events, and the    *)
(* number of the write that fails (0: none does).                           *)
Unarmed(fields, bad) == [fields |-> fields, events |-> <<>>, bad |-> bad]

(* The condition reports its state.                                         *)
Trigger(c, s) ==
    [s EXCEPT !.events = Append(@, Event(c, reports + Len(@) + 1, s.fields, "none"))]

Written(s, field, value) == [s EXCEPT !.fields = AfterWrite(s.fields, field, value)]

(* Write number i of alarm_arm.                                             *)
Put(c, s, i, field, value) ==
    IF i = s.bad THEN s
    ELSE IF Reports(field, value) THEN Trigger(c, Written(s, field, value))
    ELSE Written(s, field, value)

MutEnable(c, s) == s
Enable(c, s) == IF s.fields.enabled THEN s ELSE Put(c, s, 1, "enabled", TRUE)

(* The fields one by one, the message last, then an event of its own. A     *)
(* write that fails does not stop it. (The Time is left out, and so is an   *)
(* event that cannot be triggered: Reset is Good only if it was.)           *)
alarm_arm(c, fields, bad) ==
    LET s1 == Enable(c, Unarmed(fields, bad))
        s2 == Put(c, s1, 2, "retain", TRUE)
        s3 == Put(c, s2, 3, "severity", 500)
        s4 == Put(c, s3, 4, "acked", FALSE)
        s5 == Put(c, s4, 5, "confirmed", FALSE)
        s6 == Put(c, s5, 6, "active", FALSE)
        s7 == Put(c, s6, 7, "active", TRUE)
        s8 == Put(c, s7, 8, "message", "interop-alarm")
    IN  Trigger(c, s8)

(* What other clients do counts while the command can see it.               *)
Other == Subscribed /\ others < MaxOthers /\ others' = others + 1

(* Alarms.Reset, called by any client: alarm_arm goes on after a failed     *)
(* write, and its status tells.                                             *)
Reset(c) ==
    /\ \E bad \in {0} \cup MayFail :
          LET a == alarm_arm(c, cond[c], bad) IN
          /\ cond' = [cond EXCEPT ![c] = a.fields]
          /\ last' = [last EXCEPT ![c] = Last(a.events)]
          /\ reports' = reports + Len(a.events)
          /\ queue' = Notify(a.events)
          /\ rearmed' = IF bad = 0 THEN rearmed \cup {c} ELSE rearmed \ {c}
    /\ Other
    /\ UNCHANGED <<client, call, shown, own>>

(* A method of the stack changes a condition and reports an event.          *)
Report(c, fields, by) ==
    /\ reports' = reports + 1
    /\ cond' = [cond EXCEPT ![c] = fields]
    /\ last' = [last EXCEPT ![c] = Event(c, reports', fields, by)]
    /\ rearmed' = rearmed \ {c}
    /\ queue' = Notify(<<last'[c]>>)

(* What Acknowledge, Confirm and AddComment make of a condition. A comment  *)
(* is TRUE when it is this command's.                                       *)
Effect(a, f, mine) ==
    CASE a = "acknowledge" -> [f EXCEPT !.acked = TRUE, !.comment = mine, !.message = "stack"]
      [] a = "confirm" -> [f EXCEPT !.confirmed = TRUE, !.comment = mine, !.message = "stack"]
      [] a = "addComment" -> [f EXCEPT !.comment = mine, !.message = "stack"]

(* The EventId must be that of the last event, and the state not yet taken. *)
Allowed(a, c, id) ==
    /\ cond[c].enabled /\ last[c].id = id
    /\ a = "acknowledge" => ~ cond[c].acked
    /\ a = "confirm" => ~ cond[c].confirmed

(* Other clients: a method on a condition, or Disable.                      *)
OtherClient(c) ==
    /\ \/ \E a \in Range(Actions) :
             Allowed(a, c, last[c].id) /\ Report(c, Effect(a, cond[c], FALSE), "none")
       \/ cond[c].enabled /\ Report(c, [cond[c] EXCEPT !.enabled = FALSE, !.retain = FALSE], "none")
    /\ Other
    /\ UNCHANGED <<client, call, shown, own>>

(* A method called by the command; the server may refuse it.                *)
ServeAction ==
    /\ pc \in {"action", "repeat"} /\ call = "sent"
    /\ LET a == Actions[act.k]
           c == st.evs[target].c
       IN  \/ /\ Allowed(a, c, act.eventId)
              /\ Report(c, Effect(a, cond[c], TRUE), a)
              /\ call' = "Good"
              /\ own' = [own EXCEPT ![a] = reports']
           \/ call' = "Bad" /\ UNCHANGED <<condition, queue, own>>
    /\ UNCHANGED <<client, shown, others>>

(* ConditionRefresh: the conditions of interest in whatever order the stack *)
(* keeps them, between two markers; not every server sends the markers to   *)
(* an item on another node than the Server object (CAPABILITIES.md:130).    *)
Refreshed == {c \in Conds : cond[c].enabled /\ cond[c].retain}

ServeRefresh ==
    /\ pc = "refresh" /\ call = "sent"
    /\ \/ /\ call' = "Good"
          /\ \E order \in SetToSeqs(Refreshed) :
                LET events == [i \in DOMAIN order |-> last[order[i]]] IN
                \/ queue' = queue \o <<Marker("start")>> \o events \o <<Marker("end")>>
                \/ queue' = queue \o events
          /\ shown' = {last[c] : c \in Refreshed}
       \/ call' = "Bad" /\ UNCHANGED <<queue, shown>>
    /\ UNCHANGED <<server, client, own>>

-----------------------------------------------------------------------------
(* The client: the callback.                                                *)

EmptyStore == [evs |-> <<>>, phase |-> 0, startSeen |-> FALSE, endSeen |-> FALSE,
               conds |-> <<>>]

(* Positions in conds that hold condition c.                                *)
HeldAt(s, c) == {i \in DOMAIN s.conds : s.evs[s.conds[i]].c = c}

MutListed(s, c, idx) ==
    IF HeldAt(s, c) = {} /\ Len(s.conds) < MaxConds THEN [s EXCEPT !.conds = Append(@, idx)]
    ELSE s
(* While refreshing a condition is listed once, with its latest event.      *)
Listed(s, c, idx) ==
    IF HeldAt(s, c) # {} THEN [s EXCEPT !.conds[CHOOSE i \in HeldAt(s, c) : TRUE] = idx]
    ELSE IF Len(s.conds) < MaxConds THEN [s EXCEPT !.conds = Append(@, idx)]
    ELSE s

alarm_notif_cb(s, e) ==
    CASE e.kind = "start" -> [s EXCEPT !.startSeen = @ \/ s.phase = 1]
      [] e.kind = "end" -> IF s.phase = 1 THEN [s EXCEPT !.endSeen = TRUE, !.phase = 2] ELSE s
      [] e.kind = "condition" /\ (e.c = NoCond \/ Len(s.evs) >= MaxEvs) -> s
      [] OTHER ->
            LET t == [s EXCEPT !.evs = Append(@, e)] IN
            IF s.phase = 1 THEN Listed(t, e.c, Len(t.evs)) ELSE t

Waiting == pc \in {"monitored", "waitEnd", "followUp"} \/ call # "none"

(* A notification is handled in a wait loop or inside a call.               *)
Deliver ==
    /\ Waiting /\ queue # <<>>
    /\ st' = alarm_notif_cb(st, Head(queue))
    /\ queue' = Tail(queue)
    /\ UNCHANGED <<server, wanted, pc, act, done, target, late, exit, call, shown, own>>

-----------------------------------------------------------------------------
(* cmd_alarms.                                                              *)

NoAction == [called |-> FALSE, sc |-> "none", eventId |-> 0, event |-> NoEvent,
             known |-> 0, repeatSc |-> "none"]

(* The server's fixture: interop_add_alarms arms its condition; conditions  *)
(* of other servers may be in their normal state.                           *)
Init ==
    /\ rearmed \in SUBSET Conds
    /\ reports = Len(Conditions)
    /\ cond = [c \in Conds |-> IF c \in rearmed THEN alarm_arm(c, Normal, 0).fields ELSE Normal]
    /\ last = [c \in Conds |-> Event(c, CHOOSE i \in DOMAIN Conditions : Conditions[i] = c,
                                     cond[c], "none")]
    /\ others = 0
    /\ queue = <<>>
    /\ wanted \in CommandLines
    /\ pc = "parse"
    /\ call = "none"
    /\ st = EmptyStore
    /\ act = [k |-> 0, eventId |-> 0, mark |-> 0]
    /\ done = [a \in Range(Actions) |-> NoAction]
    /\ target = NoEvent
    /\ late = FALSE
    /\ shown = {}
    /\ own = [a \in Range(Actions) |-> 0]
    /\ exit = NoExit

(* What ends the command before there is a result to print.                 *)
Quit(code) ==
    /\ exit' = code
    /\ pc' = "done"
    /\ UNCHANGED <<server, queue, wanted, st, act, done, target, late, call, shown, own>>

GoTo(next) ==
    /\ pc' = next
    /\ UNCHANGED <<server, queue, wanted, st, act, done, target, late, call, shown, own, exit>>

Parse == pc = "parse" /\ (Quit(2) \/ GoTo("connect"))

(* make_client; then an nsu= NodeId may be unknown to the server.           *)
Connect ==
    pc = "connect" /\ (GoTo("subscribe") \/ \E code \in {2, 3, 6, 7} : Quit(code))

Subscribe == pc = "subscribe" /\ (Quit(4) \/ GoTo("monitor"))

(* goto done: with an error category, or with none.                         *)
Stop(code) ==
    /\ exit' = code
    /\ pc' = "report"
    /\ call' = "none"

Monitor ==
    /\ pc = "monitor"
    /\ \/ GoTo("monitored")
       \/ Stop(4) /\ UNCHANGED <<server, queue, wanted, st, act, done, target, late, shown, own>>

(* From here on, and not from its answer on, events belong to the refresh.  *)
CallRefresh ==
    /\ pc = "monitored"
    /\ st' = [st EXCEPT !.phase = 1]
    /\ pc' = "refresh"
    /\ call' = "sent"
    /\ UNCHANGED <<server, queue, wanted, act, done, target, late, shown, own, exit>>

(* A call ends with its answer or, answered or not, with a fault.           *)
Answers == {"Bad"} \cup ({call} \cap {"Good"})

RefreshReturns ==
    /\ pc = "refresh"
    /\ \E sc \in Answers :
          \/ sc = "Good" /\ pc' = "waitEnd" /\ call' = "none" /\ UNCHANGED exit
          \/ sc = "Bad" /\ Stop(4)
    /\ UNCHANGED <<server, queue, wanted, st, act, done, target, late, shown, own>>

NoEnd ==
    /\ pc = "waitEnd" /\ ~ st.endSeen /\ late
    /\ Stop(7)
    /\ UNCHANGED <<server, queue, wanted, st, act, done, target, late, shown, own>>

Matches(e) ==
    IF wanted.name = AnyName THEN e.fields.retain ELSE e.c = wanted.name

(* The first refreshed condition that matches.                              *)
Target ==
    LET found == {i \in DOMAIN st.conds : Matches(st.evs[st.conds[i]])}
    IN  IF found = {} THEN NoEvent
        ELSE st.conds[CHOOSE i \in found : \A j \in found : i <= j]

Choose ==
    /\ pc = "waitEnd" /\ st.endSeen
    /\ target' = Target
    /\ \/ /\ Target = NoEvent
          /\ Stop(IF wanted.actions # {} THEN 4 ELSE 0)
          /\ UNCHANGED act
       \/ /\ Target # NoEvent
          /\ act' = [act EXCEPT !.k = 1]
          /\ pc' = "next"
          /\ UNCHANGED <<exit, call>>
    /\ UNCHANGED <<server, queue, wanted, st, done, late, shown, own>>

Current == Actions[act.k]

al_latest(c) == CHOOSE i \in DOMAIN st.evs :
    st.evs[i].c = c /\ \A j \in DOMAIN st.evs : st.evs[j].c = c => j <= i

(* The next of the three actions; one that is not requested is passed over. *)
CallAction ==
    /\ pc = "next" /\ act.k <= Len(Actions)
    /\ \/ /\ Current \notin wanted.actions
          /\ act' = [act EXCEPT !.k = @ + 1]
          /\ UNCHANGED <<pc, call, done>>
       \/ /\ Current \in wanted.actions
          /\ act' = [act EXCEPT !.eventId = st.evs[al_latest(st.evs[target].c)].id,
                                !.mark = Len(st.evs)]
          /\ done' = [done EXCEPT ![Current].called = TRUE, ![Current].eventId = act'.eventId]
          /\ pc' = "action"
          /\ call' = "sent"
    /\ UNCHANGED <<server, queue, wanted, st, target, late, shown, own, exit>>

ActionReturns ==
    /\ pc = "action"
    /\ \E sc \in Answers :
          /\ done' = [done EXCEPT ![Current].sc = sc]
          /\ \/ sc = "Good" /\ pc' = "followUp" /\ call' = "none" /\ UNCHANGED exit
             \/ sc = "Bad" /\ Stop(4)
    /\ UNCHANGED <<server, queue, wanted, st, act, target, late, shown, own>>

Shows(e, a) ==
    CASE a = "acknowledge" -> e.fields.acked
      [] a = "confirm" -> e.fields.confirmed
      [] a = "addComment" -> e.fields.comment

MutFollowUp(from) ==
    LET found == {i \in DOMAIN st.evs :
                    i > from + 1 /\ st.evs[i].c = st.evs[target].c /\ Shows(st.evs[i], Current)}
    IN  IF found = {} THEN NoEvent ELSE CHOOSE i \in found : \A j \in found : i <= j
(* The first event of the condition after position from that shows the      *)
(* effect of the action.                                                    *)
al_find_followup(from) ==
    LET found == {i \in DOMAIN st.evs :
                    i > from /\ st.evs[i].c = st.evs[target].c /\ Shows(st.evs[i], Current)}
    IN  IF found = {} THEN NoEvent ELSE CHOOSE i \in found : \A j \in found : i <= j

MutLoopEnds(event) == event # NoEvent
LoopEnds(event) == event # NoEvent \/ late

(* A missing event ends the command, but a repetition of Acknowledge with   *)
(* the EventId used before comes first.                                     *)
AfterAction(event) ==
    IF event = NoEvent THEN Stop(7) /\ UNCHANGED act
    ELSE /\ pc' = "next" /\ call' = "none"
         /\ act' = [act EXCEPT !.k = @ + 1]
         /\ UNCHANGED exit

FollowUp ==
    /\ pc = "followUp"
    /\ LET event == al_find_followup(act.mark) IN
         /\ LoopEnds(event)
         /\ done' = [done EXCEPT ![Current].event = event,
                               ![Current].known = Len(st.evs)]
         /\ IF act.k = 1 THEN pc' = "repeat" /\ call' = "sent" /\ UNCHANGED <<act, exit>>
            ELSE AfterAction(event)
    /\ UNCHANGED <<server, queue, wanted, st, target, late, shown, own>>

RepeatReturns ==
    /\ pc = "repeat"
    /\ \E sc \in Answers : done' = [done EXCEPT ![Current].repeatSc = sc]
    /\ AfterAction(done[Current].event)
    /\ UNCHANGED <<server, queue, wanted, st, target, late, shown, own>>

AllActed ==
    /\ pc = "next" /\ act.k > Len(Actions)
    /\ Stop(0)
    /\ UNCHANGED <<server, queue, wanted, st, act, done, target, late, shown, own>>

(* The result is printed, the subscription deleted.                         *)
Envelope ==
    /\ pc = "report"
    /\ pc' = "done"
    /\ queue' = <<>>
    /\ UNCHANGED <<server, wanted, st, act, done, target, late, call, shown, own, exit>>

(* --timeout-ms have passed since connecting; the loops look at the clock.  *)
Deadline ==
    /\ pc \in {"waitEnd", "followUp"} /\ ~ late
    /\ late' = TRUE
    /\ UNCHANGED <<server, queue, wanted, pc, st, act, done, target, call, shown, own, exit>>

Command ==
    \/ Parse \/ Connect \/ Subscribe \/ Monitor \/ CallRefresh \/ RefreshReturns
    \/ NoEnd \/ Choose \/ CallAction \/ ActionReturns \/ FollowUp \/ RepeatReturns
    \/ AllActed \/ Envelope

Next ==
    \/ Command \/ Deliver \/ Deadline \/ ServeRefresh \/ ServeAction
    \/ \E c \in Contested : Reset(c) \/ OtherClient(c)

(* The command goes on - calls have a time-out of their own - and so does   *)
(* the clock; nothing is assumed of the server.                             *)
Spec == Init /\ [][Next]_vars /\ WF_vars(Command) /\ WF_vars(Deadline)

-----------------------------------------------------------------------------
(* Properties.                                                              *)

(* The exit code tells what happened, whatever other clients do to the      *)
(* condition and however notifications and answers overtake each other.     *)
(* 0: the refresh was complete and every action asked for took effect on    *)
(* the target, and the event reported for it is the one the action led to   *)
(* or a later one - not old news that looks the same. 7: the deadline has   *)
(* passed, and the event an action led to had not been received by then (it *)
(* may come in during the repetition of Acknowledge, and is not looked at). *)
ExitTells ==
    /\ pc = "report" /\ exit = 0 =>
        /\ st.endSeen
        /\ \A a \in wanted.actions :
              LET d == done[a] IN
              /\ d.sc = "Good" /\ d.event # NoEvent
              /\ st.evs[d.event].c = st.evs[target].c
              /\ own[a] > d.eventId /\ st.evs[d.event].id >= own[a]
    /\ pc = "report" /\ exit = 7 =>
        /\ late
        /\ \A a \in wanted.actions :
              done[a].sc = "Good" /\ done[a].event = NoEvent =>
                  \A i \in 1..done[a].known : st.evs[i].by # a

(* The refreshed conditions: each is listed once, none that the server      *)
(* refreshed is missing and none is older than what it refreshed, however   *)
(* other events mix with them and wherever the answer to ConditionRefresh   *)
(* falls among the notifications, unless the store is full.                 *)
RefreshComplete ==
    pc = "waitEnd" =>
        /\ \A i, j \in DOMAIN st.conds :
              st.evs[st.conds[i]].c = st.evs[st.conds[j]].c => i = j
        /\ st.endSeen /\ Len(st.evs) < MaxEvs =>
              \A e \in shown :
                  \/ \E i \in Range(st.conds) : st.evs[i].c = e.c /\ st.evs[i].id >= e.id
                  \/ HeldAt(st, e.c) = {} /\ Len(st.conds) = MaxConds

(* "(Re-)arm: Enabled, Active, unacknowledged, unconfirmed, Retain, Severity*)
(* 500, Message": after a Good Reset the condition is in that state, from   *)
(* whatever state it was in, and so says the event it reported last, which  *)
(* comes after those of the stack's own callbacks.                          *)
ResetArms ==
    \A c \in rearmed :
        /\ last[c].fields = cond[c]
        /\ cond[c] = [enabled |-> TRUE, retain |-> TRUE, severity |-> 500, acked |-> FALSE,
                      confirmed |-> FALSE, active |-> TRUE, message |-> "interop-alarm",
                      comment |-> cond[c].comment]

(* The command ends, even if the server never answers or never shows the    *)
(* event waited for.                                                        *)
AlarmsEnds == <>(pc = "done")
=============================================================================
