--------------------------- MODULE Subscriptions ---------------------------
(***************************************************************************)
(* The client commands that use a subscription (client.c): subscribe,       *)
(* event-subscribe and the four scenarios of subscription-lifecycle. Each   *)
(* is a straight-line program over one connection: service calls, loops     *)
(* that dispatch what arrives until enough notifications are stored or the  *)
(* time is up, and counters taken in between. Notifications are dispatched  *)
(* by the calls too, so what a counter says depends on the order in which   *)
(* the server answers and publishes.                                        *)
(*                                                                          *)
(* A program is a sequence of steps and pc the step under way. The server   *)
(* (any OPC UA server) is external: one monitored item with its queue. The  *)
(* connection delivers in the order of sending, but a server may send the   *)
(* notification a request caused before the answer to that request. The     *)
(* loops compare time(NULL), which counts whole seconds, so a loop of less  *)
(* than a second may end at once.                                           *)
(***************************************************************************)
EXTENDS Integers, Sequences

CONSTANTS
    Commands,          \* the commands to run, a subset of AllCommands
    Asked,             \* values of --notifications / --events
    QueueAsked,        \* --queue-size
    MaxNotifications,  \* MAX_NOTIFICATIONS
    MaxEvents,         \* MAX_EVENTS
    Sizes,             \* queue sizes the server may revise a request to
    Initials,          \* values the node may hold at first
    Revisions,         \* [rpi, rlt, rmk] a server may answer to "revise"
    MaxChanges,        \* bound: changes of the node by others
    MaxFaults          \* bound: refused calls and calls without an answer

AllCommands ==
    {"subscribe", "events", "revise", "publishing", "monitoring", "delete"}

ASSUME SubscriptionAssumption ==
    /\ Commands \subseteq AllCommands
    /\ Asked \subseteq Nat \ {0}
    /\ QueueAsked \in Nat \ {0}
    /\ MaxNotifications \in Nat \ {0}
    /\ MaxEvents \in Nat \ {0}
    /\ Sizes \subseteq Nat \ {0}
    /\ Initials \subseteq Int
    /\ Revisions # {} /\ Revisions \subseteq [rpi : Nat, rlt : Nat, rmk : Nat]
    /\ MaxChanges \in Nat /\ MaxFaults \in Nat

VARIABLES
    cmd,       \* the command
    asked,     \* its --notifications / --events, or 0
    pc,        \* the step under way, 0 before the connection is up
    waiting,   \* the call of step pc has been sent and not answered
    status,    \* status[i]: result of the call of step i
    store,     \* notifications the callback stored, in order
    marks,     \* store.count at the points where a scenario reads it
    timedOut,  \* timedOut of subscribe and event-subscribe
    printed,   \* the notifications in the result, once it is printed
    exit,      \* exit code, NoExit while the command runs
    toServer,  \* requests on the connection
    toClient,  \* responses and notifications on the connection
    srv,       \* the server: subscription, monitored item, its queue
    revised,   \* the revised parameters of the subscription
    sampled,   \* history: what the item's queue was given, in order
    discarded, \* history: a value was lost, in the queue or by the client
    changes,   \* changes of the node by others so far
    faults,    \* faults so far
    late,      \* history: some call ended without its answer
    dead       \* the server no longer answers

client == <<pc, waiting, status, store, marks, timedOut, printed, exit>>
server == <<srv, sampled, discarded>>
fixed  == <<cmd, asked, revised>>
vars == <<client, server, fixed, toServer, toClient, changes, faults, late, dead>>

-----------------------------------------------------------------------------
(* The programs.                                                            *)

Collecting == cmd \in {"subscribe", "events"}

Step(op, kind, val) == [op |-> op, kind |-> kind, val |-> val]
Call(kind, val)     == Step("call", kind, val)
Wait(n)             == Step("wait", "count", n)
Pause               == Step("pause", "none", 0)
Mark(name)          == Step("mark", name, 0)
Reset               == Step("reset", "none", 0)
Report              == Step("report", "none", 0)

Create    == Call("create", 0)
Monitor   == Call("monitor", 0)
Write(v)  == Call("write", v)
DeleteSub == Call("deleteSub", 0)

AtMost(n, cap) == IF n > cap THEN cap ELSE n

MutWantedEvents == AtMost(asked, MaxEvents - 1)

(* nWanted: what was asked for, at most what the store holds.               *)
WantedNotifications == AtMost(asked, MaxNotifications)
WantedEvents        == AtMost(asked, MaxEvents)

(* These two print before they clean up.                                    *)
cmd_subscribe ==
    <<Create, Monitor, Wait(WantedNotifications), Report, DeleteSub>>
cmd_event_subscribe ==
    <<Create, Monitor, Wait(WantedEvents), Report, DeleteSub>>

slc_revise == <<Create, DeleteSub, Report>>

MutPublishing ==
    <<Create, Monitor, Wait(1), Reset, Call("publish", 0),
      Write(1), Pause, Write(2), Pause, Write(3), Pause, Write(4), Pause,
      Write(5), Pause, Pause, Call("publish", 1), Wait(3), DeleteSub, Report>>

slc_publishing_mode ==
    <<Create, Monitor, Wait(1), Call("publish", 0), Reset,
      Write(1), Pause, Write(2), Pause, Write(3), Pause, Write(4), Pause,
      Write(5), Pause, Pause, Call("publish", 1), Wait(3), DeleteSub, Report>>

Disabled  == 0
Sampling  == 1
Reporting == 2

MutMonitoring ==
    <<Create, Monitor, Wait(1), Reset,
      Call("mode", Disabled), Write(100), Pause, Mark("disabled"),
      Call("mode", Sampling), Write(101), Pause, Write(102), Pause,
      Mark("sampling"),
      Call("mode", Reporting), Mark("before"), Write(103),
      Step("wait", "more", 0), Mark("reporting"), DeleteSub, Report>>

slc_monitoring_mode ==
    <<Create, Monitor, Wait(1), Reset,
      Call("mode", Disabled), Write(100), Pause, Mark("disabled"),
      Call("mode", Sampling), Write(101), Pause, Write(102), Pause,
      Mark("sampling"),
      Call("mode", Reporting), Write(103), Mark("before"),
      Step("wait", "more", 0), Mark("reporting"), DeleteSub, Report>>

slc_delete ==
    <<Create, Monitor, Call("deleteItem", 0), Call("deleteItem", 0),
      DeleteSub, DeleteSub, Report>>

Program ==
    CASE cmd = "subscribe"  -> cmd_subscribe
      [] cmd = "events"     -> cmd_event_subscribe
      [] cmd = "revise"     -> slc_revise
      [] cmd = "publishing" -> slc_publishing_mode
      [] cmd = "monitoring" -> slc_monitoring_mode
      [] cmd = "delete"     -> slc_delete

NoExit  == -1
Current == Program[pc]
Running == exit = NoExit /\ pc \in 1..Len(Program)
At(op)  == Running /\ Current.op = op

(* requestedParameters.queueSize of the command's monitored item.           *)
QueueSize ==
    CASE Collecting -> QueueAsked
      [] cmd = "publishing" -> 3
      [] cmd = "monitoring" -> 5
      [] OTHER -> 1

-----------------------------------------------------------------------------
(* The server. A data item samples the node when it is created, when it is  *)
(* enabled again and when the value changes; a server that throttles does   *)
(* so later and may miss values. An event item queues every event.          *)

NoValue    == -1
NoRevision == [rpi |-> 0, rlt |-> 0, rmk |-> 0]

NoItem == [sub |-> FALSE, item |-> FALSE, publishing |-> TRUE,
           mode |-> Reporting, size |-> 1, queue |-> <<>>, last |-> NoValue,
           value |-> NoValue, throttled |-> FALSE, oldest |-> TRUE]

Sampleable(s) == s.item /\ s.mode # Disabled /\ s.value # s.last

(* A full queue drops its oldest value, or replaces its newest when the     *)
(* item was created with discardOldest = false. The value next to the gap   *)
(* carries the Overflow bit, unless it is the only one.                     *)
Enqueue(s) ==
    LET new == [val |-> s.value, over |-> Len(s.queue) = s.size /\ s.size > 1]
        old == Tail(s.queue)
    IN  CASE Len(s.queue) < s.size -> Append(s.queue, new)
          [] Len(s.queue) = s.size /\ ~s.oldest ->
                [s.queue EXCEPT ![s.size] = new]
          [] OTHER ->
                IF s.size = 1 THEN <<new>>
                ELSE Append([old EXCEPT ![1].over = TRUE], [new EXCEPT !.over = FALSE])

(* The server becomes s, and samples at once if now holds.                  *)
ServerBecomes(s, now) ==
    IF now /\ Sampleable(s)
    THEN /\ srv' = [s EXCEPT !.queue = Enqueue(s), !.last = s.value]
         /\ sampled' = Append(sampled, s.value)
         /\ discarded' = (discarded \/ Len(s.queue) = s.size)
    ELSE srv' = s /\ UNCHANGED <<sampled, discarded>>

Values(items) == [i \in DOMAIN items |-> items[i].val]

Response(m, good) == [id |-> m.id, good |-> good, items |-> <<>>]

(* Whether the server can carry out a request.                              *)
Accepts(req) ==
    CASE req.kind \in {"create", "write"} -> TRUE
      [] req.kind \in {"monitor", "publish", "deleteSub"} -> srv.sub
      [] req.kind \in {"mode", "deleteItem"} -> srv.item

(* What it does to the server's state.                                      *)
Effect(req, size) ==
    CASE req.kind = "create"     -> [srv EXCEPT !.sub = TRUE]
      [] req.kind = "monitor"    ->
            [srv EXCEPT !.item = TRUE, !.size = size,
                        !.last = IF cmd = "events" THEN srv.value ELSE NoValue]
      [] req.kind = "publish"    -> [srv EXCEPT !.publishing = (req.val = 1)]
      [] req.kind = "mode"       ->
            IF req.val = Disabled
            THEN [srv EXCEPT !.mode = Disabled, !.queue = <<>>, !.last = NoValue]
            ELSE [srv EXCEPT !.mode = req.val]
      [] req.kind = "write"      -> [srv EXCEPT !.value = req.val]
      [] req.kind = "deleteItem" -> [srv EXCEPT !.item = FALSE, !.queue = <<>>]
      [] req.kind = "deleteSub"  ->
            [srv EXCEPT !.sub = FALSE, !.item = FALSE, !.queue = <<>>]

Handle ==
    /\ ~dead /\ toServer # <<>>
    /\ LET m == Head(toServer) IN
       /\ toServer' = Tail(toServer)
       /\ toClient' = Append(toClient, Response(m, Accepts(m.req)))
       /\ \E size \in IF m.req.kind = "monitor" THEN Sizes \cup {QueueSize}
                                                ELSE {srv.size} :
             ServerBecomes(IF Accepts(m.req) THEN Effect(m.req, size) ELSE srv,
                           ~srv.throttled)
    /\ UNCHANGED <<client, fixed, changes, faults, late, dead>>

(* Any request may be refused, and then changes nothing.                    *)
Refuse ==
    /\ ~dead /\ toServer # <<>> /\ faults < MaxFaults
    /\ toServer' = Tail(toServer)
    /\ toClient' = Append(toClient, Response(Head(toServer), FALSE))
    /\ faults' = faults + 1
    /\ UNCHANGED <<client, server, fixed, changes, late, dead>>

(* A throttled server samples what the node holds by now.                   *)
Sample ==
    /\ ~dead /\ srv.throttled /\ Sampleable(srv)
    /\ ServerBecomes(srv, TRUE)
    /\ UNCHANGED <<client, fixed, toServer, toClient, changes, faults, late, dead>>

(* Someone else changes the node, or an event is raised.                    *)
Change ==
    /\ ~dead /\ exit = NoExit /\ Collecting
    /\ srv.item /\ changes < MaxChanges
    /\ changes' = changes + 1
    /\ ServerBecomes([srv EXCEPT !.value = @ + 1], ~srv.throttled)
    /\ UNCHANGED <<client, fixed, toServer, toClient, faults, late, dead>>

(* One publishing interval: everything that is queued, in one message.      *)
Publish ==
    /\ ~dead /\ exit = NoExit
    /\ srv.publishing /\ srv.mode = Reporting /\ srv.queue # <<>>
    /\ toClient' = Append(toClient, [id |-> 0, good |-> TRUE, items |-> srv.queue])
    /\ srv' = [srv EXCEPT !.queue = <<>>]
    /\ UNCHANGED <<client, fixed, sampled, discarded, toServer, changes, faults,
                   late, dead>>

(* A notification is sent before the answer it was queued behind: a server  *)
(* that carries out a request and publishes before it answers.              *)
Overtake ==
    /\ ~dead /\ exit = NoExit
    /\ \E i \in 1..Len(toClient) - 1 :
          /\ toClient[i].id # 0 /\ toClient[i + 1].id = 0
          /\ toClient' = [toClient EXCEPT ![i] = toClient[i + 1], ![i + 1] = toClient[i]]
    /\ UNCHANGED <<client, server, fixed, toServer, changes, faults, late, dead>>

(* The server, or the connection, is gone.                                  *)
Die ==
    /\ ~dead /\ pc # 0 /\ exit = NoExit /\ faults < MaxFaults
    /\ dead' = TRUE
    /\ faults' = faults + 1
    /\ toServer' = <<>> /\ toClient' = <<>>
    /\ UNCHANGED <<client, server, fixed, changes, late>>

-----------------------------------------------------------------------------
(* The client.                                                              *)

Init ==
    /\ cmd \in Commands
    /\ asked \in IF Collecting THEN Asked ELSE {0}
    /\ revised \in IF cmd = "revise" THEN Revisions ELSE {NoRevision}
    /\ pc = 0 /\ waiting = FALSE
    /\ status = [i \in 1..Len(Program) |-> "none"]
    /\ store = <<>>
    /\ marks = [m \in {"disabled", "sampling", "before", "reporting"} |-> 0]
    /\ timedOut = FALSE
    /\ printed = <<>>
    /\ exit = NoExit
    /\ toServer = <<>> /\ toClient = <<>>
    /\ \E v \in Initials, t \in BOOLEAN, o \in BOOLEAN :
          srv = [NoItem EXCEPT !.value = v, !.throttled = (t /\ cmd # "events"),
                               !.oldest = (o \/ cmd # "subscribe")]
    /\ sampled = <<>> /\ discarded = FALSE
    /\ changes = 0 /\ faults = 0 /\ late = FALSE /\ dead = FALSE

(* make_client fails: the security configuration (exit 2, 3 or 6), or the   *)
(* connection (3, or 7 when it times out).                                  *)
NotConfigured == exit' \in {2, 3, 6}
NotConnected  == exit' \in {3, 7}

(* The namespace of a "nsu=" NodeId cannot be resolved.                     *)
UnknownNamespace == exit' = 2

Connect ==
    /\ pc = 0 /\ exit = NoExit
    /\ \/ pc' = 1 /\ exit' = exit
       \/ pc' = pc /\ (NotConfigured \/ NotConnected \/ UnknownNamespace)
    /\ UNCHANGED <<waiting, status, store, marks, timedOut, printed, server, fixed,
                   toServer, toClient, changes, faults, late, dead>>

StepCall ==
    /\ At("call") /\ ~waiting
    /\ waiting' = TRUE
    /\ toServer' = IF dead THEN toServer
                           ELSE Append(toServer, [id |-> pc, req |-> Current])
    /\ UNCHANGED <<pc, status, store, marks, timedOut, printed, exit, server, fixed,
                   toClient, changes, faults, late, dead>>

MutFailAt == Len(Program)

(* Without a monitored item, subscribe and event-subscribe print and then   *)
(* delete the subscription, the scenarios delete it and then print.         *)
FailAt == Len(Program) - 1

(* The call of step pc ends. Only the two calls that create something are   *)
(* acted on; every other result is dropped.                                 *)
CallEnds(good) ==
    /\ waiting' = FALSE
    /\ status' = [status EXCEPT ![pc] = IF good THEN "Good" ELSE "Bad"]
    /\ exit' = IF ~good /\ Current.kind = "create" THEN 4 ELSE exit
    /\ pc' = IF ~good /\ Current.kind = "monitor" THEN FailAt ELSE pc + 1

(* The callbacks: the rest of a batch finds the store full and is dropped.  *)
sub_data_change_cb(items) ==
    store \o SubSeq(items, 1, AtMost(Len(items), MaxNotifications - Len(store)))
event_notif_cb(items) ==
    store \o SubSeq(items, 1, AtMost(Len(items), MaxEvents - Len(store)))

Dispatch(items) ==
    IF cmd = "events" THEN event_notif_cb(items) ELSE sub_data_change_cb(items)

Monitored == Len(status) > 1 /\ Program[2] = Monitor /\ status[2] = "Good"

Enough ==
    Len(store) >= IF Current.kind = "more" THEN marks["before"] + 1 ELSE Current.val

(* A call, and an iteration of a loop, dispatch whatever arrives.           *)
Listening == waiting \/ At("pause") \/ (At("wait") /\ ~Enough)

(* The stack knows the item once the answer to CreateMonitoredItems is      *)
(* here; it drops a notification that comes before.                         *)
Receive ==
    /\ exit = NoExit /\ Listening /\ toClient # <<>>
    /\ toClient' = Tail(toClient)
    /\ LET m == Head(toClient) IN
       IF m.id = pc /\ waiting
       THEN CallEnds(m.good) /\ UNCHANGED <<store, discarded>>
       ELSE /\ store' = IF Monitored THEN Dispatch(m.items) ELSE store
            /\ discarded' = (discarded \/ (~Monitored /\ m.items # <<>>))
            /\ UNCHANGED <<pc, waiting, status, exit>>
    /\ UNCHANGED <<marks, timedOut, printed, srv, sampled, fixed, toServer, changes,
                   faults, late, dead>>

(* The call's own timeout: its answer, if any, arrives later.               *)
Fault ==
    /\ exit = NoExit /\ waiting
    /\ dead \/ faults < MaxFaults
    /\ CallEnds(FALSE)
    /\ late' = TRUE
    /\ faults' = IF dead THEN faults ELSE faults + 1
    /\ UNCHANGED <<store, marks, timedOut, printed, server, fixed, toServer,
                   toClient, changes, dead>>

WaitDone ==
    /\ At("wait") /\ Enough
    /\ pc' = pc + 1
    /\ UNCHANGED <<waiting, status, store, marks, timedOut, printed, exit, server,
                   fixed, toServer, toClient, changes, faults, late, dead>>

MutTimeUp ==
    /\ At("pause") \/ (At("wait") /\ ~Enough /\ store # <<>>)
    /\ pc' = pc + 1
    /\ timedOut' = (At("wait") /\ Collecting)
    /\ UNCHANGED <<waiting, status, store, marks, printed, exit, server,
                   fixed, toServer, toClient, changes, faults, late, dead>>

(* The time of the loop is up; only the first two commands remember it.     *)
TimeUp ==
    /\ At("pause") \/ (At("wait") /\ ~Enough)
    /\ pc' = pc + 1
    /\ timedOut' = (At("wait") /\ Collecting)
    /\ UNCHANGED <<waiting, status, store, marks, printed, exit, server,
                   fixed, toServer, toClient, changes, faults, late, dead>>

(* store.count = 0, reading store.count, printing the result.               *)
StepLocal ==
    /\ \/ At("reset") /\ store' = <<>> /\ UNCHANGED <<marks, printed>>
       \/ /\ At("mark") /\ marks' = [marks EXCEPT ![Current.kind] = Len(store)]
          /\ UNCHANGED <<store, printed>>
       \/ At("report") /\ printed' = store /\ UNCHANGED <<store, marks>>
    /\ pc' = pc + 1
    /\ UNCHANGED <<waiting, status, timedOut, exit, server, fixed, toServer,
                   toClient, changes, faults, late, dead>>

-----------------------------------------------------------------------------
(* The verdicts.                                                            *)

ReviseOk == revised.rlt >= 3 * revised.rmk /\ revised.rpi >= 10

MutWindowOk ==
    LET nv == Len(printed)
    IN  \/ nv >= 3 /\ SubSeq(Values(printed), 1, 3) = <<3, 4, 5>>
        \/ nv \in {1, 2} /\ printed[nv].val = 5

(* The last three values, or the last one of fewer.                         *)
WindowOk ==
    LET nv == Len(printed)
    IN  \/ nv >= 3 /\ SubSeq(Values(printed), nv - 2, nv) = <<3, 4, 5>>
        \/ nv \in {1, 2} /\ printed[nv].val = 5

(* Bits of a status code: what an overflowed value carries (InfoType        *)
(* DataValue and Overflow) and what the scenario looks for (0x04800000).    *)
InfoBits(item) == IF item.over THEN {7, 10} ELSE {}
MaskBits == {23, 26}

Overflow ==
    \/ Len(printed) < 5
    \/ \E i \in DOMAIN printed : InfoBits(printed[i]) \cap MaskBits # {}

DisabledCount  == marks["disabled"]
SamplingCount  == marks["sampling"] - marks["disabled"]
ReportingCount == marks["reporting"] - marks["before"]

ModesOk == DisabledCount = 0 /\ ReportingCount >= 1

DeleteOk == status[4] = "Bad" /\ status[6] = "Bad"

Verdict ==
    CASE Collecting -> ~timedOut
      [] cmd = "revise"     -> ReviseOk
      [] cmd = "publishing" -> WindowOk
      [] cmd = "monitoring" -> ModesOk
      [] cmd = "delete"     -> DeleteOk

ExitCode ==
    CASE cmd # "revise" /\ ~Monitored -> 4
      [] timedOut -> 7
      [] OTHER -> IF Verdict THEN 0 ELSE 4

Finish ==
    /\ exit = NoExit /\ pc > Len(Program)
    /\ exit' = ExitCode
    /\ UNCHANGED <<pc, waiting, status, store, marks, timedOut, printed, server,
                   fixed, toServer, toClient, changes, faults, late, dead>>

ClientStep ==
    Connect \/ StepCall \/ Receive \/ Fault \/ WaitDone \/ TimeUp \/ StepLocal \/ Finish

ServerStep == Handle \/ Refuse \/ Sample \/ Change \/ Publish \/ Overtake \/ Die

Next == ClientStep \/ ServerStep

(* A live server answers; the client's loop and its timeouts run. Nothing   *)
(* makes the server publish.                                                *)
Fairness == WF_vars(ClientStep) /\ WF_vars(Handle)

Spec == Init /\ [][Next]_vars /\ Fairness
-----------------------------------------------------------------------------
(* Properties.                                                              *)

StoreCap == IF cmd = "events" THEN MaxEvents ELSE MaxNotifications

Done    == exit # NoExit /\ pc > Len(Program)
AllGood == \A i \in DOMAIN status : status[i] # "Bad"

(* The position of step s, of which the program has one.                    *)
Where(s) == CHOOSE i \in DOMAIN Program : Program[i] = s

(* slc_publishing_mode: once SetPublishingMode(false) has succeeded and the *)
(* counter is reset, nothing is stored until the call that turns publishing *)
(* on again is made: what was in flight arrived before the answer, hence    *)
(* before the reset.                                                        *)
SilentWhileOff ==
    /\ cmd = "publishing" /\ exit = NoExit
    /\ pc \in Where(Reset) + 1..Where(Call("publish", 1))
    /\ ~(pc = Where(Call("publish", 1)) /\ waiting)
    /\ status[Where(Call("publish", 0))] = "Good"
    => store = <<>>

FinalWindow ==
    LET nv == Len(printed) IN nv >= 3 /\ SubSeq(Values(printed), nv - 2, nv) = <<3, 4, 5>>

(* slc_publishing_mode: against a server that reports every change, grants  *)
(* the queue of three or a longer one, answers every call Good and          *)
(* publishes before the time is up, the scenario succeeds on the window     *)
(* [3,4,5], whether or not the initial value was drained in time.           *)
WindowVerdict ==
    /\ cmd = "publishing" /\ Done /\ AllGood /\ ~srv.throttled /\ printed # <<>>
    /\ srv.size >= 3
    => exit = 0 /\ FinalWindow

(* The contract on slc_publishing_mode: overflow is true when the server    *)
(* discarded values, here when a value it marked so is in the result.       *)
OverflowReported ==
    cmd = "publishing" /\ Done /\ (\E i \in DOMAIN printed : printed[i].over)
    => Overflow

(* slc_monitoring_mode: the Reporting count is about the value written in   *)
(* that mode and never about what the item queued while it only sampled:    *)
(* whenever it is positive, one of the notifications counted carries 103,   *)
(* in whatever order the server answered and published.                     *)
ReportingIsTheWrite ==
    /\ cmd = "monitoring" /\ Done /\ AllGood /\ ~srv.throttled
    /\ ReportingCount >= 1
    => \E i \in marks["before"] + 1..marks["reporting"] : store[i].val = 103

(* subscribe and event-subscribe: unless a value was lost, in the server's  *)
(* queue or before the item was known, the result is a gapless prefix of    *)
(* what the item sampled. Asked for no more than the store holds, the       *)
(* command succeeds exactly when it has that many.                          *)
Collected ==
    Collecting /\ Done /\ Monitored
    => /\ ~discarded => Values(printed) = SubSeq(sampled, 1, Len(printed))
       /\ asked <= StoreCap => (exit = 0 <=> Len(printed) >= asked)

Deletes == {i \in DOMAIN status : Program[i].kind = "deleteSub" /\ status[i] # "none"}

(* No command leaves its subscription behind on a server that answered      *)
(* every call, whichever of them it refused: if the subscription is still   *)
(* there the command tried to delete it and every attempt was refused.      *)
SubscriptionDeleted ==
    exit # NoExit /\ ~late /\ ~dead /\ srv.sub
    => Deletes # {} /\ \A i \in Deletes : status[i] = "Bad"

(* Every command ends: each call has a timeout and each loop a clock, even  *)
(* when the server dies or never publishes.                                 *)
CommandEnds == <>(exit # NoExit)

=============================================================================
