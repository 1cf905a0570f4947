---------------------------- MODULE EventHistory ----------------------------
(***************************************************************************)
(* client history-read-events and history-update-events (history_events.c). *)
(* The read command sends one HistoryRead for all nodes, or pages through   *)
(* each node with continuation points, releases the last one and tries to   *)
(* use it once more (--scenario continue). The update command turns JSON    *)
(* events into the fields of an UpdateEventDetails.                         *)
(*                                                                          *)
(* The server is external: an archive of events and the continuation points *)
(* of the session. It cuts a page where it likes, before or after it has    *)
(* evaluated the WhereClause, may refuse any request, and requests or       *)
(* answers may be lost. An event is its position in the archive, and a page *)
(* the set of its events: the server sends them in the archive's order.     *)
(***************************************************************************)
EXTENDS Integers, Sequences, FiniteSets, Functions

CONSTANTS
    Archive,     \* the events of a node, oldest first: [type, sev]
    BaseType,    \* an event type that every other one is a subtype of
    ReadArgs,    \* command lines of history-read-events
    UpdateArgs,  \* command lines of history-update-events
    MaxPages,    \* --max-pages
    KeysPerEvent \* 64: keys collected per --event, over all events

None == "none"   \* an option that is not given
NoCp == 0        \* a continuation point of length 0
NoExit == -1
NoRequest == [perform |-> None]

IsSequence(s) == s \in Seq(Range(s))

ASSUME EventAssumption ==
    /\ IsSequence(Archive)
    /\ MaxPages \in Nat \ {0} /\ KeysPerEvent \in Nat \ {0}
    /\ \A a \in ReadArgs :
          /\ a.nodes \in Nat \ {0} /\ a.num \in Nat /\ a.minSev \in Nat \cup {-1}
          /\ a.scenario \in BOOLEAN
    /\ \A a \in UpdateArgs :
          /\ IsSequence(a.select) /\ IsSequence(a.events)
          /\ \A i \in DOMAIN a.events : IsSequence(a.events[i])

VARIABLES
    cmd,     \* the command: "read" or "update"
    args,    \* its command line
    pc,      \* where it is
    run,     \* what the read command holds, see IdleRun
    sel,     \* update: the paths of the SelectClauses so far
    at,      \* update: the event and the key the collecting loop is at
    sent,    \* the HistoryUpdate request, once sent
    points,  \* server: open continuation points, [tok, from]
    dead,    \* the connection is closed
    lost     \* history: some call had no answer, or a release was refused

vars == <<cmd, args, pc, run, sel, at, sent, points, dead, lost>>
updateVars == <<sel, at, sent>>
serverVars == <<points, dead, lost>>

IsGood(sc) == sc \in {"Good", "GoodNoData"}

-----------------------------------------------------------------------------
(* The WhereClause, elements counted from 0 as in Part 4.                   *)

MutHevBuildWhere(ofType, minSev) ==
    LET leaves == (IF ofType = None THEN <<>> ELSE <<[op |-> "OfType", type |-> ofType]>>)
                  \o (IF minSev = -1 THEN <<>> ELSE <<[op |-> "GreaterEq", sev |-> minSev]>>)
    IN  leaves

hev_build_where(ofType, minSev) ==
    LET leaves == (IF ofType = None THEN <<>> ELSE <<[op |-> "OfType", type |-> ofType]>>)
                  \o (IF minSev = -1 THEN <<>> ELSE <<[op |-> "GreaterEq", sev |-> minSev]>>)
    IN  IF Len(leaves) = 2 THEN <<[op |-> "And", index |-> <<1, 2>>]>> \o leaves
        ELSE leaves

LeafHolds(e, ev) ==
    CASE e.op = "OfType" -> e.type \in {ev.type, BaseType}
      [] e.op = "GreaterEq" -> ev.sev >= e.sev
      [] OTHER -> FALSE

(* The server's reading of a ContentFilter: element 0 is the root, and an   *)
(* And refers to later elements.                                            *)
Accepts(w, ev) ==
    \/ w = <<>>
    \/ IF w[1].op = "And"
       THEN \A k \in 1..2 : LeafHolds(w[w[1].index[k] + 1], ev)
       ELSE LeafHolds(w[1], ev)

Where == hev_build_where(args.ofType, args.minSev)

-----------------------------------------------------------------------------
(* The server.                                                              *)

(* The events asked for among the ones after position `from` up to `to`.    *)
Matches(from, to) == {i \in (from + 1)..to : Accepts(Where, Archive[i])}

(* Where a page that starts after `from` may end, and whether there is more *)
(* to read: at most n events, and more if an event is still to come. A      *)
(* server that filters late says so of events it will not send.             *)
Cuts(from, n) ==
    {c \in [to : from..Len(Archive), more : BOOLEAN] :
        /\ Cardinality(Matches(from, c.to)) <= n
        /\ Matches(c.to, Len(Archive)) # {} => c.more}

(* An answer of the server, with the continuation points it leaves behind   *)
(* and whether the client gets it.                                          *)
Result(sc, events, cp, left, answered) ==
    [sc |-> sc, events |-> events, cp |-> cp, points |-> left,
     answered |-> answered]

(* A token that no open point has; the point a request uses up counts as    *)
(* open, so a client never gets the token back that it sent.                *)
Token == CHOOSE t \in 1..(Cardinality(points) + 1) : \A q \in points : q.tok # t

IsOpen(cp) == \E q \in points : q.tok = cp

(* The position a request with the continuation point cp reads from.        *)
From(cp) == IF cp = NoCp THEN 0 ELSE (CHOOSE q \in points : q.tok = cp).from

(* A page that was cut: its point is used up, and another one is issued if  *)
(* there is more.                                                           *)
Answer(cp, cut) ==
    LET events == Matches(From(cp), cut.to)
        left == {q \in points : q.tok # cp}
    IN  IF cut.more
        THEN Result("Good", events, Token,
                    left \cup {[tok |-> Token, from |-> cut.to]}, TRUE)
        ELSE Result(IF events = {} THEN "GoodNoData" ELSE "Good",
                    events, NoCp, left, TRUE)

(* HistoryRead of one node from the continuation point cp, executed.        *)
Executed(cp, n) ==
    IF cp # NoCp /\ ~ IsOpen(cp)
    THEN {Result("BadCp", {}, NoCp, points, TRUE)}
    ELSE {Answer(cp, cut) : cut \in Cuts(From(cp), n)}

NoAnswer(left) == {Result(sc, {}, NoCp, left, FALSE) : sc \in {"Timeout", "Closed"}}

(* hev_read: the answers of the service to a request with its effect `ex`:  *)
(* that effect, a refusal, or no answer, whether it had the effect or not.  *)
Calls(ex) ==
    IF dead THEN {Result("Closed", {}, NoCp, points, FALSE)}
    ELSE {ex, Result("Bad", {}, NoCp, points, TRUE)}
         \cup NoAnswer(points) \cup NoAnswer(ex.points)

(* A request with ReleaseContinuationPoints; servers differ on a point that *)
(* is not open.                                                             *)
Release(cp) ==
    IF IsOpen(cp)
    THEN {Result("Good", {}, NoCp, {q \in points : q.tok # cp}, TRUE)}
    ELSE {Result(sc, {}, NoCp, points, TRUE) : sc \in {"BadCp", "Good"}}

Effect(c) ==
    /\ points' = c.points
    /\ dead' = (dead \/ c.sc = "Closed")

-----------------------------------------------------------------------------
(* history-read-events.                                                     *)

IdleRun ==
    [node |-> 1, page |-> 0, cur |-> NoCp, lastCp |-> NoCp, last |-> "Good",
     pages |-> <<>>, results |-> <<>>, ok |-> TRUE, timeout |-> FALSE,
     emit |-> "Good", exit |-> NoExit]

Init ==
    /\ \/ cmd = "read" /\ args \in ReadArgs
       \/ cmd = "update" /\ args \in UpdateArgs
    /\ pc = "parse"
    /\ run = IdleRun
    /\ sel = <<>>
    /\ at = [ev |-> 1, key |-> 1]
    /\ sent = NoRequest
    /\ points = {}
    /\ dead = FALSE
    /\ lost = FALSE

Exit(code) == run' = [run EXCEPT !.exit = code] /\ pc' = "done"

(* What hev_parse_select makes of a path that is not well formed.           *)
Malformed == <<>>

(* One segment of a path, [prefix, name]: prefix is -1 without a colon, -2  *)
(* when the text before it is not a decimal number; then that text and the  *)
(* colon are part of the name.                                              *)
SegmentOk(s) ==
    \/ s.prefix = -1 /\ s.name # ""
    \/ s.prefix = -2
    \/ s.prefix \in 0..65535 /\ s.name # ""

hev_parse_select(path) ==
    IF path = <<>> \/ \E i \in DOMAIN path : ~ SegmentOk(path[i]) THEN Malformed
    ELSE [i \in DOMAIN path |->
            [ns |-> IF path[i].prefix = -1 \/ path[i].prefix = -2 THEN 0
                    ELSE path[i].prefix,
             name |-> path[i].name, colon |-> path[i].prefix = -2]]

(* Every option is well formed by itself (NodeIds, times, numbers, ...), the *)
(* options fit together, and the paths are well formed.                     *)
ReadArgsOk(a) ==
    /\ a.valid
    /\ a.release => a.cp
    /\ a.cp => a.nodes = 1
    /\ \A i \in DOMAIN a.select : hev_parse_select(a.select[i]) # Malformed

ReadRefused ==
    /\ cmd = "read" /\ pc = "parse" /\ ~ ReadArgsOk(args)
    /\ Exit(2)
    /\ UNCHANGED <<cmd, args, updateVars, serverVars>>

(* cli_make_client; failing, the command ends with its exit code.           *)
ConnectFails ==
    /\ pc = "connect"
    /\ \E code \in {2, 3, 6, 7} : Exit(code)
    /\ UNCHANGED <<cmd, args, updateVars, serverVars>>

(* After connecting, the NodeIds are resolved: an unknown namespace, or an  *)
(* answer that does not come, is an input error.                            *)
ResolveFails ==
    /\ pc = "connect"
    /\ Exit(2)
    /\ UNCHANGED <<cmd, args, updateVars, serverVars>>

ReadParsed ==
    /\ cmd = "read" /\ pc = "parse" /\ ReadArgsOk(args)
    /\ pc' = "connect"
    /\ UNCHANGED <<cmd, args, run, updateVars, serverVars>>

ReadStarts ==
    /\ cmd = "read" /\ pc = "connect"
    /\ pc' = IF args.scenario THEN "page" ELSE "read"
    /\ UNCHANGED <<cmd, args, run, updateVars, serverVars>>

(* The page size of the scenario when --num-values is not given.            *)
PageSize == IF args.num = 0 THEN 2 ELSE args.num

MorePages(p) == p < MaxPages

MutKeepCp(r, c) == [r EXCEPT !.cur = c.cp,
                             !.lastCp = IF @ = NoCp THEN c.cp ELSE @]
(* A continuation point is kept for the next page and for the release.      *)
KeepCp(r, c) == [r EXCEPT !.cur = c.cp, !.lastCp = c.cp]

(* One page of the node.                                                    *)
Page ==
    /\ pc = "page"
    /\ \E ex \in Executed(run.cur, PageSize) : \E c \in Calls(ex) :
          /\ Effect(c)
          /\ lost' = (lost \/ ~ c.answered)
          /\ LET r == [run EXCEPT !.page = @ + 1, !.last = c.sc, !.cur = NoCp,
                                  !.pages = Append(@, c.events)]
                 more == IsGood(c.sc) /\ c.cp # NoCp
             IN  /\ run' = IF more THEN KeepCp(r, c) ELSE r
                 /\ pc' = IF more /\ MorePages(run.page + 1) THEN "page"
                          ELSE IF run'.lastCp # NoCp THEN "release"
                          ELSE "next"
    /\ UNCHANGED <<cmd, args, updateVars>>

(* The last continuation point is released, and then used once more.        *)
ReleaseLast ==
    /\ pc = "release"
    /\ \E ex \in Release(run.lastCp) : \E c \in Calls(ex) :
          /\ Effect(c)
          /\ lost' = (lost \/ ~ c.answered \/ c.sc = "Bad")
    /\ pc' = "reuse"
    /\ UNCHANGED <<cmd, args, run, updateVars>>

ReuseLast ==
    /\ pc = "reuse"
    /\ \E ex \in Executed(run.lastCp, PageSize) : \E c \in Calls(ex) :
          /\ Effect(c)
          /\ lost' = (lost \/ ~ c.answered)
    /\ pc' = "next"
    /\ UNCHANGED <<cmd, args, run, updateVars>>

MutVerdict(r, sc) ==
    [r EXCEPT !.ok = r.ok /\ IsGood(sc),
              !.emit = IF ~ IsGood(sc) THEN sc
                       ELSE IF r.ok /\ r.emit = "Good" THEN sc
                       ELSE @]
(* The statuses of the nodes, one after the other: the first Bad one is the *)
(* service result of the envelope, and without one the first that is not    *)
(* plainly Good.                                                            *)
Verdict(r, sc) ==
    [r EXCEPT !.ok = r.ok /\ IsGood(sc),
              !.emit = IF ~ IsGood(sc) /\ r.ok THEN sc
                       ELSE IF IsGood(sc) /\ r.ok /\ r.emit = "Good" THEN sc
                       ELSE @]

(* The end of a node's pages; the next node starts afresh.                  *)
NextNode ==
    /\ pc = "next"
    /\ run' = [Verdict(run, run.last) EXCEPT
                  !.timeout = @ \/ run.last = "Timeout",
                  !.results = Append(@, [sc |-> run.last, pages |-> run.pages,
                                         whole |-> run.cur = NoCp]),
                  !.node = @ + 1, !.page = 0, !.cur = NoCp, !.lastCp = NoCp,
                  !.last = "Good", !.pages = <<>>]
    /\ pc' = IF run.node < args.nodes THEN "page" ELSE "report"
    /\ UNCHANGED <<cmd, args, updateVars, serverVars>>

(* A result for every node, without its events.                             *)
Statuses(sts) == [i \in 1..args.nodes |->
                    [sc |-> sts[i], pages |-> <<>>, whole |-> FALSE]]

(* Without a scenario: one HistoryRead for all nodes. BadTimeout may be the *)
(* status of a node, too: here it is a Bad status like any other.           *)
ReadAll ==
    /\ pc = "read"
    /\ \E sts \in [1..args.nodes ->
                    {"Good", "GoodNoData", "Bad", "BadCp", "NodeTimeout"}] :
          run' = [run EXCEPT !.results = Statuses(sts)]
    /\ pc' = "judge"
    /\ UNCHANGED <<cmd, args, updateVars, serverVars>>

(* A fault of the service is every node's status.                           *)
ReadFault ==
    /\ pc = "read"
    /\ \E sc \in {"Bad", "Timeout", "Closed"} :
          run' = [run EXCEPT !.ok = FALSE, !.emit = sc, !.timeout = (sc = "Timeout"),
                             !.results = Statuses([i \in 1..args.nodes |-> sc])]
    /\ pc' = "report"
    /\ UNCHANGED <<cmd, args, updateVars, serverVars>>

(* The statuses of the one answer, one after the other.                     *)
Judge ==
    /\ pc = "judge"
    /\ run' = [Verdict(run, run.results[run.node].sc) EXCEPT !.node = @ + 1]
    /\ pc' = IF run.node < args.nodes THEN "judge" ELSE "report"
    /\ UNCHANGED <<cmd, args, updateVars, serverVars>>

Report ==
    /\ pc = "report"
    /\ Exit(IF run.timeout THEN 7 ELSE IF run.ok THEN 0 ELSE 4)
    /\ UNCHANGED <<cmd, args, updateVars, serverVars>>

-----------------------------------------------------------------------------
(* history-update-events. An --event is a sequence of members [key, val],   *)
(* a key is a path, and val is [type, val]: the type named, or None for a   *)
(* bare value, and the kind of JSON value.                                  *)

NullVariant == "Null"
Invalid == "Invalid"

BuiltInTypes == {"String", "Boolean", "Double", "UInt16", "ByteString",
                 "LocalizedText", "QualifiedName"}

(* The type of a value without "type".                                      *)
BareType(kind) ==
    CASE kind = "string" -> "String"
      [] kind = "bool" -> "Boolean"
      [] kind = "number" -> "Double"
      [] kind = "text" -> "LocalizedText"
      [] OTHER -> Invalid

(* hev_event_value: objects are values of two types only; scalars are left  *)
(* to value_parse, which may refuse one for its type ("unparsable": out of  *)
(* range, or not a literal of the type).                                    *)
hev_event_value(v) ==
    LET type == IF v.type = None THEN BareType(v.val) ELSE v.type IN
    CASE v.val \in {"missing", "unparsable"} -> Invalid
      [] v.val = "null" -> NullVariant
      [] v.val \in {"text", "object"} ->
            IF type \in {"LocalizedText", "QualifiedName"} THEN type ELSE Invalid
      [] OTHER -> IF type \in BuiltInTypes THEN type ELSE Invalid

KeysOf(ev) == [i \in DOMAIN ev |-> ev[i].key]

MutCollect(key) ==
    IF key \in Range(sel) \/ Len(sel) >= KeysPerEvent THEN sel
    ELSE Append(sel, key)
(* A key that is new is selected too, up to the size of the array.          *)
Collect(key) ==
    IF key \in Range(sel) \/ Len(sel) >= KeysPerEvent * Len(args.events) THEN sel
    ELSE Append(sel, key)

(* The value of a member; the first one, if the object has it twice.        *)
Member(ev, key) ==
    IF key \in Range(KeysOf(ev))
    THEN hev_event_value(
           ev[CHOOSE i \in DOMAIN ev :
                ev[i].key = key /\ \A j \in 1..(i - 1) : ev[j].key # key].val)
    ELSE NullVariant

(* The EventFields of one event, in the order of the SelectClauses.         *)
Fields(ev) == [k \in DOMAIN sel |-> Member(ev, sel[k])]

Request ==
    IF args.perform = "delete" THEN [perform |-> "delete", ids |-> args.ids]
    ELSE [perform |-> args.perform,
          select |-> [k \in DOMAIN sel |-> hev_parse_select(sel[k])],
          data |-> [i \in DOMAIN args.events |-> Fields(args.events[i])]]

(* The NodeId is well formed, every --event is a JSON object, a delete has  *)
(* EventIds and everything else has events.                                 *)
UpdateArgsOk ==
    /\ args.valid
    /\ \/ args.perform = "delete" /\ args.ids # <<>>
       \/ args.perform \in {"insert", "replace", "update"} /\ args.events # <<>>

UpdateRefused ==
    /\ cmd = "update" /\ pc = "parse" /\ ~ UpdateArgsOk
    /\ Exit(2)
    /\ UNCHANGED <<cmd, args, updateVars, serverVars>>

UpdateParsed ==
    /\ cmd = "update" /\ pc = "parse" /\ UpdateArgsOk
    /\ sel' = args.select
    /\ pc' = IF args.select = <<>> THEN "collect" ELSE "build"
    /\ UNCHANGED <<cmd, args, run, at, sent, serverVars>>

(* Without --select the keys of the events in order of first appearance.    *)
CollectKey ==
    /\ pc = "collect" /\ at.ev <= Len(args.events)
    /\ at.key <= Len(args.events[at.ev])
    /\ sel' = Collect(args.events[at.ev][at.key].key)
    /\ at' = [at EXCEPT !.key = @ + 1]
    /\ UNCHANGED <<cmd, args, pc, run, sent, serverVars>>

CollectNextEvent ==
    /\ pc = "collect" /\ at.ev <= Len(args.events)
    /\ at.key > Len(args.events[at.ev])
    /\ at' = [ev |-> at.ev + 1, key |-> 1]
    /\ UNCHANGED <<cmd, args, pc, run, sel, sent, serverVars>>

Collected ==
    /\ pc = "collect" /\ at.ev > Len(args.events)
    /\ pc' = "build"
    /\ UNCHANGED <<cmd, args, run, updateVars, serverVars>>

(* EventIds decode; paths are well formed and values have a type.           *)
Buildable ==
    IF args.perform = "delete" THEN \A i \in DOMAIN args.ids : args.ids[i] # Invalid
    ELSE /\ Malformed \notin Range(Request.select)
         /\ \A i \in DOMAIN args.events : Invalid \notin Range(Request.data[i])

BuildFails ==
    /\ pc = "build" /\ ~ Buildable
    /\ Exit(2)
    /\ UNCHANGED <<cmd, args, updateVars, serverVars>>

Built ==
    /\ pc = "build" /\ Buildable
    /\ pc' = "connect"
    /\ UNCHANGED <<cmd, args, run, updateVars, serverVars>>

(* HistoryUpdate: the exit code follows the service and the node's status;  *)
(* results of the single operations do not count.                           *)
Update ==
    /\ cmd = "update" /\ pc = "connect"
    /\ sent' = Request
    /\ \E sc \in {"Good", "Bad", "Timeout", "Closed"} :
          Exit(IF sc = "Timeout" THEN 7 ELSE IF sc = "Good" THEN 0 ELSE 4)
    /\ UNCHANGED <<cmd, args, sel, at, serverVars>>

Next ==
    \/ ReadRefused \/ ReadParsed \/ ConnectFails \/ ResolveFails \/ ReadStarts
    \/ Page \/ ReleaseLast \/ ReuseLast \/ NextNode
    \/ ReadAll \/ ReadFault \/ Judge \/ Report
    \/ UpdateRefused \/ UpdateParsed
    \/ CollectKey \/ CollectNextEvent \/ Collected \/ BuildFails \/ Built \/ Update

Spec == Init /\ [][Next]_vars

-----------------------------------------------------------------------------
(* Properties.                                                              *)

(* What the user asked for: events of the type or a subtype, and of at      *)
(* least the severity.                                                      *)
Wanted ==
    {i \in DOMAIN Archive :
        /\ args.ofType # None => args.ofType \in {Archive[i].type, BaseType}
        /\ args.minSev # -1 => Archive[i].sev >= args.minSev}

(* Every page is later in the archive than the ones before it.              *)
InOrder(pages) ==
    \A p, q \in DOMAIN pages :
        p < q => \A x \in pages[p], y \in pages[q] : x < y

(* The pages of a node are the events asked for, in order, none twice and   *)
(* none skipped, whether the server filters before or after it cuts a page  *)
(* and however short pages are: all of them when the server had no more to  *)
(* give, otherwise the first of them; and they fit the --max-pages entries  *)
(* of their array.                                                          *)
PagesAreHistory ==
  /\ run.page <= MaxPages
  /\ \A i \in DOMAIN run.results :
        LET r == run.results[i] IN
        args.scenario =>
            /\ InOrder(r.pages)
            /\ \E m \in 0..Len(Archive) : UNION Range(r.pages) = Wanted \cap (1..m)
            /\ IsGood(r.sc) /\ r.whole => UNION Range(r.pages) = Wanted

(* "release the last continuation point received": when the scenario has    *)
(* gone through its nodes the server holds none of their continuation       *)
(* points, wherever paging stopped, unless a call had no answer or the      *)
(* server refused the release.                                              *)
NoPointLeft == pc = "report" /\ ~ lost => points = {}

(* Exit 7 for a time-out of the service, else 4 if some node is Bad, else 0 *)
(* (GoodNoData included), and the service result printed is the first Bad   *)
(* node status.                                                             *)
ExitTellsNodes ==
    cmd = "read" /\ run.results # <<>> /\ run.exit # NoExit =>
        LET sc(i) == run.results[i].sc
            bad == {i \in DOMAIN run.results : ~ IsGood(sc(i))}
        IN  /\ run.exit = 7 <=> \E i \in bad : sc(i) = "Timeout"
            /\ run.exit = 0 <=> bad = {}
            /\ bad # {} => \E i \in bad : run.emit = sc(i) /\ \A j \in bad : i <= j
            /\ bad = {} /\ run.emit = "Good" =>
                  \A i \in DOMAIN run.results : sc(i) = "Good"

(* What the update request says of an event, read back through its          *)
(* SelectClauses.                                                           *)
Received(i) ==
    {<<sent.select[k], sent.data[i][k]>> :
        k \in {k \in DOMAIN sent.select : sent.data[i][k] # NullVariant}}

SelectedKeys == IF args.select = <<>> THEN UNION {Range(KeysOf(args.events[i])) :
                                                    i \in DOMAIN args.events}
                ELSE Range(args.select)

(* Each value of an --event arrives under its own path and with its own     *)
(* type, whatever keys the other events have and in whatever order: nothing *)
(* is dropped, shifted to another field or given to another event, up to    *)
(* the limit on the number of keys.                                         *)
UpdateIsFaithful ==
    cmd = "update" /\ sent # NoRequest /\ args.perform # "delete"
      /\ Cardinality(SelectedKeys) <= KeysPerEvent * Len(args.events) =>
        \A i \in DOMAIN args.events :
            Received(i) =
              {<<hev_parse_select(key), Member(args.events[i], key)>> :
                 key \in {key \in SelectedKeys \cap Range(KeysOf(args.events[i])) :
                            Member(args.events[i], key) # NullVariant}}

=============================================================================
