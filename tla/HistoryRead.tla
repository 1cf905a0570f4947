---------------------------- MODULE HistoryRead ----------------------------
(***************************************************************************)
(* Raw HistoryRead of the open62541 adapter: the server's fixed-sample      *)
(* historian with its table of continuation points (server.c,               *)
(* interop_hist_read_raw) and the client's history-read command (client.c,  *)
(* cmd_history_read) in its one-shot form and in the form                   *)
(* --scenario continue, which pages through a window, releases the last     *)
(* continuation point and tries to use it again.                            *)
(*                                                                          *)
(* The server handles one request at a time. A client call is synchronous:  *)
(* it ends with the answer or with a service fault (timeout, connection     *)
(* lost), and after a fault its request may still be waiting at the server, *)
(* ahead of the client's next requests.                                     *)
(***************************************************************************)
EXTENDS Integers, Sequences

CONSTANTS
    Readers,     \* client processes
    NumSlots,    \* entries of the continuation-point table (16)
    NumSamples,  \* samples the historian serves (5)
    MaxPages,    \* page limit of the client's continue scenario (8)
    Windows,     \* the --start/--end windows clients ask for
    PageSizes,   \* the --num-values clients ask for
    MaxRuns      \* bound: client commands run in a behaviour

Slots == 1..NumSlots

NoCp == 0

UnknownCp == NumSlots + 1

Tokens == 0..(NumSlots + 1)

(* A window stands for a pair of times: lo is the first sample not before   *)
(* --start, hi the last one not after --end.                                *)
AllWindows == [lo : 1..(NumSamples + 1), hi : 0..NumSamples]

ASSUME SlotsAssumption == NumSlots \in Nat \ {0}
ASSUME SamplesAssumption == NumSamples \in Nat \ {0}
\* The client's eight pages are enough for five samples, even one at a time.
ASSUME PagesAssumption == MaxPages \in Nat /\ NumSamples <= MaxPages
ASSUME WindowsAssumption == Windows \subseteq AllWindows
ASSUME SizesAssumption == PageSizes \subseteq Nat
ASSUME RunsAssumption == MaxRuns \in Nat

VARIABLES
    cps,     \* server: the continuation-point table, token = slot
    chan,    \* chan[r]: requests of r the server has not handled, in order
    resp,    \* resp[r]: the answer on its way to r, or NoAnswer
    pc,      \* pc[r]: the call the command of r is waiting in
    run,     \* run[r]: locals of the continue scenario
    printed, \* continuation points that commands have printed
    allocs,  \* history: continuation points issued to requests without one
    runs     \* client commands started

vars == <<cps, chan, resp, pc, run, printed, allocs, runs>>

Statuses == {"Good", "BadContinuationPointInvalid",
             "BadHistoryOperationUnsupported", "BadService"}

NoAnswer == [status |-> "none", values |-> <<>>, cp |-> NoCp]

Answer(status, values, cp) ==
    [status |-> status, values |-> values, cp |-> cp]

(* The n samples that start with sample `first`.                            *)
Seg(first, n) == [k \in 1..n |-> first + k - 1]

MatchedCount(w) == IF w.hi < w.lo THEN 0 ELSE w.hi - w.lo + 1

IdleRun == [win |-> [lo |-> 1, hi |-> 0], num |-> 1, cp |-> NoCp,
            reuseCp |-> NoCp, pages |-> 0, got |-> <<>>, last |-> "Good",
            releaseSc |-> "Good", reuseSc |-> "Good"]

Init ==
    /\ cps = [s \in Slots |->
                [offset |-> 0, inUse |-> FALSE, released |-> FALSE]]
    /\ chan = [r \in Readers |-> <<>>]
    /\ resp = [r \in Readers |-> NoAnswer]
    /\ pc = [r \in Readers |-> "idle"]
    /\ run = [r \in Readers |-> IdleRun]
    /\ printed = {}
    /\ allocs = 0
    /\ runs = 0

-----------------------------------------------------------------------------
(* The server: interop_hist_read_raw on the first request of a channel.     *)

Active == {"paging", "releasing", "reusing", "oneshot"}

CpValid(cp) == cp \in Slots /\ cps[cp].inUse /\ ~cps[cp].released

PageOffset(q) == IF q.cp = NoCp THEN 0 ELSE cps[q.cp].offset

(* The requested page size, clamped to what the window holds.               *)
PageNum(q) ==
    IF q.num = 0 \/ q.num > MatchedCount(q.win)
    THEN MatchedCount(q.win) ELSE q.num

PageEnd(q) ==
    IF PageOffset(q) + PageNum(q) > MatchedCount(q.win)
    THEN MatchedCount(q.win) ELSE PageOffset(q) + PageNum(q)

MutEligible(q) ==
    {s \in Slots : ~cps[s].inUse \/ cps[s].released \/ s = q.cp}

(* Slots the search for a new token stops at: unused, or the caller's own.  *)
Eligible(q) == {s \in Slots : ~cps[s].inUse \/ s = q.cp}

MutSlotFor(q) == 1

(* The first eligible slot; with a full table, the first slot of all.       *)
SlotFor(q) ==
    IF Eligible(q) = {} THEN 1
    ELSE CHOOSE s \in Eligible(q) : \A t \in Eligible(q) : s <= t

(* The head request of r leaves the channel; its answer reaches r only if r *)
(* still waits for it, that is, if r has not gone on to a later call.       *)
Reply(r, ans) ==
    /\ chan' = [chan EXCEPT ![r] = Tail(@)]
    /\ resp' = [resp EXCEPT ![r] =
                  IF pc[r] \in Active /\ Len(chan[r]) = 1 THEN ans ELSE @]
    /\ UNCHANGED <<pc, run, printed, runs>>

ServeUnsupported(r) ==
    /\ chan[r] # <<>>
    /\ ~Head(chan[r]).hist
    /\ Reply(r, Answer("BadHistoryOperationUnsupported", <<>>, NoCp))
    /\ UNCHANGED <<cps, allocs>>

ServeInvalidCp(r) ==
    /\ chan[r] # <<>>
    /\ LET q == Head(chan[r]) IN
         /\ q.hist
         /\ \/ q.cp # NoCp /\ ~CpValid(q.cp)
            \/ /\ ~q.release
               /\ q.cp # NoCp => CpValid(q.cp)
               /\ PageOffset(q) > MatchedCount(q.win)
    /\ Reply(r, Answer("BadContinuationPointInvalid", <<>>, NoCp))
    /\ UNCHANGED <<cps, allocs>>

ServeRelease(r) ==
    /\ chan[r] # <<>>
    /\ LET q == Head(chan[r]) IN
         /\ q.hist
         /\ q.release
         /\ q.cp # NoCp => CpValid(q.cp)
         /\ cps' = IF q.cp = NoCp THEN cps
                   ELSE [cps EXCEPT ![q.cp].released = TRUE]
    /\ Reply(r, Answer("Good", <<>>, NoCp))
    /\ UNCHANGED allocs

MutPageValues(q) ==
    Seg(q.win.lo + PageOffset(q) + 1, PageEnd(q) - PageOffset(q))

PageValues(q) == Seg(q.win.lo + PageOffset(q), PageEnd(q) - PageOffset(q))

PageReadable(q) ==
    /\ q.hist
    /\ ~q.release
    /\ q.cp # NoCp => CpValid(q.cp)
    /\ PageOffset(q) <= MatchedCount(q.win)

(* The page reaches the end of the window: no continuation point. The one   *)
(* presented, if any, stays as it was.                                      *)
ServeLastPage(r) ==
    /\ chan[r] # <<>>
    /\ LET q == Head(chan[r]) IN
         /\ PageReadable(q)
         /\ PageEnd(q) = MatchedCount(q.win)
         /\ Reply(r, Answer("Good", PageValues(q), NoCp))
    /\ UNCHANGED <<cps, allocs>>

(* More to come: issue a token, or refresh the one presented.               *)
ServePage(r) ==
    /\ chan[r] # <<>>
    /\ LET q == Head(chan[r]) IN
         /\ PageReadable(q)
         /\ PageEnd(q) < MatchedCount(q.win)
         /\ cps' = [cps EXCEPT ![SlotFor(q)] =
                      [offset |-> PageEnd(q), inUse |-> TRUE,
                       released |-> FALSE]]
         /\ allocs' = IF q.cp = NoCp THEN allocs + 1 ELSE allocs
         /\ Reply(r, Answer("Good", PageValues(q), SlotFor(q)))

Serve(r) ==
    \/ ServeUnsupported(r)
    \/ ServeInvalidCp(r)
    \/ ServeRelease(r)
    \/ ServeLastPage(r)
    \/ ServePage(r)

-----------------------------------------------------------------------------
(* The client: cmd_history_read.                                            *)

Request(hist, win, num, cp, release) ==
    [hist |-> hist, win |-> win, num |-> num, cp |-> cp, release |-> release]

(* A new command runs on a connection of its own.                           *)
CanStart(r) == pc[r] \in {"idle", "done"} /\ chan[r] = <<>> /\ runs < MaxRuns

StartContinue(r, w, n) ==
    /\ CanStart(r)
    /\ LET num == IF n = 0 THEN 2 ELSE n IN
         /\ run' = [run EXCEPT ![r] = [IdleRun EXCEPT !.win = w, !.num = num]]
         /\ chan' = [chan EXCEPT ![r] = <<Request(TRUE, w, num, NoCp, FALSE)>>]
    /\ pc' = [pc EXCEPT ![r] = "paging"]
    /\ runs' = runs + 1
    /\ UNCHANGED <<cps, resp, printed, allocs>>

(* --node may name another node, --continuation-point what any command of   *)
(* any client printed, or a stray value. A value that happens to be the     *)
(* token of a scenario still running is left out: nothing has printed it.   *)
OneShot(r, hist, w, n, cp, release) ==
    /\ CanStart(r)
    /\ cp \in printed \cup {NoCp, UnknownCp}
    /\ chan' = [chan EXCEPT ![r] = <<Request(hist, w, n, cp, release)>>]
    /\ pc' = [pc EXCEPT ![r] = "oneshot"]
    /\ run' = [run EXCEPT ![r] = IdleRun]
    /\ runs' = runs + 1
    /\ UNCHANGED <<cps, resp, printed, allocs>>

(* What history_read_once leaves in a call that ends with a service fault.  *)
Fault == Answer("BadService", <<>>, NoCp)

PageRequest(x) == Request(TRUE, x.win, x.num, x.cp, FALSE)

ReleaseRequest(x) == Request(TRUE, x.win, x.num, x.reuseCp, TRUE)

ReuseRequest(x) == Request(TRUE, x.win, x.num, x.reuseCp, FALSE)

(* One round of the page loop.                                              *)
AfterPage(x, ans) ==
    [x EXCEPT !.pages = @ + 1, !.got = @ \o ans.values, !.last = ans.status,
              !.cp = ans.cp,
              !.reuseCp = IF ans.cp = NoCp THEN @ ELSE ans.cp]

MutMorePages(x) == x.last = "Good" /\ x.cp # NoCp /\ x.pages + 1 < MaxPages

MorePages(x) == x.last = "Good" /\ x.cp # NoCp /\ x.pages < MaxPages

Send(r, q) == chan' = [chan EXCEPT ![r] = Append(@, q)]

PageDone(r, ans) ==
    LET x == AfterPage(run[r], ans) IN
    /\ run' = [run EXCEPT ![r] = x]
    /\ \/ /\ MorePages(x)
          /\ Send(r, PageRequest(x))
          /\ UNCHANGED pc
       \/ /\ ~MorePages(x)
          /\ x.reuseCp # NoCp
          /\ Send(r, ReleaseRequest(x))
          /\ pc' = [pc EXCEPT ![r] = "releasing"]
       \/ /\ ~MorePages(x)
          /\ x.reuseCp = NoCp
          /\ pc' = [pc EXCEPT ![r] = "done"]
          /\ UNCHANGED chan
    /\ UNCHANGED printed

MutReleaseDone(r, ans) ==
    /\ run' = [run EXCEPT ![r].releaseSc = ans.status, ![r].last = ans.status]
    /\ Send(r, ReuseRequest(run[r]))
    /\ pc' = [pc EXCEPT ![r] = "reusing"]
    /\ UNCHANGED printed

ReleaseDone(r, ans) ==
    /\ run' = [run EXCEPT ![r].releaseSc = ans.status]
    /\ Send(r, ReuseRequest(run[r]))
    /\ pc' = [pc EXCEPT ![r] = "reusing"]
    /\ UNCHANGED printed

MutReuseDone(r, ans) ==
    /\ run' = [run EXCEPT ![r].reuseSc = ans.status]
    /\ pc' = [pc EXCEPT ![r] = IF ans.status = "BadService" THEN @ ELSE "done"]
    /\ printed' = printed \cup ({run[r].reuseCp} \ {NoCp})
    /\ UNCHANGED chan

(* The end of the scenario, which prints the token with its pages.          *)
ReuseDone(r, ans) ==
    /\ run' = [run EXCEPT ![r].reuseSc = ans.status]
    /\ pc' = [pc EXCEPT ![r] = "done"]
    /\ printed' = printed \cup ({run[r].reuseCp} \ {NoCp})
    /\ UNCHANGED chan

OneShotDone(r, ans) ==
    /\ printed' = printed \cup ({ans.cp} \ {NoCp})
    /\ run' = [run EXCEPT ![r].last = ans.status]
    /\ pc' = [pc EXCEPT ![r] = "done"]
    /\ UNCHANGED chan

CallDone(r, ans) ==
    /\ \/ pc[r] = "paging" /\ PageDone(r, ans)
       \/ pc[r] = "releasing" /\ ReleaseDone(r, ans)
       \/ pc[r] = "reusing" /\ ReuseDone(r, ans)
       \/ pc[r] = "oneshot" /\ OneShotDone(r, ans)
    /\ resp' = [resp EXCEPT ![r] = NoAnswer]
    /\ UNCHANGED <<cps, allocs, runs>>

Receive(r) == resp[r] # NoAnswer /\ CallDone(r, resp[r])

(* The call times out or its connection fails: whatever the server answered *)
(* is lost, and a request it has not handled stays with it.                 *)
ServiceFault(r) == CallDone(r, Fault)

(* The client process is killed.                                            *)
Kill(r) ==
    /\ pc[r] \in Active
    /\ pc' = [pc EXCEPT ![r] = "idle"]
    /\ resp' = [resp EXCEPT ![r] = NoAnswer]
    /\ run' = [run EXCEPT ![r] = IdleRun]
    /\ UNCHANGED <<cps, chan, printed, allocs, runs>>

(* A closed connection drops what the server has not handled.               *)
Disconnect(r) ==
    /\ pc[r] \in {"idle", "done"}
    /\ chan[r] # <<>>
    /\ chan' = [chan EXCEPT ![r] = <<>>]
    /\ UNCHANGED <<cps, resp, pc, run, printed, allocs, runs>>

Next ==
    \E r \in Readers :
        \/ Serve(r)
        \/ \E w \in Windows, n \in PageSizes : StartContinue(r, w, n)
        \/ \E hist, release \in BOOLEAN, w \in Windows, n \in PageSizes,
              cp \in Tokens : OneShot(r, hist, w, n, cp, release)
        \/ Receive(r)
        \/ ServiceFault(r)
        \/ Kill(r)
        \/ Disconnect(r)

(* A request timeout ends every call that the server does not answer.       *)
Fairness == \A r \in Readers : WF_vars(Receive(r) \/ ServiceFault(r))

Spec == Init /\ [][Next]_vars /\ Fairness

-----------------------------------------------------------------------------
(* Properties.                                                              *)

Requests == [hist : BOOLEAN, win : AllWindows, num : Nat, cp : Tokens,
             release : BOOLEAN]

Answers == [status : Statuses, values : Seq(1..NumSamples),
            cp : {NoCp} \cup Slots]

Runs == [win : AllWindows, num : Nat, cp : {NoCp} \cup Slots,
         reuseCp : {NoCp} \cup Slots, pages : Nat,
         got : Seq(1..NumSamples), last : Statuses,
         releaseSc : Statuses, reuseSc : Statuses]

(* Type correctness of the historian's table and of the client's locals; it *)
(* includes that every sample served is one the historian has, whatever     *)
(* offset a shared slot supplies to whatever window.                        *)
TypeOK ==
    /\ cps \in [Slots -> [offset : Nat, inUse : BOOLEAN, released : BOOLEAN]]
    /\ chan \in [Readers -> Seq(Requests)]
    /\ resp \in [Readers -> Answers \cup {NoAnswer}]
    /\ pc \in [Readers -> Active \cup {"idle", "done"}]
    /\ run \in [Readers -> Runs]
    /\ printed \subseteq Slots
    /\ allocs \in Nat
    /\ runs \in Nat

Scenario(r) == pc[r] \in {"paging", "releasing", "reusing"}

(* A continue scenario shows its window's samples in order, without a gap   *)
(* and without a repetition, whatever the other clients do, while no more   *)
(* continuation points have been issued than the table has slots            *)
(* (interop_hist_read_raw with the page loop of cmd_history_read).          *)
PagesInOrder ==
    allocs <= NumSlots =>
        \A r \in Readers :
            (Scenario(r) \/ (pc[r] = "done" /\ run[r].pages > 0)) =>
                /\ run[r].got = Seg(run[r].win.lo, Len(run[r].got))
                /\ Len(run[r].got) <= MatchedCount(run[r].win)

(* A continue scenario that exits 0 has shown the whole window: the page    *)
(* limit never cuts it short unnoticed (the verdict `ok` of                 *)
(* cmd_history_read, client.c), while the table has not overflowed.         *)
ExitZeroComplete ==
    allocs <= NumSlots =>
        \A r \in Readers :
            (pc[r] = "done" /\ run[r].pages > 0 /\ run[r].last = "Good") =>
                Len(run[r].got) = MatchedCount(run[r].win)

(* If the release of the last continuation point was confirmed, the reuse   *)
(* that follows is refused (releaseStatusCode and reuseAfterRelease of the  *)
(* scenario), with any late page request of the same client and any traffic *)
(* of the others in between, while the table has not overflowed.            *)
ReuseRefused ==
    allocs <= NumSlots =>
        \A r \in Readers :
            (pc[r] = "done" /\ run[r].reuseCp # NoCp
               /\ run[r].releaseSc = "Good") =>
                run[r].reuseSc \in {"BadContinuationPointInvalid", "BadService"}

(* A released continuation point never comes back to life while the table   *)
(* has not overflowed: no request of anyone, late or repeated, refreshes it *)
(* (the `released` test of interop_hist_read_raw).                          *)
ReleasedStaysReleased ==
    [][\A s \in Slots :
         (cps[s].released /\ allocs' <= NumSlots) => cps'[s].released]_vars

(* Every command that starts ends, even if the server never answers.        *)
CommandEnds ==
    \A r \in Readers : pc[r] \in Active ~> pc[r] \in {"idle", "done"}

(* The reading that the scenario of r shows to its user: the window, the    *)
(* samples, and the verdict once the page loop has ended.                   *)
View(r) ==
    IF Scenario(r) \/ (pc[r] = "done" /\ run[r].pages > 0)
    THEN [win |-> run[r].win, got |-> run[r].got,
          verdict |-> IF pc[r] = "paging" THEN "open"
                      ELSE IF run[r].last = "Good" THEN "whole" ELSE "failed"]
    ELSE [win |-> IdleRun.win, got |-> <<>>, verdict |-> "none"]

Private == INSTANCE HistoryCursor
               WITH view <- [r \in Readers |-> View(r)],
                    exhausted <- allocs > NumSlots

(* The shared table, with requests handled late and the release and reuse   *)
(* that follow the pages, implements a private cursor for each scenario:    *)
(* only the scenario's own pages change what it shows, by continuing where  *)
(* it stood, and the verdict of cmd_history_read is settled by the last     *)
(* page and never revised.                                                  *)
ImplementsCursor == Private!Spec

(* The comment on the table says its entries are local to a session         *)
(* ("Simple session-local CP table"): then a scenario would page in order   *)
(* however many continuation points other sessions have been issued.        *)
SessionLocalPages ==
    \A r \in Readers :
        (Scenario(r) \/ (pc[r] = "done" /\ run[r].pages > 0)) =>
            run[r].got = Seg(run[r].win.lo, Len(run[r].got))
=============================================================================
