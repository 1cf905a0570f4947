------------------------- MODULE HistoryReadProofs -------------------------
(***************************************************************************)
(* Proofs about HistoryRead for every number of clients, slots, samples and *)
(* commands: type correctness, the exactness of the continue scenario while *)
(* the table of continuation points has not overflowed, and that the shared *)
(* table implements the private cursors of HistoryCursor.                   *)
(***************************************************************************)
EXTENDS HistoryRead, SequenceTheorems, NaturalsInduction, WellFoundedInduction,
        TLAPS

(* The slots in use are the first `allocs` ones, and a slot is released     *)
(* only while in use.                                                       *)
TablePrefix ==
    \A s \in Slots : /\ cps[s].inUse <=> s <= allocs
                     /\ cps[s].released => cps[s].inUse

(* The slot t is that of a token r has, has put into a request or is sent.  *)
Uses(r, t) ==
    /\ t \in Slots
    /\ \/ t = run[r].reuseCp
       \/ t = resp[r].cp
       \/ \E i \in DOMAIN chan[r] : t = chan[r][i].cp

(* Every token was issued, and what a running scenario uses is printed      *)
(* nowhere and used by nobody else.                                         *)
Exclusive ==
    /\ \A t \in printed : t <= allocs
    /\ \A r \in Readers, t \in Slots : Uses(r, t) => t <= allocs
    /\ \A r \in Readers, t \in Slots :
          Scenario(r) /\ Uses(r, t) =>
              t \notin printed /\ \A p \in Readers \ {r} : ~Uses(p, t)

(* The pages shown so far are a prefix of the window.                       *)
Prefix(x) ==
    /\ x.got = Seg(x.win.lo, Len(x.got))
    /\ Len(x.got) <= MatchedCount(x.win)

(* What a good answer to a page request brings: the samples that follow     *)
(* those already shown, and a token only if there are more.                 *)
PageAnswer(r) ==
    LET x == run[r]
        a == resp[r]
        e == Len(x.got) + Len(a.values)
    IN /\ a.values = Seg(x.win.lo + Len(x.got), Len(a.values))
       /\ e <= MatchedCount(x.win)
       /\ a.cp = NoCp => e = MatchedCount(x.win)
       /\ a.cp # NoCp => /\ a.cp \in Slots
                         /\ Len(a.values) > 0
                         /\ e < MatchedCount(x.win)
                         /\ cps[a.cp].offset = e
                         /\ ~cps[a.cp].released

(* A client in the page loop: its cursor at the server agrees with what it  *)
(* has shown.                                                               *)
PagingInv(r) ==
    LET x == run[r] IN
    pc[r] = "paging" =>
        /\ Prefix(x)
        /\ x.num > 0
        /\ x.pages <= Len(x.got)
        /\ x.cp = NoCp => x.got = <<>> /\ x.reuseCp = NoCp
        /\ x.cp # NoCp => /\ x.reuseCp = x.cp
                          /\ Len(x.got) < MatchedCount(x.win)
        /\ \/ /\ chan[r] = <<PageRequest(x)>>
              /\ resp[r] = NoAnswer
              /\ x.cp # NoCp => /\ cps[x.cp].offset = Len(x.got)
                                /\ ~cps[x.cp].released
           \/ /\ chan[r] = <<>>
              /\ resp[r].status = "Good" /\ PageAnswer(r)
           \/ /\ chan[r] = <<>>
              /\ resp[r].status # "Good"
              /\ resp[r].values = <<>>
              /\ resp[r].cp = NoCp

(* A client past the page loop.                                             *)
ShownInv(r) ==
    (pc[r] \in {"releasing", "reusing"} \/ (pc[r] = "done" /\ run[r].pages > 0))
        => /\ Prefix(run[r])
           /\ run[r].last = "Good" =>
                Len(run[r].got) = MatchedCount(run[r].win)

(* A client that releases its last token and uses it again: once the        *)
(* release is confirmed the slot is released, so the reuse cannot be good.  *)
ReuseInv(r) ==
    LET x == run[r]
        n == Len(chan[r])
    IN /\ pc[r] \in {"releasing", "reusing"} =>
             /\ x.reuseCp \in Slots
             /\ chan[r] # <<>> => resp[r] = NoAnswer
       /\ pc[r] = "releasing" =>
             /\ chan[r] # <<>> => chan[r][n] = ReleaseRequest(x)
             /\ resp[r].status = "Good" => cps[x.reuseCp].released
       /\ pc[r] = "reusing" =>
             /\ chan[r] # <<>> => chan[r][n] = ReuseRequest(x)
             /\ x.releaseSc = "Good" =>
                  /\ cps[x.reuseCp].released
                  /\ resp[r].status \notin
                        {"Good", "BadHistoryOperationUnsupported"}
       /\ (pc[r] = "done" /\ x.reuseCp # NoCp /\ x.releaseSc = "Good") =>
             x.reuseSc \in {"BadContinuationPointInvalid", "BadService"}

(* Outside a scenario the locals are those of no scenario.                  *)
OtherInv(r) ==
    pc[r] \in {"idle", "oneshot"} =>
        run[r].pages = 0 /\ run[r].reuseCp = NoCp

(* Between commands no answer is on its way.                                *)
QuietInv(r) == pc[r] \in {"idle", "done"} => resp[r] = NoAnswer

ReaderInv(r) ==
    /\ PagingInv(r)
    /\ ShownInv(r)
    /\ ReuseInv(r)
    /\ OtherInv(r)
    /\ QuietInv(r)

Cursor ==
    /\ TablePrefix
    /\ Exclusive
    /\ \A r \in Readers : ReaderInv(r)

(* The inductive invariant.                                                 *)
IInv == TypeOK /\ (allocs <= NumSlots => Cursor)

-----------------------------------------------------------------------------
(* Facts about the operators of the model.                                  *)

(* A segment of n samples is a sequence of n samples.                       *)
LEMMA SegIsSeq ==
    ASSUME NEW first \in 1..(NumSamples + 1), NEW n \in Nat,
           first + n <= NumSamples + 1
    PROVE  Seg(first, n) \in Seq(1..NumSamples) /\ Len(Seg(first, n)) = n
<1>1. \A k \in 1..n : first + k - 1 \in 1..NumSamples
  BY SamplesAssumption
<1>. QED  BY <1>1, SamplesAssumption DEF Seg

(* A page that starts where the last one ended extends the segment.         *)
LEMMA SegConcat ==
    ASSUME NEW first \in Nat, NEW m \in Nat, NEW n \in Nat
    PROVE  Seg(first, m) \o Seg(first + m, n) = Seg(first, m + n)
<1>1. Seg(first, m) \in Seq(Int) /\ Len(Seg(first, m)) = m
  BY DEF Seg
<1>2. Seg(first + m, n) \in Seq(Int) /\ Len(Seg(first + m, n)) = n
  BY DEF Seg
<1>3. Seg(first, m + n) \in Seq(Int) /\ Len(Seg(first, m + n)) = m + n
  BY DEF Seg
<1>4. Seg(first, m) \o Seg(first + m, n) \in Seq(Int)
      /\ Len(Seg(first, m) \o Seg(first + m, n)) = m + n
  BY <1>1, <1>2, ConcatProperties
<1>5. ASSUME NEW k \in 1..(m + n)
      PROVE  (Seg(first, m) \o Seg(first + m, n))[k] = Seg(first, m + n)[k]
  <2>1. Seg(first, m + n)[k] = first + k - 1
    BY DEF Seg
  <2>2. CASE k <= m
    <3>1. Seg(first, m)[k] = first + k - 1
      BY <2>2 DEF Seg
    <3>. QED  BY <1>1, <1>2, <2>1, <2>2, <3>1
  <2>3. CASE k > m
    <3>1. k - m \in 1..n
      BY <2>3
    <3>2. Seg(first + m, n)[k - m] = first + k - 1
      BY <3>1 DEF Seg
    <3>. QED  BY <1>1, <1>2, <2>1, <2>3, <3>2
  <2>4. k <= m \/ k > m
    OBVIOUS
  <2>. QED  BY <2>2, <2>3, <2>4, Zenon
<1>. QED  BY <1>3, <1>4, <1>5, SeqEqual

(* Taking the head of a sequence leaves its last element.                   *)
LEMMA TailFacts ==
    ASSUME NEW S, NEW s \in Seq(S), s # <<>>
    PROVE  /\ Head(s) = s[1]
           /\ Len(s) # 1 => Tail(s)[Len(Tail(s))] = s[Len(s)]
           /\ Len(s) = 1 => Tail(s) = <<>>
<1>1. Len(s) \in Nat \ {0}
  OBVIOUS
<1>2. Tail(s) \in Seq(S) /\ Len(Tail(s)) = Len(s) - 1
      /\ \A i \in 1..Len(Tail(s)) : Tail(s)[i] = s[i + 1]
  BY HeadTailProperties
<1>3. Len(s) # 1 => Tail(s)[Len(Tail(s))] = s[Len(s)]
  BY <1>1, <1>2
<1>4. Len(s) = 1 => Tail(s) = <<>>
  <2>. SUFFICES ASSUME Len(s) = 1 PROVE Tail(s) = <<>>
    OBVIOUS
  <2>1. Len(Tail(s)) = 0
    BY <1>2
  <2>. QED  BY <1>2, <2>1, EmptySeq
<1>5. Head(s) = s[1]
  OBVIOUS
<1>. QED  BY <1>3, <1>4, <1>5, Zenon

(* A window of the historian has between 0 and NumSamples matches.          *)
LEMMA MatchedCountType ==
    ASSUME NEW w \in AllWindows
    PROVE  /\ MatchedCount(w) \in 0..NumSamples
           /\ w.lo \in 1..(NumSamples + 1)
           /\ MatchedCount(w) > 0 => w.lo + MatchedCount(w) <= NumSamples + 1
BY SamplesAssumption DEF AllWindows, MatchedCount

(* A non-empty set of numbers has a smallest element.                       *)
LEMMA SmallestElement ==
    ASSUME NEW S \in SUBSET Nat, S # {}
    PROVE  \E s \in S : \A t \in S : s <= t
<1>. DEFINE R == OpToRel(<, Nat)
<1>1. IsWellFoundedOn(R, Nat)
  BY NatLessThanWellFounded
<1>2. \E s \in S : \A t \in S : ~(<<t, s>> \in R)
  BY <1>1, WFMin
<1>3. PICK s \in S : \A t \in S : ~(<<t, s>> \in R)
  BY <1>2
<1>4. ASSUME NEW t \in S PROVE s <= t
  <2>1. ~(<<t, s>> \in {ss \in Nat \X Nat : ss[1] < ss[2]})
    BY <1>3, Zenon DEF OpToRel
  <2>. QED  BY <2>1
<1>. QED  BY <1>4

(* The slot search always ends at a slot.                                   *)
LEMMA SlotForType ==
    ASSUME NEW q
    PROVE  SlotFor(q) \in Slots
<1>1. 1 \in Slots
  BY SlotsAssumption DEF Slots
<1>2. CASE Eligible(q) = {}
  BY <1>1, <1>2 DEF SlotFor
<1>3. CASE Eligible(q) # {}
  <2>1. Eligible(q) \subseteq Nat
    BY SlotsAssumption DEF Eligible, Slots
  <2>2. PICK s \in Eligible(q) : \A t \in Eligible(q) : s <= t
    BY <1>3, <2>1, SmallestElement
  <2>. QED  BY <1>3, <2>2 DEF SlotFor, Eligible
<1>. QED  BY <1>2, <1>3

(* What a readable page is: it lies inside the window, and it is not empty  *)
(* if the window goes on behind it.                                         *)
LEMMA PageFacts ==
    ASSUME TypeOK, NEW q \in Requests, PageReadable(q)
    PROVE  /\ PageOffset(q) \in Nat /\ PageEnd(q) \in Nat
           /\ PageOffset(q) <= PageEnd(q)
           /\ PageEnd(q) <= MatchedCount(q.win)
           /\ PageEnd(q) < MatchedCount(q.win) => PageOffset(q) < PageEnd(q)
           /\ PageValues(q) \in Seq(1..NumSamples)
           /\ Len(PageValues(q)) = PageEnd(q) - PageOffset(q)
<1>1. /\ MatchedCount(q.win) \in 0..NumSamples
      /\ q.win.lo \in 1..(NumSamples + 1)
      /\ MatchedCount(q.win) > 0 =>
           q.win.lo + MatchedCount(q.win) <= NumSamples + 1
  <2>. q.win \in AllWindows
    BY DEF Requests
  <2>. QED  BY MatchedCountType
<1>2. PageOffset(q) \in Nat
  BY DEF TypeOK, PageOffset, PageReadable, CpValid
<1>3. PageOffset(q) <= MatchedCount(q.win)
  BY DEF PageReadable
<1>4. q.num \in Nat
  BY DEF Requests
<1>5. PageNum(q) \in Nat /\ (PageNum(q) = 0 => MatchedCount(q.win) = 0)
  BY <1>1, <1>4 DEF PageNum
<1>6. /\ PageEnd(q) \in Nat
      /\ PageOffset(q) <= PageEnd(q)
      /\ PageEnd(q) <= MatchedCount(q.win)
      /\ PageEnd(q) < MatchedCount(q.win) => PageOffset(q) < PageEnd(q)
  BY <1>1, <1>2, <1>3, <1>5 DEF PageEnd
<1>7. /\ q.win.lo + PageOffset(q) \in 1..(NumSamples + 1)
      /\ PageEnd(q) - PageOffset(q) \in Nat
      /\ q.win.lo + PageOffset(q) + (PageEnd(q) - PageOffset(q)) <= NumSamples + 1
  BY <1>1, <1>2, <1>3, <1>6, SamplesAssumption
<1>. QED  BY <1>2, <1>6, <1>7, SegIsSeq DEF PageValues

-----------------------------------------------------------------------------
(* Type correctness.                                                        *)

(* The locals of a command that has read nothing yet are well typed.        *)
LEMMA IdleRunType == IdleRun \in Runs
BY SamplesAssumption DEF IdleRun, Runs, Statuses, NoCp, AllWindows

(* An empty table and idle clients are well typed.                          *)
LEMMA TypeInit == Init => TypeOK
BY SamplesAssumption, SlotsAssumption
   DEF Init, TypeOK, Slots, NoAnswer, Answers, IdleRun, Runs, AllWindows,
       NoCp, Statuses, Active

(* The server's answer leaves every channel well typed.                     *)
LEMMA ReplyType ==
    ASSUME TypeOK, NEW r \in Readers, NEW ans \in Answers, chan[r] # <<>>,
           Reply(r, ans)
    PROVE  /\ chan' \in [Readers -> Seq(Requests)]
           /\ resp' \in [Readers -> Answers \cup {NoAnswer}]
           /\ UNCHANGED <<pc, run, printed, runs>>
<1>1. Tail(chan[r]) \in Seq(Requests)
  BY HeadTailProperties DEF TypeOK
<1>. QED  BY <1>1 DEF TypeOK, Reply

(* Handling one request keeps the table and the channels well typed.        *)
LEMMA ServeType ==
    ASSUME TypeOK, NEW r \in Readers, Serve(r)
    PROVE  TypeOK'
<1>. DEFINE q == Head(chan[r])
<1>1. chan[r] # <<>>
  BY DEF Serve, ServeUnsupported, ServeInvalidCp, ServeRelease, ServeLastPage,
         ServePage
<1>2. q \in Requests
  BY <1>1, HeadTailProperties DEF TypeOK
<1>. HIDE DEF q
<1>3. \A st \in Statuses : Answer(st, <<>>, NoCp) \in Answers
  BY DEF Answer, Answers, NoCp
<1>4. CASE ServeUnsupported(r)
  <2>1. Answer("BadHistoryOperationUnsupported", <<>>, NoCp) \in Answers
    BY <1>3 DEF Statuses
  <2>. QED  BY <1>1, <1>4, <2>1, ReplyType DEF ServeUnsupported, TypeOK
<1>5. CASE ServeInvalidCp(r)
  <2>1. Answer("BadContinuationPointInvalid", <<>>, NoCp) \in Answers
    BY <1>3 DEF Statuses
  <2>. QED  BY <1>1, <1>5, <2>1, ReplyType DEF ServeInvalidCp, TypeOK
<1>6. CASE ServeRelease(r)
  <2>1. Answer("Good", <<>>, NoCp) \in Answers
    BY <1>3 DEF Statuses
  <2>2. cps' \in [Slots -> [offset : Nat, inUse : BOOLEAN, released : BOOLEAN]]
    BY <1>6 DEF ServeRelease, TypeOK, CpValid, q
  <2>. QED  BY <1>1, <1>6, <2>1, <2>2, ReplyType DEF ServeRelease, TypeOK
<1>7. CASE ServeLastPage(r)
  <2>1. PageReadable(q) /\ Reply(r, Answer("Good", PageValues(q), NoCp))
    BY <1>7 DEF ServeLastPage, q
  <2>2. Answer("Good", PageValues(q), NoCp) \in Answers
    BY <1>2, <2>1, PageFacts DEF Answer, Answers, Statuses, NoCp
  <2>. QED  BY <1>1, <1>7, <2>1, <2>2, ReplyType DEF ServeLastPage, TypeOK
<1>8. CASE ServePage(r)
  <2>1. /\ PageReadable(q) /\ Reply(r, Answer("Good", PageValues(q), SlotFor(q)))
        /\ cps' = [cps EXCEPT ![SlotFor(q)] =
                      [offset |-> PageEnd(q), inUse |-> TRUE,
                       released |-> FALSE]]
        /\ allocs' = IF q.cp = NoCp THEN allocs + 1 ELSE allocs
    BY <1>8 DEF ServePage, q
  <2>2. SlotFor(q) \in Slots
    BY SlotForType
  <2>3. Answer("Good", PageValues(q), SlotFor(q)) \in Answers
    BY <1>2, <2>1, <2>2, PageFacts DEF Answer, Answers, Statuses
  <2>4. PageEnd(q) \in Nat
    BY <1>2, <2>1, PageFacts
  <2>. QED  BY <1>1, <2>1, <2>2, <2>3, <2>4, ReplyType DEF TypeOK
<1>. QED  BY <1>4, <1>5, <1>6, <1>7, <1>8 DEF Serve

(* The end of a call, answered or not, keeps the client well typed.         *)
LEMMA CallDoneType ==
    ASSUME TypeOK, NEW r \in Readers, NEW ans \in Answers, CallDone(r, ans)
    PROVE  TypeOK'
<1>. run[r] \in Runs /\ chan[r] \in Seq(Requests)
  BY DEF TypeOK
<1>1. ans.status \in Statuses
  BY DEF Answers
<1>2. resp' \in [Readers -> Answers \cup {NoAnswer}]
      /\ UNCHANGED <<cps, allocs, runs>>
  BY DEF CallDone, TypeOK
<1>3. CASE pc[r] = "paging" /\ PageDone(r, ans)
  <2>. DEFINE x == AfterPage(run[r], ans)
  <2>1. run[r].got \o ans.values \in Seq(1..NumSamples)
    BY ConcatProperties DEF Runs, Answers
  <2>2. x \in Runs
    <3>. DEFINE cp == IF ans.cp = NoCp THEN run[r].reuseCp ELSE ans.cp
    <3>1. cp \in {NoCp} \cup Slots /\ run[r].pages + 1 \in Nat
      BY DEF Runs, Answers
    <3>2. x = [run[r] EXCEPT !.pages = run[r].pages + 1,
                             !.got = run[r].got \o ans.values,
                             !.last = ans.status, !.cp = ans.cp, !.reuseCp = cp]
      BY DEF AfterPage, Runs
    <3>. HIDE DEF x, cp
    <3>. QED  BY <2>1, <3>1, <3>2 DEF Runs, Answers
  <2>3. PageRequest(x) \in Requests /\ ReleaseRequest(x) \in Requests
    BY <2>2, SlotsAssumption
       DEF PageRequest, ReleaseRequest, Request, Requests, Runs, Tokens, NoCp, Slots
  <2>4. run' = [run EXCEPT ![r] = x] /\ UNCHANGED printed
    BY <1>3 DEF PageDone
  <2>5. \/ Send(r, PageRequest(x)) /\ UNCHANGED pc
        \/ Send(r, ReleaseRequest(x)) /\ pc' = [pc EXCEPT ![r] = "releasing"]
        \/ UNCHANGED chan /\ pc' = [pc EXCEPT ![r] = "done"]
    BY <1>3 DEF PageDone
  <2>. HIDE DEF x
  <2>6. chan' \in [Readers -> Seq(Requests)]
    <3>1. \A y \in Requests : Append(chan[r], y) \in Seq(Requests)
      BY AppendProperties
    <3>. QED  BY <2>3, <2>5, <3>1 DEF Send, TypeOK
  <2>7. pc' \in [Readers -> Active \cup {"idle", "done"}]
    BY <2>5 DEF TypeOK, Active
  <2>. QED  BY <1>2, <2>2, <2>4, <2>6, <2>7 DEF TypeOK
<1>4. CASE pc[r] = "releasing" /\ ReleaseDone(r, ans)
  <2>1. ReuseRequest(run[r]) \in Requests
    BY SlotsAssumption DEF ReuseRequest, Request, Requests, Runs, Tokens, NoCp, Slots
  <2>2. chan' \in [Readers -> Seq(Requests)]
    BY <1>4, <2>1, AppendProperties DEF ReleaseDone, Send, TypeOK
  <2>3. run' \in [Readers -> Runs]
    BY <1>1, <1>4 DEF ReleaseDone, TypeOK, Runs
  <2>. QED  BY <1>2, <1>4, <2>2, <2>3 DEF ReleaseDone, TypeOK, Active
<1>5. CASE pc[r] = "reusing" /\ ReuseDone(r, ans)
  <2>1. run' \in [Readers -> Runs]
    BY <1>1, <1>5 DEF ReuseDone, TypeOK, Runs
  <2>2. printed' \subseteq Slots
    BY <1>5 DEF ReuseDone, TypeOK, Runs
  <2>. QED  BY <1>2, <1>5, <2>1, <2>2 DEF ReuseDone, TypeOK, Active
<1>6. CASE pc[r] = "oneshot" /\ OneShotDone(r, ans)
  <2>1. run' \in [Readers -> Runs]
    BY <1>1, <1>6 DEF OneShotDone, TypeOK, Runs
  <2>2. printed' \subseteq Slots
    BY <1>6 DEF OneShotDone, TypeOK, Answers
  <2>. QED  BY <1>2, <1>6, <2>1, <2>2 DEF OneShotDone, TypeOK, Active
<1>. QED  BY <1>3, <1>4, <1>5, <1>6 DEF CallDone

(* Every step keeps the types.                                              *)
LEMMA TypeNext == TypeOK /\ [Next]_vars => TypeOK'
<1>. SUFFICES ASSUME TypeOK, [Next]_vars PROVE TypeOK'
  OBVIOUS
<1>. USE DEF Active
<1>1. CASE UNCHANGED vars
  BY <1>1 DEF vars, TypeOK
<1>2. ASSUME NEW r \in Readers, Serve(r) PROVE TypeOK'
  BY <1>2, ServeType
<1>3. ASSUME NEW r \in Readers, NEW w \in Windows, NEW n \in PageSizes,
             StartContinue(r, w, n)
      PROVE  TypeOK'
  <2>. DEFINE num == IF n = 0 THEN 2 ELSE n
  <2>1. num \in Nat /\ w \in AllWindows
    BY SizesAssumption, WindowsAssumption
  <2>. DEFINE q == Request(TRUE, w, num, NoCp, FALSE)
              x == [IdleRun EXCEPT !.win = w, !.num = num]
  <2>2. /\ run' = [run EXCEPT ![r] = x]
        /\ chan' = [chan EXCEPT ![r] = <<q>>]
        /\ pc' = [pc EXCEPT ![r] = "paging"]
        /\ runs' = runs + 1
        /\ UNCHANGED <<cps, resp, printed, allocs>>
    BY <1>3, Zenon DEF StartContinue
  <2>. HIDE DEF num
  <2>3. x \in Runs
    BY <2>1, IdleRunType DEF Runs
  <2>4. q \in Requests
    BY <2>1, SlotsAssumption DEF Request, Requests, NoCp, Tokens
  <2>. HIDE DEF q, x
  <2>5. <<q>> \in Seq(Requests)
    BY <2>4
  <2>. QED  BY <2>2, <2>3, <2>5 DEF TypeOK
<1>4. ASSUME NEW r \in Readers, NEW hist \in BOOLEAN, NEW release \in BOOLEAN,
             NEW w \in Windows, NEW n \in PageSizes, NEW cp \in Tokens,
             OneShot(r, hist, w, n, cp, release)
      PROVE  TypeOK'
  <2>1. n \in Nat /\ w \in AllWindows
    BY SizesAssumption, WindowsAssumption
  <2>2. IdleRun \in Runs
    BY IdleRunType
  <2>3. Request(hist, w, n, cp, release) \in Requests
    BY <2>1 DEF Request, Requests
  <2>4. <<Request(hist, w, n, cp, release)>> \in Seq(Requests)
    BY <2>3
  <2>. QED  BY <1>4, <2>2, <2>4 DEF OneShot, TypeOK
<1>5. ASSUME NEW r \in Readers, Receive(r) PROVE TypeOK'
  <2>1. resp[r] \in Answers /\ CallDone(r, resp[r])
    BY <1>5 DEF Receive, TypeOK
  <2>. QED  BY <2>1, CallDoneType
<1>6. ASSUME NEW r \in Readers, ServiceFault(r) PROVE TypeOK'
  <2>1. Fault \in Answers
    BY DEF Fault, Answer, Answers, Statuses, NoCp
  <2>. QED  BY <1>6, <2>1, CallDoneType DEF ServiceFault
<1>7. ASSUME NEW r \in Readers, Kill(r) PROVE TypeOK'
  BY <1>7, IdleRunType DEF Kill, TypeOK
<1>8. ASSUME NEW r \in Readers, Disconnect(r) PROVE TypeOK'
  BY <1>8 DEF Disconnect, TypeOK
<1>. QED  BY <1>1, <1>2, <1>3, <1>4, <1>5, <1>6, <1>7, <1>8 DEF Next

(* The historian serves only samples it has, and the table and the client's *)
(* locals stay well typed, with any number of clients and commands.         *)
THEOREM TypeCorrect == Spec => []TypeOK
BY TypeInit, TypeNext, PTL DEF Spec

-----------------------------------------------------------------------------
(* The slot search while the table has not overflowed.                      *)

(* A token presented is refreshed in its own slot.                          *)
LEMMA SlotForRefresh ==
    ASSUME TypeOK, TablePrefix, NEW q, CpValid(q.cp)
    PROVE  SlotFor(q) = q.cp
<1>1. q.cp \in Eligible(q) /\ q.cp <= allocs
  BY DEF Eligible, CpValid, TablePrefix
<1>2. \A t \in Eligible(q) : t \in Int /\ q.cp <= t
  BY <1>1, SlotsAssumption DEF Eligible, TablePrefix, TypeOK, Slots
<1>3. SlotFor(q) = CHOOSE s \in Eligible(q) : \A t \in Eligible(q) : s <= t
  BY <1>1 DEF SlotFor
<1>4. ASSUME NEW s \in Eligible(q), \A t \in Eligible(q) : s <= t
      PROVE  s = q.cp
  <2>1. s <= q.cp /\ q.cp <= s /\ s \in Int /\ q.cp \in Int
    BY <1>1, <1>2, <1>4
  <2>. QED  BY <2>1
<1>. QED  BY <1>1, <1>2, <1>3, <1>4

(* A newcomer gets the slot after those in use.                             *)
LEMMA SlotForNew ==
    ASSUME TypeOK, TablePrefix, NEW q, q.cp = NoCp, allocs < NumSlots
    PROVE  SlotFor(q) = allocs + 1
<1>. DEFINE a == allocs + 1
<1>0. allocs \in Nat /\ NumSlots \in Nat
  BY SlotsAssumption DEF TypeOK
<1>1. a \in Slots /\ ~(a <= allocs)
  BY <1>0 DEF Slots
<1>2. a \in Eligible(q)
  BY <1>1 DEF Eligible, TablePrefix
<1>3. \A t \in Eligible(q) : t \in Int /\ a <= t
  <2>. SUFFICES ASSUME NEW t \in Eligible(q) PROVE t \in Int /\ a <= t
    OBVIOUS
  <2>1. t \in Slots /\ t # 0 /\ t \in Int
    BY DEF Eligible, Slots
  <2>2. ~cps[t].inUse
    BY <2>1 DEF Eligible, NoCp
  <2>3. ~(t <= allocs)
    BY <2>1, <2>2 DEF TablePrefix
  <2>. QED  BY <1>0, <2>1, <2>3
<1>4. SlotFor(q) = CHOOSE s \in Eligible(q) : \A t \in Eligible(q) : s <= t
  BY <1>2 DEF SlotFor
<1>5. ASSUME NEW s \in Eligible(q), \A t \in Eligible(q) : s <= t
      PROVE  s = a
  <2>1. s <= a /\ a <= s /\ s \in Int /\ a \in Int
    BY <1>2, <1>3, <1>5
  <2>. QED  BY <2>1
<1>. HIDE DEF a
<1>6. SlotFor(q) = a
  BY <1>2, <1>3, <1>4, <1>5
<1>. QED  BY <1>6 DEF a

-----------------------------------------------------------------------------
(* The inductive invariant.                                                 *)

(* With no continuation point issued, every cursor is exact.                *)
LEMMA CursorInit == Init => IInv
<1>. SUFFICES ASSUME Init PROVE IInv
  OBVIOUS
<1>1. TypeOK
  BY TypeInit
<1>2. TablePrefix
  BY SlotsAssumption DEF Init, TablePrefix, Slots
<1>3. Exclusive
  <2>1. \A r \in Readers, t \in Slots : ~Uses(r, t)
    BY DEF Init, Uses, IdleRun, NoAnswer, NoCp, Slots
  <2>. QED  BY <2>1 DEF Init, Exclusive
<1>4. ASSUME NEW r \in Readers PROVE ReaderInv(r)
  BY <1>4, SlotsAssumption
     DEF Init, ReaderInv, PagingInv, ShownInv, ReuseInv,
         OtherInv, QuietInv, IdleRun, NoAnswer, NoCp, Slots
<1>. QED  BY <1>1, <1>2, <1>3, <1>4 DEF IInv, Cursor

(* A step that leaves a client and the slots its scenario uses alone keeps  *)
(* what holds of the client.                                                *)
LEMMA Frame ==
    ASSUME TypeOK, NEW p \in Readers, ReaderInv(p),
           chan'[p] = chan[p], resp'[p] = resp[p], pc'[p] = pc[p],
           run'[p] = run[p],
           \A t \in Slots : Scenario(p) /\ Uses(p, t) => cps'[t] = cps[t]
    PROVE  ReaderInv(p)'
<1>1. PagingInv(p)'
  <2>1. PagingInv(p) /\ run[p] \in Runs
    BY DEF ReaderInv, TypeOK
  <2>2. run[p].cp # NoCp /\ pc[p] = "paging" => cps'[run[p].cp] = cps[run[p].cp]
    BY <2>1 DEF PagingInv, Uses, Runs, Scenario
  <2>3. resp[p].cp \in Slots /\ pc[p] = "paging"
          => cps'[resp[p].cp] = cps[resp[p].cp]
    BY DEF Uses, Scenario
  <2>4. pc[p] = "paging" /\ PageAnswer(p) => PageAnswer(p)'
    BY <2>3 DEF PageAnswer
  <2>. QED  BY <2>1, <2>2, <2>4 DEF PagingInv, Prefix
<1>2. ShownInv(p)'
  BY DEF ReaderInv, ShownInv, Prefix
<1>3. ReuseInv(p)'
  <2>1. ReuseInv(p)
    BY DEF ReaderInv
  <2>2. pc[p] \in {"releasing", "reusing"} =>
          cps'[run[p].reuseCp] = cps[run[p].reuseCp]
    BY <2>1 DEF ReuseInv, Uses, Scenario
  <2>. QED  BY <2>1, <2>2 DEF ReuseInv
<1>4. OtherInv(p)' /\ QuietInv(p)'
  BY DEF ReaderInv, OtherInv, QuietInv
<1>. QED  BY <1>1, <1>2, <1>3, <1>4 DEF ReaderInv

(* What keeps the tokens of running scenarios to themselves: a client comes *)
(* to use only tokens it used, new ones, or, outside a scenario, printed    *)
(* ones; and a command prints only what it used, and then it is over.       *)
LEMMA Exclusion ==
    ASSUME TypeOK, TypeOK', Exclusive, NEW r \in Readers, allocs <= allocs',
           \A p \in Readers \ {r} :
              /\ chan'[p] = chan[p] /\ resp'[p] = resp[p]
              /\ pc'[p] = pc[p] /\ run'[p] = run[p],
           \A t \in Slots : Uses(r, t)' =>
              \/ Uses(r, t) /\ (Scenario(r)' => Scenario(r))
              \/ ~(t <= allocs) /\ t <= allocs'
              \/ t \in printed /\ ~Scenario(r)',
           \A t \in printed' : t \in printed \/ (Uses(r, t) /\ ~Scenario(r)')
    PROVE  Exclusive'
<1>1. /\ allocs \in Nat /\ allocs' \in Nat /\ Slots \subseteq Nat
      /\ printed \subseteq Slots /\ printed' \subseteq Slots
  BY DEF TypeOK, Slots
<1>2. \A p \in Readers \ {r}, t \in Slots :
         (Uses(p, t)' <=> Uses(p, t)) /\ (Scenario(p)' <=> Scenario(p))
  BY DEF Uses, Scenario
<1>3. \A t \in Slots : t <= allocs => t <= allocs'
  BY <1>1
<1>4. \A t \in printed' : t <= allocs'
  BY <1>1, <1>3 DEF Exclusive
<1>5. ASSUME NEW p \in Readers, NEW t \in Slots, Uses(p, t)'
      PROVE  t <= allocs'
  BY <1>1, <1>2, <1>3, <1>5 DEF Exclusive
<1>6. ASSUME NEW p \in Readers, NEW t \in Slots, Scenario(p)', Uses(p, t)'
      PROVE  t \notin printed' /\ \A o \in Readers \ {p} : ~Uses(o, t)'
  <2>1. CASE p = r
    <3>1. CASE Uses(r, t) /\ Scenario(r)
      <4>1. t \notin printed /\ \A o \in Readers \ {r} : ~Uses(o, t)
        BY <3>1 DEF Exclusive
      <4>2. t \notin printed'
        BY <1>6, <2>1, <4>1
      <4>. QED  BY <1>2, <2>1, <4>1, <4>2
    <3>2. CASE ~(t <= allocs)
      <4>1. t \notin printed /\ \A o \in Readers : ~Uses(o, t)
        BY <3>2 DEF Exclusive
      <4>2. t \notin printed'
        BY <1>6, <2>1, <4>1
      <4>. QED  BY <1>2, <2>1, <4>1, <4>2
    <3>. QED  BY <1>6, <2>1, <3>1, <3>2
  <2>2. CASE p # r
    <3>1. Scenario(p) /\ Uses(p, t) /\ p \in Readers \ {r}
      BY <1>2, <1>6, <2>2
    <3>2. t \notin printed /\ t <= allocs /\ \A o \in Readers \ {p} : ~Uses(o, t)
      BY <3>1 DEF Exclusive
    <3>3. ~Uses(r, t) /\ t \notin printed'
      BY <2>2, <3>2
    <3>4. ~Uses(r, t)'
      BY <3>2, <3>3
    <3>. QED  BY <1>2, <3>2, <3>3, <3>4
  <2>. QED  BY <2>1, <2>2
<1>. QED  BY <1>4, <1>5, <1>6 DEF Exclusive

(* A client whose request is handled comes to use no token but a new one.   *)
LEMMA ServeUses ==
    ASSUME TypeOK, TablePrefix, NEW r \in Readers, Serve(r), allocs' <= NumSlots,
           NEW t \in Slots, Uses(r, t)'
    PROVE  Uses(r, t) \/ (~(t <= allocs) /\ t <= allocs')
<1>. DEFINE q == Head(chan[r])
<1>1. PICK ans : /\ Reply(r, ans) /\ chan[r] # <<>>
                 /\ ans.cp = NoCp \/ (ServePage(r) /\ ans.cp = SlotFor(q))
  <2>1. CASE ServePage(r)
    <3>1. Reply(r, Answer("Good", PageValues(q), SlotFor(q))) /\ chan[r] # <<>>
      BY <2>1 DEF ServePage
    <3>2. Answer("Good", PageValues(q), SlotFor(q)).cp = SlotFor(q)
      BY DEF Answer
    <3>. QED  BY <2>1, <3>1, <3>2, Zenon
  <2>2. CASE ~ServePage(r)
    <3>1. PICK st, v : Reply(r, Answer(st, v, NoCp)) /\ chan[r] # <<>>
      BY <2>2, Zenon DEF Serve, ServeUnsupported, ServeInvalidCp, ServeRelease,
         ServeLastPage
    <3>2. Answer(st, v, NoCp).cp = NoCp
      BY DEF Answer
    <3>. QED  BY <3>1, <3>2, Zenon
  <2>. QED  BY <2>1, <2>2
<1>2. chan'[r] = Tail(chan[r]) /\ chan[r] \in Seq(Requests)
      /\ 1 \in DOMAIN chan[r] /\ q = chan[r][1]
  BY <1>1, HeadTailProperties DEF Reply, TypeOK
<1>3. \A i \in DOMAIN chan'[r] : i + 1 \in DOMAIN chan[r]
                                /\ chan'[r][i] = chan[r][i + 1]
  BY <1>1, <1>2, HeadTailProperties
<1>4. run'[r] = run[r] /\ (resp'[r] = resp[r] \/ resp'[r] = ans)
  BY <1>1 DEF Reply, TypeOK
<1>. HIDE DEF q
<1>5. CASE t # ans.cp
  BY <1>3, <1>4, <1>5 DEF Uses
<1>6. CASE t = ans.cp
  <2>1. ServePage(r) /\ t = SlotFor(q)
    BY <1>1, <1>6 DEF NoCp, Slots
  <2>2. CASE q.cp = NoCp
    <3>1. allocs' = allocs + 1 /\ allocs \in Nat /\ NumSlots \in Nat
      BY <2>1, <2>2, SlotsAssumption DEF ServePage, TypeOK, q
    <3>2. t = allocs + 1
      BY <2>1, <2>2, <3>1, SlotForNew
    <3>. QED  BY <3>1, <3>2
  <2>3. CASE q.cp # NoCp
    <3>1. CpValid(q.cp)
      BY <2>1, <2>3 DEF ServePage, PageReadable, q
    <3>2. t = q.cp
      BY <2>1, <3>1, SlotForRefresh
    <3>. QED  BY <1>2, <3>2 DEF Uses
  <2>. QED  BY <2>2, <2>3
<1>. QED  BY <1>5, <1>6

(* A client in the page loop whose request is handled gets the page that    *)
(* follows what it has shown.                                               *)
LEMMA ServePaging ==
    ASSUME TypeOK, TypeOK', TablePrefix, Exclusive, allocs' <= NumSlots,
           NEW r \in Readers, ReaderInv(r), Serve(r), pc[r] = "paging"
    PROVE  PagingInv(r)'
<1>. DEFINE x == run[r]
            q == Head(chan[r])
<1>1. PagingInv(r) /\ x \in Runs /\ chan[r] # <<>>
  BY DEF ReaderInv, TypeOK, Serve, ServeUnsupported, ServeInvalidCp,
         ServeRelease, ServeLastPage, ServePage
<1>2. /\ chan[r] = <<PageRequest(x)>>
      /\ x.cp # NoCp => cps[x.cp].offset = Len(x.got) /\ ~cps[x.cp].released
      /\ Prefix(x)
      /\ x.num > 0
      /\ x.pages <= Len(x.got)
      /\ x.cp = NoCp => x.got = <<>> /\ x.reuseCp = NoCp
      /\ x.cp # NoCp => x.reuseCp = x.cp /\ Len(x.got) < MatchedCount(x.win)
  BY <1>1 DEF PagingInv
<1>3. /\ q = PageRequest(x)
      /\ q.hist = TRUE /\ q.release = FALSE /\ q.cp = x.cp
      /\ q.win = x.win /\ q.num = x.num
  BY <1>2 DEF PageRequest, Request
<1>4. x.cp # NoCp => CpValid(x.cp)
  <2>. SUFFICES ASSUME x.cp # NoCp PROVE CpValid(x.cp)
    OBVIOUS
  <2>1. x.cp \in Slots /\ Uses(r, x.cp)
    BY <1>1, <1>2 DEF Runs, Uses
  <2>2. x.cp <= allocs
    BY <2>1 DEF Exclusive, TypeOK
  <2>. QED  BY <1>2, <2>1, <2>2 DEF CpValid, TablePrefix
<1>5. PageOffset(q) = Len(x.got)
  BY <1>2, <1>3 DEF PageOffset
<1>6. /\ x.got \in Seq(1..NumSamples) /\ x.win \in AllWindows
      /\ Len(x.got) \in Nat /\ Len(x.got) <= MatchedCount(x.win)
      /\ MatchedCount(x.win) \in Nat
  BY <1>1, <1>2, MatchedCountType DEF Runs, Prefix
<1>7. q \in Requests /\ PageReadable(q)
  BY <1>1, <1>3, <1>4, <1>5, <1>6, HeadTailProperties DEF PageReadable, TypeOK
<1>8. ServeLastPage(r) \/ ServePage(r)
  <2>1. ~ServeUnsupported(r) /\ ~ServeRelease(r)
    BY <1>3 DEF ServeUnsupported, ServeRelease
  <2>2. ~ServeInvalidCp(r)
    BY <1>3, <1>4, <1>5, <1>6 DEF ServeInvalidCp
  <2>. QED  BY <2>1, <2>2 DEF Serve
<1>9. /\ PageEnd(q) \in Nat
      /\ PageEnd(q) <= MatchedCount(q.win)
      /\ PageEnd(q) < MatchedCount(q.win) => PageOffset(q) < PageEnd(q)
      /\ PageOffset(q) <= PageEnd(q)
      /\ Len(PageValues(q)) = PageEnd(q) - PageOffset(q)
      /\ PageValues(q) = Seg(q.win.lo + PageOffset(q), PageEnd(q) - PageOffset(q))
  BY <1>7, PageFacts DEF PageValues
<1>10. ASSUME NEW ans, Reply(r, ans)
       PROVE  chan'[r] = <<>> /\ resp'[r] = ans /\ run'[r] = x /\ pc'[r] = pc[r]
  <2>1. Len(chan[r]) = 1 /\ Tail(chan[r]) = <<>>
    BY <1>2
  <2>. QED  BY <1>10, <2>1 DEF Reply, TypeOK, Active
<1>. HIDE DEF q, x
<1>11. /\ PageValues(q) = Seg(x.win.lo + Len(x.got), Len(PageValues(q)))
       /\ Len(x.got) + Len(PageValues(q)) = PageEnd(q)
       /\ MatchedCount(q.win) = MatchedCount(x.win)
       /\ PageEnd(q) < MatchedCount(x.win) => Len(PageValues(q)) > 0
  BY <1>3, <1>5, <1>6, <1>9
<1>12. CASE ServeLastPage(r)
  <2>1. /\ PageEnd(q) = MatchedCount(q.win)
        /\ Reply(r, Answer("Good", PageValues(q), NoCp))
    BY <1>12 DEF ServeLastPage, q
  <2>2. /\ chan'[r] = <<>> /\ run'[r] = x /\ pc'[r] = pc[r]
        /\ resp'[r].status = "Good" /\ resp'[r].values = PageValues(q)
        /\ resp'[r].cp = NoCp
    BY <2>1, <1>10 DEF Answer
  <2>3. PageAnswer(r)'
    BY <1>11, <1>9, <2>1, <2>2 DEF PageAnswer
  <2>. QED  BY <1>2, <2>2, <2>3 DEF PagingInv, Prefix
<1>13. CASE ServePage(r)
  <2>1. /\ PageEnd(q) < MatchedCount(q.win)
        /\ Reply(r, Answer("Good", PageValues(q), SlotFor(q)))
        /\ cps' = [cps EXCEPT ![SlotFor(q)] =
                      [offset |-> PageEnd(q), inUse |-> TRUE,
                       released |-> FALSE]]
    BY <1>13 DEF ServePage, q
  <2>2. SlotFor(q) \in Slots /\ SlotFor(q) # NoCp
    BY SlotForType DEF Slots, NoCp
  <2>3. /\ chan'[r] = <<>> /\ run'[r] = x /\ pc'[r] = pc[r]
        /\ resp'[r].status = "Good" /\ resp'[r].values = PageValues(q)
        /\ resp'[r].cp = SlotFor(q)
    BY <2>1, <1>10 DEF Answer
  <2>4. cps'[SlotFor(q)].offset = PageEnd(q) /\ ~cps'[SlotFor(q)].released
    BY <2>1, <2>2 DEF TypeOK
  <2>5. PageAnswer(r)'
    BY <1>11, <1>9, <2>1, <2>2, <2>3, <2>4 DEF PageAnswer
  <2>. QED  BY <1>2, <2>3, <2>5 DEF PagingInv, Prefix
<1>. QED  BY <1>8, <1>12, <1>13

(* What handling a request of r does to the table: it stays a prefix, the   *)
(* slots of the others' scenarios are untouched, and no slot is un-released.*)
LEMMA ServeTable ==
    ASSUME TypeOK, TypeOK', TablePrefix, Exclusive, allocs' <= NumSlots,
           NEW r \in Readers, Serve(r)
    PROVE  /\ TablePrefix' /\ allocs <= allocs'
           /\ \A p \in Readers \ {r}, t \in Slots :
                 Scenario(p) /\ Uses(p, t) => cps'[t] = cps[t]
           /\ \A s \in Slots : cps[s].released => cps'[s].released
<1>. DEFINE q == Head(chan[r])
<1>1. allocs \in Nat /\ NumSlots \in Nat
      /\ cps \in [Slots -> [offset : Nat, inUse : BOOLEAN, released : BOOLEAN]]
  BY SlotsAssumption DEF TypeOK
<1>2. chan[r] # <<>>
  BY DEF Serve, ServeUnsupported, ServeInvalidCp, ServeRelease, ServeLastPage,
         ServePage
<1>3. \A p \in Readers \ {r}, t \in Slots :
         Scenario(p) /\ Uses(p, t) => t # q.cp /\ t <= allocs
  <2>1. 1 \in DOMAIN chan[r] /\ q = chan[r][1]
    BY <1>2 DEF TypeOK
  <2>2. q.cp \in Slots => Uses(r, q.cp)
    BY <2>1 DEF Uses
  <2>. QED  BY <2>2 DEF Exclusive
<1>. HIDE DEF q
<1>4. CASE UNCHANGED <<cps, allocs>>
  BY <1>1, <1>4 DEF TablePrefix
<1>5. CASE ServeRelease(r) /\ q.cp = NoCp
  BY <1>4, <1>5 DEF ServeRelease, q
<1>6. CASE ServeRelease(r) /\ q.cp # NoCp
  <2>1. /\ CpValid(q.cp) /\ UNCHANGED allocs
        /\ cps' = [cps EXCEPT ![q.cp].released = TRUE]
    BY <1>6 DEF ServeRelease, q
  <2>2. q.cp \in Slots /\ cps[q.cp].inUse
    BY <2>1 DEF CpValid
  <2>3. \A s \in Slots : /\ cps'[s].inUse = cps[s].inUse
                         /\ s # q.cp => cps'[s] = cps[s]
                         /\ cps'[q.cp].released
    BY <1>1, <2>1, <2>2
  <2>4. TablePrefix'
    BY <2>1, <2>2, <2>3 DEF TablePrefix
  <2>. QED  BY <1>1, <1>3, <2>1, <2>3, <2>4
<1>7. CASE ServePage(r)
  <2>. DEFINE k == SlotFor(q)
  <2>1. /\ PageReadable(q)
        /\ cps' = [cps EXCEPT ![k] =
                      [offset |-> PageEnd(q), inUse |-> TRUE,
                       released |-> FALSE]]
        /\ allocs' = IF q.cp = NoCp THEN allocs + 1 ELSE allocs
    BY <1>7 DEF ServePage, q
  <2>2. /\ k \in Slots /\ allocs <= allocs'
        /\ \A s \in Slots : s <= allocs' <=> s <= allocs \/ s = k
        /\ k = q.cp \/ ~(k <= allocs)
        /\ ~cps[k].released
    <3>1. CASE q.cp = NoCp
      <4>1. k = allocs + 1 /\ allocs' = allocs + 1
        BY <1>1, <2>1, <3>1, SlotForNew
      <4>2. k \in Slots /\ ~(k <= allocs)
        BY <1>1, <4>1 DEF Slots
      <4>3. \A s \in Slots : s <= allocs' <=> s <= allocs \/ s = k
        BY <1>1, <4>1 DEF Slots
      <4>4. ~cps[k].released
        BY <4>2 DEF TablePrefix
      <4>. QED  BY <1>1, <4>1, <4>2, <4>3, <4>4
    <3>2. CASE q.cp # NoCp
      <4>1. CpValid(q.cp) /\ allocs' = allocs
        BY <2>1, <3>2 DEF PageReadable
      <4>2. k = q.cp
        BY <4>1, SlotForRefresh
      <4>3. k \in Slots /\ k <= allocs /\ ~cps[k].released
        BY <4>1, <4>2 DEF CpValid, TablePrefix
      <4>. QED  BY <1>1, <4>1, <4>2, <4>3
    <3>. QED  BY <3>1, <3>2
  <2>. HIDE DEF k
  <2>3. \A s \in Slots : /\ s # k => cps'[s] = cps[s]
                         /\ cps'[k].inUse /\ ~cps'[k].released
    BY <1>1, <2>1, <2>2
  <2>4. TablePrefix'
    BY <2>2, <2>3 DEF TablePrefix
  <2>. QED  BY <1>3, <2>2, <2>3, <2>4
<1>. QED  BY <1>4, <1>5, <1>6, <1>7
     DEF Serve, ServeUnsupported, ServeInvalidCp, ServeLastPage

(* Handling a request keeps what is known of a client that releases and     *)
(* reuses its token.                                                        *)
LEMMA ServeReuse ==
    ASSUME TypeOK, NEW r \in Readers, ReuseInv(r), Serve(r),
           \A s \in Slots : cps[s].released => cps'[s].released
    PROVE  ReuseInv(r)'
<1>. DEFINE x == run[r]
            q == Head(chan[r])
            n == Len(chan[r])
<1>1. PICK ans : Reply(r, ans) /\ chan[r] # <<>>
  BY Zenon DEF Serve, ServeUnsupported, ServeInvalidCp, ServeRelease,
     ServeLastPage, ServePage
<1>2. /\ pc'[r] = pc[r] /\ run'[r] = x /\ chan'[r] = Tail(chan[r])
      /\ resp'[r] = IF pc[r] \in Active /\ n = 1 THEN ans ELSE resp[r]
  BY <1>1 DEF Reply, TypeOK
<1>3. /\ q = chan[r][1]
      /\ n # 1 => chan'[r][Len(chan'[r])] = chan[r][n]
      /\ n = 1 => Tail(chan[r]) = <<>>
  BY <1>1, <1>2, TailFacts DEF TypeOK
<1>4. CASE pc[r] = "releasing"
  <2>1. /\ x.reuseCp \in Slots /\ resp[r] = NoAnswer
        /\ chan[r][n] = ReleaseRequest(x)
    BY <1>1, <1>4 DEF ReuseInv
  <2>2. CASE n = 1
    <3>1. q.hist = TRUE /\ q.release = TRUE /\ q.cp = x.reuseCp
      BY <1>3, <2>1, <2>2 DEF ReleaseRequest, Request
    <3>2. x.reuseCp # NoCp
      BY <2>1 DEF Slots, NoCp
    <3>3. chan'[r] = <<>>
      BY <1>2, <1>3, <2>2
    <3>4. CASE ServeRelease(r)
      <4>1. cps' = [cps EXCEPT ![x.reuseCp].released = TRUE]
        BY <3>1, <3>2, <3>4 DEF ServeRelease
      <4>2. cps'[x.reuseCp].released
        BY <2>1, <4>1 DEF TypeOK
      <4>. QED  BY <1>2, <1>4, <2>1, <3>3, <4>2 DEF ReuseInv
    <3>5. CASE ServeInvalidCp(r)
      <4>1. resp'[r].status = "BadContinuationPointInvalid"
        BY <1>4, <2>2, <3>5 DEF ServeInvalidCp, Reply, Answer, TypeOK, Active
      <4>. QED  BY <1>2, <1>4, <2>1, <3>3, <4>1 DEF ReuseInv
    <3>. QED  BY <3>1, <3>4, <3>5
         DEF Serve, ServeUnsupported, ServeLastPage, ServePage, PageReadable
  <2>3. CASE n # 1
    <3>1. resp'[r] = NoAnswer /\ chan'[r][Len(chan'[r])] = ReleaseRequest(x)
      BY <1>2, <1>3, <2>1, <2>3, Zenon
    <3>. QED  BY <1>2, <1>4, <2>1, <3>1 DEF ReuseInv, NoAnswer
  <2>. QED  BY <2>2, <2>3
<1>5. CASE pc[r] = "reusing"
  <2>1. /\ x.reuseCp \in Slots /\ resp[r] = NoAnswer
        /\ chan[r][n] = ReuseRequest(x)
        /\ x.releaseSc = "Good" => cps[x.reuseCp].released
    BY <1>1, <1>5 DEF ReuseInv
  <2>2. CASE n = 1
    <3>1. q.hist = TRUE /\ q.release = FALSE /\ q.cp = x.reuseCp
      BY <1>3, <2>1, <2>2 DEF ReuseRequest, Request
    <3>2. x.reuseCp # NoCp
      BY <2>1 DEF Slots, NoCp
    <3>3. chan'[r] = <<>>
      BY <1>2, <1>3, <2>2
    <3>4. CASE x.releaseSc = "Good"
      <4>1. cps[x.reuseCp].released /\ cps'[x.reuseCp].released
        BY <2>1, <3>4
      <4>2. ServeInvalidCp(r)
        BY <3>1, <3>2, <4>1 DEF Serve, ServeUnsupported, ServeRelease,
           ServeLastPage, ServePage, PageReadable, CpValid
      <4>3. resp'[r].status = "BadContinuationPointInvalid"
        BY <1>5, <2>2, <4>2 DEF ServeInvalidCp, Reply, Answer, TypeOK, Active
      <4>. QED  BY <1>2, <1>5, <2>1, <3>3, <4>1, <4>3 DEF ReuseInv
    <3>5. CASE x.releaseSc # "Good"
      BY <1>2, <1>5, <2>1, <3>3, <3>5 DEF ReuseInv
    <3>. QED  BY <3>4, <3>5
  <2>3. CASE n # 1
    <3>1. resp'[r] = NoAnswer /\ chan'[r][Len(chan'[r])] = ReuseRequest(x)
      BY <1>2, <1>3, <2>1, <2>3, Zenon
    <3>. QED  BY <1>2, <1>5, <2>1, <3>1 DEF ReuseInv, NoAnswer
  <2>. QED  BY <2>2, <2>3
<1>6. CASE pc[r] \notin {"releasing", "reusing"}
  BY <1>2, <1>6 DEF ReuseInv
<1>. QED  BY <1>4, <1>5, <1>6

(* Handling one request keeps every cursor exact.                           *)
LEMMA ServeCursor ==
    ASSUME TypeOK, TypeOK', Cursor, allocs' <= NumSlots,
           NEW r \in Readers, Serve(r)
    PROVE  Cursor'
<1>1. TablePrefix /\ Exclusive /\ ReaderInv(r)
  BY DEF Cursor
<1>2. /\ TablePrefix' /\ allocs <= allocs'
      /\ \A p \in Readers \ {r}, t \in Slots :
            Scenario(p) /\ Uses(p, t) => cps'[t] = cps[t]
      /\ \A s \in Slots : cps[s].released => cps'[s].released
  BY <1>1, ServeTable
<1>3. PICK ans : Reply(r, ans) /\ chan[r] # <<>>
  BY Zenon DEF Serve, ServeUnsupported, ServeInvalidCp, ServeRelease,
     ServeLastPage, ServePage
<1>4. /\ pc' = pc /\ run' = run /\ printed' = printed
      /\ \A p \in Readers \ {r} : chan'[p] = chan[p] /\ resp'[p] = resp[p]
      /\ pc[r] \notin Active => resp'[r] = resp[r]
  BY <1>3 DEF Reply, TypeOK
<1>5. Exclusive'
  <2>1. \A t \in Slots : Uses(r, t)' =>
          Uses(r, t) \/ (~(t <= allocs) /\ t <= allocs')
    BY <1>1, ServeUses
  <2>2. Scenario(r)' <=> Scenario(r)
    BY <1>4 DEF Scenario
  <2>. QED  BY <1>1, <1>2, <1>4, <2>1, <2>2, Exclusion
<1>6. ReaderInv(r)'
  <2>2. PagingInv(r)'
    <3>1. CASE pc[r] = "paging"
      BY <1>1, <3>1, ServePaging
    <3>2. CASE pc[r] # "paging"
      BY <1>4, <3>2 DEF PagingInv
    <3>. QED  BY <3>1, <3>2
  <2>3. ShownInv(r)' /\ OtherInv(r)' /\ QuietInv(r)'
    BY <1>1, <1>4
       DEF ReaderInv, ShownInv, OtherInv, QuietInv, Active, Prefix
  <2>4. ReuseInv(r)'
    BY <1>1, <1>2, ServeReuse DEF ReaderInv
  <2>. QED  BY <2>2, <2>3, <2>4 DEF ReaderInv
<1>7. ASSUME NEW p \in Readers \ {r} PROVE ReaderInv(p)'
  <2>1. ReaderInv(p)
    BY DEF Cursor
  <2>. QED  BY <1>2, <1>4, <2>1, Frame
<1>. QED  BY <1>2, <1>5, <1>6, <1>7 DEF Cursor

(* The page loop's round keeps the cursor exact.                            *)
LEMMA PageDoneInv ==
    ASSUME TypeOK, NEW r \in Readers, ReaderInv(r),
           NEW ans \in Answers, ans = resp[r] \/ ans = Fault,
           pc[r] = "paging", CallDone(r, ans), TypeOK'
    PROVE  ReaderInv(r)'
<1>. DEFINE y == run[r]
            x == AfterPage(y, ans)
<1>1. /\ y \in Runs /\ chan[r] \in Seq(Requests) /\ PagingInv(r)
      /\ MatchedCount(y.win) \in 0..NumSamples /\ y.win \in AllWindows
  BY MatchedCountType DEF TypeOK, ReaderInv, Runs
<1>2. /\ PageDone(r, ans) /\ resp'[r] = NoAnswer
      /\ run'[r] = x /\ UNCHANGED <<cps, allocs>>
  BY DEF CallDone, PageDone, TypeOK
<1>3. /\ x.pages = y.pages + 1 /\ x.got = y.got \o ans.values
      /\ x.last = ans.status /\ x.cp = ans.cp
      /\ x.reuseCp = (IF ans.cp = NoCp THEN y.reuseCp ELSE ans.cp)
      /\ x.win = y.win /\ x.num = y.num /\ x.releaseSc = y.releaseSc
  BY <1>1 DEF AfterPage, Runs
<1>4. x \in Runs
  BY <1>2 DEF TypeOK
<1>5. /\ Prefix(y) /\ y.num > 0 /\ y.pages <= Len(y.got)
      /\ y.got \in Seq(1..NumSamples) /\ y.pages \in Nat
      /\ y.win.lo \in Nat
  BY <1>1 DEF PagingInv, Runs, AllWindows
<1>. HIDE DEF x
<1>6. /\ Prefix(x)
      /\ x.last = "Good" /\ x.cp = NoCp => Len(x.got) = MatchedCount(x.win)
      /\ x.cp # NoCp => /\ x.last = "Good" /\ x.cp \in Slots
                        /\ x.pages <= Len(x.got)
                        /\ Len(x.got) < MatchedCount(x.win)
                        /\ cps[x.cp].offset = Len(x.got)
                        /\ ~cps[x.cp].released
                        /\ chan[r] = <<>>
  <2>1. CASE ans.status = "Good"
    <3>1. /\ resp[r] = ans /\ PageAnswer(r) /\ chan[r] = <<>>
      BY <1>1, <2>1 DEF Fault, Answer, NoAnswer, PagingInv
    <3>. DEFINE m == Len(y.got)
                n == Len(ans.values)
    <3>2. /\ y.got = Seg(y.win.lo, m) /\ m \in Nat /\ n \in Nat
          /\ ans.values = Seg(y.win.lo + m, n)
          /\ ans.values \in Seq(1..NumSamples)
      BY <1>5, <3>1 DEF Prefix, PageAnswer, Answers
    <3>3. x.got = Seg(y.win.lo, m + n) /\ Len(x.got) = m + n
      <4>1. Len(y.got \o ans.values) = m + n
        BY <1>5, <3>2
      <4>2. Seg(y.win.lo, m) \o Seg(y.win.lo + m, n) = Seg(y.win.lo, m + n)
        BY <1>5, <3>2, SegConcat
      <4>. QED  BY <1>3, <3>2, <4>1, <4>2
    <3>4. /\ m + n <= MatchedCount(y.win)
          /\ ans.cp = NoCp => m + n = MatchedCount(y.win)
          /\ ans.cp # NoCp => /\ ans.cp \in Slots /\ n > 0
                              /\ m + n < MatchedCount(y.win)
                              /\ cps[ans.cp].offset = m + n
                              /\ ~cps[ans.cp].released
      BY <3>1 DEF PageAnswer
    <3>. HIDE DEF m, n
    <3>5. ans.cp # NoCp => x.pages <= m + n
      BY <1>3, <1>5, <3>2, <3>4 DEF m
    <3>. QED  BY <1>3, <2>1, <3>1, <3>3, <3>4, <3>5 DEF Prefix
  <2>2. CASE ans.status # "Good"
    <3>1. ans.values = <<>> /\ ans.cp = NoCp
      BY <1>1, <2>2 DEF PagingInv, Fault, Answer, NoAnswer
    <3>2. x.got = y.got
      BY <1>3, <1>5, <3>1
    <3>. QED  BY <1>3, <1>5, <2>2, <3>1, <3>2 DEF Prefix
  <2>. QED  BY <2>1, <2>2
<1>8. CASE MorePages(x)
  <2>1. chan'[r] = Append(chan[r], PageRequest(x)) /\ pc'[r] = "paging"
    BY <1>2, <1>8 DEF PageDone, Send, TypeOK, x
  <2>2. x.cp # NoCp /\ chan[r] = <<>>
    BY <1>6, <1>8 DEF MorePages
  <2>3. chan'[r] = <<PageRequest(x)>>
    BY <2>1, <2>2
  <2>4. PagingInv(r)'
    BY <1>2, <1>3, <1>5, <1>6, <2>1, <2>2, <2>3 DEF PagingInv, Prefix
  <2>. QED  BY <2>1, <2>4
       DEF ReaderInv, ShownInv, ReuseInv, OtherInv, QuietInv
<1>9. CASE ~MorePages(x)
  <2>1. x.last = "Good" => Len(x.got) = MatchedCount(x.win)
    <3>. SUFFICES ASSUME x.last = "Good", x.cp # NoCp PROVE FALSE
      BY <1>6
    <3>1. x.pages >= MaxPages
      BY <1>4, <1>9, PagesAssumption DEF MorePages, Runs
    <3>2. x.pages < NumSamples
      <4>1. /\ x.pages <= Len(x.got) /\ Len(x.got) < MatchedCount(y.win)
            /\ x.pages \in Nat /\ Len(x.got) \in Nat
        <5>1. x.pages \in Nat /\ x.got \in Seq(1..NumSamples)
          BY <1>4 DEF Runs
        <5>2. Len(x.got) \in Nat
          BY <5>1
        <5>. QED  BY <1>3, <1>6, <5>1, <5>2
      <4>. QED  BY <1>1, <4>1, SamplesAssumption
    <3>. QED  BY <1>4, <3>1, <3>2, PagesAssumption, SamplesAssumption DEF Runs
  <2>2. CASE x.reuseCp # NoCp
    <3>1. chan'[r] = Append(chan[r], ReleaseRequest(x)) /\ pc'[r] = "releasing"
      BY <1>2, <1>9, <2>2 DEF PageDone, Send, TypeOK, x
    <3>2. ReleaseRequest(x).cp = x.reuseCp /\ ReleaseRequest(x) \in Requests
      BY <1>4, SlotsAssumption
         DEF ReleaseRequest, Request, Requests, Runs, Tokens, NoCp, Slots
    <3>3. /\ Len(chan'[r]) = Len(chan[r]) + 1
          /\ chan'[r][Len(chan'[r])] = ReleaseRequest(x)
          /\ DOMAIN chan'[r] = 1..(Len(chan[r]) + 1)
          /\ \A i \in 1..Len(chan[r]) : chan'[r][i] = chan[r][i]
      BY <1>1, <3>1, <3>2, AppendProperties
    <3>5. x.reuseCp \in Slots
      BY <1>4, <2>2 DEF Runs
    <3>6. ReuseInv(r)'
      BY <1>2, <3>1, <3>3, <3>5 DEF ReuseInv, NoAnswer
    <3>. QED  BY <1>2, <1>6, <2>1, <3>1, <3>6
         DEF ReaderInv, PagingInv, ShownInv, OtherInv, QuietInv, Prefix
  <2>3. CASE x.reuseCp = NoCp
    <3>1. chan'[r] = chan[r] /\ pc'[r] = "done"
      BY <1>2, <1>9, <2>3 DEF PageDone, TypeOK, x
    <3>. QED  BY <1>2, <1>6, <2>1, <2>3, <3>1
         DEF ReaderInv, PagingInv, ShownInv, ReuseInv, OtherInv, QuietInv, Prefix
  <2>. QED  BY <2>2, <2>3
<1>. QED  BY <1>8, <1>9

(* The calls after the page loop, and the one-shot read.                    *)
LEMMA CallDoneInv ==
    ASSUME TypeOK, TypeOK', NEW r \in Readers, ReaderInv(r),
           NEW ans \in Answers, ans = resp[r] \/ ans = Fault, CallDone(r, ans)
    PROVE  ReaderInv(r)'
<1>. DEFINE x == run[r]
<1>1. /\ x \in Runs /\ chan[r] \in Seq(Requests)
      /\ ShownInv(r) /\ ReuseInv(r) /\ OtherInv(r)
  BY DEF TypeOK, ReaderInv
<1>2. resp'[r] = NoAnswer /\ UNCHANGED <<cps, allocs>>
  BY DEF CallDone, TypeOK
<1>4. CASE pc[r] = "paging"
  BY <1>4, PageDoneInv
<1>5. CASE pc[r] = "releasing" /\ ReleaseDone(r, ans)
  <2>1. /\ run'[r] = [x EXCEPT !.releaseSc = ans.status]
        /\ pc'[r] = "reusing"
        /\ chan'[r] = Append(chan[r], ReuseRequest(x))
    BY <1>5 DEF ReleaseDone, Send, TypeOK
  <2>2. /\ run'[r].reuseCp = x.reuseCp /\ run'[r].releaseSc = ans.status
        /\ run'[r].win = x.win /\ run'[r].num = x.num /\ run'[r].got = x.got
        /\ run'[r].last = x.last
    BY <1>1, <2>1 DEF Runs
  <2>3. ReuseRequest(run'[r]) = ReuseRequest(x)
    BY <2>2 DEF ReuseRequest
  <2>4. ReuseRequest(x).cp = x.reuseCp /\ ReuseRequest(x) \in Requests
    BY <1>1, SlotsAssumption
       DEF ReuseRequest, Request, Requests, Runs, Tokens, NoCp, Slots
  <2>5. /\ chan'[r][Len(chan'[r])] = ReuseRequest(x)
        /\ DOMAIN chan'[r] = 1..(Len(chan[r]) + 1)
        /\ Len(chan'[r]) = Len(chan[r]) + 1
        /\ \A i \in 1..Len(chan[r]) : chan'[r][i] = chan[r][i]
    BY <1>1, <2>1, <2>4, AppendProperties
  <2>7. x.reuseCp \in Slots /\ (ans.status = "Good" => cps[x.reuseCp].released)
    BY <1>1, <1>5 DEF ReuseInv, Fault, Answer
  <2>8. ReuseInv(r)'
    BY <1>2, <2>1, <2>2, <2>3, <2>5, <2>7 DEF ReuseInv, NoAnswer
  <2>9. ShownInv(r)'
    BY <1>1, <1>5, <2>1, <2>2 DEF ShownInv, Prefix
  <2>. QED  BY <2>1, <2>8, <2>9
       DEF ReaderInv, PagingInv, OtherInv, QuietInv
<1>6. CASE pc[r] = "reusing" /\ ReuseDone(r, ans)
  <2>1. /\ run'[r] = [x EXCEPT !.reuseSc = ans.status]
        /\ pc'[r] = "done" /\ chan'[r] = chan[r]
    BY <1>6 DEF ReuseDone, TypeOK
  <2>2. /\ run'[r].reuseCp = x.reuseCp /\ run'[r].releaseSc = x.releaseSc
        /\ run'[r].win = x.win /\ run'[r].got = x.got /\ run'[r].last = x.last
        /\ run'[r].reuseSc = ans.status
    BY <1>1, <2>1 DEF Runs
  <2>4. ans.status \in Statuses
    BY DEF Answers
  <2>5. x.releaseSc = "Good" =>
          ans.status \in {"BadContinuationPointInvalid", "BadService"}
    BY <1>1, <1>6, <2>4 DEF ReuseInv, Fault, Answer, Statuses
  <2>6. ReuseInv(r)'
    BY <2>1, <2>2, <2>5 DEF ReuseInv
  <2>7. ShownInv(r)'
    BY <1>1, <1>6, <2>1, <2>2 DEF ShownInv, Prefix
  <2>. QED  BY <1>2, <2>1, <2>6, <2>7
       DEF ReaderInv, PagingInv, OtherInv, QuietInv
<1>7. CASE pc[r] = "oneshot" /\ OneShotDone(r, ans)
  <2>1. /\ run'[r] = [x EXCEPT !.last = ans.status]
        /\ pc'[r] = "done" /\ chan'[r] = chan[r]
    BY <1>7 DEF OneShotDone, TypeOK
  <2>2. run'[r].reuseCp = NoCp /\ run'[r].pages = 0
    BY <1>1, <1>7, <2>1 DEF OtherInv, Runs
  <2>. QED  BY <1>2, <2>1, <2>2
       DEF ReaderInv, PagingInv, ShownInv, ReuseInv, OtherInv, QuietInv
<1>. QED  BY <1>4, <1>5, <1>6, <1>7 DEF CallDone

(* At the end of a call a client uses no token it did not use before, and   *)
(* what it prints is one it used.                                           *)
LEMMA CallDoneUses ==
    ASSUME TypeOK, NEW r \in Readers, NEW ans \in Answers,
           ans = resp[r] \/ ans = Fault, CallDone(r, ans)
    PROVE  /\ Scenario(r)' => Scenario(r)
           /\ \A t \in Slots : Uses(r, t)' => Uses(r, t)
           /\ \A t \in printed' : t \in printed \/ (Uses(r, t) /\ ~Scenario(r)')
<1>. DEFINE x == run[r]
<1>1. x \in Runs /\ chan[r] \in Seq(Requests) /\ printed \subseteq Slots
      /\ ans.cp \in {NoCp} \cup Slots
  BY DEF TypeOK, Answers
<1>2. ans.cp \in Slots => ans.cp = resp[r].cp
  BY DEF Fault, Answer, NoCp, Slots
<1>3. resp'[r].cp \notin Slots
  BY DEF CallDone, TypeOK, NoAnswer, NoCp, Slots
<1>4. ASSUME NEW q \in Requests, Uses(r, q.cp) \/ q.cp \notin Slots,
             chan'[r] = Append(chan[r], q), NEW t \in Slots,
             \E i \in DOMAIN chan'[r] : t = chan'[r][i].cp
      PROVE  Uses(r, t)
  <2>1. PICK i \in DOMAIN chan'[r] : t = chan'[r][i].cp
    BY <1>4
  <2>2. /\ DOMAIN chan'[r] = 1..(Len(chan[r]) + 1) /\ Len(chan[r]) \in Nat
        /\ DOMAIN chan[r] = 1..Len(chan[r])
        /\ chan'[r][Len(chan[r]) + 1] = q
        /\ \A k \in 1..Len(chan[r]) : chan'[r][k] = chan[r][k]
    BY <1>1, <1>4, AppendProperties
  <2>3. CASE i = Len(chan[r]) + 1
    BY <1>4, <2>1, <2>2, <2>3
  <2>4. CASE i # Len(chan[r]) + 1
    <3>1. i \in DOMAIN chan[r] /\ t = chan[r][i].cp
      BY <2>1, <2>2, <2>4
    <3>. QED  BY <3>1 DEF Uses
  <2>. QED  BY <2>3, <2>4
<1>5. CASE pc[r] = "paging" /\ PageDone(r, ans)
  <2>. DEFINE y == AfterPage(x, ans)
  <2>1. /\ y.cp = ans.cp /\ y.win = x.win /\ y.num = x.num
        /\ y.reuseCp = (IF ans.cp = NoCp THEN x.reuseCp ELSE ans.cp)
    BY <1>1 DEF AfterPage, Runs
  <2>2. /\ y.cp \in Slots => Uses(r, y.cp)
        /\ y.reuseCp \in Slots => Uses(r, y.reuseCp)
    BY <1>2, <2>1 DEF Uses
  <2>3. /\ PageRequest(y) \in Requests /\ PageRequest(y).cp = y.cp
        /\ ReleaseRequest(y) \in Requests /\ ReleaseRequest(y).cp = y.reuseCp
    BY <1>1, <2>1, SlotsAssumption
       DEF PageRequest, ReleaseRequest, Request, Requests, Runs, Tokens, NoCp,
           Slots
  <2>4. /\ run'[r] = y /\ printed' = printed /\ Scenario(r)
        /\ \/ chan'[r] = Append(chan[r], PageRequest(y))
           \/ chan'[r] = Append(chan[r], ReleaseRequest(y))
           \/ chan'[r] = chan[r]
    BY <1>5 DEF PageDone, Send, TypeOK, Scenario
  <2>. HIDE DEF y
  <2>5. ASSUME NEW t \in Slots, \E i \in DOMAIN chan'[r] : t = chan'[r][i].cp
        PROVE  Uses(r, t)
    <3>1. CASE chan'[r] = chan[r]
      BY <2>5, <3>1 DEF Uses
    <3>. QED  BY <1>4, <2>2, <2>3, <2>4, <2>5, <3>1
  <2>6. ASSUME NEW t \in Slots, Uses(r, t)' PROVE Uses(r, t)
    BY <1>3, <2>2, <2>4, <2>5, <2>6 DEF Uses
  <2>. QED  BY <2>4, <2>6
<1>6. CASE pc[r] = "releasing" /\ ReleaseDone(r, ans)
  <2>1. ReuseRequest(x) \in Requests /\ ReuseRequest(x).cp = x.reuseCp
    BY <1>1, SlotsAssumption
       DEF ReuseRequest, Request, Requests, Runs, Tokens, NoCp, Slots
  <2>2. /\ run'[r].reuseCp = x.reuseCp /\ printed' = printed /\ Scenario(r)
        /\ chan'[r] = Append(chan[r], ReuseRequest(x))
    BY <1>1, <1>6 DEF ReleaseDone, Send, TypeOK, Scenario, Runs
  <2>3. x.reuseCp \in Slots => Uses(r, x.reuseCp)
    BY DEF Uses
  <2>4. ASSUME NEW t \in Slots, \E i \in DOMAIN chan'[r] : t = chan'[r][i].cp
        PROVE  Uses(r, t)
    BY <1>4, <2>1, <2>2, <2>3, <2>4
  <2>5. ASSUME NEW t \in Slots, Uses(r, t)' PROVE Uses(r, t)
    BY <1>3, <2>2, <2>3, <2>4, <2>5 DEF Uses
  <2>. QED  BY <2>2, <2>5
<1>7. CASE pc[r] = "reusing" /\ ReuseDone(r, ans)
  <2>1. /\ run'[r].reuseCp = x.reuseCp /\ chan'[r] = chan[r] /\ ~Scenario(r)'
        /\ printed' = printed \cup ({x.reuseCp} \ {NoCp})
    BY <1>1, <1>7 DEF ReuseDone, TypeOK, Scenario, Runs
  <2>2. x.reuseCp \in {NoCp} \cup Slots
    BY <1>1 DEF Runs
  <2>. QED  BY <1>3, <2>1, <2>2 DEF Uses
<1>8. CASE pc[r] = "oneshot" /\ OneShotDone(r, ans)
  <2>1. /\ run'[r].reuseCp = x.reuseCp /\ chan'[r] = chan[r] /\ ~Scenario(r)'
        /\ printed' = printed \cup ({ans.cp} \ {NoCp})
    BY <1>1, <1>8 DEF OneShotDone, TypeOK, Scenario, Runs
  <2>. QED  BY <1>1, <1>2, <1>3, <2>1 DEF Uses
<1>. QED  BY <1>5, <1>6, <1>7, <1>8 DEF CallDone

(* Every step keeps the cursors exact until the table overflows.            *)
LEMMA CursorNext == IInv /\ [Next]_vars => IInv'
<1>. SUFFICES ASSUME IInv, [Next]_vars PROVE IInv'
  OBVIOUS
<1>1. TypeOK /\ TypeOK'
  BY TypeNext DEF IInv
<1>. SUFFICES ASSUME allocs' <= NumSlots PROVE Cursor'
  BY <1>1 DEF IInv
<1>2. allocs <= allocs' /\ allocs \in Nat /\ allocs' \in Nat
  <2>1. CASE UNCHANGED allocs
    BY <1>1, <2>1 DEF TypeOK
  <2>2. ASSUME NEW r \in Readers, ServePage(r)
        PROVE  allocs <= allocs' /\ allocs \in Nat /\ allocs' \in Nat
    BY <1>1, <2>2 DEF ServePage, TypeOK
  <2>. QED  BY <2>1, <2>2
       DEF Next, Serve, ServeUnsupported, ServeInvalidCp, ServeRelease,
           ServeLastPage, StartContinue, OneShot, Receive, ServiceFault,
           CallDone, Kill, Disconnect, vars
<1>3. Cursor
  BY <1>2, SlotsAssumption DEF IInv
<1>4. ASSUME NEW r \in Readers, UNCHANGED <<cps, allocs>>,
             ReaderInv(r)',
             \A p \in Readers \ {r} :
                /\ chan'[p] = chan[p] /\ resp'[p] = resp[p] /\ pc'[p] = pc[p]
                /\ run'[p] = run[p],
             \A t \in Slots : Uses(r, t)' =>
                \/ Uses(r, t) /\ (Scenario(r)' => Scenario(r))
                \/ t \in printed /\ ~Scenario(r)',
             \A t \in printed' : t \in printed \/ (Uses(r, t) /\ ~Scenario(r)')
      PROVE  Cursor'
  <2>1. TablePrefix'
    BY <1>3, <1>4 DEF Cursor, TablePrefix
  <2>3. Exclusive'
    BY <1>1, <1>2, <1>3, <1>4, Exclusion DEF Cursor
  <2>2. ASSUME NEW p \in Readers \ {r} PROVE ReaderInv(p)'
    <3>1. ReaderInv(p)
      BY <1>3 DEF Cursor
    <3>. QED  BY <1>1, <1>4, <3>1, Frame
  <2>. QED  BY <1>4, <2>1, <2>2, <2>3 DEF Cursor
<1>5. CASE UNCHANGED vars
  <2>1. TablePrefix' /\ Exclusive'
    BY <1>3, <1>5 DEF vars, Cursor, TablePrefix, Exclusive, Uses, Scenario
  <2>2. ASSUME NEW p \in Readers PROVE ReaderInv(p)'
    <3>1. ReaderInv(p)
      BY <1>3 DEF Cursor
    <3>2. UNCHANGED <<cps, chan, resp, pc, run>>
      BY <1>5 DEF vars
    <3>. QED  BY <1>1, <3>1, <3>2, Frame
  <2>. QED  BY <2>1, <2>2 DEF Cursor
<1>6. ASSUME NEW r \in Readers, Serve(r) PROVE Cursor'
  BY <1>1, <1>3, <1>6, ServeCursor
<1>7. ASSUME NEW r \in Readers, NEW ans \in Answers, CallDone(r, ans),
             ans = resp[r] \/ ans = Fault
      PROVE  Cursor'
  <2>1. ReaderInv(r)'
    BY <1>1, <1>3, <1>7, CallDoneInv DEF Cursor
  <2>2. /\ UNCHANGED <<cps, allocs>>
        /\ \A p \in Readers \ {r} :
              /\ chan'[p] = chan[p] /\ resp'[p] = resp[p] /\ pc'[p] = pc[p]
              /\ run'[p] = run[p]
    BY <1>1, <1>7
       DEF CallDone, PageDone, Send, ReleaseDone, ReuseDone, OneShotDone, TypeOK
  <2>3. /\ Scenario(r)' => Scenario(r)
        /\ \A t \in Slots : Uses(r, t)' => Uses(r, t)
        /\ \A t \in printed' : t \in printed \/ (Uses(r, t) /\ ~Scenario(r)')
    BY <1>1, <1>7, CallDoneUses
  <2>. QED  BY <1>4, <2>1, <2>2, <2>3
<1>8. ASSUME NEW r \in Readers, Receive(r) PROVE Cursor'
  <2>1. resp[r] \in Answers
    BY <1>1, <1>8 DEF Receive, TypeOK
  <2>. QED  BY <1>7, <1>8, <2>1 DEF Receive
<1>9. ASSUME NEW r \in Readers, ServiceFault(r) PROVE Cursor'
  <2>1. Fault \in Answers
    BY DEF Fault, Answer, Answers, Statuses, NoCp
  <2>. QED  BY <1>7, <1>9, <2>1 DEF ServiceFault
<1>10. ASSUME NEW r \in Readers, NEW w \in Windows, NEW n \in PageSizes,
              StartContinue(r, w, n)
       PROVE  Cursor'
  <2>. DEFINE num == IF n = 0 THEN 2 ELSE n
              x == [IdleRun EXCEPT !.win = w, !.num = num]
  <2>1. num \in Nat /\ num > 0 /\ w \in AllWindows
    BY SizesAssumption, WindowsAssumption
  <2>2. /\ pc[r] \in {"idle", "done"}
        /\ run' = [run EXCEPT ![r] = x]
        /\ chan' = [chan EXCEPT ![r] = <<Request(TRUE, w, num, NoCp, FALSE)>>]
        /\ pc' = [pc EXCEPT ![r] = "paging"]
        /\ UNCHANGED <<cps, resp, printed, allocs>>
    BY <1>10, Zenon DEF StartContinue, CanStart
  <2>. HIDE DEF num
  <2>3. /\ x.win = w /\ x.num = num /\ x.cp = NoCp /\ x.reuseCp = NoCp
        /\ x.pages = 0 /\ x.got = <<>>
    BY DEF IdleRun
  <2>. HIDE DEF x
  <2>4. /\ run'[r] = x /\ pc'[r] = "paging" /\ chan'[r] = <<PageRequest(x)>>
    BY <1>1, <2>2, <2>3 DEF TypeOK, PageRequest, Request
  <2>5. resp'[r] = NoAnswer /\ printed' = printed
    BY <1>3, <2>2 DEF Cursor, ReaderInv, QuietInv
  <2>6. PageRequest(x).cp = NoCp /\ NoCp \notin Slots /\ NoAnswer.cp = NoCp
    BY <2>3 DEF PageRequest, Request, NoAnswer, NoCp, Slots
  <2>7. \A t \in Slots : ~Uses(r, t)'
    BY <2>3, <2>4, <2>5, <2>6 DEF Uses
  <2>8. Prefix(x)
    <3>1. x.got = Seg(x.win.lo, 0) /\ Len(x.got) = 0
      BY <2>3 DEF Seg
    <3>2. MatchedCount(x.win) \in Nat
      BY <2>1, <2>3, MatchedCountType
    <3>. QED  BY <3>1, <3>2 DEF Prefix
  <2>9. PagingInv(r)'
    BY <2>1, <2>3, <2>4, <2>5, <2>8 DEF PagingInv, Prefix
  <2>10. ReaderInv(r)'
    BY <2>4, <2>9
       DEF ReaderInv, ShownInv, ReuseInv, OtherInv, QuietInv
  <2>. QED  BY <1>1, <1>4, <2>2, <2>5, <2>7, <2>10 DEF TypeOK
<1>11. ASSUME NEW r \in Readers, NEW hist \in BOOLEAN, NEW release \in BOOLEAN,
              NEW w \in Windows, NEW n \in PageSizes, NEW cp \in Tokens,
              OneShot(r, hist, w, n, cp, release)
       PROVE  Cursor'
  <2>1. /\ pc[r] \in {"idle", "done"} /\ run'[r] = IdleRun /\ pc'[r] = "oneshot"
        /\ chan'[r] = <<Request(hist, w, n, cp, release)>>
        /\ cp \in printed \cup {NoCp, UnknownCp}
        /\ UNCHANGED <<cps, resp, printed, allocs>>
    BY <1>1, <1>11 DEF OneShot, CanStart, TypeOK
  <2>2. ReaderInv(r)
    BY <1>3 DEF Cursor
  <2>3. /\ Request(hist, w, n, cp, release).cp = cp /\ IdleRun.reuseCp = NoCp
        /\ IdleRun.pages = 0 /\ NoCp \notin Slots /\ UnknownCp \notin Slots
    BY SlotsAssumption DEF Request, IdleRun, NoCp, UnknownCp, Slots
  <2>4. ~Scenario(r)' /\ \A t \in Slots : Uses(r, t)' => t \in printed
    <3>1. resp[r].cp = NoCp
      BY <2>1, <2>2 DEF ReaderInv, QuietInv, NoAnswer
    <3>. QED  BY <2>1, <2>3, <3>1 DEF Uses, Scenario
  <2>5. ReaderInv(r)'
    BY <2>1, <2>3
       DEF ReaderInv, PagingInv, ShownInv, ReuseInv, OtherInv, QuietInv
  <2>. QED  BY <1>1, <1>4, <1>11, <2>1, <2>4, <2>5 DEF OneShot, TypeOK
<1>12. ASSUME NEW r \in Readers, Kill(r) PROVE Cursor'
  <2>1. /\ run'[r] = IdleRun /\ pc'[r] = "idle" /\ resp'[r] = NoAnswer
        /\ UNCHANGED <<cps, chan, printed, allocs>>
    BY <1>1, <1>12 DEF Kill, TypeOK
  <2>2. ReaderInv(r)
    BY <1>3 DEF Cursor
  <2>3. /\ IdleRun.reuseCp = NoCp /\ IdleRun.pages = 0
        /\ NoAnswer.cp = NoCp /\ NoCp \notin Slots
    BY DEF IdleRun, NoCp, NoAnswer, Slots
  <2>4. ~Scenario(r)' /\ \A t \in Slots : Uses(r, t)' => Uses(r, t)
    BY <2>1, <2>3 DEF Uses, Scenario
  <2>5. ReaderInv(r)'
    BY <2>1, <2>3
       DEF ReaderInv, PagingInv, ShownInv, ReuseInv, OtherInv, QuietInv
  <2>. QED  BY <1>1, <1>4, <1>12, <2>1, <2>4, <2>5 DEF Kill, TypeOK
<1>13. ASSUME NEW r \in Readers, Disconnect(r) PROVE Cursor'
  <2>1. /\ pc[r] \in {"idle", "done"} /\ chan'[r] = <<>>
        /\ UNCHANGED <<cps, resp, pc, run, printed, allocs>>
    BY <1>1, <1>13 DEF Disconnect, TypeOK
  <2>2. ReaderInv(r)
    BY <1>3 DEF Cursor
  <2>3. ReaderInv(r)'
    BY <2>1, <2>2
       DEF ReaderInv, PagingInv, ShownInv, ReuseInv,
           OtherInv, QuietInv, Prefix
  <2>4. (Scenario(r)' => Scenario(r)) /\ \A t \in Slots : Uses(r, t)' => Uses(r, t)
    BY <2>1 DEF Uses, Scenario
  <2>. QED  BY <1>1, <1>4, <1>13, <2>1, <2>3, <2>4 DEF Disconnect, TypeOK
<1>. QED  BY <1>5, <1>6, <1>8, <1>9, <1>10, <1>11, <1>12, <1>13 DEF Next

(* The inductive invariant: until the table overflows, the offset in the    *)
(* slot of a client's token is what the client has shown.                   *)
THEOREM CursorInvariant == Spec => []IInv
BY CursorInit, CursorNext, PTL DEF Spec

(* However many clients read at once, time out or are killed, a continue    *)
(* scenario shows its window in order, without gap or repetition, until     *)
(* more continuation points have been issued than the table has slots.      *)
THEOREM ScenarioPagesInOrder == Spec => []PagesInOrder
<1>1. IInv => PagesInOrder
  BY DEF IInv, Cursor, ReaderInv, PagesInOrder, Scenario, PagingInv, ShownInv,
         Prefix
<1>. QED  BY <1>1, CursorInvariant, PTL

(* Exit code 0 of the continue scenario means the window was shown whole.   *)
THEOREM ScenarioExitZeroComplete == Spec => []ExitZeroComplete
<1>1. IInv => ExitZeroComplete
  BY DEF IInv, Cursor, ReaderInv, ExitZeroComplete, ShownInv
<1>. QED  BY <1>1, CursorInvariant, PTL

(* A confirmed release makes the scenario's reuse fail.                     *)
THEOREM ScenarioReuseRefused == Spec => []ReuseRefused
<1>1. IInv => ReuseRefused
  BY DEF IInv, Cursor, ReaderInv, ReuseRefused, ReuseInv
<1>. QED  BY <1>1, CursorInvariant, PTL

(* No step makes a released continuation point valid again.                 *)
THEOREM ReleaseIsFinal == Spec => ReleasedStaysReleased
<1>. DEFINE A == \A s \in Slots :
                   (cps[s].released /\ allocs' <= NumSlots) => cps'[s].released
<1>1. IInv /\ IInv' /\ [Next]_vars => [A]_vars
  <2>. SUFFICES ASSUME IInv, IInv', Next, allocs' <= NumSlots
                PROVE  \A s \in Slots : cps[s].released => cps'[s].released
    OBVIOUS
  <2>1. CASE UNCHANGED cps
    BY <2>1
  <2>2. ASSUME NEW r \in Readers, Serve(r)
        PROVE  \A s \in Slots : cps[s].released => cps'[s].released
    <3>1. allocs <= NumSlots /\ TypeOK /\ TypeOK'
      BY <2>2, SlotsAssumption
         DEF IInv, TypeOK, Serve, ServeUnsupported, ServeInvalidCp,
             ServeRelease, ServeLastPage, ServePage
    <3>2. TablePrefix /\ Exclusive
      BY <3>1 DEF IInv, Cursor
    <3>. QED  BY <2>2, <3>1, <3>2, ServeTable
  <2>. QED  BY <2>1, <2>2
       DEF Next, StartContinue, OneShot, Receive, ServiceFault, CallDone, Kill,
           Disconnect
<1>. QED  BY <1>1, CursorInvariant, PTL DEF Spec, ReleasedStaysReleased

-----------------------------------------------------------------------------
(* HistoryRead implements HistoryCursor.                                    *)

views == [p \in Readers |-> View(p)]

(* What a step may do to the reading of one client.                         *)
CursorMove(r) ==
    \/ View(r)' = View(r)
    \/ \E w \in Windows :
         View(r)' = [win |-> w, got |-> <<>>, verdict |-> "open"]
    \/ /\ View(r).verdict = "open"
       /\ \E n \in Len(View(r).got)..MatchedCount(View(r).win),
             v \in {"open", "whole", "failed"} :
            /\ v = "whole" => n = MatchedCount(View(r).win)
            /\ View(r)' = [win |-> View(r).win, got |-> Seg(View(r).win.lo, n),
                           verdict |-> v]
    \/ View(r)' = Private!NoView

(* A step that moves one cursor, while there are continuation points left,  *)
(* is a step of HistoryCursor.                                              *)
LEMMA MoveIsStep ==
    ASSUME NEW r \in Readers, allocs \in Nat, allocs' \in Nat,
           allocs <= NumSlots, allocs' <= NumSlots,
           \A p \in Readers : p # r => View(p)' = View(p), CursorMove(r)
    PROVE  [Private!Next]_(Private!vars)
<1>1. /\ ~(allocs > NumSlots) /\ (allocs > NumSlots) = FALSE
      /\ (allocs' > NumSlots) = FALSE
  BY SlotsAssumption
<1>2. views' = [views EXCEPT ![r] = View(r)'] /\ views[r] = View(r)
  BY DEF views
<1>3. CASE View(r)' = View(r)
  <2>1. views' = views
    BY <1>3 DEF views
  <2>. QED  BY <1>1, <2>1 DEF Private!vars, views
<1>4. ASSUME NEW w \in Windows,
             View(r)' = [win |-> w, got |-> <<>>, verdict |-> "open"]
      PROVE  [Private!Next]_(Private!vars)
  <2>1. Private!Begin(r, w)
    BY <1>2, <1>4 DEF Private!Begin, views
  <2>. QED  BY <1>1, <2>1 DEF Private!Next
<1>5. ASSUME View(r).verdict = "open",
             NEW n \in Len(View(r).got)..MatchedCount(View(r).win),
             NEW v \in {"open", "whole", "failed"},
             v = "whole" => n = MatchedCount(View(r).win),
             View(r)' = [win |-> View(r).win, got |-> Seg(View(r).win.lo, n),
                         verdict |-> v]
      PROVE  [Private!Next]_(Private!vars)
  <2>1. /\ n \in Private!Onward(r)
        /\ Private!Size(View(r).win) = MatchedCount(View(r).win)
        /\ Private!Prefix(View(r).win, n) = Seg(View(r).win.lo, n)
    BY <1>5 DEF Private!Onward, Private!Size, Private!Prefix, MatchedCount, Seg
  <2>2. DOMAIN View(r) = {"win", "got", "verdict"}
        /\ View(r) = [win |-> View(r).win, got |-> View(r).got,
                      verdict |-> View(r).verdict]
    BY DEF View
  <2>3. CASE v = "open"
    <3>1. View(r)' = [View(r) EXCEPT !.got = Seg(View(r).win.lo, n)]
      BY <1>5, <2>2, <2>3
    <3>2. Private!Page(r, n)
      BY <1>2, <1>5, <2>1, <3>1 DEF Private!Page, views
    <3>. QED  BY <1>1, <2>1, <3>2 DEF Private!Next
  <2>4. CASE v # "open"
    <3>1. Private!End(r, n, v)
      BY <1>2, <1>5, <2>1 DEF Private!End, views
    <3>2. v \in {"whole", "failed"}
      BY <2>4
    <3>. QED  BY <1>1, <2>1, <3>1, <3>2 DEF Private!Next
  <2>. QED  BY <2>3, <2>4
<1>6. CASE View(r)' = Private!NoView
  <2>1. Private!Leave(r)
    BY <1>2, <1>6 DEF Private!Leave, views
  <2>. QED  BY <1>1, <2>1 DEF Private!Next
<1>. QED  BY <1>3, <1>4, <1>5, <1>6 DEF CursorMove

(* Only a scenario that has seen a page releases and reuses.                *)
PagesSeen ==
    \A r \in Readers : pc[r] \in {"releasing", "reusing"} => run[r].pages > 0

LEMMA PagesSeenInit == Init => PagesSeen
BY DEF Init, PagesSeen

(* The page loop counts its rounds, and nothing resets the count before the *)
(* scenario ends.                                                           *)
LEMMA PagesSeenNext == TypeOK /\ PagesSeen /\ [Next]_vars => PagesSeen'
<1>. SUFFICES ASSUME TypeOK, PagesSeen, [Next]_vars,
                     NEW p \in Readers, pc'[p] \in {"releasing", "reusing"}
              PROVE  run'[p].pages > 0
  BY DEF PagesSeen
<1>1. CASE pc'[p] = pc[p] /\ run'[p] = run[p]
  BY <1>1 DEF PagesSeen
<1>2. ASSUME NEW r \in Readers, NEW ans, CallDone(r, ans), p = r
      PROVE  run'[p].pages > 0
  <2>1. CASE pc[r] = "paging" /\ PageDone(r, ans)
    <3>1. run'[r] = AfterPage(run[r], ans) /\ run[r] \in Runs
      BY <2>1 DEF PageDone, TypeOK
    <3>2. run'[r].pages = run[r].pages + 1 /\ run[r].pages \in Nat
      BY <3>1 DEF AfterPage, Runs
    <3>. QED  BY <1>2, <3>2
  <2>2. CASE pc[r] = "releasing" /\ ReleaseDone(r, ans)
    <3>1. run'[r].pages = run[r].pages
      BY <2>2 DEF ReleaseDone, TypeOK, Runs
    <3>. QED  BY <1>2, <2>2, <3>1 DEF PagesSeen
  <2>3. CASE pc'[r] = "done"
    BY <1>2, <2>3
  <2>. QED  BY <1>2, <2>1, <2>2, <2>3
       DEF CallDone, ReuseDone, OneShotDone, TypeOK
<1>3. ASSUME NEW r \in Readers, NEW ans, CallDone(r, ans), p # r
      PROVE  pc'[p] = pc[p] /\ run'[p] = run[p]
  BY <1>3 DEF CallDone, PageDone, ReleaseDone, ReuseDone, OneShotDone, TypeOK
<1>4. ASSUME NEW r \in Readers, Serve(r) \/ Disconnect(r)
      PROVE  pc'[p] = pc[p] /\ run'[p] = run[p]
  BY <1>4 DEF Serve, ServeUnsupported, ServeInvalidCp, ServeRelease,
              ServeLastPage, ServePage, Reply, Disconnect
<1>5. ASSUME NEW r \in Readers, NEW w, NEW n, StartContinue(r, w, n)
      PROVE  pc'[p] = pc[p] /\ run'[p] = run[p]
  BY <1>5 DEF StartContinue, TypeOK
<1>6. ASSUME NEW r \in Readers, NEW hist, NEW w, NEW n, NEW cp, NEW release,
             OneShot(r, hist, w, n, cp, release)
      PROVE  pc'[p] = pc[p] /\ run'[p] = run[p]
  BY <1>6 DEF OneShot, TypeOK
<1>7. ASSUME NEW r \in Readers, Kill(r)
      PROVE  pc'[p] = pc[p] /\ run'[p] = run[p]
  BY <1>7 DEF Kill, TypeOK
<1>8. CASE UNCHANGED vars
  BY <1>1, <1>8 DEF vars
<1>. QED  BY <1>1, <1>2, <1>3, <1>4, <1>5, <1>6, <1>7, <1>8
     DEF Next, Receive, ServiceFault

(* The end of a page's call continues the reading where it stood, and the   *)
(* end of the page loop settles the verdict.                                *)
LEMMA PageMove ==
    ASSUME TypeOK, TypeOK', NEW r \in Readers, ReaderInv(r)',
           NEW ans \in Answers, pc[r] = "paging", CallDone(r, ans)
    PROVE  CursorMove(r)
<1>. DEFINE y == run[r]
            x == run'[r]
<1>1. /\ y \in Runs /\ x \in Runs
      /\ pc'[r] \in {"paging", "releasing", "done"}
      /\ x = AfterPage(y, ans)
  BY DEF TypeOK, CallDone, PageDone
<1>2. x.pages = y.pages + 1 /\ x.got = y.got \o ans.values /\ x.win = y.win
  BY <1>1 DEF AfterPage, Runs
<1>3. x.pages > 0 /\ Len(y.got) <= Len(x.got) /\ Len(x.got) \in Nat
      /\ Len(y.got) \in Nat
  <2>1. /\ y.got \in Seq(1..NumSamples) /\ ans.values \in Seq(1..NumSamples)
        /\ y.pages \in Nat
    BY <1>1 DEF Runs, Answers
  <2>2. Len(x.got) = Len(y.got) + Len(ans.values)
    BY <1>2, <2>1, ConcatProperties
  <2>3. Len(y.got) \in Nat /\ Len(ans.values) \in Nat
    BY <2>1, LenProperties
  <2>4. x.pages > 0
    BY <1>2, <2>1
  <2>. DEFINE a == Len(y.got)
              b == Len(ans.values)
              c == Len(x.got)
  <2>5. a \in Nat /\ b \in Nat /\ c = a + b
    BY <2>2, <2>3
  <2>. HIDE DEF a, b, c
  <2>6. a <= c /\ c \in Nat /\ a \in Nat
    BY <2>5
  <2>. QED  BY <2>4, <2>6 DEF a, c
<1>4. View(r) = [win |-> y.win, got |-> y.got, verdict |-> "open"]
  BY DEF View, Scenario
<1>. DEFINE v == IF pc'[r] = "paging" THEN "open"
                 ELSE IF x.last = "Good" THEN "whole" ELSE "failed"
<1>5. View(r)' = [win |-> x.win, got |-> x.got, verdict |-> v]
  BY <1>1, <1>3 DEF View, Scenario
<1>6. /\ x.got = Seg(x.win.lo, Len(x.got))
      /\ Len(x.got) <= MatchedCount(x.win)
      /\ v = "whole" => Len(x.got) = MatchedCount(x.win)
  <2>1. CASE pc'[r] = "paging"
    BY <2>1 DEF ReaderInv, PagingInv, Prefix
  <2>2. CASE pc'[r] # "paging"
    BY <1>1, <1>3, <2>2 DEF ReaderInv, ShownInv, Prefix
  <2>. QED  BY <2>1, <2>2
<1>7. v \in {"open", "whole", "failed"}
  OBVIOUS
<1>8. Len(x.got) \in Len(y.got)..MatchedCount(y.win)
  <2>1. MatchedCount(x.win) \in 0..NumSamples
    BY <1>1, MatchedCountType DEF Runs
  <2>. HIDE DEF v, x, y
  <2>2. Len(x.got) <= MatchedCount(x.win)
    BY <1>6
  <2>. DEFINE a == Len(y.got)
              c == Len(x.got)
              m == MatchedCount(x.win)
  <2>3. a \in Nat /\ c \in Nat /\ m \in 0..NumSamples /\ a <= c /\ c <= m
    BY <1>3, <2>1, <2>2
  <2>. HIDE DEF a, c, m
  <2>4. c \in a..m
    BY <2>3, SamplesAssumption
  <2>. QED  BY <1>2, <2>4 DEF a, c, m
<1>. HIDE DEF v, x, y
<1>9. View(r)' = [win |-> y.win, got |-> Seg(y.win.lo, Len(x.got)),
                  verdict |-> v]
  BY <1>2, <1>5, <1>6
<1>10. /\ View(r).verdict = "open" /\ View(r).got = y.got
       /\ View(r).win = y.win
  BY <1>4
<1>. QED  BY <1>2, <1>6, <1>7, <1>8, <1>9, <1>10 DEF CursorMove

(* The calls after the page loop leave the reading and its verdict alone.   *)
LEMMA CallMove ==
    ASSUME TypeOK, TypeOK', NEW r \in Readers, ReaderInv(r), ReaderInv(r)',
           PagesSeen, NEW ans \in Answers, CallDone(r, ans)
    PROVE  CursorMove(r)
<1>. run[r] \in Runs /\ run'[r] \in Runs
  BY DEF TypeOK
<1>1. CASE pc[r] = "paging"
  BY <1>1, PageMove
<1>2. CASE pc[r] = "releasing" /\ ReleaseDone(r, ans)
  <2>1. /\ pc'[r] = "reusing" /\ run'[r].win = run[r].win
        /\ run'[r].got = run[r].got /\ run'[r].last = run[r].last
    BY <1>2 DEF ReleaseDone, TypeOK, Runs
  <2>2. View(r)' = View(r)
    BY <1>2, <2>1 DEF View, Scenario
  <2>. QED  BY <2>2 DEF CursorMove
<1>3. CASE pc[r] = "reusing" /\ ReuseDone(r, ans)
  <2>1. /\ pc'[r] = "done" /\ run'[r].win = run[r].win
        /\ run'[r].got = run[r].got /\ run'[r].last = run[r].last
        /\ run'[r].pages = run[r].pages
    BY <1>3 DEF ReuseDone, TypeOK, Runs
  <2>2. View(r)' = View(r)
    BY <1>3, <2>1 DEF View, Scenario, PagesSeen
  <2>. QED  BY <2>2 DEF CursorMove
<1>4. CASE pc[r] = "oneshot" /\ OneShotDone(r, ans)
  <2>1. pc'[r] = "done" /\ run'[r].pages = run[r].pages
    BY <1>4 DEF OneShotDone, TypeOK, Runs
  <2>2. run[r].pages = 0
    BY <1>4 DEF ReaderInv, OtherInv
  <2>3. View(r)' = View(r)
    BY <1>4, <2>1, <2>2 DEF View, Scenario
  <2>. QED  BY <2>3 DEF CursorMove
<1>. QED  BY <1>1, <1>2, <1>3, <1>4 DEF CallDone

(* Every step of the historian and its clients is a step of HistoryCursor   *)
(* or leaves what it shows unchanged.                                       *)
LEMMA StepRefines ==
    IInv /\ IInv' /\ PagesSeen /\ [Next]_vars => [Private!Next]_(Private!vars)
<1>. SUFFICES ASSUME IInv, IInv', PagesSeen, [Next]_vars
              PROVE  [Private!Next]_(Private!vars)
  OBVIOUS
<1>1. TypeOK /\ TypeOK' /\ allocs \in Nat /\ allocs' \in Nat
  BY DEF IInv, TypeOK
<1>2. CASE allocs' > NumSlots
  <2>1. (allocs' > NumSlots) = TRUE
    BY <1>2
  <2>. QED  BY <2>1 DEF Private!Next
<1>3. CASE ~(allocs' > NumSlots)
  <2>1. allocs' <= NumSlots
    BY <1>1, <1>3, SlotsAssumption
  <2>2. allocs <= NumSlots
    <3>1. allocs <= allocs'
      <4>1. ASSUME NEW r \in Readers, Serve(r)
            PROVE  allocs' = allocs \/ allocs' = allocs + 1
        BY <4>1 DEF Serve, ServeUnsupported, ServeInvalidCp, ServeRelease,
                    ServeLastPage, ServePage
      <4>2. allocs' = allocs \/ \E r \in Readers : Serve(r)
        BY DEF Next, vars, StartContinue, OneShot, Receive, ServiceFault,
               CallDone, Kill, Disconnect
      <4>. QED  BY <1>1, <4>1, <4>2
    <3>. QED  BY <1>1, <2>1, <3>1, SlotsAssumption
  <2>3. \A r \in Readers : ReaderInv(r) /\ ReaderInv(r)'
    BY <2>1, <2>2 DEF IInv, Cursor
  <2>4. ASSUME NEW r \in Readers,
               \A p \in Readers :
                  p # r => pc'[p] = pc[p] /\ run'[p] = run[p],
               CursorMove(r)
        PROVE  [Private!Next]_(Private!vars)
    <3>1. \A p \in Readers : p # r => View(p)' = View(p)
      BY <2>4 DEF View, Scenario
    <3>. QED  BY <1>1, <2>1, <2>2, <2>4, <3>1, MoveIsStep
  <2>5. CASE UNCHANGED <<pc, run>>
    <3>1. \A p \in Readers : View(p)' = View(p)
      BY <2>5 DEF View, Scenario
    <3>2. views' = views
      BY <3>1 DEF views
    <3>3. (allocs > NumSlots) = FALSE /\ (allocs' > NumSlots) = FALSE
      BY <1>1, <2>1, <2>2, SlotsAssumption
    <3>. QED  BY <3>2, <3>3 DEF Private!vars, views
  <2>6. ASSUME NEW r \in Readers, NEW ans \in Answers, CallDone(r, ans)
        PROVE  [Private!Next]_(Private!vars)
    <3>1. CursorMove(r)
      BY <1>1, <2>3, <2>6, CallMove
    <3>2. \A p \in Readers : p # r => pc'[p] = pc[p] /\ run'[p] = run[p]
      BY <1>1, <2>6
         DEF CallDone, PageDone, ReleaseDone, ReuseDone, OneShotDone, TypeOK
    <3>. QED  BY <2>4, <3>1, <3>2
  <2>7. ASSUME NEW r \in Readers, NEW w \in Windows, NEW n \in PageSizes,
               StartContinue(r, w, n)
        PROVE  [Private!Next]_(Private!vars)
    <3>. DEFINE num == IF n = 0 THEN 2 ELSE n
    <3>1. /\ pc' = [pc EXCEPT ![r] = "paging"]
          /\ run' = [run EXCEPT ![r] =
                       [IdleRun EXCEPT !.win = w, !.num = num]]
      BY <2>7, Zenon DEF StartContinue
    <3>. HIDE DEF num
    <3>2. /\ pc'[r] = "paging"
          /\ run'[r] = [IdleRun EXCEPT !.win = w, !.num = num]
          /\ \A p \in Readers : p # r => pc'[p] = pc[p] /\ run'[p] = run[p]
      BY <1>1, <3>1 DEF TypeOK
    <3>3. run'[r].win = w /\ run'[r].got = <<>>
      BY <3>2 DEF IdleRun
    <3>4. View(r)' = [win |-> w, got |-> <<>>, verdict |-> "open"]
      BY <3>2, <3>3 DEF View, Scenario
    <3>. QED  BY <2>4, <3>2, <3>4 DEF CursorMove
  <2>8. ASSUME NEW r \in Readers,
               pc' = [pc EXCEPT ![r] = "oneshot"]
                 \/ pc' = [pc EXCEPT ![r] = "idle"],
               run' = [run EXCEPT ![r] = IdleRun]
        PROVE  [Private!Next]_(Private!vars)
    <3>1. /\ pc'[r] \in {"oneshot", "idle"}
          /\ \A p \in Readers : p # r => pc'[p] = pc[p] /\ run'[p] = run[p]
      BY <1>1, <2>8 DEF TypeOK
    <3>2. View(r)' = Private!NoView
      BY <3>1 DEF View, Scenario, Private!NoView, IdleRun
    <3>. QED  BY <2>4, <3>1, <3>2 DEF CursorMove
  <2>9. ASSUME NEW r \in Readers, Receive(r) \/ ServiceFault(r)
        PROVE  [Private!Next]_(Private!vars)
    <3>1. CASE Receive(r)
      <4>1. resp[r] \in Answers /\ CallDone(r, resp[r])
        BY <1>1, <3>1 DEF Receive, TypeOK
      <4>. QED  BY <2>6, <4>1
    <3>2. CASE ServiceFault(r)
      <4>1. Fault \in Answers
        BY DEF Fault, Answer, Answers, Statuses, NoCp
      <4>. QED  BY <2>6, <3>2, <4>1 DEF ServiceFault
    <3>. QED  BY <2>9, <3>1, <3>2
  <2>10. ASSUME NEW r \in Readers, Serve(r) \/ Disconnect(r)
         PROVE  UNCHANGED <<pc, run>>
    BY <2>10 DEF Serve, ServeUnsupported, ServeInvalidCp, ServeRelease,
                 ServeLastPage, ServePage, Reply, Disconnect
  <2>11. ASSUME NEW r \in Readers, NEW hist, NEW w, NEW n, NEW cp, NEW release,
                OneShot(r, hist, w, n, cp, release)
         PROVE  [Private!Next]_(Private!vars)
    BY <2>8, <2>11 DEF OneShot
  <2>12. ASSUME NEW r \in Readers, Kill(r)
         PROVE  [Private!Next]_(Private!vars)
    BY <2>8, <2>12 DEF Kill
  <2>13. CASE UNCHANGED vars
    BY <2>5, <2>13 DEF vars
  <2>. QED  BY <2>5, <2>7, <2>9, <2>10, <2>11, <2>12, <2>13 DEF Next
<1>. QED  BY <1>2, <1>3

(* The shared table with its tokens, late requests and lost answers         *)
(* implements a private cursor for each scenario (interop_hist_read_raw and *)
(* cmd_history_read against HistoryCursor), for every number of clients,    *)
(* slots, samples and pages.                                                *)
THEOREM HistorianImplementsCursor == Spec => ImplementsCursor
<1>1. Init => Private!Init
  <2>. SUFFICES ASSUME Init PROVE Private!Init
    OBVIOUS
  <2>1. \A p \in Readers : View(p) = Private!NoView
    BY DEF Init, View, Scenario, Private!NoView, IdleRun
  <2>2. (allocs > NumSlots) = FALSE
    BY SlotsAssumption DEF Init
  <2>. QED  BY <2>1, <2>2 DEF Private!Init
<1>2. Spec => []PagesSeen
  <2>1. TypeOK /\ PagesSeen /\ [Next]_vars => PagesSeen'
    BY PagesSeenNext
  <2>. QED  BY <2>1, PagesSeenInit, TypeCorrect, PTL DEF Spec
<1>. QED  BY <1>1, <1>2, StepRefines, CursorInvariant, PTL
     DEF Spec, ImplementsCursor, Private!Spec
=============================================================================
