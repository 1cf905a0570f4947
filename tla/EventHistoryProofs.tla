------------------------- MODULE EventHistoryProofs -------------------------
(***************************************************************************)
(* Proofs about EventHistory, for every archive, every set of command lines *)
(* and every limit: types, with continuation points told apart by their     *)
(* tokens (TypeCorrect); no point left open (PointsReleased); the exit code *)
(* (ExitIsTold); the pages of a node are the events asked for, wherever the *)
(* server cuts them (PagesAreRight); values arrive under their own paths    *)
(* (UpdateIsRight). Each result has an invariant of its own, on top of the  *)
(* types.                                                                   *)
(***************************************************************************)
EXTENDS EventHistory, FiniteSetTheorems, SequenceTheorems, TLAPS

Codes == {"Good", "GoodNoData", "Bad", "BadCp", "NodeTimeout", "Timeout", "Closed"}

Pages == Seq(SUBSET Nat)

ResultType == [sc : Codes, pages : Pages, whole : BOOLEAN]

RunType ==
    [node : Nat, page : Nat, cur : Nat, lastCp : Nat, last : Codes,
     pages : Pages, results : Seq(ResultType), ok : BOOLEAN,
     timeout : BOOLEAN, emit : Codes, exit : {NoExit, 0, 2, 3, 4, 6, 7}]

PointType == [tok : Nat \ {NoCp}, from : 0..Len(Archive)]

Paging == {"page", "release", "reuse", "next"}
Reading == Paging \cup {"read", "judge", "report"}
Updating == {"collect", "build"}
Idle == {"parse", "connect", "read"} \cup Updating

(* The continuation points of the session: finitely many, told apart by     *)
(* their tokens.                                                            *)
PointsOk(ps) ==
    /\ ps \subseteq PointType
    /\ IsFiniteSet(ps)
    /\ \A p, q \in ps : p.tok = q.tok => p = q

TypeOK ==
    /\ \/ cmd = "read" /\ args \in ReadArgs
       \/ cmd = "update" /\ args \in UpdateArgs
    /\ pc \in {"parse", "connect", "done"} \cup Reading \cup Updating
    /\ pc \in Reading => cmd = "read"
    /\ pc \in Updating => cmd = "update"
    /\ pc \in Paging => args.scenario
    /\ run \in RunType
    /\ pc \in Idle => run = IdleRun
    /\ pc = "judge" => run.node \in 1..args.nodes /\ Len(run.results) = args.nodes
    /\ PointsOk(points)
    /\ dead \in BOOLEAN
    /\ lost \in BOOLEAN

-----------------------------------------------------------------------------
(* The server.                                                              *)

(* A new token is a token, and no open point has it.                        *)
LEMMA TokenIsNew ==
    ASSUME TypeOK
    PROVE  Token \in Nat \ {NoCp} /\ \A q \in points : q.tok # Token
<1>. DEFINE toks == {q.tok : q \in points}
            n == Cardinality(points)
<1>1. IsFiniteSet(points) /\ points \subseteq PointType
  BY DEF TypeOK, PointsOk
<1>2. n \in Nat
  BY <1>1, FS_CardinalityType
<1>3. IsFiniteSet(toks) /\ Cardinality(toks) <= n
  <2>. DEFINE f == [q \in points |-> q.tok]
  <2>1. f \in Surjection(points, toks)
    BY DEF Surjection
  <2>. HIDE DEF f
  <2>. QED  BY <1>1, <2>1, FS_Surjection
<1>4. \E t \in 1..(n + 1) : t \notin toks
  <2>1. IsFiniteSet(1..(n + 1)) /\ Cardinality(1..(n + 1)) = n + 1
    <3>1. Cardinality(1..(n + 1)) = IF 1 > n + 1 THEN 0 ELSE (n + 1) - 1 + 1
      BY <1>2, FS_Interval
    <3>2. IsFiniteSet(1..(n + 1))
      BY <1>2, FS_Interval
    <3>. HIDE DEF n
    <3>. QED  BY <1>2, <3>1, <3>2
  <2>2. SUFFICES ASSUME 1..(n + 1) \subseteq toks
                 PROVE  FALSE
    OBVIOUS
  <2>3. Cardinality(1..(n + 1)) <= Cardinality(toks)
    BY <1>3, <2>2, FS_Subset
  <2>4. Cardinality(toks) \in Nat
    BY <1>3, FS_CardinalityType
  <2>. HIDE DEF toks, n
  <2>. QED  BY <1>2, <1>3, <2>1, <2>3, <2>4
<1>5. Token \in 1..(n + 1) /\ \A q \in points : q.tok # Token
  BY <1>4 DEF Token
<1>. HIDE DEF n
<1>. QED  BY <1>2, <1>5 DEF NoCp

(* A request that is executed starts at a position of the archive.          *)
LEMMA FromType ==
    ASSUME TypeOK, NEW cp, cp = NoCp \/ IsOpen(cp)
    PROVE  From(cp) \in 0..Len(Archive)
<1>1. Len(Archive) \in Nat
  BY EventAssumption DEF IsSequence
<1>2. points \subseteq PointType
  BY DEF TypeOK, PointsOk
<1>. QED  BY <1>1, <1>2 DEF From, IsOpen, PointType

(* The point an open continuation point stands for.                         *)
LEMMA FromIs ==
    ASSUME TypeOK, NEW p \in points
    PROVE  From(p.tok) = p.from
<1>1. \A q \in points : q.tok = p.tok => q = p
  BY DEF TypeOK, PointsOk
<1>2. p.tok # NoCp
  BY DEF TypeOK, PointsOk, PointType
<1>3. (CHOOSE q \in points : q.tok = p.tok) = p
  BY <1>1
<1>. QED  BY <1>2, <1>3 DEF From

(* Removing a point, or issuing one with a new token.                       *)
LEMMA PointsRemain ==
    ASSUME TypeOK, NEW cp
    PROVE  PointsOk({q \in points : q.tok # cp})
<1>1. PointsOk(points)
  BY DEF TypeOK
<1>2. IsFiniteSet({q \in points : q.tok # cp})
  BY <1>1, FS_Subset DEF PointsOk
<1>. QED  BY <1>1, <1>2 DEF PointsOk

LEMMA PointIssued ==
    ASSUME TypeOK, NEW cp, NEW to \in 0..Len(Archive)
    PROVE  PointsOk({q \in points : q.tok # cp} \cup {[tok |-> Token, from |-> to]})
<1>. DEFINE left == {q \in points : q.tok # cp}
            new == [tok |-> Token, from |-> to]
<1>1. PointsOk(left)
  BY PointsRemain
<1>2. new \in PointType /\ new.tok = Token
  BY TokenIsNew DEF PointType
<1>3. \A q \in left : q.tok # Token
  BY TokenIsNew
<1>4. IsFiniteSet(left \cup {new})
  BY <1>1, FS_AddElement DEF PointsOk
<1>5. ASSUME NEW p \in left \cup {new}, NEW q \in left \cup {new}, p.tok = q.tok
      PROVE  p = q
  <2>. HIDE DEF left, new
  <2>1. p \in left /\ q \in left => p = q
    BY <1>1, <1>5 DEF PointsOk
  <2>. QED  BY <1>2, <1>3, <1>5, <2>1
<1>6. left \cup {new} \subseteq PointType
  BY <1>1, <1>2 DEF PointsOk
<1>. HIDE DEF left, new
<1>7. PointsOk(left \cup {new})
  BY <1>4, <1>5, <1>6 DEF PointsOk
<1>. QED  BY <1>7 DEF left, new

AnswerType ==
    [sc : Codes, events : SUBSET Nat, cp : Nat, points : SUBSET PointType,
     answered : BOOLEAN]

LEMMA AnswerIs ==
    ASSUME TypeOK, NEW cp, cp = NoCp \/ IsOpen(cp),
           NEW cut \in [to : From(cp)..Len(Archive), more : BOOLEAN]
    PROVE  /\ Answer(cp, cut) \in AnswerType
           /\ PointsOk(Answer(cp, cut).points)
           /\ Answer(cp, cut).answered
<1>. DEFINE events == Matches(From(cp), cut.to)
            left == {q \in points : q.tok # cp}
            more == left \cup {[tok |-> Token, from |-> cut.to]}
<1>1. From(cp) \in 0..Len(Archive) /\ Len(Archive) \in Nat
  BY FromType, EventAssumption DEF IsSequence
<1>2. cut.to \in 0..Len(Archive)
  BY <1>1
<1>3. events \in SUBSET Nat
  BY <1>1, <1>2 DEF Matches
<1>4. PointsOk(left) /\ PointsOk(more)
  BY <1>2, PointsRemain, PointIssued
<1>5. left \in SUBSET PointType /\ more \in SUBSET PointType
  BY <1>4 DEF PointsOk
<1>6. Token \in Nat /\ NoCp \in Nat
  BY TokenIsNew DEF NoCp
<1>7. CASE cut.more
  <2>1. Answer(cp, cut) = Result("Good", events, Token, more, TRUE)
    BY <1>7 DEF Answer
  <2>. HIDE DEF events, left, more
  <2>. QED  BY <2>1, <1>3, <1>4, <1>5, <1>6 DEF Result, AnswerType, Codes
<1>8. CASE ~ cut.more
  <2>1. Answer(cp, cut) = Result(IF events = {} THEN "GoodNoData" ELSE "Good",
                                 events, NoCp, left, TRUE)
    BY <1>8 DEF Answer
  <2>. HIDE DEF events, left, more
  <2>. QED  BY <2>1, <1>3, <1>4, <1>5, <1>6 DEF Result, AnswerType, Codes
<1>. QED  BY <1>7, <1>8

(* What an executed request answers, and what a call can come to.           *)
LEMMA ExecutedIs ==
    ASSUME TypeOK, NEW cp, NEW n, NEW ex \in Executed(cp, n)
    PROVE  ex \in AnswerType /\ PointsOk(ex.points) /\ ex.answered
<1>0. PointsOk(points) /\ points \in SUBSET PointType
  BY DEF TypeOK, PointsOk
<1>1. CASE cp # NoCp /\ ~ IsOpen(cp)
  <2>1. ex = Result("BadCp", {}, NoCp, points, TRUE)
    BY <1>1 DEF Executed
  <2>. QED  BY <1>0, <2>1 DEF Result, AnswerType, Codes, NoCp
<1>2. CASE ~ (cp # NoCp /\ ~ IsOpen(cp))
  <2>1. PICK cut \in Cuts(From(cp), n) : ex = Answer(cp, cut)
    BY <1>2 DEF Executed
  <2>2. cut \in [to : From(cp)..Len(Archive), more : BOOLEAN]
    BY DEF Cuts
  <2>. QED  BY <1>2, <2>1, <2>2, AnswerIs
<1>. QED  BY <1>1, <1>2

LEMMA ReleaseIs ==
    ASSUME TypeOK, NEW cp, NEW ex \in Release(cp)
    PROVE  ex \in AnswerType /\ PointsOk(ex.points) /\ ex.answered
<1>. DEFINE left == {q \in points : q.tok # cp}
<1>0. PointsOk(points) /\ points \in SUBSET PointType
  BY DEF TypeOK, PointsOk
<1>1. PointsOk(left) /\ left \in SUBSET PointType
  BY PointsRemain DEF PointsOk
<1>2. ex = Result("Good", {}, NoCp, left, TRUE)
      \/ ex = Result("Good", {}, NoCp, points, TRUE)
      \/ ex = Result("BadCp", {}, NoCp, points, TRUE)
  BY DEF Release
<1>. HIDE DEF left
<1>3. ASSUME NEW sc \in {"Good", "BadCp"}, NEW ps, PointsOk(ps), ps \in SUBSET PointType,
             ex = Result(sc, {}, NoCp, ps, TRUE)
      PROVE  ex \in AnswerType /\ PointsOk(ex.points) /\ ex.answered
  BY <1>3 DEF Result, AnswerType, Codes, NoCp
<1>. QED  BY <1>0, <1>1, <1>2, <1>3

LEMMA CallIs ==
    ASSUME TypeOK, NEW ex \in AnswerType, PointsOk(ex.points),
           NEW c \in Calls(ex)
    PROVE  /\ c \in AnswerType /\ PointsOk(c.points)
           /\ \/ c = ex
              \/ c = Result("Bad", {}, NoCp, points, TRUE)
              \/ ~ c.answered /\ ~ IsGood(c.sc) /\ c.events = {} /\ c.cp = NoCp
<1>0. PointsOk(points) /\ points \in SUBSET PointType
  BY DEF TypeOK, PointsOk
<1>1. \/ c = ex
      \/ c = Result("Bad", {}, NoCp, points, TRUE)
      \/ \E sc \in {"Timeout", "Closed"}, left \in {points, ex.points} :
            c = Result(sc, {}, NoCp, left, FALSE)
  <2>1. CASE dead
    <3>1. c = Result("Closed", {}, NoCp, points, FALSE)
      BY <2>1 DEF Calls
    <3>. QED  BY <3>1
  <2>2. CASE ~ dead
    <3>1. c \in {ex, Result("Bad", {}, NoCp, points, TRUE)}
          \/ c \in NoAnswer(points) \/ c \in NoAnswer(ex.points)
      BY <2>2 DEF Calls
    <3>. QED  BY <3>1 DEF NoAnswer
  <2>. QED  BY <2>1, <2>2
<1>2. CASE c = ex
  BY <1>2
<1>3. CASE c = Result("Bad", {}, NoCp, points, TRUE)
  BY <1>0, <1>3 DEF Result, AnswerType, Codes, NoCp
<1>4. ASSUME NEW sc \in {"Timeout", "Closed"}, NEW left \in {points, ex.points},
             c = Result(sc, {}, NoCp, left, FALSE)
      PROVE  /\ c \in AnswerType /\ PointsOk(c.points)
             /\ ~ c.answered /\ ~ IsGood(c.sc) /\ c.events = {} /\ c.cp = NoCp
  <2>1. PointsOk(left) /\ left \in SUBSET PointType
    BY <1>0 DEF AnswerType
  <2>. QED  BY <1>4, <2>1 DEF Result, AnswerType, Codes, NoCp, IsGood
<1>. QED  BY <1>1, <1>2, <1>3, <1>4

-----------------------------------------------------------------------------
(* What the larger actions do, field by field.                              *)

(* A call of the service that has come back as c.                           *)
CameBack(c, ex) ==
    /\ c \in AnswerType
    /\ PointsOk(c.points)
    /\ points' = c.points
    /\ dead' \in BOOLEAN
    /\ \/ c = ex /\ c.answered
       \/ c = Result("Bad", {}, NoCp, points, TRUE)
       \/ ~ c.answered /\ ~ IsGood(c.sc) /\ c.events = {} /\ c.cp = NoCp

LEMMA EffectIs ==
    ASSUME TypeOK, NEW ex \in AnswerType, PointsOk(ex.points), ex.answered,
           NEW c \in Calls(ex), Effect(c)
    PROVE  CameBack(c, ex)
BY CallIs DEF CameBack, Effect, TypeOK

MoreOf(c) == IsGood(c.sc) /\ c.cp # NoCp

LEMMA PageStep ==
    ASSUME TypeOK, Page
    PROVE  \E ex \in Executed(run.cur, PageSize) : \E c :
             /\ CameBack(c, ex)
             /\ lost' = (lost \/ ~ c.answered)
             /\ run' \in RunType
             /\ run'.page = run.page + 1 /\ run'.last = c.sc
             /\ run'.pages = Append(run.pages, c.events)
             /\ run'.cur = IF MoreOf(c) THEN c.cp ELSE NoCp
             /\ run'.lastCp = IF MoreOf(c) THEN c.cp ELSE run.lastCp
             /\ run'.node = run.node /\ run'.results = run.results
             /\ run'.ok = run.ok /\ run'.timeout = run.timeout
             /\ run'.emit = run.emit /\ run'.exit = run.exit
             /\ pc' = IF MoreOf(c) /\ MorePages(run.page + 1) THEN "page"
                      ELSE IF run'.lastCp # NoCp THEN "release"
                      ELSE "next"
<1>0. PICK ex \in Executed(run.cur, PageSize) : \E c \in Calls(ex) :
         /\ Effect(c)
         /\ lost' = (lost \/ ~ c.answered)
         /\ LET r == [run EXCEPT !.page = @ + 1, !.last = c.sc, !.cur = NoCp,
                                 !.pages = Append(@, c.events)]
                more == IsGood(c.sc) /\ c.cp # NoCp
            IN  /\ run' = IF more THEN KeepCp(r, c) ELSE r
                /\ pc' = IF more /\ MorePages(run.page + 1) THEN "page"
                         ELSE IF run'.lastCp # NoCp THEN "release"
                         ELSE "next"
  BY DEF Page
<1>1. PICK c \in Calls(ex) :
         /\ Effect(c)
         /\ lost' = (lost \/ ~ c.answered)
         /\ LET r == [run EXCEPT !.page = @ + 1, !.last = c.sc, !.cur = NoCp,
                                 !.pages = Append(@, c.events)]
                more == IsGood(c.sc) /\ c.cp # NoCp
            IN  /\ run' = IF more THEN KeepCp(r, c) ELSE r
                /\ pc' = IF more /\ MorePages(run.page + 1) THEN "page"
                         ELSE IF run'.lastCp # NoCp THEN "release"
                         ELSE "next"
  BY <1>0
<1>2. CameBack(c, ex)
  BY <1>1, ExecutedIs, EffectIs
<1>3. run \in RunType /\ c \in AnswerType /\ NoCp \in Nat
  BY <1>2 DEF TypeOK, CameBack, NoCp
<1>. DEFINE r == [run EXCEPT !.page = @ + 1, !.last = c.sc, !.cur = NoCp,
                             !.pages = Append(@, c.events)]
<1>. DEFINE ps == Append(run.pages, c.events)
            n == run.page + 1
<1>4. ps \in Pages /\ n \in Nat
  BY <1>3 DEF RunType, Pages, AnswerType
<1>4a. r = [run EXCEPT !.page = n, !.last = c.sc, !.cur = NoCp, !.pages = ps]
  BY <1>3 DEF RunType
<1>5. /\ r \in RunType
      /\ r.page = n /\ r.last = c.sc
      /\ r.pages = ps
      /\ r.cur = NoCp /\ r.lastCp = run.lastCp
      /\ r.node = run.node /\ r.results = run.results
      /\ r.ok = run.ok /\ r.timeout = run.timeout
      /\ r.emit = run.emit /\ r.exit = run.exit
  <2>. HIDE DEF r, ps, n
  <2>. QED  BY <1>3, <1>4, <1>4a DEF RunType, AnswerType
<1>. HIDE DEF r
<1>6. /\ run' = IF MoreOf(c) THEN KeepCp(r, c) ELSE r
      /\ pc' = IF MoreOf(c) /\ MorePages(run.page + 1) THEN "page"
               ELSE IF run'.lastCp # NoCp THEN "release"
               ELSE "next"
  BY <1>1 DEF MoreOf, r
<1>7. CASE MoreOf(c)
  <2>1. run' = [r EXCEPT !.cur = c.cp, !.lastCp = c.cp]
    BY <1>6, <1>7 DEF KeepCp
  <2>2. /\ run' \in RunType
        /\ run'.page = r.page /\ run'.last = r.last /\ run'.pages = r.pages
        /\ run'.cur = c.cp /\ run'.lastCp = c.cp
        /\ run'.node = r.node /\ run'.results = r.results
        /\ run'.ok = r.ok /\ run'.timeout = r.timeout
        /\ run'.emit = r.emit /\ run'.exit = r.exit
    BY <1>3, <1>5, <2>1 DEF RunType, AnswerType
  <2>. QED  BY <1>1, <1>2, <1>5, <1>6, <1>7, <2>2
<1>8. CASE ~ MoreOf(c)
  <2>1. run' = r
    BY <1>6, <1>8
  <2>. QED  BY <1>1, <1>2, <1>5, <1>6, <1>8, <2>1
<1>. QED  BY <1>7, <1>8

LEMMA ReleaseStep ==
    ASSUME TypeOK, ReleaseLast
    PROVE  \E ex \in Release(run.lastCp) : \E c :
             /\ CameBack(c, ex)
             /\ lost' = (lost \/ ~ c.answered \/ c.sc = "Bad")
<1>0. PICK ex \in Release(run.lastCp) : \E c \in Calls(ex) :
         Effect(c) /\ lost' = (lost \/ ~ c.answered \/ c.sc = "Bad")
  BY DEF ReleaseLast
<1>1. PICK c \in Calls(ex) : Effect(c) /\ lost' = (lost \/ ~ c.answered \/ c.sc = "Bad")
  BY <1>0
<1>2. CameBack(c, ex)
  BY <1>1, ReleaseIs, EffectIs
<1>. QED  BY <1>1, <1>2

LEMMA ReuseStep ==
    ASSUME TypeOK, ReuseLast
    PROVE  \E ex \in Executed(run.lastCp, PageSize) : \E c :
             CameBack(c, ex) /\ lost' = (lost \/ ~ c.answered)
<1>0. PICK ex \in Executed(run.lastCp, PageSize) : \E c \in Calls(ex) :
         Effect(c) /\ lost' = (lost \/ ~ c.answered)
  BY DEF ReuseLast
<1>1. PICK c \in Calls(ex) : Effect(c) /\ lost' = (lost \/ ~ c.answered)
  BY <1>0
<1>2. CameBack(c, ex)
  BY <1>1, ExecutedIs, EffectIs
<1>. QED  BY <1>1, <1>2

(* A verdict changes two fields.                                            *)
LEMMA VerdictIs ==
    ASSUME NEW r \in RunType, NEW sc \in Codes
    PROVE  /\ Verdict(r, sc) \in RunType
           /\ \A f \in {"node", "page", "cur", "lastCp", "last", "pages", "results",
                         "timeout", "exit"} : Verdict(r, sc)[f] = r[f]
           /\ Verdict(r, sc).ok = (r.ok /\ IsGood(sc))
           /\ Verdict(r, sc).emit = IF ~ IsGood(sc) /\ r.ok THEN sc
                                    ELSE IF IsGood(sc) /\ r.ok /\ r.emit = "Good" THEN sc
                                    ELSE r.emit
<1>1. IsGood(sc) \in BOOLEAN
  BY DEF IsGood
<1>. QED  BY <1>1 DEF Verdict, RunType

LEMMA NextNodeStep ==
    ASSUME TypeOK, NextNode
    PROVE  /\ run' \in RunType
           /\ run'.node = run.node + 1 /\ run'.page = 0
           /\ run'.cur = NoCp /\ run'.lastCp = NoCp /\ run'.last = "Good"
           /\ run'.pages = <<>> /\ run'.exit = run.exit
           /\ run'.timeout = (run.timeout \/ run.last = "Timeout")
           /\ run'.results = Append(run.results, [sc |-> run.last, pages |-> run.pages,
                                                  whole |-> run.cur = NoCp])
           /\ run'.ok = Verdict(run, run.last).ok
           /\ run'.emit = Verdict(run, run.last).emit
<1>1. run \in RunType /\ run.last \in Codes
  BY DEF TypeOK, RunType
<1>. DEFINE v == Verdict(run, run.last)
            new == [sc |-> run.last, pages |-> run.pages, whole |-> run.cur = NoCp]
<1>2. /\ v \in RunType /\ v.node = run.node /\ v.results = run.results
      /\ v.timeout = run.timeout /\ v.exit = run.exit
  BY <1>1, VerdictIs
<1>3. new \in ResultType
  BY <1>1 DEF ResultType, RunType
<1>4. Append(run.results, new) \in Seq(ResultType)
  BY <1>1, <1>3 DEF RunType
<1>5. run' = [v EXCEPT
                  !.timeout = @ \/ run.last = "Timeout",
                  !.results = Append(@, new),
                  !.node = @ + 1, !.page = 0, !.cur = NoCp, !.lastCp = NoCp,
                  !.last = "Good", !.pages = <<>>]
  BY DEF NextNode
<1>6. "Good" \in Codes /\ <<>> \in Pages /\ NoCp \in Nat
  BY DEF Codes, Pages, NoCp
<1>. HIDE DEF v, new
<1>. DEFINE rs == Append(v.results, new)
            late == (v.timeout \/ run.last = "Timeout")
            n == v.node + 1
            none == <<>>
<1>7. rs \in Seq(ResultType) /\ late \in BOOLEAN /\ n \in Nat /\ none \in Pages
  BY <1>1, <1>2, <1>4, <1>6 DEF RunType
<1>8. run' = [v EXCEPT !.timeout = late, !.results = rs, !.node = n,
                       !.page = 0, !.cur = NoCp, !.lastCp = NoCp,
                       !.last = "Good", !.pages = none]
  BY <1>2, <1>5 DEF RunType
<1>. HIDE DEF rs, late, n, none
<1>9. /\ run'.node = n /\ run'.page = 0
      /\ run'.cur = NoCp /\ run'.lastCp = NoCp /\ run'.last = "Good"
      /\ run'.pages = none /\ run'.exit = v.exit
      /\ run'.timeout = late
      /\ run'.results = rs
      /\ run'.ok = v.ok /\ run'.emit = v.emit
  BY <1>2, <1>8 DEF RunType
<1>10. run' \in RunType
  BY <1>2, <1>6, <1>7, <1>8 DEF RunType
<1>. QED  BY <1>2, <1>9, <1>10 DEF v, new, rs, late, n, none

LEMMA StatusesAre ==
    ASSUME TypeOK, cmd = "read", NEW sts \in [1..args.nodes -> Codes]
    PROVE  /\ Statuses(sts) \in Seq(ResultType)
           /\ Len(Statuses(sts)) = args.nodes
           /\ \A i \in 1..args.nodes : Statuses(sts)[i].sc = sts[i]
<1>1. args.nodes \in Nat
  BY EventAssumption DEF TypeOK
<1>2. <<>> \in Pages
  BY DEF Pages
<1>3. \A i \in 1..args.nodes :
          [sc |-> sts[i], pages |-> <<>>, whole |-> FALSE] \in ResultType
  BY <1>2 DEF ResultType
<1>. QED  BY <1>1, <1>3 DEF Statuses

LEMMA ReadAllStep ==
    ASSUME TypeOK, ReadAll
    PROVE  /\ run' \in RunType
           /\ Len(run'.results) = args.nodes
           /\ \A i \in 1..args.nodes :
                 run'.results[i].sc \in {"Good", "GoodNoData", "Bad", "BadCp", "NodeTimeout"}
           /\ \A f \in {"node", "page", "cur", "lastCp", "last", "pages", "ok",
                        "timeout", "emit", "exit"} : run'[f] = run[f]
<1>1. PICK sts \in [1..args.nodes -> {"Good", "GoodNoData", "Bad", "BadCp", "NodeTimeout"}] :
         run' = [run EXCEPT !.results = Statuses(sts)]
  BY DEF ReadAll
<1>2. cmd = "read" /\ run \in RunType
  BY DEF ReadAll, TypeOK, Reading
<1>3. sts \in [1..args.nodes -> Codes]
  BY DEF Codes
<1>4. /\ Statuses(sts) \in Seq(ResultType)
      /\ Len(Statuses(sts)) = args.nodes
      /\ \A i \in 1..args.nodes : Statuses(sts)[i].sc = sts[i]
  BY <1>2, <1>3, StatusesAre
<1>. DEFINE st == Statuses(sts)
<1>. HIDE DEF st
<1>5. run' = [run EXCEPT !.results = st]
  BY <1>1 DEF st
<1>6. st \in Seq(ResultType)
  BY <1>4 DEF st
<1>7. run' \in RunType /\ run'.results = st
  BY <1>2, <1>5, <1>6 DEF RunType
<1>8. \A f \in {"node", "page", "cur", "lastCp", "last", "pages", "ok",
                "timeout", "emit", "exit"} : run'[f] = run[f]
  BY <1>2, <1>5 DEF RunType
<1>. QED  BY <1>4, <1>7, <1>8 DEF st

LEMMA ReadFaultStep ==
    ASSUME TypeOK, ReadFault
    PROVE  \E sc \in {"Bad", "Timeout", "Closed"} :
             /\ run' \in RunType
             /\ Len(run'.results) = args.nodes
             /\ \A i \in 1..args.nodes : run'.results[i].sc = sc
             /\ run'.ok = FALSE /\ run'.emit = sc /\ run'.timeout = (sc = "Timeout")
             /\ \A f \in {"node", "page", "cur", "lastCp", "last", "pages", "exit"} :
                   run'[f] = run[f]
<1>1. PICK sc \in {"Bad", "Timeout", "Closed"} :
         run' = [run EXCEPT !.ok = FALSE, !.emit = sc, !.timeout = (sc = "Timeout"),
                            !.results = Statuses([i \in 1..args.nodes |-> sc])]
  BY DEF ReadFault
<1>. DEFINE sts == [i \in 1..args.nodes |-> sc]
            st == Statuses(sts)
<1>2. cmd = "read" /\ run \in RunType
  BY DEF ReadFault, TypeOK, Reading
<1>3. sts \in [1..args.nodes -> Codes] /\ \A i \in 1..args.nodes : sts[i] = sc
  BY DEF Codes
<1>. HIDE DEF sts
<1>4. /\ st \in Seq(ResultType)
      /\ Len(st) = args.nodes
      /\ \A i \in 1..args.nodes : st[i].sc = sc
  BY <1>2, <1>3, StatusesAre
<1>5. run' = [run EXCEPT !.ok = FALSE, !.emit = sc, !.timeout = (sc = "Timeout"),
                         !.results = st]
  BY <1>1 DEF sts
<1>. HIDE DEF st
<1>6. sc \in Codes
  BY DEF Codes
<1>7. /\ run' \in RunType /\ run'.results = st
      /\ run'.ok = FALSE /\ run'.emit = sc /\ run'.timeout = (sc = "Timeout")
  BY <1>2, <1>4, <1>5, <1>6 DEF RunType
<1>8. \A f \in {"node", "page", "cur", "lastCp", "last", "pages", "exit"} :
                   run'[f] = run[f]
  BY <1>2, <1>5 DEF RunType
<1>. QED  BY <1>4, <1>7, <1>8

LEMMA ExitStep ==
    ASSUME TypeOK, NEW code \in {0, 2, 3, 4, 6, 7}, Exit(code)
    PROVE  /\ run' \in RunType /\ pc' = "done" /\ run'.exit = code
           /\ \A f \in {"node", "page", "cur", "lastCp", "last", "pages", "results",
                        "ok", "timeout", "emit"} : run'[f] = run[f]
<1>1. run \in RunType /\ run' = [run EXCEPT !.exit = code] /\ pc' = "done"
  BY DEF TypeOK, Exit
<1>. QED  BY <1>1 DEF RunType

(* A status of the one answer is judged.                                    *)
LEMMA JudgeStep ==
    ASSUME TypeOK, Judge, run.node \in 1..Len(run.results)
    PROVE  LET v == Verdict(run, run.results[run.node].sc) IN
           /\ run' \in RunType
           /\ run'.node = run.node + 1
           /\ run'.ok = v.ok /\ run'.emit = v.emit
           /\ \A f \in {"page", "cur", "lastCp", "last", "pages", "results",
                        "timeout", "exit"} : run'[f] = run[f]
<1>. DEFINE v == Verdict(run, run.results[run.node].sc)
<1>0. run \in RunType /\ run.results \in Seq(ResultType)
  BY DEF TypeOK, RunType
<1>0a. run.results[run.node] \in ResultType
  BY <1>0
<1>1. run \in RunType /\ run.results[run.node].sc \in Codes
  BY <1>0, <1>0a DEF ResultType
<1>2. /\ v \in RunType
      /\ \A f \in {"node", "page", "cur", "lastCp", "last", "pages", "results",
                   "timeout", "exit"} : v[f] = run[f]
  BY <1>1, VerdictIs
<1>3. run' = [v EXCEPT !.node = @ + 1]
  BY DEF Judge
<1>. HIDE DEF v
<1>4. /\ run' \in RunType /\ run'.node = v.node + 1
      /\ run'.ok = v.ok /\ run'.emit = v.emit
      /\ \A f \in {"page", "cur", "lastCp", "last", "pages", "results",
                   "timeout", "exit"} : run'[f] = v[f]
  BY <1>2, <1>3 DEF RunType
<1>. QED  BY <1>2, <1>4 DEF v

-----------------------------------------------------------------------------
(* Types.                                                                   *)

LEMMA IdleType == IdleRun \in RunType
<1>1. <<>> \in Pages /\ <<>> \in Seq(ResultType)
  BY DEF Pages
<1>. DEFINE a == <<>>
            b == <<>>
<1>2. IdleRun = [node |-> 1, page |-> 0, cur |-> 0, lastCp |-> 0, last |-> "Good",
                 pages |-> a, results |-> b, ok |-> TRUE, timeout |-> FALSE,
                 emit |-> "Good", exit |-> NoExit]
  BY DEF IdleRun, NoCp
<1>3. a \in Pages /\ b \in Seq(ResultType)
  BY <1>1
<1>. HIDE DEF a, b
<1>. QED  BY <1>2, <1>3 DEF RunType, Codes

LEMMA InitType == Init => TypeOK
<1>. SUFFICES ASSUME Init PROVE TypeOK
  OBVIOUS
<1>1. PointsOk({})
  BY FS_EmptySet DEF PointsOk
<1>. QED  BY <1>1, IdleType DEF Init, TypeOK, Reading, Paging, Updating

LEMMA NextType ==
    ASSUME TypeOK, [Next]_vars
    PROVE  TypeOK'
<1>. USE DEF Idle, Reading, Paging, Updating
<1>0. CASE UNCHANGED vars
  BY <1>0 DEF TypeOK, vars, PointsOk, PointType, RunType
<1>1. ASSUME NEW code \in {0, 2, 3, 4, 6, 7}, Exit(code), UNCHANGED <<cmd, args, serverVars>>
      PROVE  TypeOK'
  BY <1>1, ExitStep DEF TypeOK, serverVars
<1>2. CASE ReadRefused \/ ConnectFails \/ ResolveFails \/ UpdateRefused \/ BuildFails
  BY <1>1, <1>2 DEF ReadRefused, ConnectFails, ResolveFails, UpdateRefused, BuildFails,
                    updateVars
<1>3. CASE ReadParsed \/ UpdateParsed \/ Built \/ Collected \/ CollectKey \/ CollectNextEvent
  BY <1>3 DEF ReadParsed, UpdateParsed, Built, Collected, CollectKey, CollectNextEvent,
              TypeOK, serverVars, updateVars
<1>4. CASE ReadStarts
  BY <1>4 DEF ReadStarts, TypeOK, serverVars, updateVars
<1>5. CASE Page
  <2>1. /\ run' \in RunType /\ PointsOk(points') /\ dead' \in BOOLEAN
        /\ lost' \in BOOLEAN /\ pc' \in Paging \ {"reuse"}
    BY <1>5, PageStep DEF CameBack, AnswerType, TypeOK
  <2>. QED  BY <1>5, <2>1 DEF Page, TypeOK, updateVars
<1>6. CASE ReleaseLast
  <2>1. PointsOk(points') /\ dead' \in BOOLEAN /\ lost' \in BOOLEAN
    BY <1>6, ReleaseStep DEF CameBack, AnswerType, TypeOK
  <2>. QED  BY <1>6, <2>1 DEF ReleaseLast, TypeOK, updateVars
<1>7. CASE ReuseLast
  <2>1. PointsOk(points') /\ dead' \in BOOLEAN /\ lost' \in BOOLEAN
    BY <1>7, ReuseStep DEF CameBack, AnswerType, TypeOK
  <2>. QED  BY <1>7, <2>1 DEF ReuseLast, TypeOK, updateVars
<1>8. CASE NextNode
  <2>1. run' \in RunType
    BY <1>8, NextNodeStep
  <2>. QED  BY <1>8, <2>1 DEF NextNode, TypeOK, serverVars
<1>9. CASE ReadAll
  <2>1. /\ run' \in RunType /\ Len(run'.results) = args.nodes /\ run'.node = run.node
    BY <1>9, ReadAllStep
  <2>2. cmd = "read" /\ args \in ReadArgs /\ run.node = 1
    BY <1>9 DEF ReadAll, TypeOK, IdleRun
  <2>3. args.nodes \in Nat \ {0}
    BY <2>2, EventAssumption
  <2>. QED  BY <1>9, <2>1, <2>2, <2>3 DEF ReadAll, TypeOK, serverVars
<1>10. CASE ReadFault
  <2>1. run' \in RunType
    BY <1>10, ReadFaultStep
  <2>. QED  BY <1>10, <2>1 DEF ReadFault, TypeOK, serverVars
<1>11. CASE Judge
  <2>1. run.node \in 1..args.nodes /\ Len(run.results) = args.nodes
    BY <1>11 DEF Judge, TypeOK
  <2>2. run' \in RunType /\ run'.node = run.node + 1 /\ run'.results = run.results
    BY <1>11, <2>1, JudgeStep
  <2>3. cmd = "read" /\ args.nodes \in Nat
    BY <1>11, EventAssumption DEF Judge, TypeOK
  <2>. QED  BY <1>11, <2>1, <2>2, <2>3 DEF Judge, TypeOK, serverVars
<1>12. CASE Report
  BY <1>1, <1>12 DEF Report
<1>13. CASE Update
  BY <1>1, <1>13 DEF Update
<1>. QED
  BY <1>0, <1>2, <1>3, <1>4, <1>5, <1>6, <1>7, <1>8, <1>9, <1>10, <1>11, <1>12, <1>13
     DEF Next

(* The state is well typed, the points of the session are told apart by     *)
(* their tokens, and the client has nothing before it has started to read.  *)
THEOREM TypeCorrect == Spec => []TypeOK
BY InitType, NextType, PTL DEF Spec

-----------------------------------------------------------------------------
(* No continuation point is left.                                           *)

(* What an executed request answers: that the point is not open, or a page  *)
(* from its position on, with a new point if there is more.                 *)
LEMMA ExecutedCases ==
    ASSUME TypeOK, NEW cp, NEW n, NEW ex \in Executed(cp, n)
    PROVE  \/ /\ cp # NoCp /\ ~ IsOpen(cp)
              /\ ~ IsGood(ex.sc) /\ ex.events = {} /\ ex.cp = NoCp /\ ex.points = points
           \/ \E cut \in Cuts(From(cp), n) :
                /\ cp = NoCp \/ IsOpen(cp)
                /\ IsGood(ex.sc)
                /\ ex.events = Matches(From(cp), cut.to)
                /\ ex.cp = IF cut.more THEN Token ELSE NoCp
                /\ ex.points = {q \in points : q.tok # cp}
                               \cup (IF cut.more THEN {[tok |-> Token, from |-> cut.to]}
                                     ELSE {})
<1>1. CASE cp # NoCp /\ ~ IsOpen(cp)
  <2>1. ex = Result("BadCp", {}, NoCp, points, TRUE)
    BY <1>1 DEF Executed
  <2>. QED  BY <1>1, <2>1 DEF Result, IsGood
<1>2. CASE ~ (cp # NoCp /\ ~ IsOpen(cp))
  <2>1. PICK cut \in Cuts(From(cp), n) : ex = Answer(cp, cut)
    BY <1>2 DEF Executed
  <2>. DEFINE events == Matches(From(cp), cut.to)
              left == {q \in points : q.tok # cp}
              new == {[tok |-> Token, from |-> cut.to]}
  <2>2. CASE cut.more
    <3>1. ex = Result("Good", events, Token, left \cup new, TRUE)
      BY <2>1, <2>2 DEF Answer
    <3>2. /\ ex.sc = "Good" /\ ex.events = events /\ ex.cp = Token
          /\ ex.points = left \cup new
      <4>. HIDE DEF events, left, new
      <4>. QED  BY <3>1 DEF Result
    <3>. QED  BY <1>2, <2>2, <3>2 DEF IsGood
  <2>3. CASE ~ cut.more
    <3>1. ex = Result(IF events = {} THEN "GoodNoData" ELSE "Good",
                      events, NoCp, left, TRUE)
      BY <2>1, <2>3 DEF Answer
    <3>2. /\ ex.sc \in {"GoodNoData", "Good"} /\ ex.events = events /\ ex.cp = NoCp
          /\ ex.points = left
      <4>. HIDE DEF events, left
      <4>. QED  BY <3>1 DEF Result
    <3>. QED  BY <1>2, <2>3, <3>2 DEF IsGood
  <2>. QED  BY <2>2, <2>3
<1>. QED  BY <1>1, <1>2

(* Unless something was lost, the only point that may be open is the one    *)
(* the client will release.                                                 *)
LeftInv ==
    /\ pc = "page" => run.cur = run.lastCp
    /\ pc \in {"release", "reuse"} => run.lastCp # NoCp
    /\ ~ lost => \A p \in points : pc \in {"page", "release"} /\ p.tok = run.lastCp

LEMMA InitLeft == Init => LeftInv
BY DEF Init, LeftInv, IdleRun

LEMMA PageLeft ==
    ASSUME TypeOK, LeftInv, Page
    PROVE  LeftInv'
<1>0. PICK ex \in Executed(run.cur, PageSize) : \E c :
             /\ CameBack(c, ex)
             /\ lost' = (lost \/ ~ c.answered)
             /\ run'.cur = IF MoreOf(c) THEN c.cp ELSE NoCp
             /\ run'.lastCp = IF MoreOf(c) THEN c.cp ELSE run.lastCp
             /\ pc' = IF MoreOf(c) /\ MorePages(run.page + 1) THEN "page"
                      ELSE IF run'.lastCp # NoCp THEN "release"
                      ELSE "next"
  BY PageStep
<1>1. PICK c :
             /\ CameBack(c, ex)
             /\ lost' = (lost \/ ~ c.answered)
             /\ run'.cur = IF MoreOf(c) THEN c.cp ELSE NoCp
             /\ run'.lastCp = IF MoreOf(c) THEN c.cp ELSE run.lastCp
             /\ pc' = IF MoreOf(c) /\ MorePages(run.page + 1) THEN "page"
                      ELSE IF run'.lastCp # NoCp THEN "release"
                      ELSE "next"
  BY <1>0
<1>2. pc = "page"
  BY DEF Page
<1>3. /\ pc' = "page" => run'.cur = run'.lastCp
      /\ pc' \in {"release", "reuse"} => run'.lastCp # NoCp
  BY <1>1
<1>4. ASSUME ~ lost', NEW p \in points'
      PROVE  pc' \in {"page", "release"} /\ p.tok = run'.lastCp
  <2>1. ~ lost /\ c.answered
    BY <1>1, <1>4
  <2>2. \A q \in points : q.tok = run.lastCp /\ q.tok # NoCp
    BY <2>1 DEF LeftInv, TypeOK, PointsOk, PointType
  <2>3. run.cur = run.lastCp
    BY <1>2 DEF LeftInv
  <2>4. points' = c.points
    BY <1>1 DEF CameBack
  <2>5. c = ex \/ c = Result("Bad", {}, NoCp, points, TRUE)
    BY <1>1, <2>1 DEF CameBack
  <2>6. CASE c.points = points /\ c.cp = NoCp
    BY <1>1, <1>4, <2>2, <2>4, <2>6 DEF MoreOf
  <2>7. CASE c = Result("Bad", {}, NoCp, points, TRUE)
    BY <2>6, <2>7 DEF Result
  <2>8. CASE c = ex
    <3>1. CASE ex.cp = NoCp /\ ex.points = points
      BY <2>6, <2>8, <3>1
    <3>2. ASSUME NEW cut \in Cuts(From(run.cur), PageSize),
                 IsGood(ex.sc),
                 ex.cp = IF cut.more THEN Token ELSE NoCp,
                 ex.points = {q \in points : q.tok # run.cur}
                               \cup (IF cut.more THEN {[tok |-> Token, from |-> cut.to]}
                                     ELSE {})
          PROVE  pc' \in {"page", "release"} /\ p.tok = run'.lastCp
      <4>1. {q \in points : q.tok # run.cur} = {}
        BY <2>2, <2>3
      <4>2. cut.more /\ p = [tok |-> Token, from |-> cut.to]
        BY <1>4, <2>4, <2>8, <3>2, <4>1
      <4>3. MoreOf(c) /\ c.cp = Token /\ p.tok = Token
        BY <2>8, <3>2, <4>2, TokenIsNew DEF MoreOf
      <4>. QED  BY <1>1, <4>3 DEF MoreOf
    <3>. QED  BY <3>1, <3>2, ExecutedCases
  <2>. QED  BY <2>5, <2>7, <2>8
<1>. QED  BY <1>3, <1>4 DEF LeftInv

LEMMA ReleaseLeft ==
    ASSUME TypeOK, LeftInv, ReleaseLast
    PROVE  LeftInv'
<1>0. PICK ex \in Release(run.lastCp) : \E c :
             CameBack(c, ex) /\ lost' = (lost \/ ~ c.answered \/ c.sc = "Bad")
  BY ReleaseStep
<1>1. PICK c : CameBack(c, ex) /\ lost' = (lost \/ ~ c.answered \/ c.sc = "Bad")
  BY <1>0
<1>2. pc' = "reuse"
  BY DEF ReleaseLast
<1>3. ASSUME ~ lost', NEW p \in points'
      PROVE  FALSE
  <2>1. ~ lost /\ c.answered /\ c.sc # "Bad"
    BY <1>1, <1>3
  <2>2. \A q \in points : q.tok = run.lastCp
    BY <2>1 DEF LeftInv
  <2>3. c = ex /\ points' = ex.points
    BY <1>1, <2>1 DEF CameBack, Result
  <2>4. CASE IsOpen(run.lastCp)
    <3>1. ex = Result("Good", {}, NoCp, {q \in points : q.tok # run.lastCp}, TRUE)
      BY <2>4 DEF Release
    <3>2. ex.points = {q \in points : q.tok # run.lastCp}
      BY <3>1 DEF Result
    <3>. QED  BY <1>3, <2>2, <2>3, <3>2
  <2>5. CASE ~ IsOpen(run.lastCp)
    <3>1. ex.points = points
      BY <2>5 DEF Release, Result
    <3>. QED  BY <1>3, <2>2, <2>3, <2>5, <3>1 DEF IsOpen
  <2>. QED  BY <2>4, <2>5
<1>4. pc = "release" /\ run' = run
  BY DEF ReleaseLast
<1>. QED  BY <1>2, <1>3, <1>4 DEF LeftInv

LEMMA ReuseLeft ==
    ASSUME TypeOK, LeftInv, ReuseLast
    PROVE  LeftInv'
<1>0. PICK ex \in Executed(run.lastCp, PageSize) : \E c :
             CameBack(c, ex) /\ lost' = (lost \/ ~ c.answered)
  BY ReuseStep
<1>1. PICK c : CameBack(c, ex) /\ lost' = (lost \/ ~ c.answered)
  BY <1>0
<1>2. pc' = "next" /\ pc = "reuse"
  BY DEF ReuseLast
<1>3. ASSUME ~ lost', NEW p \in points'
      PROVE  FALSE
  <2>1. ~ lost /\ c.answered
    BY <1>1, <1>3
  <2>2. points = {} /\ run.lastCp # NoCp
    BY <1>2, <2>1 DEF LeftInv
  <2>3. ex.points = points
    BY <2>2, ExecutedCases DEF IsOpen
  <2>4. points' = points
    BY <1>1, <2>1, <2>3 DEF CameBack, Result
  <2>. QED  BY <1>3, <2>2, <2>4
<1>. QED  BY <1>2, <1>3 DEF LeftInv

LEMMA NextLeft ==
    ASSUME TypeOK, LeftInv, [Next]_vars
    PROVE  LeftInv'
<1>0. CASE UNCHANGED vars
  BY <1>0 DEF LeftInv, vars
<1>1. ASSUME NEW code \in {0, 2, 3, 4, 6, 7}, Exit(code), pc \notin {"page", "release"},
             UNCHANGED serverVars
      PROVE  LeftInv'
  BY <1>1 DEF LeftInv, Exit, serverVars
<1>2. CASE \/ ReadRefused \/ ConnectFails \/ ResolveFails \/ UpdateRefused \/ BuildFails
           \/ Report \/ Update
  BY <1>1, <1>2 DEF ReadRefused, ConnectFails, ResolveFails, UpdateRefused, BuildFails,
                    Report, Update
<1>3. CASE ReadParsed \/ UpdateParsed \/ Built \/ Collected \/ CollectKey \/ CollectNextEvent
  BY <1>3 DEF ReadParsed, UpdateParsed, Built, Collected, CollectKey, CollectNextEvent,
              LeftInv, serverVars
<1>4. CASE ReadStarts
  BY <1>4 DEF ReadStarts, LeftInv, serverVars, TypeOK, Idle, IdleRun
<1>5. CASE NextNode
  BY <1>5, NextNodeStep DEF NextNode, LeftInv, serverVars
<1>6. CASE ReadAll \/ ReadFault \/ Judge
  BY <1>6 DEF ReadAll, ReadFault, Judge, LeftInv, serverVars
<1>. QED
  BY <1>0, <1>2, <1>3, <1>4, <1>5, <1>6, PageLeft, ReleaseLeft, ReuseLeft DEF Next

(* Wherever paging stopped, the server holds no continuation point of the   *)
(* command when it reports, unless a call had no answer or the release was  *)
(* refused.                                                                 *)
THEOREM PointsReleased == Spec => []NoPointLeft
<1>1. TypeOK /\ LeftInv => NoPointLeft
  BY DEF LeftInv, NoPointLeft
<1>. QED  BY <1>1, TypeCorrect, InitLeft, NextLeft, PTL DEF Spec

-----------------------------------------------------------------------------
(* The exit code tells the statuses of the nodes.                           *)

(* What the verdict says of the first k results.                            *)
Judged(r, k) ==
    /\ r.ok <=> \A i \in 1..k : IsGood(r.results[i].sc)
    /\ r.ok => IsGood(r.emit)
    /\ r.ok /\ r.emit = "Good" => \A i \in 1..k : r.results[i].sc = "Good"
    /\ ~ r.ok => \E i \in 1..k :
                    /\ ~ IsGood(r.results[i].sc) /\ r.emit = r.results[i].sc
                    /\ \A j \in 1..(i - 1) : IsGood(r.results[j].sc)
    /\ r.timeout <=> \E i \in 1..k : r.results[i].sc = "Timeout"

ExitOf(r) == IF r.timeout THEN 7 ELSE IF r.ok THEN 0 ELSE 4

VerdictInv ==
    /\ pc \in Paging => /\ run.node >= 1 /\ Len(run.results) = run.node - 1
                        /\ Judged(run, run.node - 1)
    /\ pc = "judge" => /\ Judged(run, run.node - 1)
                       /\ \A i \in 1..args.nodes : run.results[i].sc # "Timeout"
    /\ pc = "report" => Judged(run, Len(run.results))
    /\ pc = "done" => \/ run.results = <<>>
                      \/ Judged(run, Len(run.results)) /\ run.exit = ExitOf(run)
    /\ run.exit # NoExit => pc = "done"

(* One more result is judged.                                               *)
LEMMA JudgedNext ==
    ASSUME NEW r \in RunType, NEW s \in RunType, NEW k \in Nat,
           Judged(r, k),
           \A i \in 1..k : s.results[i].sc = r.results[i].sc,
           NEW sc \in Codes, s.results[k + 1].sc = sc,
           s.ok = Verdict(r, sc).ok, s.emit = Verdict(r, sc).emit,
           s.timeout = (r.timeout \/ sc = "Timeout")
    PROVE  Judged(s, k + 1)
<1>. DEFINE was(i) == r.results[i].sc
            is(i) == s.results[i].sc
<1>1. /\ s.ok = (r.ok /\ IsGood(sc))
      /\ s.emit = IF ~ IsGood(sc) /\ r.ok THEN sc
                  ELSE IF IsGood(sc) /\ r.ok /\ r.emit = "Good" THEN sc
                  ELSE r.emit
  BY VerdictIs
<1>2. \A i \in 1..(k + 1) : i \in 1..k \/ i = k + 1
  OBVIOUS
<1>3. (\A i \in 1..k : is(i) = was(i)) /\ is(k + 1) = sc /\ k + 1 \in 1..(k + 1)
      /\ 1..k \subseteq 1..(k + 1)
  OBVIOUS
<1>. HIDE DEF is, was
<1>4. /\ r.ok <=> \A i \in 1..k : IsGood(was(i))
      /\ r.ok => IsGood(r.emit)
      /\ r.ok /\ r.emit = "Good" => \A i \in 1..k : was(i) = "Good"
      /\ ~ r.ok => \E i \in 1..k :
                      /\ ~ IsGood(was(i)) /\ r.emit = was(i)
                      /\ \A j \in 1..(i - 1) : IsGood(was(j))
      /\ r.timeout <=> \E i \in 1..k : was(i) = "Timeout"
  BY DEF Judged, was
<1>5. s.ok <=> \A i \in 1..(k + 1) : IsGood(is(i))
  BY <1>1, <1>2, <1>3, <1>4
<1>6. s.ok => IsGood(s.emit)
  BY <1>1, <1>4
<1>7. s.ok /\ s.emit = "Good" => \A i \in 1..(k + 1) : is(i) = "Good"
  <2>. SUFFICES ASSUME s.ok, s.emit = "Good", NEW i \in 1..(k + 1)
                PROVE  is(i) = "Good"
    OBVIOUS
  <2>1. r.ok /\ IsGood(sc) /\ r.emit = "Good" /\ sc = "Good"
    BY <1>1 DEF RunType
  <2>. QED  BY <1>2, <1>3, <1>4, <2>1
<1>8. ASSUME ~ s.ok
      PROVE  \E i \in 1..(k + 1) :
                /\ ~ IsGood(is(i)) /\ s.emit = is(i)
                /\ \A j \in 1..(i - 1) : IsGood(is(j))
  <2>1. CASE r.ok
    <3>1. ~ IsGood(sc) /\ s.emit = sc
      BY <1>1, <1>8, <2>1
    <3>2. \A j \in 1..k : IsGood(is(j))
      BY <1>3, <1>4, <2>1
    <3>3. (k + 1) - 1 = k
      OBVIOUS
    <3>. QED  BY <1>3, <3>1, <3>2, <3>3
  <2>2. CASE ~ r.ok
    <3>1. PICK i \in 1..k : /\ ~ IsGood(was(i)) /\ r.emit = was(i)
                            /\ \A j \in 1..(i - 1) : IsGood(was(j))
      BY <1>4, <2>2
    <3>2. s.emit = r.emit
      BY <1>1, <2>2
    <3>3. 1..(i - 1) \subseteq 1..k
      OBVIOUS
    <3>. QED  BY <1>3, <3>1, <3>2, <3>3
  <2>. QED  BY <2>1, <2>2
<1>9. s.timeout <=> \E i \in 1..(k + 1) : is(i) = "Timeout"
  BY <1>2, <1>3, <1>4
<1>. QED  BY <1>5, <1>6, <1>7, <1>8, <1>9 DEF Judged, is

(* Nothing is judged yet.                                                   *)
LEMMA JudgedNone ==
    ASSUME NEW r \in RunType, r.ok, r.emit = "Good", ~ r.timeout
    PROVE  Judged(r, 0)
BY DEF Judged, IsGood

LEMMA JudgedSame ==
    ASSUME NEW r, NEW s, NEW k, Judged(r, k), s.results = r.results, s.ok = r.ok,
           s.emit = r.emit, s.timeout = r.timeout
    PROVE  Judged(s, k)
BY DEF Judged

LEMMA InitVerdict == Init => VerdictInv
BY DEF Init, VerdictInv, IdleRun, Paging

LEMMA NextVerdict ==
    ASSUME TypeOK, VerdictInv, [Next]_vars
    PROVE  VerdictInv'
<1>. USE DEF Paging
<1>0. CASE UNCHANGED vars
  BY <1>0 DEF VerdictInv, vars, Judged, ExitOf
<1>1. CASE \/ ReadRefused \/ ConnectFails \/ ResolveFails \/ UpdateRefused \/ BuildFails
           \/ Update
  <2>1. PICK code \in {0, 2, 3, 4, 6, 7} : Exit(code)
    BY <1>1 DEF ReadRefused, ConnectFails, ResolveFails, UpdateRefused, BuildFails, Update
  <2>2. pc \in Idle
    BY <1>1 DEF ReadRefused, ConnectFails, ResolveFails, UpdateRefused, BuildFails, Update,
                Idle, Updating
  <2>3. run.results = <<>>
    BY <2>2 DEF TypeOK, IdleRun
  <2>. QED  BY <2>1, <2>3, ExitStep DEF VerdictInv
<1>2. CASE ReadParsed \/ UpdateParsed \/ Built \/ Collected \/ CollectKey \/ CollectNextEvent
  BY <1>2 DEF ReadParsed, UpdateParsed, Built, Collected, CollectKey, CollectNextEvent,
              VerdictInv
<1>3. CASE ReadStarts
  <2>1. /\ run' = run /\ pc' \in {"page", "read"} /\ run.node = 1
        /\ run.results = <<>> /\ run.exit = NoExit
        /\ run.ok /\ run.emit = "Good" /\ ~ run.timeout /\ run \in RunType
    BY <1>3 DEF ReadStarts, TypeOK, Idle, IdleRun
  <2>2. Judged(run, 0)
    BY <2>1, JudgedNone
  <2>3. Judged(run', run'.node - 1)
    BY <2>1, <2>2
  <2>. QED  BY <2>1, <2>3 DEF VerdictInv
<1>4. CASE Page
  <2>1. /\ run'.node = run.node /\ run'.results = run.results
        /\ run'.ok = run.ok /\ run'.timeout = run.timeout
        /\ run'.emit = run.emit /\ run'.exit = run.exit
        /\ pc' \in Paging
    BY <1>4, PageStep
  <2>2. pc = "page"
    BY <1>4 DEF Page
  <2>3. Judged(run, run.node - 1)
    BY <2>2 DEF VerdictInv
  <2>4. Judged(run', run'.node - 1)
    BY <2>1, <2>3, JudgedSame
  <2>. QED  BY <2>1, <2>2, <2>4 DEF VerdictInv
<1>5. CASE ReleaseLast \/ ReuseLast
  BY <1>5 DEF ReleaseLast, ReuseLast, VerdictInv
<1>6. CASE NextNode
  <2>. DEFINE new == [sc |-> run.last, pages |-> run.pages, whole |-> run.cur = NoCp]
  <2>1. /\ run' \in RunType /\ run \in RunType
        /\ run'.node = run.node + 1 /\ run'.exit = run.exit
        /\ run'.timeout = (run.timeout \/ run.last = "Timeout")
        /\ run'.results = Append(run.results, new)
        /\ run'.ok = Verdict(run, run.last).ok
        /\ run'.emit = Verdict(run, run.last).emit
    BY <1>6, NextNodeStep DEF TypeOK
  <2>2. /\ pc = "next" /\ pc' \in {"page", "report"}
        /\ run.node >= 1 /\ Len(run.results) = run.node - 1
        /\ Judged(run, run.node - 1) /\ run.exit = NoExit
    BY <1>6 DEF NextNode, VerdictInv
  <2>. DEFINE k == run.node - 1
  <2>3. k \in Nat /\ k = Len(run.results) /\ run.node = k + 1
        /\ run.results \in Seq(ResultType) /\ run.last \in Codes
    BY <2>1, <2>2 DEF RunType
  <2>4. new \in ResultType /\ new.sc = run.last
    BY <2>1 DEF ResultType, RunType
  <2>. HIDE DEF new, k
  <2>5. /\ Len(run'.results) = k + 1 /\ run'.results[k + 1] = new
        /\ \A i \in 1..k : run'.results[i] = run.results[i]
    BY <2>1, <2>3, <2>4
  <2>6. Judged(run, k)
    BY <2>2 DEF k
  <2>7. Judged(run', k + 1)
    BY <2>1, <2>3, <2>4, <2>5, <2>6, JudgedNext
  <2>8. run'.node - 1 = k + 1 /\ run'.node >= 1
    BY <2>1, <2>3
  <2>. QED  BY <2>1, <2>2, <2>5, <2>7, <2>8 DEF VerdictInv
<1>7. CASE ReadAll
  <2>1. /\ run' \in RunType
        /\ \A i \in 1..args.nodes :
              run'.results[i].sc \in {"Good", "GoodNoData", "Bad", "BadCp", "NodeTimeout"}
        /\ run'.node = run.node /\ run'.ok = run.ok /\ run'.emit = run.emit
        /\ run'.timeout = run.timeout /\ run'.exit = run.exit
    BY <1>7, ReadAllStep
  <2>2. /\ run.node = 1 /\ run.ok /\ run.emit = "Good" /\ ~ run.timeout
        /\ run.exit = NoExit /\ pc' = "judge" /\ args' = args
    BY <1>7 DEF ReadAll, TypeOK, Idle, IdleRun
  <2>3. Judged(run', 0)
    BY <2>1, <2>2, JudgedNone
  <2>4. Judged(run', run'.node - 1)
    BY <2>1, <2>2, <2>3
  <2>5. \A i \in 1..args'.nodes : run'.results[i].sc # "Timeout"
    BY <2>1, <2>2
  <2>. QED  BY <2>1, <2>2, <2>4, <2>5 DEF VerdictInv
<1>8. CASE ReadFault
  <2>1. PICK sc \in {"Bad", "Timeout", "Closed"} :
             /\ run' \in RunType
             /\ Len(run'.results) = args.nodes
             /\ \A i \in 1..args.nodes : run'.results[i].sc = sc
             /\ run'.ok = FALSE /\ run'.emit = sc /\ run'.timeout = (sc = "Timeout")
             /\ run'.exit = run.exit
    BY <1>8, ReadFaultStep
  <2>2. /\ cmd = "read" /\ args \in ReadArgs /\ pc' = "report" /\ run.exit = NoExit
    BY <1>8 DEF ReadFault, TypeOK, Reading, Idle, IdleRun
  <2>3. args.nodes \in Nat \ {0}
    BY <2>2, EventAssumption
  <2>4. 1 \in 1..args.nodes /\ ~ IsGood(sc)
    BY <2>3 DEF IsGood
  <2>5. Judged(run', args.nodes)
    <3>1. \E i \in 1..args.nodes :
             /\ ~ IsGood(run'.results[i].sc) /\ run'.emit = run'.results[i].sc
             /\ \A j \in 1..(i - 1) : IsGood(run'.results[j].sc)
      <4>1. /\ ~ IsGood(run'.results[1].sc) /\ run'.emit = run'.results[1].sc
            /\ \A j \in 1..(1 - 1) : IsGood(run'.results[j].sc)
        BY <2>1, <2>4
      <4>. QED  BY <2>4, <4>1
    <3>2. run'.timeout <=> \E i \in 1..args.nodes : run'.results[i].sc = "Timeout"
      BY <2>1, <2>4
    <3>3. ~ run'.ok /\ ~ \A i \in 1..args.nodes : IsGood(run'.results[i].sc)
      BY <2>1, <2>4
    <3>. QED  BY <3>1, <3>2, <3>3 DEF Judged
  <2>. QED  BY <2>1, <2>2, <2>5 DEF VerdictInv
<1>9. CASE Judge
  <2>. DEFINE k == run.node - 1
              sc == run.results[run.node].sc
  <2>1. /\ run.node \in 1..args.nodes /\ Len(run.results) = args.nodes
        /\ cmd = "read" /\ args \in ReadArgs /\ run \in RunType
    BY <1>9 DEF Judge, TypeOK, Reading
  <2>2. /\ run' \in RunType
        /\ run'.node = run.node + 1
        /\ run'.ok = Verdict(run, sc).ok /\ run'.emit = Verdict(run, sc).emit
        /\ run'.results = run.results /\ run'.timeout = run.timeout
        /\ run'.exit = run.exit
    BY <1>9, <2>1, JudgeStep
  <2>3. /\ Judged(run, k) /\ sc # "Timeout" /\ run.exit = NoExit
        /\ \A i \in 1..args.nodes : run.results[i].sc # "Timeout"
    BY <1>9, <2>1 DEF Judge, VerdictInv
  <2>4. args.nodes \in Nat
    BY <2>1, EventAssumption
  <2>5. k \in Nat /\ run.node = k + 1
    BY <2>1, <2>4
  <2>6. run.results \in Seq(ResultType)
    BY <2>1 DEF RunType
  <2>6a. run.results[run.node] \in ResultType
    BY <2>1, <2>6
  <2>7. sc \in Codes
    BY <2>6a DEF ResultType
  <2>8. run'.results[k + 1].sc = sc /\ \A i \in 1..k : run'.results[i].sc = run.results[i].sc
    BY <2>2, <2>5
  <2>9. run'.timeout = (run.timeout \/ sc = "Timeout")
    BY <2>1, <2>2, <2>3 DEF RunType
  <2>. HIDE DEF k, sc
  <2>10. Judged(run', k + 1)
    BY <2>1, <2>2, <2>3, <2>5, <2>7, <2>8, <2>9, JudgedNext
  <2>11. pc' = (IF run.node < args.nodes THEN "judge" ELSE "report") /\ args' = args
    BY <1>9 DEF Judge
  <2>12. CASE run.node < args.nodes
    <3>1. run'.node - 1 = k + 1
      BY <2>2, <2>5
    <3>. QED  BY <2>2, <2>3, <2>10, <2>11, <2>12, <3>1 DEF VerdictInv
  <2>13. CASE ~ (run.node < args.nodes)
    <3>1. Len(run'.results) = k + 1
      BY <2>1, <2>2, <2>4, <2>5, <2>13
    <3>. QED  BY <2>2, <2>3, <2>10, <2>11, <2>13, <3>1 DEF VerdictInv
  <2>. QED  BY <2>12, <2>13
<1>10. CASE Report
  <2>1. Exit(ExitOf(run)) /\ pc = "report"
    BY <1>10 DEF Report, ExitOf
  <2>2. ExitOf(run) \in {0, 2, 3, 4, 6, 7}
    BY DEF ExitOf
  <2>3. /\ pc' = "done" /\ run'.exit = ExitOf(run) /\ run'.results = run.results
        /\ run'.ok = run.ok /\ run'.emit = run.emit /\ run'.timeout = run.timeout
    BY <2>1, <2>2, ExitStep
  <2>4. Judged(run, Len(run.results))
    BY <2>1 DEF VerdictInv
  <2>5. Judged(run', Len(run'.results))
    BY <2>3, <2>4, JudgedSame
  <2>6. run'.exit = ExitOf(run')
    BY <2>3 DEF ExitOf
  <2>. QED  BY <2>3, <2>5, <2>6 DEF VerdictInv
<1>. QED
  BY <1>0, <1>1, <1>2, <1>3, <1>4, <1>5, <1>6, <1>7, <1>8, <1>9, <1>10 DEF Next

(* Exit code and service result are those of the nodes, whether they were   *)
(* read one by one or together, and however many there are.                 *)
THEOREM ExitIsTold == Spec => []ExitTellsNodes
<1>1. TypeOK /\ VerdictInv => ExitTellsNodes
  <2>. SUFFICES ASSUME TypeOK, VerdictInv, run.results # <<>>, run.exit # NoExit
                PROVE  LET sc(i) == run.results[i].sc
                           bad == {i \in DOMAIN run.results : ~ IsGood(sc(i))}
                       IN  /\ run.exit = 7 <=> \E i \in bad : sc(i) = "Timeout"
                           /\ run.exit = 0 <=> bad = {}
                           /\ bad # {} => \E i \in bad : run.emit = sc(i)
                                                         /\ \A j \in bad : i <= j
                           /\ bad = {} /\ run.emit = "Good" =>
                                 \A i \in DOMAIN run.results : sc(i) = "Good"
    BY DEF ExitTellsNodes
  <2>. DEFINE sc(i) == run.results[i].sc
              bad == {i \in DOMAIN run.results : ~ IsGood(sc(i))}
              n == Len(run.results)
  <2>1. Judged(run, n) /\ run.exit = ExitOf(run)
    BY DEF VerdictInv
  <2>2. run \in RunType /\ run.results \in Seq(ResultType)
    BY DEF TypeOK, RunType
  <2>3. DOMAIN run.results = 1..n /\ n \in Nat
    BY <2>2
  <2>. HIDE DEF n
  <2>4. /\ run.ok <=> \A i \in 1..n : IsGood(sc(i))
        /\ run.ok /\ run.emit = "Good" => \A i \in 1..n : sc(i) = "Good"
        /\ ~ run.ok => \E i \in 1..n :
                    /\ ~ IsGood(sc(i)) /\ run.emit = sc(i)
                    /\ \A j \in 1..(i - 1) : IsGood(sc(j))
        /\ run.timeout <=> \E i \in 1..n : sc(i) = "Timeout"
    BY <2>1 DEF Judged
  <2>. HIDE DEF sc
  <2>5. \A i \in 1..n : i \in bad <=> ~ IsGood(sc(i))
    BY <2>3
  <2>6. bad \subseteq 1..n
    BY <2>3
  <2>. HIDE DEF bad
  <2>7. run.ok <=> bad = {}
    BY <2>4, <2>5, <2>6
  <2>8. run.timeout <=> \E i \in bad : sc(i) = "Timeout"
    BY <2>4, <2>5, <2>6 DEF IsGood
  <2>9. run.ok => ~ run.timeout
    BY <2>7, <2>8
  <2>10. /\ run.exit = 7 <=> run.timeout
         /\ run.exit = 0 <=> run.ok
    BY <2>1, <2>9 DEF ExitOf
  <2>11. ASSUME bad # {}
         PROVE  \E i \in bad : run.emit = sc(i) /\ \A j \in bad : i <= j
    <3>1. PICK i \in 1..n : /\ ~ IsGood(sc(i)) /\ run.emit = sc(i)
                            /\ \A j \in 1..(i - 1) : IsGood(sc(j))
      BY <2>4, <2>7, <2>11
    <3>2. ASSUME NEW j \in bad PROVE i <= j
      <4>1. j \in 1..n /\ j \notin 1..(i - 1)
        BY <2>5, <2>6, <3>1
      <4>. QED  BY <2>3, <4>1
    <3>. QED  BY <2>5, <3>1, <3>2
  <2>. QED  BY <2>3, <2>4, <2>7, <2>8, <2>10, <2>11 DEF sc, bad
<1>. QED  BY <1>1, TypeCorrect, InitVerdict, NextVerdict, PTL DEF Spec

-----------------------------------------------------------------------------
(* The pages are the history asked for.                                     *)

(* What the user asked of an event.                                         *)
Asked(ofType, minSev, ev) ==
    /\ ofType # None => ofType \in {ev.type, BaseType}
    /\ minSev # -1 => ev.sev >= minSev

(* The WhereClause, read by a server as Part 4 says, is what was asked for. *)
LEMMA WhereIsAsked ==
    ASSUME NEW ofType, NEW minSev \in Nat \cup {-1}, NEW ev
    PROVE  Accepts(hev_build_where(ofType, minSev), ev) <=> Asked(ofType, minSev, ev)
<1>. DEFINE t == [op |-> "OfType", type |-> ofType]
            s == [op |-> "GreaterEq", sev |-> minSev]
            a == [op |-> "And", index |-> <<1, 2>>]
            w == hev_build_where(ofType, minSev)
<1>1. LeafHolds(t, ev) <=> ofType \in {ev.type, BaseType}
  BY DEF LeafHolds
<1>2. LeafHolds(s, ev) <=> ev.sev >= minSev
  BY DEF LeafHolds
<1>3. t.op = "OfType" /\ s.op = "GreaterEq" /\ a.op = "And" /\ a.index = <<1, 2>>
  OBVIOUS
<1>. HIDE DEF t, s, a
<1>4. CASE ofType = None /\ minSev = -1
  <2>1. w = <<>>
    BY <1>4 DEF hev_build_where
  <2>. QED  BY <1>4, <2>1 DEF Accepts, Asked
<1>5. CASE ofType # None /\ minSev = -1
  <2>1. w = <<t>>
    BY <1>5 DEF hev_build_where, t
  <2>2. w # <<>> /\ w[1] = t
    BY <2>1
  <2>. QED  BY <1>1, <1>3, <1>5, <2>2 DEF Accepts, Asked
<1>6. CASE ofType = None /\ minSev # -1
  <2>1. w = <<s>>
    BY <1>6 DEF hev_build_where, s
  <2>2. w # <<>> /\ w[1] = s
    BY <2>1
  <2>. QED  BY <1>2, <1>3, <1>6, <2>2 DEF Accepts, Asked
<1>7. CASE ofType # None /\ minSev # -1
  <2>. DEFINE l == <<t>> \o <<s>>
              R == {t, s, a}
  <2>1. <<t>> \in Seq(R) /\ <<s>> \in Seq(R) /\ <<a>> \in Seq(R)
    OBVIOUS
  <2>2. l \in Seq(R) /\ Len(l) = 2 /\ l[1] = t /\ l[2] = s
    BY <2>1
  <2>. HIDE DEF l
  <2>2a. w = <<a>> \o l
    BY <1>7, <2>2 DEF hev_build_where, t, s, a, l
  <2>3. w # <<>> /\ w[1] = a /\ w[2] = t /\ w[3] = s
    BY <2>1, <2>2, <2>2a
  <2>4. w[w[1].index[1] + 1] = t /\ w[w[1].index[2] + 1] = s
    BY <1>3, <2>3
  <2>5. (\A k \in 1..2 : LeafHolds(w[w[1].index[k] + 1], ev))
           <=> LeafHolds(t, ev) /\ LeafHolds(s, ev)
    BY <2>4
  <2>. HIDE DEF w
  <2>6. Accepts(w, ev) <=> \A k \in 1..2 : LeafHolds(w[w[1].index[k] + 1], ev)
    BY <1>3, <2>3 DEF Accepts
  <2>. QED  BY <1>1, <1>2, <1>7, <2>5, <2>6 DEF Asked, w
<1>. QED  BY <1>4, <1>5, <1>6, <1>7

LEMMA ArchiveIs == Len(Archive) \in Nat /\ DOMAIN Archive = 1..Len(Archive)
BY EventAssumption DEF IsSequence

LEMMA MatchesWanted ==
    ASSUME TypeOK, cmd = "read", NEW m \in 0..Len(Archive)
    PROVE  Matches(0, m) = Wanted \cap (1..m)
<1>1. args \in ReadArgs /\ args.minSev \in Nat \cup {-1}
  BY EventAssumption DEF TypeOK
<1>2. \A ev : Accepts(Where, ev) <=> Asked(args.ofType, args.minSev, ev)
  BY <1>1, WhereIsAsked DEF Where
<1>3. 1..m \subseteq DOMAIN Archive /\ 0 + 1 = 1
  BY ArchiveIs
<1>4. Matches(0, m) = {i \in 1..m : Asked(args.ofType, args.minSev, Archive[i])}
  BY <1>2, <1>3 DEF Matches
<1>5. Wanted = {i \in DOMAIN Archive : Asked(args.ofType, args.minSev, Archive[i])}
  BY DEF Wanted, Asked
<1>. QED  BY <1>3, <1>4, <1>5

LEMMA MatchesSplit ==
    ASSUME NEW from \in Nat, NEW m \in Nat, NEW to \in Nat, from <= m, m <= to
    PROVE  Matches(from, to) = Matches(from, m) \cup Matches(m, to)
<1>1. (from + 1)..to = ((from + 1)..m) \cup ((m + 1)..to)
  OBVIOUS
<1>. QED  BY <1>1 DEF Matches

(* One more page.                                                           *)
LEMMA PageAppended ==
    ASSUME NEW ps \in Pages, NEW S \in SUBSET Nat
    PROVE  /\ UNION Range(Append(ps, S)) = (UNION Range(ps)) \cup S
           /\ InOrder(ps) /\ (\A x \in UNION Range(ps), y \in S : x < y)
                => InOrder(Append(ps, S))
<1>. DEFINE qs == Append(ps, S)
            n == Len(ps)
<1>1. /\ DOMAIN ps = 1..n /\ DOMAIN qs = 1..(n + 1) /\ n \in Nat
      /\ qs[n + 1] = S /\ \A p \in 1..n : qs[p] = ps[p]
  BY DEF Pages
<1>. HIDE DEF qs, n
<1>2. \A p \in 1..(n + 1) : p \in 1..n \/ p = n + 1
  BY <1>1
<1>2a. 1..n \subseteq 1..(n + 1) /\ n + 1 \in 1..(n + 1)
  BY <1>1
<1>3. Range(qs) = Range(ps) \cup {S}
  BY <1>1, <1>2, <1>2a DEF Range
<1>4. UNION Range(qs) = (UNION Range(ps)) \cup S
  BY <1>3
<1>5. ASSUME InOrder(ps), \A x \in UNION Range(ps), y \in S : x < y
      PROVE  InOrder(qs)
  <2>. SUFFICES ASSUME NEW p \in DOMAIN qs, NEW q \in DOMAIN qs, p < q,
                       NEW x \in qs[p], NEW y \in qs[q]
                PROVE  x < y
    BY DEF InOrder
  <2>1. p \in 1..n
    BY <1>1
  <2>2. CASE q \in 1..n
    BY <1>1, <1>5, <2>1, <2>2 DEF InOrder
  <2>3. CASE q = n + 1
    <3>1. x \in ps[p] /\ y \in S
      BY <1>1, <2>1, <2>3
    <3>2. x \in UNION Range(ps)
      BY <1>1, <2>1, <3>1 DEF Range
    <3>. QED  BY <1>5, <3>1, <3>2
  <2>. QED  BY <1>1, <1>2, <2>2, <2>3
<1>. QED  BY <1>4, <1>5 DEF qs

LEMMA NoPages == InOrder(<<>>) /\ UNION Range(<<>>) = Matches(0, 0)
<1>1. DOMAIN <<>> = {}
  OBVIOUS
<1>2. Range(<<>>) = {}
  BY <1>1 DEF Range
<1>3. Matches(0, 0) = {}
  BY DEF Matches
<1>. QED  BY <1>1, <1>2, <1>3 DEF InOrder

(* The pages so far hold the events asked for up to position m, which is    *)
(* where the next request starts; when the server has no more to give, no   *)
(* such event is left.                                                      *)
ReadUpTo(m) ==
    /\ UNION Range(run.pages) = Matches(0, m)
    /\ pc = "page" => /\ run.cur = NoCp => m = 0
                      /\ \A p \in points : p.tok = run.cur => p.from = m
    /\ pc # "page" /\ IsGood(run.last) /\ run.cur = NoCp =>
          Matches(0, m) = Matches(0, Len(Archive))

ResultOk(r) ==
    /\ InOrder(r.pages)
    /\ \E m \in 0..Len(Archive) : UNION Range(r.pages) = Matches(0, m)
    /\ IsGood(r.sc) /\ r.whole => UNION Range(r.pages) = Matches(0, Len(Archive))

PagesInv ==
    /\ run.page <= MaxPages
    /\ pc = "page" => run.page < MaxPages
    /\ pc \in {"read", "judge"} => ~ args.scenario
    /\ pc \in Paging => /\ InOrder(run.pages)
                        /\ \E m \in 0..Len(Archive) : ReadUpTo(m)
    /\ args.scenario => \A i \in DOMAIN run.results : ResultOk(run.results[i])
    /\ cmd = "update" => run.results = <<>>

LEMMA InitPages == Init => PagesInv
<1>. SUFFICES ASSUME Init PROVE PagesInv
  OBVIOUS
<1>1. pc = "parse" /\ run.page = 0 /\ run.results = <<>>
  BY DEF Init, IdleRun
<1>. QED  BY <1>1, EventAssumption DEF PagesInv, Paging

(* Results that were right stay right.                                      *)
LEMMA ResultsStay ==
    ASSUME args' = args, run'.results = run.results,
           args.scenario => \A i \in DOMAIN run.results : ResultOk(run.results[i])
    PROVE  (args.scenario => \A i \in DOMAIN run.results : ResultOk(run.results[i]))'
BY DEF ResultOk, Matches, Where, InOrder

LEMMA PagePages ==
    ASSUME TypeOK, PagesInv, Page
    PROVE  PagesInv'
<1>. DEFINE Came(ex, c) ==
             /\ CameBack(c, ex)
             /\ run' \in RunType
             /\ run'.page = run.page + 1 /\ run'.last = c.sc
             /\ run'.pages = Append(run.pages, c.events)
             /\ run'.cur = (IF MoreOf(c) THEN c.cp ELSE NoCp)
             /\ run'.results = run.results
             /\ pc' = IF MoreOf(c) /\ MorePages(run.page + 1) THEN "page"
                      ELSE IF run'.lastCp # NoCp THEN "release"
                      ELSE "next"
<1>0. PICK ex \in Executed(run.cur, PageSize) : \E c : Came(ex, c)
  BY PageStep
<1>1. PICK c : Came(ex, c)
  BY <1>0
<1>2. /\ pc = "page" /\ args' = args /\ run \in RunType /\ run.pages \in Pages
      /\ run.page \in Nat /\ run.page < MaxPages /\ MaxPages \in Nat
      /\ c \in AnswerType /\ c.events \in SUBSET Nat /\ points' = c.points
  BY <1>1, EventAssumption DEF Page, PagesInv, TypeOK, RunType, CameBack, AnswerType
<1>3. pc' \in Paging
  BY <1>1 DEF Paging
<1>4. run'.page <= MaxPages /\ (pc' = "page" => run'.page < MaxPages)
  BY <1>1, <1>2 DEF MorePages
<1>5. PICK m \in 0..Len(Archive) : ReadUpTo(m)
  BY <1>2 DEF PagesInv, Paging
<1>6. InOrder(run.pages) /\ UNION Range(run.pages) = Matches(0, m)
  BY <1>2, <1>5 DEF PagesInv, Paging, ReadUpTo
<1>7. \A a, b : Matches(a, b)' = Matches(a, b)
  BY <1>2 DEF Matches, Where
<1>8. m \in Nat /\ Len(Archive) \in Nat
  BY ArchiveIs
<1>9. ASSUME c.events = {}, ~ MoreOf(c), ~ IsGood(c.sc)
      PROVE  InOrder(run'.pages) /\ ReadUpTo(m)'
  <2>1. InOrder(run'.pages) /\ UNION Range(run'.pages) = Matches(0, m)
    <3>1. \A x \in UNION Range(run.pages), y \in c.events : x < y
      BY <1>9
    <3>2. /\ UNION Range(run'.pages) = (UNION Range(run.pages)) \cup c.events
          /\ InOrder(run'.pages)
      BY <1>1, <1>2, <1>6, <3>1, PageAppended
    <3>. QED  BY <1>6, <1>9, <3>2
  <2>2. pc' # "page" /\ ~ IsGood(run'.last)
    BY <1>1, <1>9
  <2>. QED  BY <1>7, <2>1, <2>2 DEF ReadUpTo
<1>10. ASSUME NEW cut \in Cuts(From(run.cur), PageSize), c = ex,
              run.cur = NoCp \/ IsOpen(run.cur),
              IsGood(ex.sc),
              ex.events = Matches(From(run.cur), cut.to),
              ex.cp = IF cut.more THEN Token ELSE NoCp,
              ex.points = {q \in points : q.tok # run.cur}
                            \cup (IF cut.more THEN {[tok |-> Token, from |-> cut.to]}
                                  ELSE {})
       PROVE  InOrder(run'.pages) /\ \E k \in 0..Len(Archive) : ReadUpTo(k)'
  <2>1. From(run.cur) = m
    <3>1. CASE run.cur = NoCp
      BY <1>2, <1>5, <3>1 DEF ReadUpTo, From
    <3>2. CASE IsOpen(run.cur)
      <4>1. PICK p \in points : p.tok = run.cur
        BY <3>2 DEF IsOpen
      <4>2. p.from = m
        BY <1>2, <1>5, <4>1 DEF ReadUpTo
      <4>. QED  BY <4>1, <4>2, FromIs
    <3>. QED  BY <1>10, <3>1, <3>2
  <2>. DEFINE k == cut.to
  <2>2. /\ k \in m..Len(Archive)
        /\ Matches(k, Len(Archive)) # {} => cut.more
    BY <2>1 DEF Cuts
  <2>3. k \in Nat /\ m <= k /\ k \in 0..Len(Archive)
    BY <1>8, <2>2
  <2>4. c.events = Matches(m, k)
    BY <1>10, <2>1
  <2>. HIDE DEF k
  <2>5. UNION Range(run'.pages) = Matches(0, k)
    <3>1. Matches(0, k) = Matches(0, m) \cup Matches(m, k)
      BY <1>8, <2>3, MatchesSplit
    <3>2. UNION Range(run'.pages) = (UNION Range(run.pages)) \cup c.events
      BY <1>1, <1>2, PageAppended
    <3>. QED  BY <1>6, <2>4, <3>1, <3>2
  <2>6. InOrder(run'.pages)
    <3>1. ASSUME NEW x \in UNION Range(run.pages), NEW y \in c.events
          PROVE  x < y
      <4>1. x \in 1..m
        BY <1>6, <3>1 DEF Matches
      <4>2. y \in (m + 1)..k
        BY <2>4, <3>1 DEF Matches
      <4>. QED  BY <1>8, <2>3, <4>1, <4>2
    <3>. QED  BY <1>1, <1>2, <1>6, <3>1, PageAppended
  <2>7. ReadUpTo(k)'
    <3>1. CASE cut.more
      <4>1. MoreOf(c) /\ run'.cur = Token /\ Token # NoCp
        BY <1>1, <1>10, <3>1, TokenIsNew DEF MoreOf
      <4>2. ASSUME NEW p \in points', p.tok = Token
            PROVE  p.from = k
        <5>1. p \in points \/ p = [tok |-> Token, from |-> cut.to]
          BY <1>2, <1>10, <3>1, <4>2
        <5>. QED  BY <4>2, <5>1, TokenIsNew DEF k
      <4>. QED  BY <1>7, <2>5, <4>1, <4>2 DEF ReadUpTo
    <3>2. CASE ~ cut.more
      <4>1. ~ MoreOf(c) /\ pc' # "page"
        BY <1>1, <1>10, <3>2 DEF MoreOf
      <4>2. Matches(0, k) = Matches(0, Len(Archive))
        <5>1. Matches(0, Len(Archive)) = Matches(0, k) \cup Matches(k, Len(Archive))
          BY <1>8, <2>2, <2>3, MatchesSplit
        <5>. QED  BY <2>2, <3>2, <5>1
      <4>. QED  BY <1>7, <2>5, <4>1, <4>2 DEF ReadUpTo
    <3>. QED  BY <3>1, <3>2
  <2>. QED  BY <2>3, <2>6, <2>7
<1>11. InOrder(run'.pages) /\ \E k \in 0..Len(Archive) : ReadUpTo(k)'
  <2>1. CASE c = Result("Bad", {}, NoCp, points, TRUE)
    <3>1. c.events = {} /\ c.sc = "Bad"
      BY <2>1 DEF Result
    <3>. QED  BY <1>9, <3>1 DEF MoreOf, IsGood
  <2>2. CASE ~ IsGood(c.sc) /\ c.events = {}
    BY <1>9, <2>2 DEF MoreOf
  <2>3. CASE c = ex
    BY <1>10, <2>2, <2>3, ExecutedCases
  <2>. QED  BY <1>1, <2>1, <2>2, <2>3 DEF CameBack
<1>12. (args.scenario => \A i \in DOMAIN run.results : ResultOk(run.results[i]))'
  BY <1>1, <1>2, ResultsStay DEF PagesInv
<1>13. (pc \in {"read", "judge"} => ~ args.scenario)'
  BY <1>3 DEF Paging
<1>14. cmd' = "read"
  BY <1>2 DEF TypeOK, Reading, Paging, Page
<1>. QED  BY <1>4, <1>11, <1>12, <1>13, <1>14 DEF PagesInv, InOrder

LEMMA NextNodePages ==
    ASSUME TypeOK, PagesInv, NextNode, TypeOK'
    PROVE  PagesInv'
<1>. DEFINE new == [sc |-> run.last, pages |-> run.pages, whole |-> run.cur = NoCp]
<1>1. /\ run'.page = 0 /\ run'.cur = NoCp /\ run'.pages = <<>>
      /\ run'.results = Append(run.results, new)
  BY NextNodeStep
<1>2. /\ pc = "next" /\ pc' \in {"page", "report"} /\ args' = args
      /\ run \in RunType /\ run.results \in Seq(ResultType) /\ MaxPages \in Nat \ {0}
  BY EventAssumption DEF NextNode, TypeOK, RunType
<1>3. new \in ResultType /\ new.sc = run.last /\ new.pages = run.pages
      /\ new.whole = (run.cur = NoCp)
  BY <1>2 DEF ResultType, RunType
<1>4. PICK n \in 0..Len(Archive) : ReadUpTo(n)
  BY <1>2 DEF PagesInv, Paging
<1>5. InOrder(run.pages)
  BY <1>2 DEF PagesInv, Paging
<1>6. ResultOk(new)
  BY <1>2, <1>3, <1>4, <1>5 DEF ResultOk, ReadUpTo
<1>. HIDE DEF new
<1>7. ASSUME args.scenario, NEW i \in DOMAIN run'.results
      PROVE  ResultOk(run'.results[i])
  <2>1. \/ i \in DOMAIN run.results /\ run'.results[i] = run.results[i]
        \/ run'.results[i] = new
    BY <1>1, <1>2, <1>3, <1>7
  <2>. QED  BY <1>6, <1>7, <2>1 DEF PagesInv
<1>8. (args.scenario => \A i \in DOMAIN run.results : ResultOk(run.results[i]))'
  BY <1>2, <1>7 DEF ResultOk, Matches, Where, InOrder
<1>9. (pc \in Paging => /\ InOrder(run.pages)
                        /\ \E m \in 0..Len(Archive) : ReadUpTo(m))'
  <2>. SUFFICES ASSUME pc' \in Paging
                PROVE  (InOrder(run.pages) /\ \E m \in 0..Len(Archive) : ReadUpTo(m))'
    OBVIOUS
  <2>1. pc' = "page" /\ PointsOk(points')
    BY <1>2 DEF Paging, TypeOK
  <2>2. ReadUpTo(0)'
    BY <1>1, <2>1, NoPages DEF ReadUpTo, PointsOk, PointType, Matches
  <2>. QED  BY <1>1, <2>2, NoPages, ArchiveIs DEF InOrder
<1>10. cmd' = "read"
  BY <1>2 DEF TypeOK, Reading, Paging, NextNode
<1>. QED  BY <1>1, <1>2, <1>8, <1>9, <1>10 DEF PagesInv

LEMMA NextPages ==
    ASSUME TypeOK, PagesInv, [Next]_vars, TypeOK'
    PROVE  PagesInv'
<1>. USE DEF Paging
<1>1. ASSUME pc' \notin Paging \cup {"read", "judge"}, args' = args, cmd' = cmd,
             run'.page = run.page, run'.results = run.results
      PROVE  PagesInv'
  <2>1. (args.scenario => \A i \in DOMAIN run.results : ResultOk(run.results[i]))'
    BY <1>1, ResultsStay DEF PagesInv
  <2>. QED  BY <1>1, <2>1 DEF PagesInv
<1>0. CASE UNCHANGED vars
  <2>1. (args.scenario => \A i \in DOMAIN run.results : ResultOk(run.results[i]))'
    BY <1>0, ResultsStay DEF PagesInv, vars
  <2>2. (pc \in Paging => /\ InOrder(run.pages)
                          /\ \E m \in 0..Len(Archive) : ReadUpTo(m))'
    BY <1>0 DEF PagesInv, vars, ReadUpTo, Matches, Where, InOrder
  <2>. QED  BY <1>0, <2>1, <2>2 DEF PagesInv, vars
<1>2. CASE \/ ReadRefused \/ ConnectFails \/ ResolveFails \/ UpdateRefused \/ BuildFails
           \/ Update \/ Report
  <2>1. PICK code \in {0, 2, 3, 4, 6, 7} : Exit(code)
    BY <1>2 DEF ReadRefused, ConnectFails, ResolveFails, UpdateRefused, BuildFails, Update,
                Report
  <2>2. args' = args /\ cmd' = cmd
    BY <1>2 DEF ReadRefused, ConnectFails, ResolveFails, UpdateRefused, BuildFails, Update,
                Report
  <2>. QED  BY <1>1, <2>1, <2>2, ExitStep
<1>3. CASE ReadParsed \/ UpdateParsed \/ Built \/ Collected \/ CollectKey \/ CollectNextEvent
  BY <1>1, <1>3 DEF ReadParsed, UpdateParsed, Built, Collected, CollectKey, CollectNextEvent
<1>4. CASE ReadStarts
  <2>1. /\ run' = run /\ args' = args /\ run.page = 0 /\ run.results = <<>>
        /\ run.pages = <<>> /\ run.cur = NoCp /\ MaxPages \in Nat \ {0}
        /\ pc' = IF args.scenario THEN "page" ELSE "read"
    BY <1>4, EventAssumption DEF ReadStarts, TypeOK, Idle, IdleRun
  <2>2. (args.scenario => \A i \in DOMAIN run.results : ResultOk(run.results[i]))'
    BY <2>1, ResultsStay DEF PagesInv
  <2>3. ASSUME pc' = "page"
        PROVE  (InOrder(run.pages) /\ \E m \in 0..Len(Archive) : ReadUpTo(m))'
    <3>1. PointsOk(points')
      BY DEF TypeOK
    <3>2. ReadUpTo(0)'
      BY <2>1, <2>3, <3>1, NoPages DEF ReadUpTo, PointsOk, PointType, Matches
    <3>. QED  BY <2>1, <3>2, NoPages, ArchiveIs DEF InOrder
  <2>. QED  BY <2>1, <2>2, <2>3 DEF PagesInv
<1>5. CASE ReleaseLast \/ ReuseLast
  <2>1. /\ run' = run /\ args' = args /\ pc \in {"release", "reuse"}
        /\ pc' \in {"reuse", "next"}
    BY <1>5 DEF ReleaseLast, ReuseLast
  <2>2. (args.scenario => \A i \in DOMAIN run.results : ResultOk(run.results[i]))'
    BY <2>1, ResultsStay DEF PagesInv
  <2>3. (InOrder(run.pages) /\ \E m \in 0..Len(Archive) : ReadUpTo(m))'
    BY <2>1 DEF PagesInv, ReadUpTo, Matches, Where, InOrder
  <2>4. cmd' = "read"
    BY <2>1 DEF TypeOK, Reading
  <2>. QED  BY <2>1, <2>2, <2>3, <2>4 DEF PagesInv
<1>6. CASE ReadAll \/ ReadFault
  <2>1. /\ args' = args /\ pc = "read" /\ pc' \in {"judge", "report"}
        /\ ~ args.scenario /\ run'.page = run.page
    BY <1>6, ReadAllStep, ReadFaultStep DEF ReadAll, ReadFault, PagesInv
  <2>2. cmd' = "read"
    BY <2>1 DEF TypeOK, Reading
  <2>. QED  BY <2>1, <2>2 DEF PagesInv
<1>7. CASE Judge
  <2>1. run.node \in 1..Len(run.results)
    BY <1>7 DEF Judge, TypeOK
  <2>2. /\ run'.page = run.page /\ run'.results = run.results /\ args' = args
        /\ pc = "judge" /\ pc' \in {"judge", "report"}
    BY <1>7, <2>1, JudgeStep DEF Judge
  <2>3. cmd' = "read"
    BY <2>2 DEF TypeOK, Reading
  <2>. QED  BY <2>2, <2>3 DEF PagesInv
<1>. QED
  BY <1>0, <1>2, <1>3, <1>4, <1>5, <1>6, <1>7, PagePages, NextNodePages DEF Next

(* Whatever the server's way of cutting pages and of filtering, and however *)
(* many pages there are, the pages of a node are the events asked for, in   *)
(* order, none twice and none skipped.                                      *)
THEOREM PagesAreRight == Spec => []PagesAreHistory
<1>1. TypeOK /\ PagesInv => PagesAreHistory
  <2>. SUFFICES ASSUME TypeOK, PagesInv,
                       NEW i \in DOMAIN run.results, args.scenario
                PROVE  LET r == run.results[i] IN
                       /\ InOrder(r.pages)
                       /\ \E m \in 0..Len(Archive) :
                             UNION Range(r.pages) = Wanted \cap (1..m)
                       /\ IsGood(r.sc) /\ r.whole => UNION Range(r.pages) = Wanted
    BY DEF PagesInv, PagesAreHistory
  <2>1. ResultOk(run.results[i])
    BY DEF PagesInv
  <2>2. cmd = "read"
    BY DEF TypeOK, PagesInv
  <2>3. \A m \in 0..Len(Archive) : Matches(0, m) = Wanted \cap (1..m)
    BY <2>2, MatchesWanted
  <2>4. Matches(0, Len(Archive)) = Wanted
    <3>1. Wanted \subseteq 1..Len(Archive) /\ Len(Archive) \in 0..Len(Archive)
      BY ArchiveIs DEF Wanted
    <3>. QED  BY <2>3, <3>1
  <2>. QED  BY <2>1, <2>3, <2>4 DEF ResultOk
<1>. QED  BY <1>1, TypeCorrect, InitPages, NextPages, PTL DEF Spec

-----------------------------------------------------------------------------
(* The update says what the events say.                                     *)

(* The size of the array that the keys are collected in.                    *)
Limit == KeysPerEvent * Len(args.events)

KeyAt(i, j) == args.events[i][j].key

(* The keys that the collecting loop has passed.                            *)
Seen == {k \in SelectedKeys :
            \E i \in DOMAIN args.events : \E j \in DOMAIN args.events[i] :
                /\ i < at.ev \/ (i = at.ev /\ j < at.key)
                /\ KeyAt(i, j) = k}

Distinct(s) == \A k, l \in DOMAIN s : s[k] = s[l] => k = l

(* Every key is selected, if they fit.                                      *)
Covered == Cardinality(SelectedKeys) <= Limit => Range(sel) = SelectedKeys

CollectInv ==
    /\ args.select = <<>>
    /\ at \in [ev : Nat \ {0}, key : Nat \ {0}]
    /\ sel \in Seq(SelectedKeys)
    /\ Distinct(sel)
    /\ Cardinality(SelectedKeys) <= Limit => Seen \subseteq Range(sel)

UpdateInv ==
    /\ pc = "parse" => at = [ev |-> 1, key |-> 1]
    /\ pc = "collect" => CollectInv
    /\ cmd = "update" /\ pc \in {"build", "connect"} => Covered
    /\ pc # "done" => sent = NoRequest
    /\ sent # NoRequest => cmd = "update" /\ Covered /\ sent = Request

LEMMA UpdateArgsAre ==
    ASSUME TypeOK, cmd = "update"
    PROVE  /\ args.events \in Seq(Range(args.events))
           /\ DOMAIN args.events = 1..Len(args.events) /\ Len(args.events) \in Nat
           /\ \A i \in DOMAIN args.events :
                 /\ DOMAIN args.events[i] = 1..Len(args.events[i])
                 /\ Len(args.events[i]) \in Nat
           /\ Limit \in Nat
<1>1. args \in UpdateArgs
  BY DEF TypeOK
<1>2. args.events \in Seq(Range(args.events))
  BY <1>1, EventAssumption DEF IsSequence
<1>3. ASSUME NEW i \in DOMAIN args.events
      PROVE  DOMAIN args.events[i] = 1..Len(args.events[i]) /\ Len(args.events[i]) \in Nat
  <2>1. args.events[i] \in Seq(Range(args.events[i]))
    BY <1>1, EventAssumption DEF IsSequence
  <2>. QED  BY <2>1
<1>4. DOMAIN args.events = 1..Len(args.events) /\ Len(args.events) \in Nat
  BY <1>2
<1>5. Limit \in Nat
  BY <1>4, EventAssumption DEF Limit
<1>. QED  BY <1>2, <1>3, <1>4, <1>5

(* Without --select the keys are those of the events.                       *)
LEMMA SelectedAre ==
    ASSUME args.select = <<>>
    PROVE  /\ \A i \in DOMAIN args.events : \A j \in DOMAIN args.events[i] :
                 KeyAt(i, j) \in SelectedKeys
           /\ \A k \in SelectedKeys :
                 \E i \in DOMAIN args.events : \E j \in DOMAIN args.events[i] :
                    KeyAt(i, j) = k
<1>1. SelectedKeys = UNION {Range(KeysOf(args.events[i])) : i \in DOMAIN args.events}
  BY DEF SelectedKeys
<1>2. \A i \in DOMAIN args.events :
         Range(KeysOf(args.events[i])) = {KeyAt(i, j) : j \in DOMAIN args.events[i]}
  BY DEF Range, KeysOf, KeyAt
<1>3. ASSUME NEW i \in DOMAIN args.events, NEW j \in DOMAIN args.events[i]
      PROVE  KeyAt(i, j) \in SelectedKeys
  <2>1. KeyAt(i, j) \in Range(KeysOf(args.events[i]))
    BY <1>2
  <2>. QED  BY <1>1, <2>1
<1>4. ASSUME NEW k \in SelectedKeys
      PROVE  \E i \in DOMAIN args.events : \E j \in DOMAIN args.events[i] : KeyAt(i, j) = k
  <2>1. PICK i \in DOMAIN args.events : k \in Range(KeysOf(args.events[i]))
    BY <1>1
  <2>2. \E j \in DOMAIN args.events[i] : KeyAt(i, j) = k
    BY <1>2, <2>1
  <2>. QED  BY <2>2
<1>. QED  BY <1>3, <1>4

LEMMA SelectedFinite ==
    ASSUME TypeOK, cmd = "update", args.select = <<>>
    PROVE  IsFiniteSet(SelectedKeys)
<1>. DEFINE n == Len(args.events)
            S(i) == {KeyAt(i, j) : j \in DOMAIN args.events[i]}
            All == {S(i) : i \in DOMAIN args.events}
<1>1. \A i \in DOMAIN args.events :
         /\ Range(KeysOf(args.events[i])) = S(i)
         /\ DOMAIN args.events[i] = 1..Len(args.events[i]) /\ Len(args.events[i]) \in Nat
  BY UpdateArgsAre DEF Range, KeysOf, KeyAt
<1>2. SelectedKeys = UNION All
  <2>1. SelectedKeys = UNION {Range(KeysOf(args.events[i])) : i \in DOMAIN args.events}
    BY DEF SelectedKeys
  <2>2. {Range(KeysOf(args.events[i])) : i \in DOMAIN args.events} = All
    <3>. HIDE DEF S
    <3>. QED  BY <1>1
  <2>. QED  BY <2>1, <2>2
<1>3. ASSUME NEW i \in DOMAIN args.events
      PROVE  IsFiniteSet(S(i))
  <2>. DEFINE D == DOMAIN args.events[i]
              f == [j \in D |-> KeyAt(i, j)]
  <2>1. IsFiniteSet(D)
    BY <1>1, FS_Interval
  <2>2. f \in Surjection(D, S(i))
    BY DEF Surjection
  <2>. HIDE DEF f, D
  <2>. QED  BY <2>1, <2>2, FS_Surjection
<1>4. IsFiniteSet(All)
  <2>. DEFINE D == DOMAIN args.events
              f == [i \in D |-> S(i)]
  <2>1. IsFiniteSet(D)
    <3>1. D = 1..Len(args.events) /\ Len(args.events) \in Int /\ 1 \in Int
      BY UpdateArgsAre
    <3>. QED  BY <3>1, FS_Interval
  <2>. HIDE DEF S
  <2>2. f \in Surjection(D, All)
    BY DEF Surjection
  <2>. HIDE DEF f, D, All
  <2>. QED  BY <2>1, <2>2, FS_Surjection
<1>5. \A T \in All : IsFiniteSet(T)
  BY <1>3
<1>. HIDE DEF All
<1>. QED  BY <1>2, <1>4, <1>5, FS_UNION

(* Distinct keys are no more than there are.                                *)
LEMMA DistinctFit ==
    ASSUME NEW K, IsFiniteSet(K), NEW s \in Seq(K), Distinct(s), NEW k \in K,
           k \notin Range(s)
    PROVE  Len(s) + 1 <= Cardinality(K)
<1>. DEFINE n == Len(s)
<1>1. n \in Nat /\ DOMAIN s = 1..n /\ Range(s) \subseteq K
  BY DEF Range
<1>2. s \in Bijection(1..n, Range(s))
  <2>1. s \in [1..n -> Range(s)]
    BY <1>1 DEF Range
  <2>2. s \in Surjection(1..n, Range(s))
    BY <1>1, <2>1 DEF Surjection, Range
  <2>3. s \in Injection(1..n, Range(s))
    BY <1>1, <2>1 DEF Injection, IsInjective, Distinct
  <2>. QED  BY <2>2, <2>3 DEF Bijection
<1>3. Cardinality(Range(s)) = n /\ IsFiniteSet(Range(s))
  <2>1. IsFiniteSet(1..n) /\ Cardinality(1..n) = n
    <3>1. IsFiniteSet(1..n) /\ Cardinality(1..n) = IF 1 > n THEN 0 ELSE n - 1 + 1
      BY <1>1, FS_Interval
    <3>. HIDE DEF n
    <3>. QED  BY <1>1, <3>1
  <2>2. ExistsBijection(1..n, Range(s))
    BY <1>2 DEF ExistsBijection
  <2>. HIDE DEF n
  <2>. QED  BY <2>1, <2>2, FS_Bijection
<1>4. IsFiniteSet(Range(s) \cup {k}) /\ Cardinality(Range(s) \cup {k}) = n + 1
  <2>1. /\ IsFiniteSet(Range(s) \cup {k})
        /\ Cardinality(Range(s) \cup {k}) = Cardinality(Range(s)) + 1
    BY <1>3, FS_AddElement
  <2>. QED  BY <1>3, <2>1
<1>5. Range(s) \cup {k} \subseteq K
  BY <1>1
<1>6. Cardinality(Range(s) \cup {k}) <= Cardinality(K)
  BY <1>5, FS_Subset
<1>. QED  BY <1>4, <1>6

LEMMA InitUpdate == Init => UpdateInv
BY DEF Init, UpdateInv

(* The request and the keys do not change with what they do not depend on.  *)
LEMMA SelectedStay ==
    ASSUME args' = args
    PROVE  SelectedKeys' = SelectedKeys /\ Limit' = Limit
BY DEF SelectedKeys, Limit

LEMMA CoveredStays ==
    ASSUME args' = args, sel' = sel
    PROVE  Covered' = Covered /\ Request' = Request
<1>1. Covered' = Covered
  BY SelectedStay DEF Covered
<1>2. Request' = Request
  BY DEF Request, Fields
<1>. QED  BY <1>1, <1>2

LEMMA CollectKeyInv ==
    ASSUME TypeOK, UpdateInv, CollectKey
    PROVE  CollectInv'
<1>. DEFINE key == KeyAt(at.ev, at.key)
<1>1. /\ pc = "collect" /\ cmd = "update" /\ args' = args
      /\ at.ev <= Len(args.events) /\ at.key <= Len(args.events[at.ev])
      /\ sel' = Collect(key) /\ at' = [at EXCEPT !.key = @ + 1]
  BY DEF CollectKey, TypeOK, Updating, Reading, Paging, KeyAt
<1>2. CollectInv
  BY <1>1 DEF UpdateInv
<1>3. /\ args.select = <<>> /\ at \in [ev : Nat \ {0}, key : Nat \ {0}]
      /\ sel \in Seq(SelectedKeys) /\ Distinct(sel)
  BY <1>2 DEF CollectInv
<1>4. at.ev \in DOMAIN args.events /\ at.key \in DOMAIN args.events[at.ev]
  <2>1. at.ev \in DOMAIN args.events
    BY <1>1, <1>3, UpdateArgsAre
  <2>2. DOMAIN args.events[at.ev] = 1..Len(args.events[at.ev]) /\ Len(args.events[at.ev]) \in Nat
    BY <1>1, <2>1, UpdateArgsAre
  <2>. QED  BY <1>1, <1>3, <2>1, <2>2
<1>5. key \in SelectedKeys
  BY <1>3, <1>4, SelectedAre
<1>6. SelectedKeys' = SelectedKeys /\ Limit' = Limit /\ Limit \in Nat
  BY <1>1, SelectedStay, UpdateArgsAre
<1>7. /\ at' \in [ev : Nat \ {0}, key : Nat \ {0}]
      /\ at'.ev = at.ev /\ at'.key = at.key + 1
  BY <1>1, <1>3
<1>8. Seen' \subseteq Seen \cup {key}
  <2>. SUFFICES ASSUME NEW k \in SelectedKeys,
                       NEW i \in DOMAIN args.events, NEW j \in DOMAIN args.events[i],
                       i < at.ev \/ (i = at.ev /\ j < at.key + 1), KeyAt(i, j) = k
                PROVE  k \in Seen \cup {key}
    BY <1>1, <1>6, <1>7 DEF Seen, KeyAt
  <2>0. j \in Nat
    BY <1>1, UpdateArgsAre
  <2>1. i < at.ev \/ (i = at.ev /\ j < at.key) \/ (i = at.ev /\ j = at.key)
    BY <1>3, <2>0
  <2>. QED  BY <2>1 DEF Seen
<1>. HIDE DEF key
<1>9. /\ sel' \in Seq(SelectedKeys) /\ Distinct(sel')
      /\ Cardinality(SelectedKeys) <= Limit =>
            Range(sel) \cup {key} \subseteq Range(sel')
  <2>1. CASE key \in Range(sel)
    <3>1. sel' = sel
      BY <1>1, <2>1 DEF Collect
    <3>. QED  BY <1>3, <2>1, <3>1
  <2>2. CASE key \notin Range(sel) /\ Len(sel) >= Limit
    <3>1. sel' = sel
      BY <1>1, <2>2 DEF Collect, Limit
    <3>2. ~ (Cardinality(SelectedKeys) <= Limit)
      <4>1. IsFiniteSet(SelectedKeys) /\ Cardinality(SelectedKeys) \in Nat
        BY <1>1, <1>3, SelectedFinite, FS_CardinalityType
      <4>2. Len(sel) + 1 <= Cardinality(SelectedKeys)
        BY <1>3, <1>5, <2>2, <4>1, DistinctFit
      <4>3. Len(sel) \in Nat
        BY <1>3
      <4>. QED  BY <1>6, <2>2, <4>1, <4>2, <4>3
    <3>. QED  BY <1>3, <3>1, <3>2
  <2>3. CASE key \notin Range(sel) /\ ~ (Len(sel) >= Limit)
    <3>1. sel' = Append(sel, key)
      BY <1>1, <2>3 DEF Collect, Limit
    <3>. DEFINE n == Len(sel)
    <3>2. /\ n \in Nat /\ DOMAIN sel = 1..n /\ DOMAIN sel' = 1..(n + 1)
          /\ sel' \in Seq(SelectedKeys)
          /\ sel'[n + 1] = key /\ \A k \in 1..n : sel'[k] = sel[k]
      BY <1>3, <1>5, <3>1
    <3>. HIDE DEF n
    <3>3. \A k \in 1..(n + 1) : k \in 1..n \/ k = n + 1
      BY <3>2
    <3>4. \A k \in 1..n : sel[k] # key
      BY <2>3, <3>2 DEF Range
    <3>5. Distinct(sel')
      BY <1>3, <3>2, <3>3, <3>4 DEF Distinct
    <3>6. 1..n \subseteq 1..(n + 1) /\ n + 1 \in 1..(n + 1)
      BY <3>2
    <3>7. Range(sel) \cup {key} \subseteq Range(sel')
      BY <3>2, <3>6 DEF Range
    <3>. QED  BY <3>2, <3>5, <3>7
  <2>. QED  BY <2>1, <2>2, <2>3
<1>10. Cardinality(SelectedKeys) <= Limit => Seen \subseteq Range(sel)
  BY <1>2 DEF CollectInv
<1>11. (Cardinality(SelectedKeys) <= Limit => Seen \subseteq Range(sel))'
  <2>. SUFFICES ASSUME Cardinality(SelectedKeys) <= Limit
                PROVE  Seen' \subseteq Range(sel')
    BY <1>6 DEF Range
  <2>. QED  BY <1>8, <1>9, <1>10
<1>12. (sel \in Seq(SelectedKeys) /\ Distinct(sel))'
  BY <1>6, <1>9 DEF Distinct
<1>. QED  BY <1>1, <1>3, <1>7, <1>11, <1>12 DEF CollectInv

LEMMA CollectNextInv ==
    ASSUME TypeOK, UpdateInv, CollectNextEvent
    PROVE  CollectInv'
<1>1. /\ pc = "collect" /\ cmd = "update" /\ args' = args /\ sel' = sel
      /\ at.ev <= Len(args.events) /\ at.key > Len(args.events[at.ev])
      /\ at' = [ev |-> at.ev + 1, key |-> 1]
  BY DEF CollectNextEvent, TypeOK, Updating, Reading, Paging
<1>2. CollectInv
  BY <1>1 DEF UpdateInv
<1>3. at \in [ev : Nat \ {0}, key : Nat \ {0}]
  BY <1>2 DEF CollectInv
<1>4. SelectedKeys' = SelectedKeys /\ Limit' = Limit
  BY <1>1, SelectedStay
<1>5. /\ at' \in [ev : Nat \ {0}, key : Nat \ {0}]
      /\ at'.ev = at.ev + 1 /\ at'.key = 1
  BY <1>1, <1>3
<1>6. Seen' \subseteq Seen
  <2>. SUFFICES ASSUME NEW k \in SelectedKeys,
                       NEW i \in DOMAIN args.events, NEW j \in DOMAIN args.events[i],
                       i < at.ev + 1 \/ (i = at.ev + 1 /\ j < 1), KeyAt(i, j) = k
                PROVE  k \in Seen
    BY <1>1, <1>4, <1>5 DEF Seen, KeyAt
  <2>1. i \in Nat /\ j \in 1..Len(args.events[i]) /\ Len(args.events[i]) \in Nat
    BY <1>1, UpdateArgsAre
  <2>2. i < at.ev \/ i = at.ev
    BY <1>3, <2>1
  <2>3. i = at.ev => j < at.key
    BY <1>1, <1>3, <2>1
  <2>. QED  BY <2>2, <2>3 DEF Seen
<1>7. (Cardinality(SelectedKeys) <= Limit => Seen \subseteq Range(sel))'
  BY <1>1, <1>2, <1>4, <1>6 DEF CollectInv, Range
<1>8. (sel \in Seq(SelectedKeys) /\ Distinct(sel))'
  BY <1>1, <1>2, <1>4 DEF CollectInv, Distinct
<1>. QED  BY <1>1, <1>2, <1>5, <1>7, <1>8 DEF CollectInv

(* The loop has seen every key.                                             *)
LEMMA CollectedAll ==
    ASSUME TypeOK, CollectInv, cmd = "update", at.ev > Len(args.events)
    PROVE  Covered
<1>1. SelectedKeys \subseteq Seen
  <2>. SUFFICES ASSUME NEW k \in SelectedKeys PROVE k \in Seen
    OBVIOUS
  <2>1. PICK i \in DOMAIN args.events : \E j \in DOMAIN args.events[i] : KeyAt(i, j) = k
    BY SelectedAre DEF CollectInv
  <2>2. i < at.ev
    BY UpdateArgsAre DEF CollectInv
  <2>. QED  BY <2>1, <2>2 DEF Seen
<1>2. Range(sel) \subseteq SelectedKeys
  BY DEF CollectInv, Range
<1>. QED  BY <1>1, <1>2 DEF CollectInv, Covered

LEMMA NextUpdate ==
    ASSUME TypeOK, UpdateInv, [Next]_vars, TypeOK'
    PROVE  UpdateInv'
<1>1. ASSUME UNCHANGED <<cmd, args, sel, at, sent>>,
             pc' \notin {"parse", "collect"},
             cmd = "read" \/ pc' \notin {"build", "connect"},
             pc' = "done" \/ pc # "done"
      PROVE  UpdateInv'
  <2>1. Covered' = Covered /\ Request' = Request
    BY <1>1, CoveredStays
  <2>. QED  BY <1>1, <2>1 DEF UpdateInv
<1>0. CASE UNCHANGED vars
  <2>1. Covered' = Covered /\ Request' = Request
    BY <1>0, CoveredStays DEF vars
  <2>2. CollectInv' = CollectInv
    BY <1>0 DEF vars, CollectInv, SelectedKeys, Limit, Seen, KeyAt, Distinct
  <2>. QED  BY <1>0, <2>1, <2>2 DEF UpdateInv, vars
<1>2. CASE ReadRefused \/ ConnectFails \/ ResolveFails \/ UpdateRefused \/ BuildFails \/ Report
  BY <1>1, <1>2 DEF ReadRefused, ConnectFails, ResolveFails, UpdateRefused, BuildFails,
                    Report, Exit, updateVars
<1>3. CASE ReadParsed \/ ReadStarts
  BY <1>1, <1>3 DEF ReadParsed, ReadStarts, updateVars
<1>4. CASE NextNode \/ ReadAll \/ ReadFault \/ Judge \/ ReleaseLast \/ ReuseLast
  BY <1>1, <1>4 DEF NextNode, ReadAll, ReadFault, Judge, ReleaseLast, ReuseLast, updateVars
<1>5. CASE Page
  <2>1. pc' \in Paging
    BY <1>5, PageStep DEF Paging
  <2>. QED  BY <1>1, <1>5, <2>1 DEF Page, updateVars, Paging
<1>6. CASE UpdateParsed
  <2>1. /\ cmd = "update" /\ pc = "parse" /\ sent = NoRequest /\ sent' = sent
        /\ sel' = args.select /\ args' = args /\ at' = at /\ cmd' = cmd
        /\ at = [ev |-> 1, key |-> 1]
        /\ pc' = IF args.select = <<>> THEN "collect" ELSE "build"
    BY <1>6 DEF UpdateParsed, UpdateInv
  <2>2. CASE args.select = <<>>
    <3>1. sel' = <<>> /\ Seen' = {}
      <4>1. \A i \in DOMAIN args.events : i \in Nat /\ i >= 1
        BY <2>1, UpdateArgsAre
      <4>2. \A i \in DOMAIN args.events : \A j \in DOMAIN args.events[i] : j \in Nat /\ j >= 1
        BY <2>1, UpdateArgsAre
      <4>3. ASSUME NEW k \in Seen' PROVE FALSE
        <5>1. PICK i \in DOMAIN args.events : \E j \in DOMAIN args.events[i] :
                     i < at.ev \/ (i = at.ev /\ j < at.key)
          BY <2>1, <4>3 DEF Seen
        <5>. QED  BY <2>1, <4>1, <4>2, <5>1
      <4>. QED  BY <2>1, <2>2, <4>3
    <3>2. CollectInv'
      BY <2>1, <2>2, <3>1 DEF CollectInv, Distinct
    <3>. QED  BY <2>1, <2>2, <3>2 DEF UpdateInv
  <2>3. CASE args.select # <<>>
    <3>1. Covered'
      BY <2>1, <2>3 DEF Covered, SelectedKeys
    <3>. QED  BY <2>1, <2>3, <3>1 DEF UpdateInv
  <2>. QED  BY <2>2, <2>3
<1>7. CASE CollectKey
  <2>1. pc' = "collect" /\ pc = "collect" /\ sent' = sent
    BY <1>7 DEF CollectKey
  <2>. QED  BY <1>7, <2>1, CollectKeyInv DEF UpdateInv
<1>8. CASE CollectNextEvent
  <2>1. pc' = "collect" /\ pc = "collect" /\ sent' = sent
    BY <1>8 DEF CollectNextEvent
  <2>. QED  BY <1>8, <2>1, CollectNextInv DEF UpdateInv
<1>9. CASE Collected
  <2>1. /\ pc = "collect" /\ pc' = "build" /\ sent' = sent /\ args' = args /\ sel' = sel
        /\ at.ev > Len(args.events) /\ cmd = "update"
    BY <1>9 DEF Collected, updateVars, TypeOK, Updating, Reading, Paging
  <2>2. Covered'
    BY <2>1, CollectedAll, CoveredStays DEF UpdateInv
  <2>. QED  BY <2>1, <2>2 DEF UpdateInv
<1>10. CASE Built
  <2>1. /\ pc = "build" /\ pc' = "connect" /\ sent' = sent /\ args' = args /\ sel' = sel
        /\ cmd = "update"
    BY <1>10 DEF Built, updateVars, TypeOK, Updating, Reading, Paging
  <2>2. Covered'
    BY <2>1, CoveredStays DEF UpdateInv
  <2>. QED  BY <2>1, <2>2 DEF UpdateInv
<1>11. CASE Update
  <2>1. /\ cmd = "update" /\ pc = "connect" /\ pc' = "done" /\ sent' = Request
        /\ args' = args /\ sel' = sel /\ cmd' = cmd
    BY <1>11 DEF Update, Exit
  <2>2. Covered' /\ sent' = Request'
    BY <2>1, CoveredStays DEF UpdateInv
  <2>. QED  BY <2>1, <2>2 DEF UpdateInv
<1>. QED
  BY <1>0, <1>2, <1>3, <1>4, <1>5, <1>6, <1>7, <1>8, <1>9, <1>10, <1>11 DEF Next

(* For any number of events with any keys, each value arrives under its own *)
(* path and with its own type, as long as the keys fit the array.           *)
THEOREM UpdateIsRight == Spec => []UpdateIsFaithful
<1>1. TypeOK /\ UpdateInv => UpdateIsFaithful
  <2>. SUFFICES ASSUME TypeOK, UpdateInv, sent # NoRequest, args.perform # "delete",
                       Cardinality(SelectedKeys) <= Limit,
                       NEW i \in DOMAIN args.events
                PROVE  Received(i) =
              {<<hev_parse_select(key), Member(args.events[i], key)>> :
                 key \in {key \in SelectedKeys \cap Range(KeysOf(args.events[i])) :
                            Member(args.events[i], key) # NullVariant}}
    BY DEF UpdateIsFaithful, Limit
  <2>. DEFINE ev == args.events[i]
              keys == {key \in SelectedKeys \cap Range(KeysOf(ev)) :
                          Member(ev, key) # NullVariant}
              pair(key) == <<hev_parse_select(key), Member(ev, key)>>
              ks == {k \in DOMAIN sel : Member(ev, sel[k]) # NullVariant}
  <2>1. Range(sel) = SelectedKeys /\ sent = Request
    BY DEF UpdateInv, Covered
  <2>2. /\ sent.select = [k \in DOMAIN sel |-> hev_parse_select(sel[k])]
        /\ sent.data = [l \in DOMAIN args.events |-> Fields(args.events[l])]
    BY <2>1 DEF Request
  <2>3. sent.data[i] = [k \in DOMAIN sel |-> Member(ev, sel[k])]
    BY <2>2 DEF Fields
  <2>4. Received(i) = {pair(sel[k]) : k \in ks}
    BY <2>2, <2>3 DEF Received
  <2>5. \A key : Member(ev, key) # NullVariant => key \in Range(KeysOf(ev))
    BY DEF Member
  <2>. HIDE DEF pair, ev
  <2>6. \A k \in ks : sel[k] \in keys
    BY <2>1, <2>5 DEF Range
  <2>7. \A key \in keys : \E k \in ks : key = sel[k]
    BY <2>1 DEF Range
  <2>8. {pair(sel[k]) : k \in ks} = {pair(key) : key \in keys}
    <3>. HIDE DEF ks, keys
    <3>. QED  BY <2>6, <2>7
  <2>. QED  BY <2>4, <2>8 DEF pair, ev
<1>. QED  BY <1>1, TypeCorrect, InitUpdate, NextUpdate, PTL DEF Spec
=============================================================================
