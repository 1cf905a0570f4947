----------------------- MODULE CertificatePushProofs -----------------------
(***************************************************************************)
(* Proofs about CertificatePush for every set of command lines, every chunk *)
(* size and every length of a TrustList file: what a TrustList read leaves  *)
(* behind, that a push is all or nothing, and what its exit code tells.     *)
(***************************************************************************)
EXTENDS CertificatePush, TLAPS

StepNames == {"resolveType", "translate", "before", "add", "remove", "getCerts",
              "selfSigned", "resolveDelete", "delete", "update", "csr",
              "rejected", "reset", "apply", "cancel", "diagnostics", "after"}

ReadType ==
    [at : {"translate", "open", "read", "close", "done"}, len : Nat, got : Nat,
     handle : BOOLEAN, readSc : Answers, sc : Answers, dead : BOOLEAN,
     lost : BOOLEAN, clean : BOOLEAN]

(* The states of p12_read_trust_list: nothing is open before Open answered, *)
(* a loop whose answers were Good and not short ends with the whole file.   *)
ReadInv(t) ==
    /\ t \in ReadType
    /\ t.got <= t.len
    /\ t.at \in {"translate", "open"} => ~ t.handle
    /\ t.clean => t.readSc = "Good"
    /\ t.at = "close" /\ t.clean => t.got = t.len
    /\ WholeList(t)
    /\ HandleClosed(t)

TypeOK ==
    /\ flags \in FlagSets
    /\ pc \in 0 .. Done
    /\ failSc \in {"Good", "Bad"}
    /\ applied \in BOOLEAN /\ inputErr \in BOOLEAN
    /\ ret \in Answers
    /\ results \in [StepNames -> Answers \cup {"absent"}]
    /\ exit \in {NoExit, 0, 2, 3, 4, 6, 7}
    /\ reported \in Answers
    /\ dead \in BOOLEAN
    /\ pending \subseteq Asked
    /\ live \subseteq Asked
    /\ atOnce \subseteq live

(* Nothing has failed so far.                                               *)
Fine == failSc = "Good" /\ ret = "Good"

(* The steps behind pc were taken and answered; the ones ahead were not.    *)
Walked ==
    /\ pc = 0 => Fine /\ applied = FALSE
    /\ pc \in 1 .. Len(Steps) => /\ ret = "Good" /\ ~ inputErr /\ exit = NoExit
                                 /\ Runs(Steps[pc], failSc, applied)
    /\ \A i \in 1 .. Len(Steps) : results[Steps[i]] # "absent" => i < pc
    /\ Fine => /\ \A s \in StepNames : results[s] # "Bad"
               /\ \A i \in 1 .. Len(Steps) :
                    /\ i < pc
                    /\ Steps[i] \in Methods \cup {"before", "after"}
                    /\ Runs(Steps[i], "Good", FALSE)
                    => results[Steps[i]] = "Good"

(* The server's transaction, seen from the command's position.              *)
Effects ==
    /\ pc <= 14 => live = atOnce
    /\ Fine /\ 1 <= pc /\ pc <= 14 =>
         \A i \in 1 .. 13 : i < pc /\ Steps[i] \in Asked => Steps[i] \in pending \cup atOnce
    /\ live # atOnce => /\ live = Asked /\ "apply" \in flags
                        /\ results["apply"] = "Good" \/ IsTransport(ret)
    /\ results["apply"] = "Good" => live = Asked
    /\ results["cancel"] = "Good" => pending = {}
    /\ inputErr => pc = Done /\ live = atOnce

(* What the envelope was made from.                                         *)
Envelope ==
    /\ exit = 0 => pc = Done /\ Fine /\ ~ inputErr
    /\ exit = 2 => live = atOnce
    /\ exit = 4 => live = atOnce \/ ~ IsTransport(ret)

(* The inductive invariant.                                                 *)
IInv == TypeOK /\ Walked /\ Effects /\ Envelope /\ ReadInv(tl)

-----------------------------------------------------------------------------
(* push_steps by position.                                                  *)
LEMMA StepsAt ==
       /\ Len(Steps) = 17 /\ Done = 18 /\ DOMAIN Steps = 1 .. 17
       /\ Steps[1] = "resolveType"
       /\ Steps[2] = "translate"
       /\ Steps[3] = "before"
       /\ Steps[4] = "add"
       /\ Steps[5] = "remove"
       /\ Steps[6] = "getCerts"
       /\ Steps[7] = "selfSigned"
       /\ Steps[8] = "resolveDelete"
       /\ Steps[9] = "delete"
       /\ Steps[10] = "update"
       /\ Steps[11] = "csr"
       /\ Steps[12] = "rejected"
       /\ Steps[13] = "reset"
       /\ Steps[14] = "apply"
       /\ Steps[15] = "cancel"
       /\ Steps[16] = "diagnostics"
       /\ Steps[17] = "after"
<1>1. Len(Steps) = 17
  BY DEF Steps
<1>. QED  BY <1>1 DEF Steps, Done

(* The positions one by one.                                                *)
LEMMA Positions ==
  \A i \in 1 .. 17 : i = 1 \/ i = 2 \/ i = 3 \/ i = 4 \/ i = 5 \/ i = 6
        \/ i = 7 \/ i = 8 \/ i = 9 \/ i = 10 \/ i = 11 \/ i = 12 \/ i = 13
        \/ i = 14 \/ i = 15 \/ i = 16 \/ i = 17
OBVIOUS

(* Each step has one position, and every name is one.                       *)
LEMMA StepsAreNames ==
       /\ \A i \in 1 .. 17 : Steps[i] \in StepNames
       /\ StepNames = {Steps[i] : i \in DOMAIN Steps}
       /\ \A s \in StepNames : \E i \in 1 .. 17 : s = Steps[i]
       /\ \A i, j \in 1 .. 17 : Steps[i] = Steps[j] => i = j
<1>2. \A i \in 1 .. 17 : Steps[i] \in StepNames
  BY Positions, StepsAt DEF StepNames
<1>3. \A s \in StepNames : \E i \in 1 .. 17 : s = Steps[i]
  BY StepsAt DEF StepNames
<1>4. StepNames = {Steps[i] : i \in DOMAIN Steps}
  BY <1>2, <1>3, StepsAt
<1>5. ASSUME NEW i \in 1 .. 17, NEW j \in 1 .. 17, Steps[i] = Steps[j] PROVE i = j
  BY Positions, <1>5, StepsAt
<1>. QED  BY <1>2, <1>3, <1>4, <1>5

(* A set of steps has a first one.                                          *)
LEMMA FirstOfSteps ==
  ASSUME NEW T, T \subseteq 1 .. 17, T # {}
  PROVE  \E j \in T : \A k \in T : j <= k
<1>. SUFFICES ASSUME \A j \in T : \E k \in T : ~ (j <= k) PROVE FALSE
  OBVIOUS
<1>1. \A j \in T : \E k \in T : k < j
  OBVIOUS
<1>2. 1 \notin T
  BY <1>1
<1>3. 2 \notin T
  BY <1>1, <1>2
<1>4. 3 \notin T
  BY <1>1, <1>2, <1>3
<1>5. 4 \notin T
  BY <1>1, <1>2, <1>3, <1>4
<1>6. 5 \notin T
  BY <1>1, <1>2, <1>3, <1>4, <1>5
<1>7. 6 \notin T
  BY <1>1, <1>2, <1>3, <1>4, <1>5, <1>6
<1>8. 7 \notin T
  BY <1>1, <1>2, <1>3, <1>4, <1>5, <1>6, <1>7
<1>9. 8 \notin T
  BY <1>1, <1>2, <1>3, <1>4, <1>5, <1>6, <1>7, <1>8
<1>10. 9 \notin T
  BY <1>1, <1>2, <1>3, <1>4, <1>5, <1>6, <1>7, <1>8, <1>9
<1>11. 10 \notin T
  BY <1>1, <1>2, <1>3, <1>4, <1>5, <1>6, <1>7, <1>8, <1>9, <1>10
<1>12. 11 \notin T
  BY <1>1, <1>2, <1>3, <1>4, <1>5, <1>6, <1>7, <1>8, <1>9, <1>10, <1>11
<1>13. 12 \notin T
  BY <1>1, <1>2, <1>3, <1>4, <1>5, <1>6, <1>7, <1>8, <1>9, <1>10, <1>11, <1>12
<1>14. 13 \notin T
  BY <1>1, <1>2, <1>3, <1>4, <1>5, <1>6, <1>7, <1>8, <1>9, <1>10, <1>11, <1>12, <1>13
<1>15. 14 \notin T
  BY <1>1, <1>2, <1>3, <1>4, <1>5, <1>6, <1>7, <1>8, <1>9, <1>10, <1>11, <1>12, <1>13, <1>14
<1>16. 15 \notin T
  BY <1>1, <1>2, <1>3, <1>4, <1>5, <1>6, <1>7, <1>8, <1>9, <1>10, <1>11, <1>12, <1>13, <1>14, <1>15
<1>17. 16 \notin T
  BY <1>1, <1>2, <1>3, <1>4, <1>5, <1>6, <1>7, <1>8, <1>9, <1>10, <1>11, <1>12, <1>13, <1>14, <1>15, <1>16
<1>18. 17 \notin T
  BY <1>1, <1>2, <1>3, <1>4, <1>5, <1>6, <1>7, <1>8, <1>9, <1>10, <1>11, <1>12, <1>13, <1>14, <1>15, <1>16, <1>17
<1>19. PICK x : x \in T
  OBVIOUS
<1>20. x = 1 \/ x = 2 \/ x = 3 \/ x = 4 \/ x = 5 \/ x = 6 \/ x = 7 \/ x = 8 \/ x = 9
       \/ x = 10 \/ x = 11 \/ x = 12 \/ x = 13 \/ x = 14 \/ x = 15 \/ x = 16 \/ x = 17
  BY <1>19, Positions
<1>. QED
  BY <1>19, <1>20, <1>2, <1>3, <1>4, <1>5, <1>6, <1>7, <1>8, <1>9, <1>10, <1>11,
     <1>12, <1>13, <1>14, <1>15, <1>16, <1>17, <1>18, Zenon

(* NextStep is the nearest step ahead whose condition holds.                *)
LEMMA NextStepIs ==
  ASSUME NEW i \in 0 .. 17, NEW sc, NEW did
  PROVE  LET n == NextStep(i, sc, did) IN
         /\ n \in i + 1 .. 18
         /\ n \in 1 .. 17 => Runs(Steps[n], sc, did)
         /\ \A j \in i + 1 .. 17 : j < n => ~ Runs(Steps[j], sc, did)
<1>. DEFINE later == {j \in i + 1 .. 17 : Runs(Steps[j], sc, did)}
<1>1. NextStep(i, sc, did) = IF later = {} THEN 18
                             ELSE CHOOSE j \in later : \A k \in later : j <= k
  <2>1. Len(Steps) = 17 /\ Done = 18
    BY StepsAt
  <2>. QED  BY <2>1 DEF NextStep
<1>2. later \subseteq 1 .. 17
  OBVIOUS
<1>3. later # {} => \E j \in later : \A k \in later : j <= k
  BY <1>2, FirstOfSteps
<1>4. CASE later = {}
  BY <1>1, <1>4
<1>5. CASE later # {}
  <2>1. /\ NextStep(i, sc, did) \in later
        /\ \A k \in later : NextStep(i, sc, did) <= k
    BY <1>1, <1>3, <1>5
  <2>. QED  BY <2>1
<1>. QED  BY <1>4, <1>5

-----------------------------------------------------------------------------
(* Answered changes two fields.                                             *)
LEMMA AnsweredIs ==
  ASSUME NEW t \in ReadType, NEW sc \in Answers
  PROVE  LET u == Answered(t, sc) IN
         /\ u \in ReadType
         /\ u.at = t.at /\ u.len = t.len /\ u.got = t.got /\ u.handle = t.handle
         /\ u.readSc = t.readSc /\ u.sc = t.sc /\ u.lost = t.lost
         /\ u.clean = (t.clean /\ sc = "Good")
<1>1. (t.dead \/ sc = "Closed") \in BOOLEAN /\ (t.clean /\ sc = "Good") \in BOOLEAN
  BY Zenon
<1>. QED  BY <1>1 DEF Answered, ReadType

LEMMA AnswerIs == \A d : Answer(d) \subseteq Answers
BY DEF Answer, Answers

LEMMA TranslateKeeps ==
  ASSUME NEW t, ReadInv(t), t.at = "translate", NEW u \in TranslateSteps(t)
  PROVE  ReadInv(u)
<1>1. PICK sc \in Answer(t.dead) :
        u = [Answered(t, sc) EXCEPT !.at = IF sc = "Good" THEN "open" ELSE "done",
                                    !.sc = sc]
  BY DEF TranslateSteps
<1>2. sc \in Answers
  BY AnswerIs
<1>. DEFINE a == Answered(t, sc)
<1>3. t \in ReadType
  BY DEF ReadInv
<1>4. /\ a \in ReadType
      /\ a.at = t.at /\ a.len = t.len /\ a.got = t.got /\ a.handle = t.handle
      /\ a.readSc = t.readSc /\ a.sc = t.sc /\ a.lost = t.lost
      /\ a.clean = (t.clean /\ sc = "Good")
  BY <1>2, <1>3, AnsweredIs
<1>5. u = [a EXCEPT !.at = IF sc = "Good" THEN "open" ELSE "done", !.sc = sc]
  BY <1>1
<1>. HIDE DEF a
<1>. QED  BY <1>2, <1>3, <1>4, <1>5 DEF ReadInv, ReadType, WholeList, HandleClosed, Answers

LEMMA OpenKeeps ==
  ASSUME NEW t, ReadInv(t), t.at = "open", NEW u \in OpenSteps(t)
  PROVE  ReadInv(u)
<1>3. t \in ReadType
  BY DEF ReadInv
<1>1. CASE \E sc \in Answer(t.dead) : \E h \in Executed(sc) :
        u = [Answered(t, sc) EXCEPT !.at = IF sc = "Good" THEN "read" ELSE "done",
                                    !.sc = sc, !.handle = h,
                                    !.lost = IsTransport(sc)]
  <2>0. PICK sc \in Answer(t.dead) : \E h \in Executed(sc) :
          u = [Answered(t, sc) EXCEPT !.at = IF sc = "Good" THEN "read" ELSE "done",
                                      !.sc = sc, !.handle = h,
                                      !.lost = IsTransport(sc)]
    BY <1>1
  <2>1. PICK h \in Executed(sc) :
          u = [Answered(t, sc) EXCEPT !.at = IF sc = "Good" THEN "read" ELSE "done",
                                      !.sc = sc, !.handle = h,
                                      !.lost = IsTransport(sc)]
    BY <2>0
  <2>2. sc \in Answers
    BY AnswerIs
  <2>. DEFINE a == Answered(t, sc)
  <2>4. /\ a \in ReadType
        /\ a.at = t.at /\ a.len = t.len /\ a.got = t.got /\ a.handle = t.handle
        /\ a.readSc = t.readSc /\ a.sc = t.sc /\ a.lost = t.lost
        /\ a.clean = (t.clean /\ sc = "Good")
    BY <2>2, <1>3, AnsweredIs
  <2>5. u = [a EXCEPT !.at = IF sc = "Good" THEN "read" ELSE "done",
                      !.sc = sc, !.handle = h, !.lost = IsTransport(sc)]
    BY <2>1
  <2>6. h \in BOOLEAN /\ IsTransport(sc) \in BOOLEAN
    <3>1. IsTransport(sc) \in BOOLEAN
      BY DEF IsTransport
    <3>2. Executed(sc) \subseteq BOOLEAN
      BY Zenon DEF Executed
    <3>. QED  BY <3>1, <3>2
  <2>7. h => sc = "Good" \/ IsTransport(sc)
    BY <2>6 DEF Executed
  <2>. HIDE DEF a
  <2>. QED  BY <2>2, <1>3, <2>4, <2>5, <2>6, <2>7, ZenonT(60)
            DEF ReadInv, ReadType, WholeList, HandleClosed, Answers, IsTransport
<1>2. CASE u = [t EXCEPT !.at = "done", !.sc = "Bad", !.handle = TRUE,
                         !.lost = TRUE, !.clean = FALSE]
  BY <1>2, <1>3 DEF ReadInv, ReadType, WholeList, HandleClosed, Answers
<1>. QED
  <2>. DEFINE F(sc, h) ==
                [Answered(t, sc) EXCEPT !.at = IF sc = "Good" THEN "read" ELSE "done",
                                        !.sc = sc, !.handle = h,
                                        !.lost = IsTransport(sc)]
              g == [t EXCEPT !.at = "done", !.sc = "Bad", !.handle = TRUE,
                             !.lost = TRUE, !.clean = FALSE]
  <2>1. u \in (UNION {{F(sc, h) : h \in Executed(sc)} : sc \in Answer(t.dead)})
             \cup (IF t.dead THEN {} ELSE {g})
    BY DEF OpenSteps
  <2>. HIDE DEF F, g
  <2>2. \/ \E sc \in Answer(t.dead) : \E h \in Executed(sc) : u = F(sc, h)
        \/ u = g
    BY <2>1
  <2>. QED  BY <2>2, <1>1, <1>2 DEF F, g

(* How much a Read can bring, and that only the end of the file is short.   *)
LEMMA AvailableIs ==
  ASSUME NEW t \in ReadType, t.got <= t.len
  PROVE  /\ Available(t) \in Nat /\ t.got + Available(t) <= t.len
         /\ LastChunk(Available(t)) => t.got + Available(t) = t.len
         /\ \A n \in 0 .. Available(t) : t.got + n \in Nat /\ t.got + n <= t.len
BY TrustListAssumption DEF Available, LastChunk, ReadType

LEMMA ReadKeeps ==
  ASSUME NEW t, ReadInv(t), t.at = "read", NEW u \in ReadSteps(t)
  PROVE  ReadInv(u)
<1>3. t \in ReadType /\ t.got <= t.len
  BY DEF ReadInv
<1>1. CASE \E n \in 0 .. Available(t) :
             u = [t EXCEPT !.got = t.got + n,
                           !.at = IF LastChunk(n) THEN "close" ELSE "read",
                           !.clean = t.clean /\ n = Available(t)]
  <2>1. PICK n \in 0 .. Available(t) :
             u = [t EXCEPT !.got = t.got + n,
                           !.at = IF LastChunk(n) THEN "close" ELSE "read",
                           !.clean = t.clean /\ n = Available(t)]
    BY <1>1
  <2>. DEFINE g == t.got + n
              c == t.clean /\ n = Available(t)
  <2>2. u = [t EXCEPT !.got = g, !.at = IF LastChunk(n) THEN "close" ELSE "read",
                      !.clean = c]
    BY <2>1
  <2>3. g \in Nat /\ g <= t.len
    BY <1>3, AvailableIs
  <2>4. c /\ LastChunk(n) => g = t.len
    <3>. SUFFICES ASSUME c, LastChunk(n) PROVE g = t.len
      OBVIOUS
    <3>1. n = Available(t)
      OBVIOUS
    <3>2. LastChunk(Available(t))
      BY <3>1
    <3>3. t.got + Available(t) = t.len
      BY <1>3, <3>2, AvailableIs
    <3>. QED  BY <3>1, <3>3
  <2>5. c \in BOOLEAN /\ (c => t.clean)
    BY Zenon
  <2>. HIDE DEF g, c
  <2>. QED  BY <1>3, <2>2, <2>3, <2>4, <2>5
            DEF ReadInv, ReadType, WholeList, HandleClosed
<1>2. CASE \E sc \in Answer(t.dead) \ {"Good"} : u = ReadFailed(t, sc)
  <2>1. PICK sc \in Answer(t.dead) \ {"Good"} : u = ReadFailed(t, sc)
    BY <1>2
  <2>2. sc \in Answers
    BY AnswerIs
  <2>. DEFINE a == Answered(t, sc)
  <2>4. /\ a \in ReadType
        /\ a.at = t.at /\ a.len = t.len /\ a.got = t.got /\ a.handle = t.handle
        /\ a.readSc = t.readSc /\ a.sc = t.sc /\ a.lost = t.lost
        /\ a.clean = (t.clean /\ sc = "Good")
    BY <1>3, <2>2, AnsweredIs
  <2>5. u = [a EXCEPT !.at = "close", !.readSc = sc]
    BY <2>1 DEF ReadFailed
  <2>. HIDE DEF a
  <2>. QED  BY <1>3, <2>1, <2>2, <2>4, <2>5
            DEF ReadInv, ReadType, WholeList, HandleClosed, Answers
<1>. QED
  <2>. DEFINE F(n) == [t EXCEPT !.got = t.got + n,
                                !.at = IF LastChunk(n) THEN "close" ELSE "read",
                                !.clean = t.clean /\ n = Available(t)]
  <2>1. u \in (IF t.dead THEN {} ELSE {F(n) : n \in 0 .. Available(t)})
             \cup {ReadFailed(t, sc) : sc \in Answer(t.dead) \ {"Good"}}
    BY DEF ReadSteps
  <2>. HIDE DEF F
  <2>2. \/ \E n \in 0 .. Available(t) : u = F(n)
        \/ \E sc \in Answer(t.dead) \ {"Good"} : u = ReadFailed(t, sc)
    BY <2>1
  <2>. QED  BY <2>2, <1>1, <1>2 DEF F

LEMMA CloseKeeps ==
  ASSUME NEW t, ReadInv(t), t.at = "close", NEW u \in CloseSteps(t)
  PROVE  ReadInv(u)
<1>0. PICK sc \in Answer(t.dead) : \E closed \in Executed(sc) :
        u = [Answered(t, sc) EXCEPT !.at = "done", !.sc = ReadResult(t, sc),
                                    !.handle = ~ closed, !.lost = sc # "Good"]
  <2>. DEFINE F(sc, closed) ==
                [Answered(t, sc) EXCEPT !.at = "done", !.sc = ReadResult(t, sc),
                                        !.handle = ~ closed, !.lost = sc # "Good"]
  <2>1. u \in UNION {{F(sc, closed) : closed \in Executed(sc)} : sc \in Answer(t.dead)}
    BY DEF CloseSteps
  <2>. HIDE DEF F
  <2>2. \E sc \in Answer(t.dead) : \E closed \in Executed(sc) : u = F(sc, closed)
    BY <2>1
  <2>. QED  BY <2>2 DEF F
<1>1. PICK closed \in Executed(sc) :
        u = [Answered(t, sc) EXCEPT !.at = "done", !.sc = ReadResult(t, sc),
                                    !.handle = ~ closed, !.lost = sc # "Good"]
  BY <1>0
<1>2. sc \in Answers
  BY AnswerIs
<1>3. t \in ReadType
  BY DEF ReadInv
<1>. DEFINE a == Answered(t, sc)
            r == ReadResult(t, sc)
            h == ~ closed
            l == sc # "Good"
<1>4. /\ a \in ReadType
      /\ a.at = t.at /\ a.len = t.len /\ a.got = t.got /\ a.handle = t.handle
      /\ a.readSc = t.readSc /\ a.sc = t.sc /\ a.lost = t.lost
      /\ a.clean = (t.clean /\ sc = "Good")
  BY <1>2, <1>3, AnsweredIs
<1>5. u = [a EXCEPT !.at = "done", !.sc = r, !.handle = h, !.lost = l]
  BY <1>1
<1>6. r \in Answers
  BY <1>2, <1>3 DEF ReadResult, Decoded, Answers, ReadType
<1>7. /\ t.clean /\ sc = "Good" => r = "Good"
      /\ r = "Good" => t.got = t.len
  BY DEF ReadInv, ReadResult, Decoded
<1>8. h \in BOOLEAN /\ l \in BOOLEAN
  OBVIOUS
<1>9. h => l
  BY DEF Executed
<1>. HIDE DEF a, r, h, l
<1>. QED  BY <1>2, <1>3, <1>4, <1>5, <1>6, <1>7, <1>8, <1>9, ZenonT(60)
          DEF ReadInv, ReadType, WholeList, HandleClosed, Answers

(* Every call of p12_read_trust_list keeps the read invariant.              *)
LEMMA TrustListStepKeeps ==
  ASSUME NEW t, ReadInv(t), NEW u \in TrustListSteps(t)
  PROVE  ReadInv(u)
BY TranslateKeeps, OpenKeeps, ReadKeeps, CloseKeeps DEF TrustListSteps

(* The end of the connection is noted in the read, and nothing else.        *)
LEMMA DeadKeeps ==
  ASSUME NEW t, ReadInv(t), NEW d \in BOOLEAN
  PROVE  ReadInv([t EXCEPT !.dead = d])
BY DEF ReadInv, ReadType, WholeList, HandleClosed

LEMMA StartReadInv ==
  ASSUME NEW len \in Nat, NEW d \in BOOLEAN
  PROVE  ReadInv(StartRead(len, d))
BY DEF ReadInv, ReadType, WholeList, HandleClosed, StartRead, Answers

LEMMA NoReadInv == ReadInv(NoRead)
<1>1. NoRead = [at |-> "done", len |-> 0, got |-> 0, handle |-> FALSE,
                readSc |-> "Good", sc |-> "Good", dead |-> FALSE, lost |-> FALSE,
                clean |-> TRUE]
  <2>. DEFINE r == [at |-> "translate", len |-> 0, got |-> 0, handle |-> FALSE,
                    readSc |-> "Good", sc |-> "Good", dead |-> FALSE,
                    lost |-> FALSE, clean |-> TRUE]
  <2>1. NoRead = [r EXCEPT !.at = "done"]
    BY Zenon DEF NoRead, StartRead
  <2>. QED  BY <2>1
<1>. QED  BY <1>1 DEF ReadInv, ReadType, WholeList, HandleClosed, Answers

-----------------------------------------------------------------------------
(* The calls of a step that may fail the push without ending it.            *)
LEMMA MethodsAre ==
  /\ Methods = {"add", "remove", "getCerts", "selfSigned", "delete", "update",
                "csr", "rejected", "reset", "apply", "cancel"}
  /\ Methods \subseteq StepNames
  /\ Changes \subseteq Methods
<1>1. Methods = StepNames \ {"resolveType", "translate", "before", "resolveDelete",
                             "diagnostics", "after"}
  BY StepsAreNames, Zenon DEF Methods
<1>. QED  BY <1>1 DEF StepNames, Changes

(* What the condition of a step says, step by step.                         *)
LEMMA RunsIs ==
  ASSUME NEW f, NEW d
  PROVE  /\ \A s \in Methods \cup {"after"} : Runs(s, f, d) => f = "Good"
         /\ \A s \in Methods \cup {"before", "after"} :
               Runs(s, "Good", d) <=> Runs(s, "Good", FALSE)
         /\ \A s \in Methods \ {"rejected", "cancel"} :
               Runs(s, "Good", d) <=> s \in flags
         /\ Runs("cancel", "Good", d) <=> CancelFlag
         /\ Runs("rejected", "Good", d)
         /\ Runs("before", "Good", d) /\ Runs("after", "Good", d)
BY MethodsAre DEF Runs

(* The command line does not change under way.                              *)
LEMMA RunsSame ==
  ASSUME flags' = flags
  PROVE  /\ \A s \in StepNames : Runs(s, failSc, applied)' <=> Runs(s, failSc', applied')
         /\ \A s \in StepNames : Runs(s, "Good", FALSE)' <=> Runs(s, "Good", FALSE)
         /\ Asked' = Asked /\ (CancelFlag' <=> CancelFlag)
<1>1. Asked' = Asked /\ (CancelFlag' <=> CancelFlag)
  BY DEF Asked, CancelFlag
<1>2. ASSUME NEW s \in StepNames
      PROVE  Runs(s, failSc, applied)' <=> Runs(s, failSc', applied')
  BY <1>1 DEF Runs
<1>3. ASSUME NEW s \in StepNames
      PROVE  Runs(s, "Good", FALSE)' <=> Runs(s, "Good", FALSE)
  BY <1>1 DEF Runs
<1>. QED  BY <1>1, <1>2, <1>3

-----------------------------------------------------------------------------
(* A step that was taken and let the push go on.                            *)
LEMMA Advance ==
  ASSUME TypeOK, Walked, pc \in 1 .. 17, flags' = flags,
         pc' = NextStep(pc, failSc', applied'),
         ret' = "Good", ~ inputErr', exit' = NoExit,
         failSc' = "Good" => failSc = "Good",
         \/ results' = results /\ Steps[pc] \notin Methods \cup {"before", "after"}
         \/ \E x \in Answers : /\ results' = [results EXCEPT ![Steps[pc]] = x]
                               /\ failSc' = "Good" => x = "Good"
  PROVE  Walked' /\ pc' \in pc + 1 .. 18
<1>. DEFINE n == pc'
            f == failSc'
            d == applied'
<1>1. /\ n \in pc + 1 .. 18
      /\ n \in 1 .. 17 => Runs(Steps[n], f, d)
      /\ \A j \in pc + 1 .. 17 : j < n => ~ Runs(Steps[j], f, d)
  BY NextStepIs
<1>2. results \in [StepNames -> Answers \cup {"absent"}] /\ ret = "Good"
  BY StepsAt DEF TypeOK, Walked
<1>3. /\ \A i \in 1 .. 17 : Steps[i] \in StepNames
      /\ \A i, j \in 1 .. 17 : Steps[i] = Steps[j] => i = j
  BY StepsAreNames
<1>4. \A i \in 1 .. 17 : i # pc => results'[Steps[i]] = results[Steps[i]]
  BY <1>2, <1>3
<1>5. n \in 1 .. 17 => Runs(Steps[pc], failSc, applied)'
  <2>1. n \in 1 .. 17 => Steps[n] \in StepNames
    BY <1>3
  <2>2. Steps' = Steps
    BY DEF Steps
  <2>3. \A s \in StepNames : Runs(s, failSc, applied)' <=> Runs(s, failSc', applied')
    BY RunsSame
  <2>. QED  BY <1>1, <2>1, <2>2, <2>3
<1>6. \A i \in 1 .. 17 : results'[Steps[i]] # "absent" => i < n
  <2>1. \A i \in 1 .. 17 : results[Steps[i]] # "absent" => i < pc
    BY StepsAt DEF Walked
  <2>. QED  BY <1>1, <1>4, <2>1
<1>7. ASSUME f = "Good"
      PROVE  /\ \A s \in StepNames : results'[s] # "Bad"
             /\ \A i \in 1 .. 17 :
                  /\ i < n
                  /\ Steps[i] \in Methods \cup {"before", "after"}
                  /\ Runs(Steps[i], "Good", FALSE)
                  => results'[Steps[i]] = "Good"
  <2>1. Fine
    BY <1>2, <1>7 DEF Fine
  <2>2. \A s \in StepNames : results'[s] # "Bad"
    BY <1>2, <1>3, <1>7, <2>1 DEF Walked
  <2>3. ASSUME NEW i \in 1 .. 17, i < n,
               Steps[i] \in Methods \cup {"before", "after"},
               Runs(Steps[i], "Good", FALSE)
        PROVE  results'[Steps[i]] = "Good"
    <3>1. CASE i < pc
      <4>1. \A k \in 1 .. 17 : /\ k < pc
                               /\ Steps[k] \in Methods \cup {"before", "after"}
                               /\ Runs(Steps[k], "Good", FALSE)
                               => results[Steps[k]] = "Good"
        BY <2>1, StepsAt, Zenon DEF Walked
      <4>2. results[Steps[i]] = "Good"
        BY <4>1, <2>3, <3>1
      <4>. QED  BY <1>4, <3>1, <4>2
    <3>2. CASE i = pc
      <4>1. Steps[pc] \in StepNames /\ Steps[pc] \in Methods \cup {"before", "after"}
        BY <1>3, <2>3, <3>2
      <4>2. PICK x \in Answers : /\ results' = [results EXCEPT ![Steps[pc]] = x]
                                 /\ failSc' = "Good" => x = "Good"
        BY <4>1
      <4>. QED  BY <1>2, <1>7, <3>2, <4>1, <4>2
    <3>3. CASE i > pc
      <4>1. ~ Runs(Steps[i], "Good", d)
        BY <1>1, <1>7, <2>3, <3>3 DEF TypeOK
      <4>2. Runs(Steps[i], "Good", d) <=> Runs(Steps[i], "Good", FALSE)
        BY <2>3, RunsIs
      <4>. QED  BY <4>1, <4>2, <2>3
    <3>. QED  BY <3>1, <3>2, <3>3 DEF TypeOK
  <2>. QED  BY <2>2, <2>3
<1>8. Walked'
  <2>1. Steps' = Steps /\ Methods' = Methods /\ StepNames' = StepNames /\ Len(Steps) = 17
    BY StepsAt DEF Steps, Methods, StepNames
  <2>2. \A i \in 1 .. 17 : Runs(Steps[i], "Good", FALSE)' <=> Runs(Steps[i], "Good", FALSE)
    BY <1>3, <2>1, RunsSame
  <2>3. pc' # 0
    BY <1>1
  <2>. QED  BY <1>5, <1>6, <1>7, <2>1, <2>2, <2>3 DEF Walked, Fine
<1>. QED  BY <1>1, <1>8

(* A step whose failure ends push_steps.                                    *)
LEMMA Abort ==
  ASSUME pc' = 18, ret' # "Good"
  PROVE  Walked'
<1>1. Steps' = Steps /\ Len(Steps) = 17
  BY StepsAt DEF Steps
<1>2. ~ Fine'
  BY DEF Fine
<1>3. pc' # 0 /\ pc' \notin 1 .. 17 /\ \A i \in 1 .. 17 : i < pc'
  OBVIOUS
<1>. QED  BY <1>1, <1>2, <1>3, Zenon DEF Walked

-----------------------------------------------------------------------------
LEMMA InitInv == Init => IInv
<1>. SUFFICES ASSUME Init PROVE IInv
  OBVIOUS
<1>1. results = [s \in StepNames |-> "absent"]
  BY StepsAreNames, Zenon DEF Init
<1>2. TypeOK
  <2>1. applied \in BOOLEAN /\ inputErr \in BOOLEAN /\ dead \in BOOLEAN
    BY Zenon DEF Init
  <2>2. pc \in 0 .. Done /\ results \in [StepNames -> Answers \cup {"absent"}]
    BY <1>1, StepsAt DEF Init
  <2>3. /\ flags \in FlagSets /\ failSc \in {"Good", "Bad"}
        /\ ret \in Answers /\ reported \in Answers
        /\ exit \in {NoExit, 0, 2, 3, 4, 6, 7}
        /\ pending \subseteq Asked /\ live \subseteq Asked /\ atOnce \subseteq live
    BY DEF Init, Answers
  <2>. QED  BY <2>1, <2>2, <2>3, Zenon DEF TypeOK
<1>3. Walked
  <2>1. pc = 0 /\ \A s \in StepNames : results[s] = "absent"
    BY <1>1 DEF Init
  <2>2. Fine /\ applied = FALSE
    BY DEF Init, Fine
  <2>. QED  BY <2>1, <2>2, StepsAt, StepsAreNames DEF Walked
<1>4. Effects /\ Envelope
  <2>1. results["apply"] = "absent" /\ results["cancel"] = "absent"
    BY <1>1 DEF StepNames
  <2>. QED  BY <2>1 DEF Init, Effects, Envelope, NoExit
<1>5. ReadInv(tl)
  BY NoReadInv DEF Init
<1>. QED  BY <1>2, <1>3, <1>4, <1>5 DEF IInv

(* The constant definitions, in both states.                                *)
LEMMA Rigid ==
  /\ Steps' = Steps /\ Methods' = Methods /\ StepNames' = StepNames
  /\ Len(Steps) = 17 /\ Done = 18
BY StepsAt DEF Steps, Methods, StepNames

(* The client's part of the invariant is kept by what leaves it alone.      *)
LEMMA WalkedSame ==
  ASSUME Walked,
         UNCHANGED <<flags, pc, failSc, applied, inputErr, ret, results, exit>>
  PROVE  Walked'
<1>1. /\ \A s \in StepNames : Runs(s, failSc, applied)' <=> Runs(s, failSc, applied)
      /\ \A s \in StepNames : Runs(s, "Good", FALSE)' <=> Runs(s, "Good", FALSE)
  BY RunsSame
<1>2. \A i \in 1 .. 17 : Steps[i] \in StepNames
  BY StepsAreNames
<1>. QED  BY <1>1, <1>2, Rigid DEF Walked, Fine

(* Outside a run of push_steps nothing is said of the steps.                *)
LEMMA NotStartedKeeps == IInv /\ (BadInput \/ NotConfigured) => IInv'
<1>. SUFFICES ASSUME IInv, BadInput \/ NotConfigured PROVE IInv'
  OBVIOUS
<1>0. /\ UNCHANGED <<flags, pc, tl, failSc, applied, inputErr, ret, results, dead,
                     pending, live, atOnce>>
      /\ pc = 0 /\ exit' \in {2, 3, 6} /\ reported' = "Bad"
  BY DEF BadInput, NotConfigured
<1>1. live = atOnce
  BY <1>0 DEF IInv, Effects
<1>2. Asked' = Asked
  BY <1>0, RunsSame
<1>3. TypeOK'
  <2>1. exit' \in {NoExit, 0, 2, 3, 4, 6, 7} /\ reported' \in Answers
    BY <1>0 DEF Answers
  <2>. QED  BY <1>0, <1>2, <2>1, Zenon DEF IInv, TypeOK
<1>4. Walked'
  <2>1. \A s \in StepNames : Runs(s, "Good", FALSE)' <=> Runs(s, "Good", FALSE)
    BY <1>0, RunsSame
  <2>2. \A i \in 1 .. 17 : Steps[i] \in StepNames
    BY StepsAreNames
  <2>. QED  BY <1>0, <2>1, <2>2, Rigid DEF IInv, Walked, Fine
<1>5. Effects' /\ Envelope' /\ ReadInv(tl)'
  <2>1. Effects'
    BY <1>0, <1>1, <1>2, Rigid DEF IInv, Effects, Fine
  <2>2. Envelope'
    BY <1>0, <1>1 DEF Envelope
  <2>. QED  BY <1>0, <2>1, <2>2 DEF IInv
<1>. QED  BY <1>3, <1>4, <1>5 DEF IInv

LEMMA ConnectFailsKeeps ==
  ASSUME IInv, NEW sc \in {"Timeout", "Closed"}, ConnectFails(sc)
  PROVE  IInv'
<1>1. live = atOnce
  BY DEF IInv, Effects, ConnectFails
<1>2. Asked' = Asked
  BY RunsSame DEF ConnectFails
<1>0. exit' \in {3, 7} /\ reported' \in Answers
  BY DEF ConnectFails, Answers, ExitCode, IsTransport
<1>3. TypeOK'
  <2>1. exit' \in {NoExit, 0, 2, 3, 4, 6, 7}
    BY <1>0
  <2>. QED  BY <1>0, <1>2, <2>1, Zenon DEF IInv, TypeOK, ConnectFails
<1>4. Walked'
  <2>1. \A s \in StepNames : Runs(s, "Good", FALSE)' <=> Runs(s, "Good", FALSE)
    BY RunsSame DEF ConnectFails
  <2>2. \A i \in 1 .. 17 : Steps[i] \in StepNames
    BY StepsAreNames
  <2>. QED  BY <2>1, <2>2, Rigid DEF IInv, Walked, Fine, ConnectFails
<1>5. Effects' /\ Envelope' /\ ReadInv(tl)'
  <2>1. Effects'
    BY <1>1, <1>2, Rigid DEF IInv, Effects, Fine, ConnectFails
  <2>2. Envelope'
    BY <1>0, <1>1 DEF Envelope, ConnectFails
  <2>. QED  BY <2>1, <2>2 DEF IInv, ConnectFails
<1>. QED  BY <1>3, <1>4, <1>5 DEF IInv

LEMMA ConnectKeeps == IInv /\ Connect => IInv'
<1>. SUFFICES ASSUME IInv, Connect PROVE IInv'
  OBVIOUS
<1>. DEFINE n == pc'
<1>1. /\ live = atOnce /\ Asked' = Asked
  BY RunsSame DEF IInv, Effects, Connect
<1>2. /\ n \in 1 .. 18
      /\ n \in 1 .. 17 => Runs(Steps[n], "Good", FALSE)
      /\ \A j \in 1 .. 17 : j < n => ~ Runs(Steps[j], "Good", FALSE)
  <2>1. n = NextStep(0, "Good", FALSE) /\ 0 \in 0 .. 17 /\ 0 + 1 = 1
    BY DEF Connect
  <2>. QED  BY <2>1, NextStepIs
<1>3. n \in 1 .. 2
  <2>1. Runs(Steps[2], "Good", FALSE)
    BY StepsAt DEF Runs
  <2>. HIDE DEF n
  <2>2. ~ (2 < n)
    <3>1. 2 \in 1 .. 17
      OBVIOUS
    <3>. QED  BY <1>2, <2>1, <3>1, Zenon
  <2>. QED  BY <1>2, <2>2
<1>4. /\ \A i \in 1 .. 17 : Steps[i] \in StepNames
      /\ \A i \in 1 .. 17 : results[Steps[i]] = "absent"
  BY StepsAreNames, Rigid DEF IInv, Walked, Connect
<1>5. Fine /\ applied = FALSE /\ ~ inputErr /\ exit = NoExit
  BY Rigid DEF IInv, Walked, Effects, Connect
<1>6. TypeOK'
  <2>1. pc' \in 0 .. Done
    BY <1>2, Rigid
  <2>. QED  BY <1>1, <2>1, Zenon DEF IInv, TypeOK, Connect
<1>7. Walked'
  <2>1. \A i \in 1 .. 17 : results'[Steps[i]] = "absent"
    BY <1>4 DEF Connect
  <2>2. \A s \in StepNames : results'[s] # "Bad"
    <3>1. \A s \in StepNames : \E i \in 1 .. 17 : s = Steps[i]
      BY StepsAreNames
    <3>. QED  BY <2>1, <3>1
  <2>3. n \in 1 .. 17 => Runs(Steps[pc], failSc, applied)'
    <3>1. \A s \in StepNames : Runs(s, failSc, applied)' <=> Runs(s, "Good", FALSE)
      BY <1>5, RunsSame DEF Connect, Fine
    <3>. QED  BY <1>2, <1>4, <3>1, Rigid
  <2>4. Steps[1] \notin Methods \cup {"before", "after"}
    BY StepsAt, MethodsAre
  <2>. HIDE DEF n
  <2>5. n = pc' /\ n # 0
    BY <1>2 DEF n
  <2>6. \A i \in 1 .. 17 : i < n => i = 1
    BY <1>3
  <2>. QED  BY <1>5, <2>1, <2>2, <2>3, <2>4, <2>5, <2>6, Rigid DEF Walked, Fine, Connect
<1>8. Effects'
  <2>1. Steps[1] \notin Asked
    BY StepsAt DEF Asked, Changes
  <2>2. \A i \in 1 .. 13 : i < n => i = 1
    BY <1>3
  <2>3. results["apply"] = "absent" /\ results["cancel"] = "absent"
    BY <1>4, StepsAt
  <2>. QED  BY <1>1, <1>2, <1>3, <1>5, <2>1, <2>2, <2>3, Rigid DEF Effects, Connect
<1>9. Envelope' /\ ReadInv(tl)'
  BY <1>1, <1>5 DEF Envelope, IInv, Connect, NoExit
<1>. QED  BY <1>6, <1>7, <1>8, <1>9 DEF IInv

-----------------------------------------------------------------------------
(* The step under way.                                                      *)
LEMMA StepIs ==
  ASSUME Step \in StepNames
  PROVE  pc \in 1 .. 17 /\ Step = Steps[pc]
BY Rigid DEF Step, StepNames

(* The changes come before ApplyChanges, and ApplyChanges before the rest.  *)
LEMMA Places ==
  ASSUME NEW i \in 1 .. 17
  PROVE  /\ Steps[i] \in Changes => i <= 13
         /\ Steps[i] = "apply" <=> i = 14
         /\ Steps[i] = "cancel" <=> i = 15
         /\ Steps[i] \in {"resolveType", "resolveDelete"} => i <= 8
BY Positions, StepsAt DEF Changes

(* The changes asked for are ahead, pending or were carried out at once.    *)
LEMMA AdvancePending ==
  ASSUME TypeOK, Walked, Effects, pc \in 1 .. 17, flags' = flags,
         pc' = NextStep(pc, failSc', applied'),
         failSc' = "Good" => failSc = "Good",
         pc <= 13 => pending \subseteq pending' /\ atOnce \subseteq atOnce',
         failSc' = "Good" /\ Steps[pc] \in Asked => Steps[pc] \in pending' \cup atOnce'
  PROVE  Fine' /\ 1 <= pc' /\ pc' <= 14 =>
           \A i \in 1 .. 13 : i < pc' /\ Steps[i] \in Asked => Steps[i] \in pending' \cup atOnce'
<1>. SUFFICES ASSUME Fine', pc' <= 14, NEW i \in 1 .. 13, i < pc', Steps[i] \in Asked
              PROVE  Steps[i] \in pending' \cup atOnce'
  OBVIOUS
<1>. DEFINE n == pc'
            d == applied'
<1>1. /\ n \in pc + 1 .. 18
      /\ \A j \in pc + 1 .. 17 : j < n => ~ Runs(Steps[j], failSc', d)
  BY NextStepIs
<1>2. failSc' = "Good" /\ failSc = "Good" /\ ret = "Good" /\ pc <= 13
  BY <1>1, Rigid DEF Fine, Walked
<1>3. CASE i < pc
  <2>1. Steps[i] \in pending \cup atOnce
    BY <1>2, <1>3 DEF Effects, Fine
  <2>. QED  BY <1>2, <2>1
<1>4. CASE i = pc
  BY <1>2, <1>4
<1>5. CASE pc < i
  <2>1. i \in pc + 1 .. 17 /\ i < n
    BY <1>5
  <2>2. ~ Runs(Steps[i], "Good", d)
    BY <1>1, <1>2, <2>1, Zenon
  <2>3. Steps[i] \in Methods \ {"rejected", "cancel"} /\ Steps[i] \in flags
    BY MethodsAre DEF Asked, Changes
  <2>. QED  BY <2>2, <2>3, RunsIs
<1>. QED  BY <1>3, <1>4, <1>5

(* A step that is no method of the transaction.                             *)
LEMMA QuietEffects ==
  ASSUME TypeOK, Walked, Effects, pc \in 1 .. 17, Steps[pc] \notin Methods,
         UNCHANGED <<flags, pending, live, atOnce>>,
         failSc' = "Good" => failSc = "Good",
         pc' = 18 \/ pc' = NextStep(pc, failSc', applied'),
         inputErr' => pc' = 18 /\ pc <= 13,
         \/ results' = results
         \/ \E x \in Answers : results' = [results EXCEPT ![Steps[pc]] = x]
  PROVE  Effects'
<1>1. Steps[pc] \notin Changes \cup {"apply", "cancel"}
  BY MethodsAre
<1>2. results'["apply"] = results["apply"] /\ results'["cancel"] = results["cancel"]
  <2>1. "apply" \in StepNames /\ "cancel" \in StepNames
    BY DEF StepNames
  <2>. QED  BY <1>1, <2>1 DEF TypeOK
<1>3. Fine' /\ 1 <= pc' /\ pc' <= 14 =>
        \A i \in 1 .. 13 : i < pc' /\ Steps[i] \in Asked => Steps[i] \in pending' \cup atOnce'
  <2>1. CASE pc' = 18
    BY <2>1
  <2>2. CASE pc' = NextStep(pc, failSc', applied')
    BY <1>1, <2>2, AdvancePending DEF Asked
  <2>. QED  BY <2>1, <2>2
<1>4. pc' <= 14 => live' = atOnce'
  <2>1. pc' = 18 \/ pc' \in pc + 1 .. 18
    BY NextStepIs
  <2>2. pc <= 14 => live = atOnce
    BY DEF Effects
  <2>. QED  BY <2>1, <2>2
<1>5. ret = "Good"
  BY Rigid DEF Walked
<1>6. live' # atOnce' => /\ live' = Asked' /\ "apply" \in flags'
                         /\ results'["apply"] = "Good"
  BY <1>2, <1>5 DEF Effects, IsTransport, Asked
<1>7. /\ results'["apply"] = "Good" => live' = Asked'
      /\ results'["cancel"] = "Good" => pending' = {}
  BY <1>2 DEF Effects, Asked
<1>8. inputErr' => pc' = Done /\ live' = atOnce'
  BY Rigid DEF Effects
<1>. QED  BY <1>3, <1>4, <1>6, <1>7, <1>8, Rigid DEF Effects, Asked

LEMMA ResolveKeeps ==
  ASSUME IInv, NEW sc \in Answers, Resolve(sc)
  PROVE  IInv'
<1>1. Step \in {"resolveType", "resolveDelete"} /\ Step \in StepNames
  BY DEF Resolve, StepNames
<1>2. pc \in 1 .. 17 /\ Step = Steps[pc] /\ pc <= 8
  BY <1>1, StepIs, Places
<1>3. ret = "Good" /\ ~ inputErr /\ exit = NoExit
  BY <1>2, Rigid DEF IInv, Walked
<1>4. Steps[pc] \notin Methods \cup {"before", "after"}
  BY <1>1, <1>2, MethodsAre
<1>5. /\ UNCHANGED <<flags, tl, failSc, applied, results, exit, reported, pending, live, atOnce>>
      /\ dead' \in BOOLEAN
      /\ \/ pc' = NextStep(pc, failSc', applied') /\ UNCHANGED <<inputErr, ret>>
         \/ pc' = 18 /\ inputErr' = TRUE /\ ret' = "Bad"
  <2>1. dead' \in BOOLEAN
    BY Zenon DEF Resolve
  <2>. QED  BY <2>1, Rigid DEF Resolve
<1>6. Walked' /\ pc' \in 0 .. 18
  <2>1. CASE pc' = NextStep(pc, failSc', applied') /\ UNCHANGED <<inputErr, ret>>
    <3>1. Walked' /\ pc' \in pc + 1 .. 18
      BY <1>2, <1>3, <1>4, <1>5, <2>1, Advance DEF IInv
    <3>. QED  BY <1>2, <3>1
  <2>2. CASE pc' = 18 /\ inputErr' = TRUE /\ ret' = "Bad"
    BY <2>2, Abort
  <2>. QED  BY <1>5, <2>1, <2>2
<1>7. Effects'
  BY <1>2, <1>3, <1>4, <1>5, QuietEffects DEF IInv
<1>8. TypeOK'
  <2>1. inputErr' \in BOOLEAN /\ ret' \in Answers
    BY <1>3, <1>5 DEF IInv, TypeOK, Answers
  <2>2. Asked' = Asked
    BY <1>5 DEF Asked
  <2>. QED  BY <1>5, <1>6, <2>1, <2>2, Rigid, Zenon DEF IInv, TypeOK
<1>9. Envelope' /\ ReadInv(tl)'
  BY <1>3, <1>5 DEF IInv, Envelope, NoExit
<1>. QED  BY <1>6, <1>7, <1>8, <1>9 DEF IInv

LEMMA TranslateStepKeeps ==
  ASSUME IInv, NEW sc \in Answers, Translate(sc)
  PROVE  IInv'
<1>1. Step = "translate" /\ Step \in StepNames
  BY DEF Translate, StepNames
<1>2. pc \in 1 .. 17 /\ Step = Steps[pc]
  BY <1>1, StepIs
<1>3. ret = "Good" /\ ~ inputErr /\ exit = NoExit
  BY <1>2, Rigid DEF IInv, Walked
<1>4. Steps[pc] \notin Methods \cup {"before", "after"}
  BY <1>1, <1>2, MethodsAre
<1>5. /\ UNCHANGED <<flags, tl, failSc, applied, inputErr, results, exit, reported,
                     pending, live, atOnce>>
      /\ dead' \in BOOLEAN /\ ret' = sc
      /\ \/ pc' = NextStep(pc, failSc', applied') /\ sc = "Good"
         \/ pc' = 18 /\ sc # "Good"
  <2>1. dead' \in BOOLEAN
    BY Zenon DEF Translate
  <2>. QED  BY <2>1, Rigid DEF Translate
<1>6. Walked' /\ pc' \in 0 .. 18
  <2>1. CASE pc' = NextStep(pc, failSc', applied') /\ sc = "Good"
    <3>1. Walked' /\ pc' \in pc + 1 .. 18
      BY <1>2, <1>3, <1>4, <1>5, <2>1, Advance DEF IInv
    <3>. QED  BY <1>2, <3>1
  <2>2. CASE pc' = 18 /\ sc # "Good"
    BY <1>5, <2>2, Abort
  <2>. QED  BY <1>5, <2>1, <2>2
<1>7. Effects'
  BY <1>2, <1>3, <1>4, <1>5, QuietEffects DEF IInv
<1>8. TypeOK'
  <2>2. Asked' = Asked
    BY <1>5 DEF Asked
  <2>. QED  BY <1>5, <1>6, <2>2, Rigid, Zenon DEF IInv, TypeOK
<1>9. Envelope' /\ ReadInv(tl)'
  BY <1>3, <1>5 DEF IInv, Envelope, NoExit
<1>. QED  BY <1>6, <1>7, <1>8, <1>9 DEF IInv

LEMMA BeginReadKeeps == IInv /\ BeginRead => IInv'
<1>. SUFFICES ASSUME IInv, BeginRead PROVE IInv'
  OBVIOUS
<1>1. ReadInv(tl)'
  <2>1. PICK len \in FileLengths : tl' = StartRead(len, dead)
    BY DEF BeginRead
  <2>2. len \in Nat /\ dead \in BOOLEAN
    BY TrustListAssumption DEF IInv, TypeOK
  <2>3. ReadInv(StartRead(len, dead))
    BY <2>2, StartReadInv
  <2>. QED  BY <2>1, <2>3
<1>2. UNCHANGED <<flags, pc, failSc, applied, inputErr, ret, results, exit,
                  reported, dead, pending, live, atOnce>>
  BY DEF BeginRead
<1>3. Walked'
  BY <1>2, WalkedSame DEF IInv
<1>4. Asked' = Asked
  BY <1>2 DEF Asked
<1>5. TypeOK' /\ Effects' /\ Envelope'
  <2>1. TypeOK'
    BY <1>2, <1>4, Rigid, Zenon DEF IInv, TypeOK
  <2>2. Effects'
    BY <1>2, <1>4, Rigid DEF IInv, Effects, Fine
  <2>3. Envelope'
    BY <1>2, Rigid DEF IInv, Envelope, Fine
  <2>. QED  BY <2>1, <2>2, <2>3
<1>. QED  BY <1>1, <1>3, <1>5 DEF IInv

LEMMA ReadListKeeps == IInv /\ ReadList => IInv'
<1>. SUFFICES ASSUME IInv, ReadList PROVE IInv'
  OBVIOUS
<1>0. ReadInv(tl)'
  <2>1. ReadInv([tl EXCEPT !.dead = dead])
    BY DeadKeeps DEF IInv, TypeOK
  <2>. QED  BY <2>1, TrustListStepKeeps DEF ReadList
<1>1. Step \in {"before", "after"} /\ Step \in StepNames
  BY DEF ReadList, StepNames
<1>2. pc \in 1 .. 17 /\ Step = Steps[pc]
  BY <1>1, StepIs
<1>3. ret = "Good" /\ ~ inputErr /\ exit = NoExit
  BY <1>2, Rigid DEF IInv, Walked
<1>4. Steps[pc] \notin Methods
  BY <1>1, <1>2, MethodsAre
<1>5. /\ UNCHANGED <<flags, failSc, applied, inputErr, exit, reported, pending, live, atOnce>>
      /\ dead' \in BOOLEAN /\ tl'.sc \in Answers
      /\ \/ UNCHANGED <<pc, ret, results>>
         \/ /\ ret' = tl'.sc
            /\ results' = [results EXCEPT ![Steps[pc]] = tl'.sc]
            /\ \/ pc' = NextStep(pc, failSc', applied') /\ tl'.sc = "Good"
               \/ pc' = 18 /\ tl'.sc # "Good"
  <2>1. dead' \in BOOLEAN /\ tl'.sc \in Answers
    BY <1>0 DEF ReadList, ReadInv, ReadType
  <2>. QED  BY <2>1, <1>2, Rigid DEF ReadList
<1>6. Asked' = Asked
  BY <1>5 DEF Asked
<1>7. CASE UNCHANGED <<pc, ret, results>>
  <2>1. Walked'
    BY <1>5, <1>7, WalkedSame DEF IInv
  <2>2. TypeOK'
    BY <1>5, <1>6, <1>7, Rigid, Zenon DEF IInv, TypeOK
  <2>3. Effects'
    BY <1>5, <1>6, <1>7, Rigid DEF IInv, Effects, Fine
  <2>4. Envelope'
    BY <1>5, <1>7, Rigid DEF IInv, Envelope, Fine
  <2>. QED  BY <1>0, <2>1, <2>2, <2>3, <2>4 DEF IInv
<1>8. CASE /\ ret' = tl'.sc
           /\ results' = [results EXCEPT ![Steps[pc]] = tl'.sc]
           /\ \/ pc' = NextStep(pc, failSc', applied') /\ tl'.sc = "Good"
              \/ pc' = 18 /\ tl'.sc # "Good"
  <2>1. Walked' /\ pc' \in 0 .. 18
    <3>1. CASE pc' = NextStep(pc, failSc', applied') /\ tl'.sc = "Good"
      <4>1. Walked' /\ pc' \in pc + 1 .. 18
        BY <1>2, <1>3, <1>5, <1>8, <3>1, Advance DEF IInv
      <4>. QED  BY <1>2, <4>1
    <3>2. CASE pc' = 18 /\ tl'.sc # "Good"
      BY <1>8, <3>2, Abort
    <3>. QED  BY <1>8, <3>1, <3>2
  <2>2. Effects'
    BY <1>2, <1>3, <1>4, <1>5, <1>8, QuietEffects DEF IInv
  <2>3. TypeOK'
    <3>1. results' \in [StepNames -> Answers \cup {"absent"}]
      BY <1>5, <1>8 DEF IInv, TypeOK
    <3>. QED  BY <1>5, <1>6, <1>8, <2>1, <3>1, Rigid, Zenon DEF IInv, TypeOK
  <2>4. Envelope'
    BY <1>3, <1>5 DEF Envelope, NoExit
  <2>. QED  BY <1>0, <2>1, <2>2, <2>3, <2>4 DEF IInv
<1>. QED  BY <1>5, <1>7, <1>8

LEMMA DiagnosticsKeeps ==
  ASSUME IInv, NEW sc \in Answers, Diagnostics(sc)
  PROVE  IInv'
<1>1. Step = "diagnostics" /\ Step \in StepNames
  BY DEF Diagnostics, StepNames
<1>2. pc \in 1 .. 17 /\ Step = Steps[pc]
  BY <1>1, StepIs
<1>3. ret = "Good" /\ ~ inputErr /\ exit = NoExit
  BY <1>2, Rigid DEF IInv, Walked
<1>4. Steps[pc] \notin Methods
  BY <1>1, <1>2, MethodsAre
<1>5. /\ UNCHANGED <<flags, tl, applied, inputErr, exit, reported, pending, live, atOnce>>
      /\ dead' \in BOOLEAN
      /\ \/ /\ IsTransport(sc) /\ ret' = sc /\ pc' = 18
            /\ UNCHANGED <<results, failSc>>
         \/ /\ results' = [results EXCEPT ![Steps[pc]] = sc]
            /\ sc \in {"Good", "Bad"} /\ failSc' = First(sc)
            /\ pc' = NextStep(pc, failSc', applied') /\ ret' = ret
  <2>1. dead' \in BOOLEAN
    BY Zenon DEF Diagnostics
  <2>. QED  BY <1>2, <2>1, Rigid DEF Diagnostics, IsTransport, Answers
<1>6. Asked' = Asked
  BY <1>5 DEF Asked
<1>7. failSc' \in {"Good", "Bad"} /\ (failSc' = "Good" => failSc = "Good")
  BY <1>5 DEF IInv, TypeOK, First
<1>8. Walked' /\ pc' \in 0 .. 18
  <2>1. CASE ret' = sc /\ pc' = 18 /\ IsTransport(sc)
    BY <2>1, Abort DEF IsTransport
  <2>2. CASE /\ results' = [results EXCEPT ![Steps[pc]] = sc]
             /\ sc \in {"Good", "Bad"} /\ failSc' = First(sc)
             /\ pc' = NextStep(pc, failSc', applied') /\ ret' = ret
    <3>1. failSc' = "Good" => sc = "Good"
      BY <2>2 DEF First
    <3>2. Walked' /\ pc' \in pc + 1 .. 18
      BY <1>2, <1>3, <1>5, <1>7, <2>2, <3>1, Advance DEF IInv
    <3>. QED  BY <1>2, <3>2
  <2>. QED  BY <1>5, <2>1, <2>2
<1>9. Effects'
  BY <1>2, <1>3, <1>4, <1>5, <1>7, QuietEffects DEF IInv
<1>10. TypeOK'
  <2>1. results' \in [StepNames -> Answers \cup {"absent"}] /\ ret' \in Answers
    BY <1>5 DEF IInv, TypeOK
  <2>. QED  BY <1>5, <1>6, <1>7, <1>8, <2>1, Rigid, Zenon DEF IInv, TypeOK
<1>11. Envelope' /\ ReadInv(tl)'
  BY <1>3, <1>5 DEF IInv, Envelope, NoExit
<1>. QED  BY <1>8, <1>9, <1>10, <1>11 DEF IInv

(* The transaction after a method that was due: a change is pending or in   *)
(* force at once, ApplyChanges makes the pending ones live together,        *)
(* CancelChanges drops them.                                                *)
LEMMA MethodEffects ==
  ASSUME IInv, NEW sc \in Answers, CallMethod(sc), Steps[pc] \in Methods,
         pc \in 1 .. 17, failSc = "Good"
  PROVE  /\ Effects'
         /\ pending' \subseteq Asked /\ live' \subseteq Asked /\ atOnce' \subseteq live'
<1>. DEFINE s == Steps[pc]
<1>1. PICK executed \in Executed(sc) : Transaction(s, sc, executed)
  <2>1. Step = s
    BY Rigid DEF Step
  <2>. QED  BY <2>1 DEF CallMethod
<1>2. /\ executed \in BOOLEAN
      /\ sc = "Good" => executed
      /\ sc = "Bad" => ~ executed
  BY DEF Executed, IsTransport
<1>3. /\ flags' = flags /\ inputErr' = inputErr /\ Asked' = Asked
      /\ \/ /\ IsTransport(sc) /\ ret' = sc /\ pc' = 18 /\ results' = results
         \/ /\ results' = [results EXCEPT ![s] = sc] /\ ~ IsTransport(sc)
            /\ pc' = NextStep(pc, failSc', applied') /\ ret' = ret
            /\ failSc' = sc
  BY Rigid DEF CallMethod, Asked, Step, First
<1>4. /\ ret = "Good" /\ ~ inputErr /\ Runs(s, failSc, applied)
      /\ \A i \in 1 .. 17 : results[Steps[i]] # "absent" => i < pc
  BY Rigid, Zenon DEF IInv, Walked
<1>5. /\ s = "apply" <=> pc = 14
      /\ s = "cancel" <=> pc = 15
      /\ s \in Changes => pc <= 13
      /\ Steps[14] = "apply" /\ Steps[15] = "cancel"
      /\ Changes \subseteq Methods \ {"rejected", "cancel", "apply"}
      /\ s \in StepNames
      /\ pc <= 15
  <2>1. pc <= 15
    BY Positions, StepsAt, MethodsAre
  <2>. QED  BY <2>1, Places, StepsAt, StepsAreNames, MethodsAre DEF Changes
<1>6. pc' = 18 \/ pc' \in pc + 1 .. 18
  BY <1>3, NextStepIs
<1>7. /\ results["apply"] # "absent" => 14 < pc
      /\ results["cancel"] = "absent"
  <2>1. results[Steps[15]] # "absent" => 15 < pc
    BY <1>4
  <2>2. results[Steps[14]] # "absent" => 14 < pc
    BY <1>4
  <2>. QED  BY <1>5, <2>1, <2>2
<1>8. /\ s = "apply" \/ results'["apply"] = results["apply"]
      /\ s = "cancel" \/ results'["cancel"] = results["cancel"]
      /\ results'[s] \in {results[s], sc}
      /\ IsTransport(sc) => results' = results
      /\ results' # results => ~ IsTransport(sc)
  <2>1. /\ "apply" \in StepNames /\ "cancel" \in StepNames
        /\ results \in [StepNames -> Answers \cup {"absent"}]
    BY DEF StepNames, IInv, TypeOK
  <2>. QED  BY <1>3, <1>5, <2>1
<1>9. pending \subseteq Asked /\ live \subseteq Asked /\ atOnce \subseteq live
  BY DEF IInv, TypeOK
<1>10. CASE pc <= 13
  <2>1. /\ live' = atOnce' /\ live = atOnce
        /\ pending \subseteq pending' /\ atOnce \subseteq atOnce'
        /\ pending' \subseteq pending \cup ({s} \cap Changes)
        /\ live' \subseteq live \cup ({s} \cap Changes)
        /\ sc = "Good" /\ s \in Changes => s \in pending' \cup atOnce'
    <3>1. live = atOnce
      BY <1>10 DEF IInv, Effects
    <3>2. s # "apply" /\ s # "cancel"
      BY <1>5, <1>10
    <3>3. \/ /\ executed /\ s \in Changes /\ pending' = pending \cup {s}
             /\ live' = live /\ atOnce' = atOnce
          \/ /\ executed /\ s \in Changes /\ pending' = pending
             /\ live' = live \cup {s} /\ atOnce' = atOnce \cup {s}
          \/ /\ ~ (executed /\ s \in Changes) /\ pending' = pending
             /\ live' = live /\ atOnce' = atOnce
      <4>1. s \in Immediate => s \in Changes
        BY DEF Immediate
      <4>. QED  BY <1>1, <3>2, <4>1, Zenon DEF Transaction
    <3>. HIDE DEF s
    <3>. QED  BY <1>2, <3>1, <3>3
  <2>2. s \in Changes => s \in Asked
    BY <1>4, <1>5, RunsIs DEF Asked
  <2>3. results'["apply"] = "absent" /\ results'["cancel"] = "absent"
    BY <1>5, <1>7, <1>8, <1>10
  <2>4. Fine' /\ 1 <= pc' /\ pc' <= 14 =>
          \A i \in 1 .. 13 : i < pc' /\ Steps[i] \in Asked => Steps[i] \in pending' \cup atOnce'
    <3>1. CASE pc' = 18
      BY <3>1
    <3>2. CASE pc' = NextStep(pc, failSc', applied') /\ failSc' = sc
      <4>1. failSc' = "Good" /\ Steps[pc] \in Asked => Steps[pc] \in pending' \cup atOnce'
        BY <2>1, <3>2 DEF Asked
      <4>. QED  BY <1>3, <2>1, <3>2, <4>1, AdvancePending DEF IInv
    <3>. QED  BY <1>3, <3>1, <3>2
  <2>5. Effects'
    BY <1>3, <1>4, <2>1, <2>3, <2>4, Rigid DEF Effects
  <2>. QED  BY <1>9, <2>1, <2>2, <2>5
<1>11. CASE pc = 14
  <2>1. s = "apply" /\ "apply" \in flags /\ pc' >= 15 /\ live = atOnce
    <3>1. "apply" \in Methods \ {"rejected", "cancel"}
      BY MethodsAre
    <3>2. s = "apply" /\ "apply" \in flags
      BY <1>4, <1>5, <1>11, <3>1, RunsIs
    <3>. QED  BY <1>6, <1>11, <3>2 DEF IInv, Effects
  <2>2. pending \cup live = Asked
    <3>1. \A i \in 1 .. 13 : Steps[i] \in Asked => Steps[i] \in pending \cup atOnce
      BY <1>4, <1>11 DEF IInv, Effects, Fine
    <3>2. \A x \in Asked : \E i \in 1 .. 13 : x = Steps[i]
      BY StepsAt DEF Asked, Changes
    <3>. QED  BY <1>9, <2>1, <3>1, <3>2
  <2>3. /\ \/ executed /\ live' = Asked /\ pending' = {}
           \/ ~ executed /\ live' = atOnce' /\ pending' \in {pending, {}}
        /\ atOnce' = atOnce
    BY <1>1, <1>2, <2>1, <2>2 DEF Transaction, Changes, Immediate
  <2>4. results["apply"] = "absent" /\ results'["cancel"] = "absent"
    BY <1>7, <1>8, <1>11, <2>1
  <2>5. /\ results'["apply"] = "Good" => executed
        /\ executed => results'["apply"] = "Good" \/ IsTransport(ret')
    <3>1. results'["apply"] \in {"absent", sc}
      BY <1>8, <2>1, <2>4
    <3>2. executed => sc = "Good" \/ IsTransport(sc)
      BY <1>2 DEF Answers, IsTransport
    <3>3. results \in [StepNames -> Answers \cup {"absent"}]
      BY DEF IInv, TypeOK
    <3>4. CASE IsTransport(sc)
      BY <1>3, <2>4, <3>4
    <3>5. CASE ~ IsTransport(sc)
      <4>1. results'["apply"] = sc
        BY <1>3, <1>5, <2>1, <3>3, <3>5
      <4>. QED  BY <1>2, <3>2, <3>5, <4>1
    <3>. QED  BY <3>4, <3>5
  <2>6. Effects'
    <3>1. ~ (pc' <= 14)
      BY <1>6, <1>11
    <3>. QED  BY <1>3, <1>4, <2>1, <2>3, <2>4, <2>5, <3>1 DEF Effects
  <2>. QED  BY <1>9, <2>3, <2>6
<1>12. CASE pc = 15
  <2>1. s = "cancel" /\ CancelFlag
    BY <1>4, <1>5, <1>12, RunsIs
  <2>2. live = atOnce
    BY <2>1 DEF IInv, Effects, CancelFlag
  <2>3. /\ live' = live /\ atOnce' = atOnce
        /\ (executed => pending' = {}) /\ pending' \subseteq pending
    BY <1>1, <1>2, <2>1, <2>2 DEF Transaction, Changes, Immediate
  <2>4. results'["cancel"] = "Good" => executed
    BY <1>2, <1>7, <1>8, <2>1
  <2>5. results'["apply"] = "Good" => Asked = live
    BY <1>8, <2>1, <2>2 DEF IInv, Effects
  <2>6. Effects'
    <3>1. ~ (pc' <= 14)
      BY <1>6, <1>12
    <3>. QED  BY <1>3, <1>4, <2>2, <2>3, <2>4, <2>5, <3>1 DEF Effects
  <2>. QED  BY <1>9, <2>3, <2>6
<1>. QED  BY <1>5, <1>10, <1>11, <1>12

LEMMA CallMethodKeeps ==
  ASSUME IInv, NEW sc \in Answers, CallMethod(sc)
  PROVE  IInv'
<1>1. Step \in Methods /\ Step \in StepNames
  BY MethodsAre DEF CallMethod
<1>2. pc \in 1 .. 17 /\ Step = Steps[pc]
  BY <1>1, StepIs
<1>3. ret = "Good" /\ ~ inputErr /\ exit = NoExit /\ failSc = "Good"
  BY <1>1, <1>2, Rigid, RunsIs DEF IInv, Walked
<1>4. /\ UNCHANGED <<flags, tl, inputErr, exit, reported>>
      /\ dead' \in BOOLEAN /\ applied' \in BOOLEAN
      /\ \/ /\ IsTransport(sc) /\ ret' = sc /\ pc' = 18
            /\ UNCHANGED <<results, failSc>>
         \/ /\ results' = [results EXCEPT ![Steps[pc]] = sc]
            /\ sc \in {"Good", "Bad"} /\ failSc' = sc
            /\ pc' = NextStep(pc, failSc', applied') /\ ret' = ret
  <2>1. dead' \in BOOLEAN
    BY Zenon DEF CallMethod
  <2>2. applied' \in BOOLEAN
    BY Zenon DEF CallMethod, IInv, TypeOK
  <2>. QED  BY <1>2, <1>3, <2>1, <2>2, Rigid DEF CallMethod, IsTransport, Answers, First
<1>5. Asked' = Asked
  BY <1>4 DEF Asked
<1>6. Walked' /\ pc' \in 0 .. 18
  <2>1. CASE ret' = sc /\ pc' = 18 /\ IsTransport(sc)
    BY <2>1, Abort DEF IsTransport
  <2>2. CASE /\ results' = [results EXCEPT ![Steps[pc]] = sc]
             /\ sc \in {"Good", "Bad"} /\ failSc' = sc
             /\ pc' = NextStep(pc, failSc', applied') /\ ret' = ret
    <3>1. Walked' /\ pc' \in pc + 1 .. 18
      BY <1>2, <1>3, <1>4, <2>2, Advance DEF IInv
    <3>. QED  BY <1>2, <3>1
  <2>. QED  BY <1>4, <2>1, <2>2
<1>7. /\ Effects' /\ pending' \subseteq Asked /\ live' \subseteq Asked
      /\ atOnce' \subseteq live'
  BY <1>1, <1>2, <1>3, MethodEffects
<1>8. TypeOK'
  <2>1. /\ results' \in [StepNames -> Answers \cup {"absent"}] /\ ret' \in Answers
        /\ failSc' \in {"Good", "Bad"}
    BY <1>4 DEF IInv, TypeOK
  <2>. QED  BY <1>4, <1>5, <1>6, <1>7, <2>1, Rigid, Zenon DEF IInv, TypeOK
<1>9. Envelope' /\ ReadInv(tl)'
  BY <1>3, <1>4 DEF IInv, Envelope, NoExit
<1>. QED  BY <1>6, <1>7, <1>8, <1>9 DEF IInv

(* The envelope of a push that ended.                                       *)
LEMMA ReportKeeps == IInv /\ (Report \/ OutOfMemory) => IInv'
<1>. SUFFICES ASSUME IInv, Report \/ OutOfMemory PROVE IInv'
  OBVIOUS
<1>1. /\ UNCHANGED <<flags, pc, tl, failSc, applied, inputErr, ret, results, dead,
                     pending, live, atOnce>>
      /\ pc = 18
  BY Rigid DEF Report, OutOfMemory
<1>2. \/ inputErr /\ exit' = 2 /\ reported' = ret
      \/ ~ inputErr /\ ret # "Good" /\ exit' = ExitCode(ret) /\ reported' = ret
      \/ ~ inputErr /\ Fine /\ exit' = 0 /\ reported' = "Good"
      \/ ~ inputErr /\ ret = "Good" /\ exit' = 4 /\ reported' = failSc
      \/ exit' = 6 /\ reported' = "Bad"
  BY DEF Report, OutOfMemory, Verdict, Fine
<1>3. Asked' = Asked /\ Fine' = Fine
  BY <1>1 DEF Asked, Fine
<1>4. TypeOK'
  <2>1. exit' \in {NoExit, 0, 2, 3, 4, 6, 7} /\ reported' \in Answers
    BY <1>2 DEF IInv, TypeOK, ExitCode, Answers
  <2>. QED  BY <1>1, <1>3, <2>1, Rigid, Zenon DEF IInv, TypeOK
<1>5. Walked'
  <2>1. \A x \in StepNames : Runs(x, "Good", FALSE)' <=> Runs(x, "Good", FALSE)
    BY <1>1, RunsSame
  <2>2. \A i \in 1 .. 17 : Steps[i] \in StepNames
    BY StepsAreNames
  <2>3. pc' # 0 /\ pc' \notin 1 .. 17
    BY <1>1
  <2>. QED  BY <1>1, <1>3, <2>1, <2>2, <2>3, Rigid, Zenon DEF IInv, Walked
<1>6. Effects'
  BY <1>1, <1>3, Rigid DEF IInv, Effects
<1>7. Envelope'
  BY <1>1, <1>2, <1>3, Rigid DEF IInv, Effects, Envelope, ExitCode, IsTransport, TypeOK, Answers
<1>. QED  BY <1>1, <1>4, <1>5, <1>6, <1>7 DEF IInv

(* What the server does on its own.                                         *)
LEMMA ServerKeeps == IInv /\ (ChannelCloses \/ SessionEnds) => IInv'
<1>. SUFFICES ASSUME IInv, ChannelCloses \/ SessionEnds PROVE IInv'
  OBVIOUS
<1>1. /\ UNCHANGED <<flags, pc, tl, failSc, applied, inputErr, ret, results, exit,
                     reported, live, atOnce>>
      /\ dead' \in BOOLEAN
      /\ \/ pending' = pending
         \/ pending' = {} /\ exit # NoExit
  <2>1. CASE ChannelCloses
    BY <2>1 DEF ChannelCloses, client
  <2>2. CASE SessionEnds
    BY <2>2 DEF SessionEnds, client, IInv, TypeOK
  <2>. QED  BY <2>1, <2>2
<1>2. Asked' = Asked
  BY <1>1 DEF Asked
<1>3. Walked'
  BY <1>1, WalkedSame DEF IInv
<1>4. TypeOK'
  <2>1. pending' \subseteq Asked
    BY <1>1 DEF IInv, TypeOK
  <2>. QED  BY <1>1, <1>2, <2>1, Rigid, Zenon DEF IInv, TypeOK
<1>5. Effects'
  <2>1. exit # NoExit => pc \notin 1 .. 17
    BY Rigid DEF IInv, Walked
  <2>2. pc \in 0 .. 18
    BY Rigid DEF IInv, TypeOK
  <2>. QED  BY <1>1, <1>2, <2>1, <2>2, Rigid DEF IInv, Effects, Fine
<1>6. Envelope'
  BY <1>1, Rigid DEF IInv, Envelope, Fine
<1>. QED  BY <1>1, <1>3, <1>4, <1>5, <1>6 DEF IInv

LEMMA NextInv == IInv /\ [Next]_vars => IInv'
<1>. SUFFICES ASSUME IInv, [Next]_vars PROVE IInv'
  OBVIOUS
<1>1. CASE Next
  <2>1. CASE \/ BadInput \/ Connect \/ NotConfigured
             \/ BeginRead \/ ReadList \/ Report \/ OutOfMemory
    BY <2>1, NotStartedKeeps, ConnectKeeps, BeginReadKeeps, ReadListKeeps, ReportKeeps
  <2>2. CASE ConnectFails("Timeout") \/ ConnectFails("Closed")
    BY <2>2, ConnectFailsKeeps
  <2>3. CASE \E sc \in Answers : \/ Resolve(sc) \/ Translate(sc)
                                 \/ CallMethod(sc) \/ Diagnostics(sc)
    BY <2>3, ResolveKeeps, TranslateStepKeeps, CallMethodKeeps, DiagnosticsKeeps
  <2>4. CASE ChannelCloses \/ SessionEnds
    BY <2>4, ServerKeeps
  <2>. QED  BY <1>1, <2>1, <2>2, <2>3, <2>4 DEF Next, Command
<1>2. CASE UNCHANGED vars
  <2>1. /\ UNCHANGED <<flags, pc, tl, failSc, applied, inputErr, ret, results, exit>>
        /\ UNCHANGED <<reported, dead, pending, live, atOnce>>
    BY <1>2 DEF vars, client
  <2>2. Asked' = Asked
    BY <2>1 DEF Asked
  <2>3. Walked'
    BY <2>1, WalkedSame DEF IInv
  <2>4. TypeOK'
    BY <2>1, <2>2, Rigid, Zenon DEF IInv, TypeOK
  <2>5. Effects'
    BY <2>1, <2>2, Rigid DEF IInv, Effects, Fine
  <2>6. Envelope'
    BY <2>1, Rigid DEF IInv, Envelope, Fine
  <2>. QED  BY <2>1, <2>3, <2>4, <2>5, <2>6 DEF IInv
<1>. QED  BY <1>1, <1>2

(* The inductive invariant holds throughout.                                *)
THEOREM PushInvariant == Spec => []IInv
<1>. QED  BY InitInv, NextInv, PTL DEF Spec

-----------------------------------------------------------------------------
(* Every value of a push, of the transaction and of a TrustList read stays  *)
(* in its type; in particular no change is ever pending or in force that    *)
(* the command line did not ask for.                                        *)
THEOREM TypeCorrect == Spec => [](TypeOK /\ tl \in ReadType)
<1>1. IInv => TypeOK /\ tl \in ReadType
  BY DEF IInv, ReadInv
<1>. QED  BY <1>1, PushInvariant, PTL

(* p12_read_trust_list reads a list of any length, in chunks of any size,   *)
(* to its end unless a Read is short, never takes a part for the list, and  *)
(* closes the file it opened unless an answer was lost or Close refused.    *)
THEOREM ReadsWhole == Spec => []TrustListsRead
<1>1. IInv => TrustListsRead
  BY DEF IInv, ReadInv, TrustListsRead
<1>. QED  BY <1>1, PushInvariant, PTL

(* What push_steps leaves in force, beside the changes the server carried   *)
(* out at their calls, is nothing, or everything asked for.                 *)
THEOREM PushIsAtomic == Spec => []AllOrNothing
<1>1. IInv => AllOrNothing
  BY DEF IInv, Effects, AllOrNothing
<1>. QED  BY <1>1, PushInvariant, PTL

(* At the end of a push that went well, every call that was due is Good.    *)
LEMMA AllAnswered ==
  ASSUME IInv, pc = 18, Fine, NEW s \in Methods \cup {"before", "after"},
         Runs(s, "Good", FALSE)
  PROVE  results[s] = "Good"
<1>1. s \in StepNames
  BY MethodsAre DEF StepNames
<1>2. PICK i \in 1 .. 17 : s = Steps[i]
  BY <1>1, StepsAreNames
<1>3. i < pc
  OBVIOUS
<1>4. Walked /\ Len(Steps) = 17
  BY Rigid DEF IInv
<1>. QED  BY <1>2, <1>3, <1>4, Zenon DEF Walked

(* A successful push with the implied --cancel leaves no transaction.       *)
THEOREM CancelImplied == Spec => []NotInstalled
<1>1. IInv => NotInstalled
  <2>. SUFFICES ASSUME IInv, exit = 0, "apply" \notin flags,
                       flags \cap {"selfSigned", "delete", "cancel"} # {}
                PROVE  pending = {} /\ live = atOnce
    BY DEF NotInstalled
  <2>1. pc = 18 /\ Fine
    BY Rigid DEF IInv, Envelope
  <2>2. CancelFlag
    BY DEF CancelFlag
  <2>3. "cancel" \in Methods
    BY MethodsAre
  <2>4. Runs("cancel", "Good", FALSE)
    BY <2>2, RunsIs
  <2>5. results["cancel"] = "Good"
    BY <2>1, <2>3, <2>4, AllAnswered
  <2>. QED  BY <2>5 DEF IInv, Effects
<1>. QED  BY <1>1, PushInvariant, PTL

(* The exit code of push tells what became of the changes.                  *)
THEOREM ExitCodeTells == Spec => []ExitTellsEffect
<1>1. IInv => ExitTellsEffect
  <2>. SUFFICES ASSUME IInv PROVE ExitTellsEffect
    OBVIOUS
  <2>1. ASSUME exit = 0
        PROVE  /\ \A s \in (flags \ {"cancel"}) \cap Methods : results[s] = "Good"
               /\ CancelFlag => results["cancel"] = "Good"
               /\ \A s \in DOMAIN results : results[s] # "Bad"
               /\ results["before"] = "Good" /\ results["after"] = "Good"
               /\ "apply" \in flags => live = Asked
    <3>1. pc = 18 /\ Fine
      BY <2>1, Rigid DEF IInv, Envelope
    <3>3. \A s \in Methods \cup {"before", "after"} :
            Runs(s, "Good", FALSE) => results[s] = "Good"
      BY <3>1, AllAnswered
    <3>4. \A s \in (flags \ {"cancel"}) \cap Methods : results[s] = "Good"
      BY <3>3, RunsIs
    <3>5. CancelFlag => results["cancel"] = "Good"
      BY <3>3, RunsIs, MethodsAre
    <3>6. results["before"] = "Good" /\ results["after"] = "Good"
      BY <3>3, RunsIs
    <3>7. \A s \in DOMAIN results : results[s] # "Bad"
      BY <3>1 DEF IInv, TypeOK, Walked
    <3>8. "apply" \in flags => live = Asked
      <4>1. "apply" \in Methods
        BY MethodsAre
      <4>. QED  BY <3>4, <4>1 DEF IInv, Effects
    <3>. QED  BY <3>4, <3>5, <3>6, <3>7, <3>8
  <2>2. exit = 2 => live = atOnce
    BY DEF IInv, Envelope
  <2>3. exit = 4 /\ live # atOnce => results["apply"] = "Good"
    BY DEF IInv, Envelope, Effects
  <2>. QED  BY <2>1, <2>2, <2>3 DEF ExitTellsEffect
<1>. QED  BY <1>1, PushInvariant, PTL
=============================================================================
