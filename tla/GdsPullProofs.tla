--------------------------- MODULE GdsPullProofs ---------------------------
(***************************************************************************)
(* Proofs about GdsPull for any number of commands on one ApplicationUri,   *)
(* every poll interval and every time-out: what exit code 0 promises, and   *)
(* that the poll loop keeps to its deadline.                                *)
(***************************************************************************)
EXTENDS GdsPull, TLAPS

RunType ==
    [flags : FlagSets, timeout : FinishTimeouts, pc : 0 .. 13,
     appId : {NoId} \cup {FreshId(c) : c \in Clients},
     found : BOOLEAN, failSc : Answers, transportSc : Answers, internal : BOOLEAN,
     asked : BOOLEAN, answer : Answers \cup {"none", "pending"}, polls : Nat,
     gaveUp : BOOLEAN, exit : {NoExit, 0, 2, 3, 4, 6, 7}]

States == {"none", "pending", "issued", "revoked"}

TypeOK ==
    /\ run \in [Clients -> RunType]
    /\ left \in [Clients -> Nat]
    /\ nap \in [Clients -> Nat]
    /\ records \subseteq {FreshId(c) : c \in Clients}
    /\ requests \in [Clients -> States]

(* No step has failed.                                                      *)
Clean(r) == r.failSc = "Good" /\ r.transportSc = "Good" /\ ~ r.internal

(* A command r on its way: gds_steps goes on only while nothing failed.     *)
Walk(r) ==
    /\ r.pc <= 12 => Clean(r) /\ ~ r.gaveUp
    /\ r.pc \in 1 .. 12 => r.exit = NoExit
    /\ r.exit = 0 => r.pc = 13 /\ Clean(r)
    /\ r.pc \in {10, 11} => "revoke" \in r.flags
    /\ r.gaveUp => /\ r.failSc # "Good" /\ r.transportSc = "Good" /\ ~ r.internal
                   /\ r.exit \in {NoExit, 4, 6}

(* The state q of its request at the GDS.                                   *)
Certificate(r, q) ==
    /\ r.pc <= 4 => q = "none"
    /\ r.pc = 5 => /\ q \in {"pending", "issued"}
                   /\ r.asked => r.answer # "none"
                   /\ r.asked /\ r.answer = "Good" => q = "issued"
    /\ r.pc >= 6 /\ Clean(r) =>
          q = IF r.pc > 10 /\ "revoke" \in r.flags THEN "revoked" ELSE "issued"

(* Its polls against the clock: l is left of the time-out, n of the sleep.  *)
(* While the deadline is ahead, the polls but the last took an interval.    *)
Polling(r, l, n) ==
    /\ r.pc <= 4 => r.polls = 0 /\ n = 0 /\ ~ r.asked
    /\ r.polls >= 2 => (r.polls - 2) * PollInterval < r.timeout
    /\ r.pc = 5 =>
         /\ l <= r.timeout
         /\ ~ r.asked /\ r.polls = 0 => n = 0
         /\ ~ r.asked /\ r.polls >= 1 =>
              /\ (r.polls - 1) * PollInterval < r.timeout
              /\ l > 0 => (r.polls - 1) * PollInterval + (PollInterval - n)
                             <= r.timeout - l
         /\ r.asked => /\ r.polls >= 1
                       /\ l > 0 => (r.polls - 1) * PollInterval <= r.timeout - l
    /\ r.gaveUp => l = 0

ClientInv(r, l, n, q) == Walk(r) /\ Certificate(r, q) /\ Polling(r, l, n)

(* The ids in use: a command that has not registered yet is nowhere known,  *)
(* one that unregistered stays so.                                          *)
Registry ==
    \A c \in Clients :
        /\ run[c].pc <= 3 => /\ FreshId(c) \notin records
                             /\ \A d \in Clients : run[d].appId # FreshId(c)
        /\ run[c].pc = 13 /\ Clean(run[c]) /\ "unregister" \in run[c].flags
             => run[c].appId \notin records

(* The inductive invariant.                                                 *)
IInv ==
    /\ TypeOK
    /\ \A c \in Clients : ClientInv(run[c], left[c], nap[c], requests[c])
    /\ Registry

-----------------------------------------------------------------------------
(* gds_steps by position.                                                   *)
LEMMA StepsAt ==
  /\ Len(Steps) = 12 /\ Done = 13 /\ DOMAIN Steps = 1 .. 12
  /\ Steps[1] = "namespace"
  /\ Steps[2] = "find"
  /\ Steps[3] = "register"
  /\ Steps[4] = "start"
  /\ Steps[5] = "finish"
  /\ Steps[6] = "groups"
  /\ Steps[7] = "getTrustList"
  /\ Steps[8] = "readList"
  /\ Steps[9] = "status"
  /\ Steps[10] = "revoke"
  /\ Steps[11] = "check"
  /\ Steps[12] = "unregister"
<1>1. Len(Steps) = 12
  BY DEF Steps
<1>. QED  BY <1>1 DEF Steps, Done

LEMMA Positions ==
  \A i \in 1 .. 12 : i = 1 \/ i = 2 \/ i = 3 \/ i = 4 \/ i = 5 \/ i = 6
        \/ i = 7 \/ i = 8 \/ i = 9 \/ i = 10 \/ i = 11 \/ i = 12
OBVIOUS

(* A set of steps has a first one.                                          *)
LEMMA FirstOfSteps ==
  ASSUME NEW T, T \subseteq 1 .. 12, T # {}
  PROVE  \E j \in T : \A k \in T : j <= k
<1>. SUFFICES ASSUME \A j \in T : \E k \in T : ~ (j <= k) PROVE FALSE
  OBVIOUS
<1>1. \A j \in T : \E k \in T : k < j
  OBVIOUS
<1>2. 1 \notin T
  BY <1>1
<1>3. 2 \notin T
  BY <1>1, <1>2
<1>4. 3 \notin T
  BY <1>1, <1>2, <1>3
<1>5. 4 \notin T
  BY <1>1, <1>2, <1>3, <1>4
<1>6. 5 \notin T
  BY <1>1, <1>2, <1>3, <1>4, <1>5
<1>7. 6 \notin T
  BY <1>1, <1>2, <1>3, <1>4, <1>5, <1>6
<1>8. 7 \notin T
  BY <1>1, <1>2, <1>3, <1>4, <1>5, <1>6, <1>7
<1>9. 8 \notin T
  BY <1>1, <1>2, <1>3, <1>4, <1>5, <1>6, <1>7, <1>8
<1>10. 9 \notin T
  BY <1>1, <1>2, <1>3, <1>4, <1>5, <1>6, <1>7, <1>8, <1>9
<1>11. 10 \notin T
  BY <1>1, <1>2, <1>3, <1>4, <1>5, <1>6, <1>7, <1>8, <1>9, <1>10
<1>12. 11 \notin T
  BY <1>1, <1>2, <1>3, <1>4, <1>5, <1>6, <1>7, <1>8, <1>9, <1>10, <1>11
<1>13. 12 \notin T
  BY <1>1, <1>2, <1>3, <1>4, <1>5, <1>6, <1>7, <1>8, <1>9, <1>10, <1>11, <1>12
<1>14. PICK x : x \in T
  OBVIOUS
<1>15. x = 1 \/ x = 2 \/ x = 3 \/ x = 4 \/ x = 5 \/ x = 6 \/ x = 7 \/ x = 8 \/ x = 9
       \/ x = 10 \/ x = 11 \/ x = 12
  BY <1>14, Positions
<1>. QED
  BY <1>14, <1>15, <1>2, <1>3, <1>4, <1>5, <1>6, <1>7, <1>8, <1>9, <1>10, <1>11,
     <1>12, <1>13, Zenon

(* A Good step leads to the nearest step ahead that the command takes.      *)
LEMMA ProceedIs ==
  ASSUME NEW r \in RunType, r.pc \in 0 .. 12
  PROVE  \E n \in r.pc + 1 .. 13 :
            /\ Proceed(r) = [r EXCEPT !.pc = n]
            /\ n \in 1 .. 12 => Takes(r, Steps[n])
            /\ \A j \in r.pc + 1 .. 12 : j < n => ~ Takes(r, Steps[j])
<1>. DEFINE later == {j \in r.pc + 1 .. 12 : Takes(r, Steps[j])}
            n == IF later = {} THEN 13
                 ELSE CHOOSE j \in later : \A k \in later : j <= k
<1>1. Proceed(r) = [r EXCEPT !.pc = n]
  <2>1. Len(Steps) = 12 /\ Done = 13
    BY StepsAt
  <2>. QED  BY <2>1 DEF Proceed
<1>2. later \subseteq 1 .. 12
  OBVIOUS
<1>3. later # {} => \E j \in later : \A k \in later : j <= k
  BY <1>2, FirstOfSteps
<1>4. CASE later = {}
  <2>1. n = 13
    BY <1>4
  <2>2. \A j \in r.pc + 1 .. 12 : ~ Takes(r, Steps[j])
    BY <1>4
  <2>. HIDE DEF n, later
  <2>. QED  BY <1>1, <2>1, <2>2
<1>5. CASE later # {}
  <2>1. n \in later /\ \A k \in later : n <= k
    BY <1>3, <1>5
  <2>. HIDE DEF n
  <2>2. n \in r.pc + 1 .. 13 /\ Takes(r, Steps[n])
    BY <2>1
  <2>3. \A j \in r.pc + 1 .. 12 : j < n => ~ Takes(r, Steps[j])
    BY <2>1
  <2>. QED  BY <1>1, <2>2, <2>3
<1>. QED  BY <1>4, <1>5

(* The command after a Good step, field by field.                           *)
LEMMA Onward ==
  ASSUME NEW r \in RunType, r.pc \in 0 .. 12, NEW u, u = Proceed(r)
  PROVE  /\ u \in RunType
         /\ u.pc \in r.pc + 1 .. 13
         /\ u.flags = r.flags /\ u.timeout = r.timeout /\ u.appId = r.appId
         /\ u.failSc = r.failSc /\ u.transportSc = r.transportSc
         /\ u.internal = r.internal /\ u.asked = r.asked /\ u.answer = r.answer
         /\ u.polls = r.polls /\ u.gaveUp = r.gaveUp /\ u.exit = r.exit
         /\ r.pc = 0 => u.pc = 1
         /\ r.pc = 1 => u.pc = 2
         /\ r.pc = 2 => u.pc \in {3, 4}
         /\ r.pc \in {3, 4, 5} => u.pc = r.pc + 1
         /\ u.pc \in {10, 11} => "revoke" \in r.flags
         /\ r.pc <= 9 /\ u.pc > 10 => "revoke" \notin r.flags
         /\ r.pc <= 11 /\ u.pc = 13 => "unregister" \notin r.flags
<1>1. PICK n \in r.pc + 1 .. 13 :
            /\ Proceed(r) = [r EXCEPT !.pc = n]
            /\ n \in 1 .. 12 => Takes(r, Steps[n])
            /\ \A j \in r.pc + 1 .. 12 : j < n => ~ Takes(r, Steps[j])
  BY ProceedIs
<1>2. /\ Takes(r, Steps[1]) /\ Takes(r, Steps[2]) /\ Takes(r, Steps[4])
      /\ Takes(r, Steps[5]) /\ Takes(r, Steps[6])
      /\ Takes(r, Steps[10]) <=> "revoke" \in r.flags
      /\ Takes(r, Steps[11]) <=> "revoke" \in r.flags
      /\ Takes(r, Steps[12]) <=> "unregister" \in r.flags
  BY StepsAt DEF Takes
<1>3. n \in 0 .. 13
  BY <1>1
<1>4. u = [r EXCEPT !.pc = n]
  BY <1>1
<1>5. /\ u \in RunType /\ u.pc = n
      /\ u.flags = r.flags /\ u.timeout = r.timeout /\ u.appId = r.appId
      /\ u.failSc = r.failSc /\ u.transportSc = r.transportSc
      /\ u.internal = r.internal /\ u.asked = r.asked /\ u.answer = r.answer
      /\ u.polls = r.polls /\ u.gaveUp = r.gaveUp /\ u.exit = r.exit
  BY <1>3, <1>4 DEF RunType
<1>6. /\ r.pc = 0 => n = 1
      /\ r.pc = 1 => n = 2
      /\ r.pc = 2 => n \in {3, 4}
      /\ r.pc \in {3, 4, 5} => n = r.pc + 1
  BY <1>1, <1>2
<1>7. /\ n \in {10, 11} => "revoke" \in r.flags
      /\ r.pc <= 9 /\ n > 10 => "revoke" \notin r.flags
      /\ r.pc <= 11 /\ n = 13 => "unregister" \notin r.flags
  BY <1>1, <1>2
<1>. QED  BY <1>1, <1>5, <1>6, <1>7

(* The command after a step that was not Good.                              *)
LEMMA Halt ==
  ASSUME NEW r \in RunType, NEW sc \in Answers, sc # "Good", NEW u, u = Stopped(r, sc)
  PROVE  /\ u \in RunType /\ u.pc = 13 /\ ~ Clean(u)
         /\ u.flags = r.flags /\ u.timeout = r.timeout /\ u.appId = r.appId
         /\ u.internal = r.internal /\ u.asked = r.asked /\ u.answer = r.answer
         /\ u.polls = r.polls /\ u.gaveUp = r.gaveUp /\ u.exit = r.exit
         /\ sc = "Bad" => u.failSc = "Bad" /\ u.transportSc = "Good"
<1>. DEFINE t == IF IsTransport(sc) THEN sc ELSE "Good"
            f == IF IsTransport(sc) THEN "Good" ELSE sc
<1>1. /\ t \in Answers /\ f \in Answers /\ (t # "Good" \/ f # "Good")
      /\ sc = "Bad" => f = "Bad" /\ t = "Good"
  BY DEF IsTransport, Answers
<1>2. u = [r EXCEPT !.pc = 13, !.transportSc = t, !.failSc = f]
  BY StepsAt DEF Stopped
<1>. HIDE DEF t, f
<1>3. u \in RunType
  <2>1. 13 \in 0 .. 13
    OBVIOUS
  <2>2. [r EXCEPT !.pc = 13] \in RunType
    BY <2>1 DEF RunType
  <2>. QED  BY <1>1, <1>2, <2>1 DEF RunType
<1>4. /\ u.pc = 13 /\ u.transportSc = t /\ u.failSc = f
      /\ u.flags = r.flags /\ u.timeout = r.timeout /\ u.appId = r.appId
      /\ u.internal = r.internal /\ u.asked = r.asked /\ u.answer = r.answer
      /\ u.polls = r.polls /\ u.gaveUp = r.gaveUp /\ u.exit = r.exit
  BY <1>2 DEF RunType
<1>5. ~ Clean(u)
  BY <1>1, <1>4 DEF Clean
<1>. QED  BY <1>1, <1>3, <1>4, <1>5

-----------------------------------------------------------------------------
(* What the registry, and no other part of the invariant, reads of a        *)
(* command after a step of it.                                              *)
Steady(r, u) ==
    /\ u \in RunType /\ u.flags = r.flags
    /\ u.pc >= r.pc
    /\ u.pc = 13 /\ Clean(u) /\ "unregister" \in u.flags => r.pc >= 12

(* A step whose answer says nothing about the request or the clock.         *)
LEMMA AfterKeeps ==
  ASSUME NEW r \in RunType, NEW l \in Nat, NEW n \in Nat, NEW q \in States,
         ClientInv(r, l, n, q), r.pc \in {1, 2, 3, 6, 7, 8, 9, 11, 12},
         NEW sc \in Answers, NEW u, u = After(r, sc)
  PROVE  /\ ClientInv(u, l, n, q) /\ Steady(r, u) /\ u.appId = r.appId
         /\ u.pc \in r.pc + 1 .. 13
         /\ u.pc = 13 /\ Clean(u) => sc = "Good"
<1>0. r.pc \in 0 .. 12 /\ Clean(r) /\ ~ r.gaveUp /\ r.exit = NoExit
  BY DEF ClientInv, Walk
<1>1. CASE sc = "Good"
  <2>0. u = Proceed(r)
    BY <1>1 DEF After
  <2>1. /\ u \in RunType
        /\ u.pc \in r.pc + 1 .. 13
        /\ u.flags = r.flags /\ u.timeout = r.timeout /\ u.appId = r.appId
        /\ u.failSc = r.failSc /\ u.transportSc = r.transportSc
        /\ u.internal = r.internal /\ u.asked = r.asked
        /\ u.polls = r.polls /\ u.gaveUp = r.gaveUp /\ u.exit = r.exit
        /\ r.pc = 1 => u.pc = 2
        /\ r.pc = 2 => u.pc \in {3, 4}
        /\ r.pc = 3 => u.pc = 4
        /\ u.pc \in {10, 11} => "revoke" \in r.flags
        /\ r.pc <= 9 /\ u.pc > 10 => "revoke" \notin r.flags
        /\ r.pc <= 11 /\ u.pc = 13 => "unregister" \notin r.flags
    BY <1>0, <2>0, Onward
  <2>2. Clean(u)
    BY <1>0, <2>1 DEF Clean
  <2>3. Walk(u)
    BY <1>0, <2>1, <2>2 DEF Walk, NoExit
  <2>4. Certificate(u, q)
    BY <1>0, <2>1, <2>2 DEF Certificate, ClientInv
  <2>5. Polling(u, l, n)
    <3>1. u.pc <= 4 => r.pc <= 4
      BY <1>0, <2>1
    <3>2. u.pc # 5
      BY <1>0, <2>1
    <3>. QED  BY <1>0, <2>1, <3>1, <3>2, Zenon DEF Polling, ClientInv
  <2>6. Steady(r, u)
    BY <1>0, <2>1, <2>2 DEF Steady
  <2>. QED  BY <1>1, <2>1, <2>3, <2>4, <2>5, <2>6 DEF ClientInv
<1>2. CASE sc # "Good"
  <2>0. u = Stopped(r, sc)
    BY <1>2 DEF After
  <2>1. /\ u \in RunType /\ u.pc = 13 /\ ~ Clean(u)
        /\ u.flags = r.flags /\ u.timeout = r.timeout /\ u.appId = r.appId
        /\ u.polls = r.polls /\ u.gaveUp = r.gaveUp /\ u.exit = r.exit
    BY <1>2, <2>0, Halt
  <2>3. Walk(u)
    BY <1>0, <2>1 DEF Walk, NoExit
  <2>4. Certificate(u, q)
    BY <2>1 DEF Certificate
  <2>5. Polling(u, l, n)
    <3>1. ~ (u.pc <= 4) /\ u.pc # 5
      BY <2>1
    <3>. QED  BY <1>0, <2>1, <3>1, Zenon DEF Polling, ClientInv
  <2>6. Steady(r, u)
    BY <2>1 DEF Steady
  <2>. QED  BY <1>0, <2>1, <2>3, <2>4, <2>5, <2>6 DEF ClientInv
<1>. QED  BY <1>1, <1>2

-----------------------------------------------------------------------------
(* The arithmetic of the poll loop.                                         *)
LEMMA OneMorePoll ==
  ASSUME NEW k \in Nat
  PROVE  /\ (k + 1 - 1) * PollInterval = (k - 1) * PollInterval + PollInterval
         /\ (k + 1 - 2) * PollInterval = (k - 1) * PollInterval
BY GdsAssumption

LEMMA PollBound ==
  ASSUME NEW k \in Nat, NEW t \in Nat, k >= 2 => (k - 2) * PollInterval < t
  PROVE  k <= (t + PollInterval - 1) \div PollInterval + 1
<1>. DEFINE p == PollInterval
            d == (t + p - 1) \div p
<1>1. p \in Nat /\ p >= 1
  BY GdsAssumption
<1>2. d \in Int /\ t + p - 1 < (d + 1) * p
  BY <1>1
<1>3. CASE k <= 1
  <2>1. d >= 0
    BY <1>1
  <2>. QED  BY <1>2, <1>3, <2>1
<1>4. CASE k >= 2
  <2>1. (k - 1) * p <= t + p - 1
    <3>1. (k - 1) * p = (k - 2) * p + p
      BY <1>1
    <3>2. (k - 2) * p \in Int /\ (k - 2) * p < t
      BY <1>1, <1>4
    <3>. QED  BY <1>1, <3>1, <3>2
  <2>2. (k - 1) * p < (d + 1) * p
    BY <1>1, <1>2, <2>1
  <2>3. k - 1 < d + 1
    BY <1>1, <1>2, <2>2
  <2>. QED  BY <1>2, <2>3
<1>. QED  BY <1>3, <1>4

LEMMA PollsBounded ==
  ASSUME NEW r \in RunType, NEW l \in Nat, NEW n \in Nat, Polling(r, l, n)
  PROVE  r.polls <= PollLimit(r)
<1>1. r.polls \in Nat /\ r.timeout \in Nat
  BY GdsAssumption DEF RunType
<1>2. r.polls >= 2 => (r.polls - 2) * PollInterval < r.timeout
  BY DEF Polling
<1>. QED  BY <1>1, <1>2, PollBound DEF PollLimit

-----------------------------------------------------------------------------
LEMMA ConnectClient ==
  ASSUME NEW r \in RunType, NEW l \in Nat, NEW n \in Nat, NEW q \in States,
         ClientInv(r, l, n, q), r.pc = 0, r.exit = NoExit, NEW u, u = Proceed(r)
  PROVE  ClientInv(u, l, n, q) /\ Steady(r, u) /\ u.appId = r.appId
<1>1. /\ u \in RunType /\ u.pc = 1
      /\ u.flags = r.flags /\ u.timeout = r.timeout /\ u.appId = r.appId
      /\ u.failSc = r.failSc /\ u.transportSc = r.transportSc
      /\ u.internal = r.internal /\ u.asked = r.asked
      /\ u.polls = r.polls /\ u.gaveUp = r.gaveUp /\ u.exit = r.exit
  BY Onward
<1>2. Clean(u)
  BY <1>1 DEF ClientInv, Walk, Clean
<1>3. Walk(u)
  BY <1>1, <1>2 DEF ClientInv, Walk, NoExit
<1>4. Certificate(u, q)
  BY <1>1 DEF ClientInv, Certificate
<1>5. Polling(u, l, n)
  <2>1. u.pc # 5 /\ r.pc <= 4
    BY <1>1
  <2>. QED  BY <1>1, <2>1, Zenon DEF ClientInv, Polling
<1>6. Steady(r, u)
  BY <1>1 DEF Steady
<1>. QED  BY <1>1, <1>3, <1>4, <1>5, <1>6 DEF ClientInv

(* gds_steps ends with an internal error.                                   *)
LEMMA InternalClient ==
  ASSUME NEW r \in RunType, NEW l \in Nat, NEW n \in Nat, NEW q \in States,
         ClientInv(r, l, n, q), r.pc \in {3, 4},
         NEW u \in RunType, u.pc = 13, u.internal = TRUE,
         u.flags = r.flags, u.timeout = r.timeout, u.appId = r.appId,
         u.polls = r.polls, u.gaveUp = r.gaveUp, u.exit = r.exit
  PROVE  ClientInv(u, l, n, q) /\ Steady(r, u)
<1>1. /\ u \in RunType /\ u.pc = 13 /\ u.internal = TRUE
      /\ u.flags = r.flags /\ u.timeout = r.timeout /\ u.appId = r.appId
      /\ u.polls = r.polls /\ u.gaveUp = r.gaveUp /\ u.exit = r.exit
  OBVIOUS
<1>2. ~ Clean(u)
  BY <1>1 DEF Clean
<1>3. ~ r.gaveUp /\ r.exit = NoExit
  BY DEF ClientInv, Walk
<1>4. Walk(u)
  BY <1>1, <1>2, <1>3 DEF Walk, NoExit
<1>5. Certificate(u, q)
  BY <1>1, <1>2 DEF Certificate
<1>6. Polling(u, l, n)
  <2>1. ~ (u.pc <= 4) /\ u.pc # 5
    BY <1>1
  <2>. QED  BY <1>1, <1>3, <2>1, Zenon DEF ClientInv, Polling
<1>7. Steady(r, u)
  BY <1>1, <1>2 DEF Steady
<1>. QED  BY <1>1, <1>4, <1>5, <1>6, <1>7 DEF ClientInv

(* Only the exit code is set, before connecting or at the end.              *)
LEMMA ExitClient ==
  ASSUME NEW r \in RunType, NEW l \in Nat, NEW n \in Nat, NEW q \in States,
         ClientInv(r, l, n, q), NEW code \in {0, 2, 3, 4, 6, 7},
         \/ r.pc = 0 /\ code \in {2, 3, 6, 7} /\ ~ r.gaveUp
         \/ r.pc = 13 /\ code \in {Verdict(r), 6},
         NEW u, u = [r EXCEPT !.exit = code]
  PROVE  ClientInv(u, l, n, q) /\ Steady(r, u) /\ u.appId = r.appId
<1>1. /\ u \in RunType /\ u.exit = code /\ u.pc = r.pc
      /\ u.flags = r.flags /\ u.timeout = r.timeout /\ u.appId = r.appId
      /\ u.failSc = r.failSc /\ u.transportSc = r.transportSc
      /\ u.internal = r.internal /\ u.asked = r.asked /\ u.answer = r.answer
      /\ u.polls = r.polls /\ u.gaveUp = r.gaveUp
  BY DEF RunType
<1>2. Clean(u) <=> Clean(r)
  BY <1>1 DEF Clean
<1>3. Walk(u)
  <2>1. code = 0 => r.pc = 13 /\ Clean(r)
    BY DEF Verdict, ExitCode, Clean
  <2>2. r.gaveUp => code \in {4, 6} /\ r.pc = 13
    BY DEF Verdict, ClientInv, Walk
  <2>. QED  BY <1>1, <1>2, <2>1, <2>2 DEF ClientInv, Walk
<1>4. Certificate(u, q)
  BY <1>1, <1>2 DEF ClientInv, Certificate
<1>5. Polling(u, l, n)
  BY <1>1, Zenon DEF ClientInv, Polling
<1>6. Steady(r, u)
  BY <1>1, <1>2 DEF Steady, RunType
<1>. QED  BY <1>1, <1>3, <1>4, <1>5, <1>6 DEF ClientInv

(* The request goes out and the clock starts.                               *)
LEMMA StartClient ==
  ASSUME NEW r \in RunType, NEW l \in Nat, NEW n \in Nat, NEW q \in States,
         ClientInv(r, l, n, q), r.pc = 4,
         NEW sc \in Answers, NEW u, u = After(r, sc),
         NEW q1, sc = "Good" => q1 = "pending",
         NEW l1, sc = "Good" => l1 = r.timeout
  PROVE  ClientInv(u, l1, n, q1) /\ Steady(r, u) /\ u.appId = r.appId
<1>0. Clean(r) /\ ~ r.gaveUp /\ r.exit = NoExit /\ r.polls = 0 /\ n = 0 /\ ~ r.asked
  BY DEF ClientInv, Walk, Polling
<1>1. CASE sc = "Good"
  <2>0. u = Proceed(r) /\ q1 = "pending" /\ l1 = r.timeout
    BY <1>1 DEF After
  <2>1. /\ u \in RunType /\ u.pc = 5
        /\ u.flags = r.flags /\ u.timeout = r.timeout /\ u.appId = r.appId
        /\ u.failSc = r.failSc /\ u.transportSc = r.transportSc
        /\ u.internal = r.internal /\ u.asked = r.asked
        /\ u.polls = r.polls /\ u.gaveUp = r.gaveUp /\ u.exit = r.exit
    BY <2>0, Onward
  <2>2. Clean(u)
    BY <1>0, <2>1 DEF Clean
  <2>3. Walk(u)
    BY <1>0, <2>1, <2>2 DEF Walk, NoExit
  <2>4. Certificate(u, q1)
    BY <1>0, <2>0, <2>1 DEF Certificate
  <2>5. Polling(u, l1, n)
    <3>1. r.timeout \in Nat
      BY GdsAssumption DEF RunType
    <3>2. u.polls = 0 /\ ~ u.asked /\ ~ u.gaveUp /\ u.pc = 5 /\ n = 0 /\ l1 = u.timeout
      BY <1>0, <2>0, <2>1
    <3>3. ~ (0 >= 1) /\ ~ (0 >= 2) /\ ~ (5 <= 4) /\ l1 <= u.timeout
      BY <2>0, <2>1, <3>1
    <3>. QED  BY <3>2, <3>3, Zenon DEF Polling
  <2>6. Steady(r, u)
    BY <2>1 DEF Steady
  <2>. QED  BY <2>1, <2>3, <2>4, <2>5, <2>6 DEF ClientInv
<1>2. CASE sc # "Good"
  <2>0. u = Stopped(r, sc)
    BY <1>2 DEF After
  <2>1. /\ u \in RunType /\ u.pc = 13 /\ ~ Clean(u)
        /\ u.flags = r.flags /\ u.timeout = r.timeout /\ u.appId = r.appId
        /\ u.polls = r.polls /\ u.gaveUp = r.gaveUp /\ u.exit = r.exit
    BY <1>2, <2>0, Halt
  <2>3. Walk(u)
    BY <1>0, <2>1 DEF Walk, NoExit
  <2>4. Certificate(u, q1)
    BY <2>1 DEF Certificate
  <2>5. Polling(u, l1, n)
    <3>1. ~ (u.pc <= 4) /\ u.pc # 5 /\ ~ (u.polls >= 2)
      BY <1>0, <2>1
    <3>. QED  BY <1>0, <2>1, <3>1, Zenon DEF Polling
  <2>6. Steady(r, u)
    BY <2>1 DEF Steady
  <2>. QED  BY <1>0, <2>1, <2>3, <2>4, <2>5, <2>6 DEF ClientInv
<1>. QED  BY <1>1, <1>2

LEMMA RevokeClient ==
  ASSUME NEW r \in RunType, NEW l \in Nat, NEW n \in Nat, NEW q \in States,
         ClientInv(r, l, n, q), r.pc = 10,
         NEW sc \in Answers, NEW u, u = After(r, sc),
         NEW q1, sc = "Good" => q1 = "revoked"
  PROVE  ClientInv(u, l, n, q1) /\ Steady(r, u) /\ u.appId = r.appId
<1>0. Clean(r) /\ ~ r.gaveUp /\ r.exit = NoExit /\ "revoke" \in r.flags
  BY DEF ClientInv, Walk
<1>1. CASE sc = "Good"
  <2>0. u = Proceed(r) /\ q1 = "revoked"
    BY <1>1 DEF After
  <2>1. /\ u \in RunType /\ u.pc \in 11 .. 13
        /\ u.flags = r.flags /\ u.timeout = r.timeout /\ u.appId = r.appId
        /\ u.failSc = r.failSc /\ u.transportSc = r.transportSc
        /\ u.internal = r.internal /\ u.asked = r.asked
        /\ u.polls = r.polls /\ u.gaveUp = r.gaveUp /\ u.exit = r.exit
        /\ u.pc = 13 => "unregister" \notin r.flags
    BY <2>0, Onward
  <2>2. Clean(u)
    BY <1>0, <2>1 DEF Clean
  <2>3. Walk(u)
    BY <1>0, <2>1, <2>2 DEF Walk, NoExit
  <2>4. Certificate(u, q1)
    BY <1>0, <2>0, <2>1 DEF Certificate
  <2>5. Polling(u, l, n)
    <3>1. ~ (u.pc <= 4) /\ u.pc # 5
      BY <2>1
    <3>. QED  BY <1>0, <2>1, <3>1, Zenon DEF Polling, ClientInv
  <2>6. Steady(r, u)
    BY <2>1 DEF Steady
  <2>. QED  BY <2>1, <2>3, <2>4, <2>5, <2>6 DEF ClientInv
<1>2. CASE sc # "Good"
  <2>0. u = Stopped(r, sc)
    BY <1>2 DEF After
  <2>1. /\ u \in RunType /\ u.pc = 13 /\ ~ Clean(u)
        /\ u.flags = r.flags /\ u.timeout = r.timeout /\ u.appId = r.appId
        /\ u.polls = r.polls /\ u.gaveUp = r.gaveUp /\ u.exit = r.exit
    BY <1>2, <2>0, Halt
  <2>3. Walk(u)
    BY <1>0, <2>1 DEF Walk, NoExit
  <2>4. Certificate(u, q1)
    BY <2>1 DEF Certificate
  <2>5. Polling(u, l, n)
    <3>1. ~ (u.pc <= 4) /\ u.pc # 5
      BY <2>1
    <3>. QED  BY <1>0, <2>1, <3>1, Zenon DEF Polling, ClientInv
  <2>6. Steady(r, u)
    BY <2>1 DEF Steady
  <2>. QED  BY <1>0, <2>1, <2>3, <2>4, <2>5, <2>6 DEF ClientInv
<1>. QED  BY <1>1, <1>2

(* The counters of a command.                                               *)
LEMMA CountsAreNat ==
  ASSUME NEW r \in RunType PROVE r.polls \in Nat /\ r.timeout \in Nat
BY GdsAssumption DEF RunType

(* One poll: FinishRequest is sent after the sleep.                         *)
LEMMA FinishAskClient ==
  ASSUME NEW r \in RunType, NEW l \in Nat, NEW q \in States,
         ClientInv(r, l, 0, q), r.pc = 5, ~ r.asked,
         NEW u \in RunType, u.pc = 5, u.asked = TRUE,
         u.answer # "none", u.answer = "Good" => q # "pending",
         u.polls = IF r.polls > PollLimit(r) THEN r.polls ELSE r.polls + 1,
         u.flags = r.flags, u.timeout = r.timeout, u.appId = r.appId,
         u.failSc = r.failSc, u.transportSc = r.transportSc,
         u.internal = r.internal, u.gaveUp = r.gaveUp, u.exit = r.exit
  PROVE  ClientInv(u, l, 0, q) /\ Steady(r, u)
<1>0. /\ Clean(r) /\ ~ r.gaveUp /\ r.exit = NoExit
      /\ r.polls \in Nat /\ r.timeout \in Nat /\ PollInterval \in Nat
  <2>1. Walk(r)
    BY Zenon DEF ClientInv
  <2>2. Clean(r) /\ ~ r.gaveUp /\ r.exit = NoExit
    BY <2>1 DEF Walk
  <2>. QED  BY <2>2, CountsAreNat, GdsAssumption, Zenon
<1>. DEFINE k == u.polls
<1>1. k = r.polls + 1 /\ k \in Nat
  <2>1. r.polls <= PollLimit(r)
    BY PollsBounded DEF ClientInv
  <2>2. PollLimit(r) \in Int
    BY <1>0, GdsAssumption DEF PollLimit
  <2>3. ~ (r.polls > PollLimit(r))
    BY <1>0, <2>1, <2>2
  <2>4. k = r.polls + 1
    BY <2>3, Zenon
  <2>. QED  BY <1>0, <2>4
<1>2. /\ u \in RunType /\ u.pc = 5 /\ u.asked = TRUE /\ u.polls = k
      /\ u.flags = r.flags /\ u.timeout = r.timeout /\ u.appId = r.appId
      /\ u.failSc = r.failSc /\ u.transportSc = r.transportSc
      /\ u.internal = r.internal /\ u.gaveUp = r.gaveUp /\ u.exit = r.exit
  OBVIOUS
<1>. HIDE DEF k
<1>3. Clean(u)
  BY <1>0, <1>2 DEF Clean
<1>4. Walk(u)
  BY <1>0, <1>2, <1>3 DEF Walk, NoExit
<1>5. Certificate(u, q)
  BY <1>2 DEF ClientInv, Certificate, Answers
<1>6. Polling(u, l, 0)
  <2>. DEFINE b == (r.polls - 1) * PollInterval
  <2>1. b \in Int
    BY <1>0
  <2>2. (k - 1) * PollInterval = b + PollInterval /\ (k - 2) * PollInterval = b
    BY <1>0, <1>1, OneMorePoll
  <2>3. /\ l <= r.timeout
        /\ r.polls >= 1 => /\ b < r.timeout
                           /\ l > 0 => b + (PollInterval - 0) <= r.timeout - l
    BY DEF ClientInv, Polling
  <2>4. k >= 2 => (k - 2) * PollInterval < r.timeout
    BY <1>0, <1>1, <2>2, <2>3
  <2>5. k >= 1 /\ (l > 0 => (k - 1) * PollInterval <= r.timeout - l)
    <3>1. CASE r.polls = 0
      <4>1. (k - 1) * PollInterval = 0
        BY <1>0, <1>1, <3>1
      <4>. QED  BY <1>0, <1>1, <2>3, <3>1, <4>1
    <3>2. CASE r.polls >= 1
      BY <1>0, <1>1, <2>1, <2>2, <2>3, <3>2
    <3>. QED  BY <1>0, <3>1, <3>2
  <2>6. ~ (u.pc <= 4)
    BY <1>2
  <2>. HIDE DEF b
  <2>. QED  BY <1>0, <1>2, <2>3, <2>4, <2>5, <2>6, Zenon DEF Polling
<1>7. Steady(r, u)
  BY <1>2 DEF Steady
<1>. QED  BY <1>2, <1>4, <1>5, <1>6, <1>7 DEF ClientInv

(* BadNothingToDo before the deadline: sleep, then poll again.              *)
LEMMA SleepClient ==
  ASSUME NEW r \in RunType, NEW l \in Nat, NEW n \in Nat, NEW q \in States,
         ClientInv(r, l, n, q), r.pc = 5, r.asked, r.answer = "pending", l > 0,
         NEW u, u = [r EXCEPT !.asked = FALSE]
  PROVE  ClientInv(u, l, PollInterval, q) /\ Steady(r, u) /\ u.appId = r.appId
<1>0. /\ Clean(r) /\ ~ r.gaveUp /\ r.exit = NoExit
      /\ r.polls \in Nat /\ r.timeout \in Nat /\ PollInterval \in Nat
  BY GdsAssumption DEF ClientInv, Walk, RunType
<1>2. /\ u \in RunType /\ u.pc = 5 /\ u.asked = FALSE /\ u.polls = r.polls
      /\ u.flags = r.flags /\ u.timeout = r.timeout /\ u.appId = r.appId
      /\ u.failSc = r.failSc /\ u.transportSc = r.transportSc
      /\ u.internal = r.internal /\ u.gaveUp = r.gaveUp /\ u.exit = r.exit
  BY DEF RunType
<1>3. Clean(u)
  BY <1>0, <1>2 DEF Clean
<1>4. Walk(u)
  BY <1>0, <1>2, <1>3 DEF Walk, NoExit
<1>5. Certificate(u, q)
  BY <1>2 DEF ClientInv, Certificate
<1>6. Polling(u, l, PollInterval)
  <2>. DEFINE b == (r.polls - 1) * PollInterval
  <2>1. b \in Int
    BY <1>0
  <2>2. /\ l <= r.timeout /\ r.polls >= 1 /\ b <= r.timeout - l
        /\ r.polls >= 2 => (r.polls - 2) * PollInterval < r.timeout
    BY DEF ClientInv, Polling
  <2>3. b < r.timeout /\ b + (PollInterval - PollInterval) <= r.timeout - l /\ r.polls # 0
    <3>. HIDE DEF b
    <3>. QED  BY <1>0, <2>1, <2>2
  <2>4. ~ (u.pc <= 4)
    BY <1>2
  <2>. QED  BY <1>0, <1>2, <2>2, <2>3, <2>4, Zenon DEF Polling
<1>7. Steady(r, u)
  BY <1>2 DEF Steady
<1>. QED  BY <1>2, <1>4, <1>5, <1>6, <1>7 DEF ClientInv

(* w is the command r with its answer looked at.                            *)
LookedAt(r, w) ==
    /\ w \in RunType /\ w.pc = r.pc /\ w.polls = r.polls /\ w.answer = r.answer
    /\ w.flags = r.flags /\ w.timeout = r.timeout /\ w.appId = r.appId
    /\ w.failSc = r.failSc /\ w.transportSc = r.transportSc
    /\ w.internal = r.internal /\ w.gaveUp = r.gaveUp /\ w.exit = r.exit

LEMMA LookedAtIs ==
  ASSUME NEW r \in RunType
  PROVE  LookedAt(r, [r EXCEPT !.asked = FALSE])
BY DEF LookedAt, RunType

(* BadNothingToDo after the deadline: the request is given up.              *)
LEMMA GiveUpClient ==
  ASSUME NEW r \in RunType, NEW n \in Nat, NEW q \in States,
         ClientInv(r, 0, n, q), r.pc = 5,
         NEW u \in RunType, u.pc = 13, u.gaveUp = TRUE,
         u.flags = r.flags, u.timeout = r.timeout, u.appId = r.appId,
         u.internal = r.internal, u.polls = r.polls, u.exit = r.exit,
         u.failSc = "Bad", u.transportSc = "Good"
  PROVE  ClientInv(u, 0, n, q) /\ Steady(r, u)
<1>0. /\ Clean(r) /\ ~ r.gaveUp /\ r.exit = NoExit
  BY DEF ClientInv, Walk
<1>4. /\ u \in RunType /\ u.pc = 13 /\ u.gaveUp = TRUE
      /\ u.flags = r.flags /\ u.timeout = r.timeout /\ u.appId = r.appId
      /\ u.internal = r.internal /\ u.polls = r.polls /\ u.exit = r.exit
      /\ u.failSc = "Bad" /\ u.transportSc = "Good"
  OBVIOUS
<1>5. ~ Clean(u)
  BY <1>4 DEF Clean
<1>6. Walk(u)
  BY <1>0, <1>4, <1>5 DEF Walk, NoExit, Clean
<1>7. Certificate(u, q)
  BY <1>4, <1>5 DEF Certificate
<1>8. Polling(u, 0, n)
  <2>1. ~ (u.pc <= 4) /\ u.pc # 5
    BY <1>4
  <2>. QED  BY <1>4, <2>1, Zenon DEF Polling, ClientInv
<1>9. Steady(r, u)
  BY <1>4, <1>5 DEF Steady
<1>. QED  BY <1>4, <1>6, <1>7, <1>8, <1>9 DEF ClientInv

(* Any other answer ends the loop.                                          *)
LEMMA FinishedClient ==
  ASSUME NEW r \in RunType, NEW l \in Nat, NEW n \in Nat, NEW q \in States,
         ClientInv(r, l, n, q), r.pc = 5, r.asked,
         NEW u \in RunType,
         u.flags = r.flags, u.timeout = r.timeout, u.appId = r.appId,
         u.polls = r.polls, u.exit = r.exit, u.gaveUp = r.gaveUp,
         \/ u.pc = 6 /\ Clean(u) /\ r.answer = "Good"
         \/ u.pc = 13 /\ ~ Clean(u)
  PROVE  ClientInv(u, 0, n, q) /\ Steady(r, u) /\ ~ u.gaveUp
<1>0. /\ Clean(r) /\ ~ r.gaveUp /\ r.exit = NoExit
  BY DEF ClientInv, Walk
<1>4. /\ u \in RunType
      /\ u.flags = r.flags /\ u.timeout = r.timeout /\ u.appId = r.appId
      /\ u.polls = r.polls /\ u.exit = r.exit /\ u.gaveUp = r.gaveUp
  OBVIOUS
<1>5. \/ u.pc = 6 /\ Clean(u) /\ r.answer = "Good"
      \/ u.pc = 13 /\ ~ Clean(u)
  OBVIOUS
<1>6. Walk(u)
  BY <1>0, <1>4, <1>5 DEF Walk, NoExit
<1>7. Certificate(u, q)
  BY <1>4, <1>5 DEF ClientInv, Certificate
<1>8. Polling(u, 0, n)
  <2>1. ~ (u.pc <= 4) /\ u.pc # 5
    BY <1>5
  <2>. QED  BY <1>0, <1>4, <2>1, Zenon DEF Polling, ClientInv
<1>9. Steady(r, u)
  BY <1>4, <1>5 DEF Steady
<1>. QED  BY <1>0, <1>4, <1>5, <1>6, <1>7, <1>8, <1>9 DEF ClientInv

(* A tick of the clock.                                                     *)
LEMMA TickClient ==
  ASSUME NEW r \in RunType, NEW l \in Nat, NEW n \in Nat, NEW q \in States,
         ClientInv(r, l, n, q),
         NEW l1, l1 = (IF l > 0 THEN l - 1 ELSE 0),
         NEW n1, n1 = (IF n > 0 THEN n - 1 ELSE 0)
  PROVE  ClientInv(r, l1, n1, q) /\ l1 \in Nat /\ n1 \in Nat
<1>0. r.polls \in Nat /\ r.timeout \in Nat /\ PollInterval \in Nat
  BY GdsAssumption DEF RunType
<1>1. /\ l1 \in Nat /\ n1 \in Nat /\ l1 <= l /\ (n = 0 => n1 = 0) /\ (l = 0 => l1 = 0)
      /\ l1 > 0 => l > 0 /\ l1 = l - 1 /\ n1 >= n - 1
  OBVIOUS
<1>2. Polling(r, l1, n1)
  <2>. DEFINE b == (r.polls - 1) * PollInterval
  <2>1. b \in Int
    BY <1>0
  <2>2. l <= r.timeout => l1 <= r.timeout
    BY <1>0, <1>1
  <2>3. /\ (l > 0 => b <= r.timeout - l) => (l1 > 0 => b <= r.timeout - l1)
        /\ (l > 0 => b + (PollInterval - n) <= r.timeout - l)
             => (l1 > 0 => b + (PollInterval - n1) <= r.timeout - l1)
    <3>. HIDE DEF b
    <3>. QED  BY <1>0, <1>1, <2>1
  <2>. QED  BY <1>1, <2>2, <2>3, Zenon DEF ClientInv, Polling
<1>. QED  BY <1>1, <1>2 DEF ClientInv

-----------------------------------------------------------------------------
LEMMA FreshIds ==
  /\ \A c, d \in Clients : FreshId(c) = FreshId(d) => c = d
  /\ \A c \in Clients : FreshId(c) # NoId
BY DEF FreshId, NoId

(* The id a command brings into the registry with a step to u.              *)
NewId(c, u) == IF run[c].pc <= 3 /\ u.pc > 3 THEN {FreshId(c)} ELSE {}

(* A step of one command keeps the registry ...                             *)
LEMMA RegistryKept ==
  ASSUME IInv, NEW c \in Clients, NEW u, run' = [run EXCEPT ![c] = u],
         Steady(run[c], u),
         records' \subseteq records \cup NewId(c, u),
         u.appId \in {run[c].appId, NoId} \cup records \cup NewId(c, u),
         u.pc = 13 /\ Clean(u) /\ "unregister" \in u.flags => u.appId \notin records'
  PROVE  Registry'
<1>1. /\ run \in [Clients -> RunType] /\ u \in RunType
      /\ u.pc \in Int /\ u.pc >= run[c].pc /\ run[c].pc \in Int
  BY DEF IInv, TypeOK, Steady, RunType
<1>2. ASSUME NEW d \in Clients, run'[d].pc <= 3
      PROVE  /\ FreshId(d) \notin records'
             /\ \A e \in Clients : run'[e].appId # FreshId(d)
  <2>1. run[d].pc <= 3 /\ FreshId(d) \notin NewId(c, u)
    <3>1. CASE d = c
      BY <1>1, <1>2, <3>1 DEF NewId
    <3>2. CASE d # c
      BY <1>1, <1>2, <3>2, FreshIds DEF NewId
    <3>. QED  BY <3>1, <3>2
  <2>2. FreshId(d) \notin records /\ \A e \in Clients : run[e].appId # FreshId(d)
    BY <2>1 DEF IInv, Registry
  <2>3. u.appId # FreshId(d)
    BY <2>1, <2>2, FreshIds
  <2>. QED  BY <1>1, <2>1, <2>2, <2>3
<1>3. ASSUME NEW d \in Clients, run'[d].pc = 13, Clean(run'[d]),
             "unregister" \in run'[d].flags
      PROVE  run'[d].appId \notin records'
  <2>1. CASE d = c
    BY <1>1, <1>3, <2>1
  <2>2. CASE d # c
    <3>1. run'[d] = run[d]
      BY <1>1, <2>2
    <3>2. run[d].appId \notin records
      BY <1>3, <3>1 DEF IInv, Registry
    <3>3. run[d].appId \notin NewId(c, u)
      BY DEF NewId, IInv, Registry
    <3>. QED  BY <3>1, <3>2, <3>3
  <2>. QED  BY <2>1, <2>2
<1>. QED  BY <1>2, <1>3 DEF Registry

(* ... and, with what it does to its clock and its request, the invariant.  *)
LEMMA Lift ==
  ASSUME IInv, NEW c \in Clients, NEW u, run' = [run EXCEPT ![c] = u],
         NEW l \in Nat, left' = [left EXCEPT ![c] = l],
         NEW n \in Nat, nap' = [nap EXCEPT ![c] = n],
         NEW q \in States, requests' = [requests EXCEPT ![c] = q],
         ClientInv(u, l, n, q), Steady(run[c], u),
         records' \subseteq records \cup NewId(c, u),
         u.appId \in {run[c].appId, NoId} \cup records \cup NewId(c, u),
         u.pc = 13 /\ Clean(u) /\ "unregister" \in u.flags => u.appId \notin records'
  PROVE  IInv'
<1>1. Registry'
  BY RegistryKept
<1>2. /\ run \in [Clients -> RunType] /\ left \in [Clients -> Nat]
      /\ nap \in [Clients -> Nat] /\ requests \in [Clients -> States]
      /\ u \in RunType
  BY DEF IInv, TypeOK, Steady
<1>3. TypeOK'
  <2>1. records' \subseteq {FreshId(d) : d \in Clients}
    BY DEF IInv, TypeOK, NewId
  <2>2. /\ run' \in [Clients -> RunType] /\ left' \in [Clients -> Nat]
        /\ nap' \in [Clients -> Nat] /\ requests' \in [Clients -> States]
    BY <1>2
  <2>. QED  BY <2>1, <2>2 DEF TypeOK
<1>4. ASSUME NEW d \in Clients
      PROVE  ClientInv(run[d], left[d], nap[d], requests[d])'
  <2>1. CASE d = c
    <3>1. run'[d] = u /\ left'[d] = l /\ nap'[d] = n /\ requests'[d] = q
      BY <1>2, <2>1
    <3>. QED  BY <3>1
  <2>2. CASE d # c
    <3>1. /\ run'[d] = run[d] /\ left'[d] = left[d] /\ nap'[d] = nap[d]
          /\ requests'[d] = requests[d]
      BY <1>2, <2>2
    <3>2. ClientInv(run[d], left[d], nap[d], requests[d])
      BY DEF IInv
    <3>. QED  BY <3>1, <3>2
  <2>. QED  BY <2>1, <2>2
<1>. QED  BY <1>1, <1>3, <1>4 DEF IInv

(* What the invariant says of one command.                                  *)
LEMMA OfClient ==
  ASSUME IInv, NEW c \in Clients
  PROVE  /\ run[c] \in RunType /\ left[c] \in Nat /\ nap[c] \in Nat
         /\ requests[c] \in States
         /\ ClientInv(run[c], left[c], nap[c], requests[c])
         /\ left = [left EXCEPT ![c] = left[c]] /\ nap = [nap EXCEPT ![c] = nap[c]]
         /\ requests = [requests EXCEPT ![c] = requests[c]]
BY DEF IInv, TypeOK

(* The step a command is at.                                                *)
LEMMA At ==
  ASSUME IInv, NEW c \in Clients
  PROVE  /\ run[c].pc \in 0 .. 13
         /\ StepOf(c) = "namespace" => run[c].pc = 1
         /\ StepOf(c) \in {"groups", "getTrustList", "readList", "status", "check"}
              => run[c].pc \in {6, 7, 8, 9, 11}
         /\ StepOf(c) = "find" => run[c].pc = 2
         /\ StepOf(c) = "register" => run[c].pc = 3
         /\ StepOf(c) = "start" => run[c].pc = 4
         /\ StepOf(c) = "finish" => run[c].pc = 5
         /\ StepOf(c) = "revoke" => run[c].pc = 10
         /\ StepOf(c) = "unregister" => run[c].pc = 12
<1>1. run[c].pc \in 0 .. 13
  BY DEF IInv, TypeOK, RunType
<1>2. StepOf(c) = IF run[c].pc \in 1 .. 12 THEN Steps[run[c].pc] ELSE "none"
  BY StepsAt, Zenon DEF StepOf
<1>. QED  BY <1>1, <1>2, StepsAt, Positions

-----------------------------------------------------------------------------
LEMMA InitInv == Init => IInv
<1>. SUFFICES ASSUME Init PROVE IInv
  OBVIOUS
<1>1. ASSUME NEW c \in Clients
      PROVE  \E f \in FlagSets, t \in FinishTimeouts :
               run[c] = [flags |-> f, timeout |-> t, pc |-> 0, appId |-> NoId,
                         found |-> FALSE, failSc |-> "Good", transportSc |-> "Good",
                         internal |-> FALSE, asked |-> FALSE, answer |-> "none",
                         polls |-> 0, gaveUp |-> FALSE, exit |-> NoExit]
  BY DEF Init
<1>2. ASSUME NEW c \in Clients
      PROVE  /\ run[c] \in RunType
             /\ run[c].pc = 0 /\ run[c].appId = NoId /\ Clean(run[c])
             /\ ~ run[c].asked /\ run[c].polls = 0 /\ ~ run[c].gaveUp
             /\ run[c].exit = NoExit
  <2>1. PICK f \in FlagSets, t \in FinishTimeouts :
               run[c] = [flags |-> f, timeout |-> t, pc |-> 0, appId |-> NoId,
                         found |-> FALSE, failSc |-> "Good", transportSc |-> "Good",
                         internal |-> FALSE, asked |-> FALSE, answer |-> "none",
                         polls |-> 0, gaveUp |-> FALSE, exit |-> NoExit]
    BY <1>1
  <2>2. FALSE \in BOOLEAN /\ 0 \in 0 .. 13 /\ "Good" \in Answers
    BY DEF Answers
  <2>. QED  BY <2>1, <2>2 DEF RunType, Clean
<1>3. TypeOK
  <2>1. run \in [Clients -> RunType]
    <3>1. run = [c \in Clients |-> run[c]]
      BY DEF Init
    <3>. QED  BY <1>2, <3>1
  <2>. QED  BY <2>1 DEF Init, TypeOK, States
<1>4. ASSUME NEW c \in Clients
      PROVE  ClientInv(run[c], left[c], nap[c], requests[c])
  <2>1. left[c] = 0 /\ nap[c] = 0 /\ requests[c] = "none"
    BY DEF Init
  <2>2. Walk(run[c])
    BY <1>2 DEF Walk, NoExit
  <2>3. Certificate(run[c], requests[c])
    BY <1>2, <2>1 DEF Certificate
  <2>4. Polling(run[c], left[c], nap[c])
    BY <1>2, <2>1 DEF Polling
  <2>. QED  BY <2>2, <2>3, <2>4 DEF ClientInv
<1>5. Registry
  BY <1>2, FreshIds DEF Registry, Init
<1>. QED  BY <1>3, <1>4, <1>5 DEF IInv

(* A step that concerns the command alone.                                  *)
LEMMA Alone ==
  ASSUME IInv, NEW c \in Clients, NEW u, run' = [run EXCEPT ![c] = u],
         NEW l \in Nat, left' = [left EXCEPT ![c] = l],
         NEW n \in Nat, nap' = [nap EXCEPT ![c] = n],
         NEW q \in States, requests' = [requests EXCEPT ![c] = q],
         records' = records,
         ClientInv(u, l, n, q), Steady(run[c], u), u.appId = run[c].appId,
         run[c].pc < 12 \/ (run[c].pc = 13 /\ (Clean(u) => Clean(run[c])))
  PROVE  IInv'
<1>1. run[c].pc \in Int
  BY OfClient DEF RunType
<1>2. u.pc = 13 /\ Clean(u) /\ "unregister" \in u.flags => u.appId \notin records'
  <2>1. CASE run[c].pc < 12
    BY <1>1, <2>1 DEF Steady
  <2>2. CASE run[c].pc = 13 /\ (Clean(u) => Clean(run[c]))
    BY <2>2 DEF Steady, IInv, Registry
  <2>. QED  BY <2>1, <2>2
<1>3. records' \subseteq records \cup NewId(c, u)
  OBVIOUS
<1>4. u.appId \in {run[c].appId, NoId} \cup records \cup NewId(c, u)
  OBVIOUS
<1>. QED  BY <1>2, <1>3, <1>4, Lift

LEMMA AloneQuietly ==
  ASSUME IInv, NEW c \in Clients, NEW u, run' = [run EXCEPT ![c] = u],
         UNCHANGED <<left, nap, gds>>,
         ClientInv(u, left[c], nap[c], requests[c]), Steady(run[c], u),
         u.appId = run[c].appId,
         run[c].pc < 12 \/ (run[c].pc = 13 /\ (Clean(u) => Clean(run[c])))
  PROVE  IInv'
<1>1. PICK l : l = left[c]
  OBVIOUS
<1>2. PICK n : n = nap[c]
  OBVIOUS
<1>3. PICK q : q = requests[c]
  OBVIOUS
<1>4. /\ l \in Nat /\ n \in Nat /\ q \in States
      /\ left' = [left EXCEPT ![c] = l] /\ nap' = [nap EXCEPT ![c] = n]
      /\ requests' = [requests EXCEPT ![c] = q] /\ records' = records
  BY <1>1, <1>2, <1>3, OfClient DEF gds
<1>5. ClientInv(u, l, n, q)
  BY <1>1, <1>2, <1>3
<1>. QED  BY <1>4, <1>5, Alone

LEMMA RefuseKeeps ==
  ASSUME IInv, NEW c \in Clients, Refuse(c) PROVE IInv'
<1>1. PICK code \in {2, 3, 6, 7} : run' = [run EXCEPT ![c].exit = code]
  BY DEF Refuse
<1>2. PICK u : u = [run[c] EXCEPT !.exit = code]
  OBVIOUS
<1>3. run' = [run EXCEPT ![c] = u]
  BY <1>1, <1>2
<1>4. run[c].pc = 0 /\ ~ run[c].gaveUp
  BY OfClient DEF Refuse, ClientInv, Walk
<1>5. ClientInv(u, left[c], nap[c], requests[c]) /\ Steady(run[c], u) /\ u.appId = run[c].appId
  BY <1>2, <1>4, OfClient, ExitClient
<1>6. UNCHANGED <<left, nap, gds>> /\ run[c].pc < 12
  BY <1>4 DEF Refuse
<1>. QED  BY <1>3, <1>5, <1>6, AloneQuietly

LEMMA ConnectKeeps ==
  ASSUME IInv, NEW c \in Clients, Connect(c) PROVE IInv'
<1>1. PICK u : u = Proceed(run[c])
  OBVIOUS
<1>2. run' = [run EXCEPT ![c] = u] /\ run[c].pc = 0 /\ run[c].exit = NoExit
  BY <1>1 DEF Connect
<1>3. ClientInv(u, left[c], nap[c], requests[c]) /\ Steady(run[c], u) /\ u.appId = run[c].appId
  BY <1>1, <1>2, OfClient, ConnectClient
<1>4. UNCHANGED <<left, nap, gds>> /\ run[c].pc < 12
  BY <1>2 DEF Connect
<1>. QED  BY <1>2, <1>3, <1>4, AloneQuietly

LEMMA AskKeeps ==
  ASSUME IInv, NEW c \in Clients, Ask(c) PROVE IInv'
<1>1. PICK sc \in Answers : run' = [run EXCEPT ![c] = After(@, sc)]
  BY DEF Ask
<1>2. PICK u : u = After(run[c], sc)
  OBVIOUS
<1>3. run' = [run EXCEPT ![c] = u]
  BY <1>1, <1>2
<1>4. run[c].pc \in {6, 7, 8, 9, 11}
  BY At DEF Ask
<1>5. ClientInv(u, left[c], nap[c], requests[c]) /\ Steady(run[c], u) /\ u.appId = run[c].appId
  BY <1>2, <1>4, OfClient, AfterKeeps
<1>6. UNCHANGED <<left, nap, gds>> /\ run[c].pc < 12
  BY <1>4 DEF Ask
<1>. QED  BY <1>3, <1>5, <1>6, AloneQuietly

LEMMA InternalKeeps ==
  ASSUME IInv, NEW c \in Clients, RecordFails(c) \/ CsrFails(c) PROVE IInv'
<1>1. PICK u : u = [run[c] EXCEPT !.pc = 13, !.internal = TRUE]
  OBVIOUS
<1>2. run' = [run EXCEPT ![c] = u] /\ UNCHANGED <<left, nap, gds>>
  BY <1>1, StepsAt DEF RecordFails, CsrFails, Internal
<1>3. run[c].pc \in {3, 4}
  BY At DEF RecordFails, CsrFails
<1>4. ClientInv(u, left[c], nap[c], requests[c]) /\ Steady(run[c], u) /\ u.appId = run[c].appId
  <2>1. /\ run[c] \in RunType /\ left[c] \in Nat /\ nap[c] \in Nat
        /\ requests[c] \in States
        /\ ClientInv(run[c], left[c], nap[c], requests[c])
    BY OfClient
  <2>2. u \in RunType
    <3>1. 13 \in 0 .. 13 /\ TRUE \in BOOLEAN
      OBVIOUS
    <3>. QED  BY <1>1, <2>1, <3>1 DEF RunType
  <2>3. /\ u.pc = 13 /\ u.internal = TRUE
        /\ u.flags = run[c].flags /\ u.timeout = run[c].timeout
        /\ u.appId = run[c].appId /\ u.polls = run[c].polls
        /\ u.gaveUp = run[c].gaveUp /\ u.exit = run[c].exit
    BY <1>1, <2>1 DEF RunType
  <2>. HIDE <1>1
  <2>. QED  BY <1>3, <2>1, <2>2, <2>3, InternalClient
<1>5. run[c].pc < 12
  BY <1>3
<1>. QED  BY <1>2, <1>4, <1>5, AloneQuietly

LEMMA VerdictIs ==
  ASSUME NEW r PROVE Verdict(r) \in {0, 2, 3, 4, 6, 7}
BY DEF Verdict, ExitCode

LEMMA ReportKeeps ==
  ASSUME IInv, NEW c \in Clients, Report(c) \/ OutOfMemory(c) PROVE IInv'
<1>1. PICK code \in {Verdict(run[c]), 6} : run' = [run EXCEPT ![c].exit = code]
  BY DEF Report, OutOfMemory
<1>2. PICK u : u = [run[c] EXCEPT !.exit = code]
  OBVIOUS
<1>3. run' = [run EXCEPT ![c] = u] /\ run[c].pc = 13
  BY <1>1, <1>2, StepsAt DEF Report, OutOfMemory
<1>4. ClientInv(u, left[c], nap[c], requests[c]) /\ Steady(run[c], u) /\ u.appId = run[c].appId
  <2>1. code \in {0, 2, 3, 4, 6, 7}
    BY VerdictIs
  <2>. QED  BY <1>2, <1>3, <2>1, OfClient, ExitClient
<1>5. Clean(u) => Clean(run[c])
  BY <1>2, OfClient DEF Clean, RunType
<1>6. UNCHANGED <<left, nap, gds>>
  BY DEF Report, OutOfMemory
<1>. QED  BY <1>3, <1>4, <1>5, <1>6, AloneQuietly

LEMMA NamespaceKeeps ==
  ASSUME IInv, NEW c \in Clients, Namespace(c) PROVE IInv'
<1>1. PICK sc \in Answers :
        run' = [run EXCEPT ![c] =
                  IF sc = "Good" THEN After(run[c], sc)
                  ELSE [After(run[c], sc) EXCEPT !.exit = Verdict(After(run[c], sc))]]
  BY DEF Namespace
<1>2. PICK w : w = After(run[c], sc)
  OBVIOUS
<1>3. PICK u : u = IF sc = "Good" THEN w ELSE [w EXCEPT !.exit = Verdict(w)]
  OBVIOUS
<1>4. run' = [run EXCEPT ![c] = u]
  BY <1>1, <1>2, <1>3, Zenon
<1>5. run[c].pc = 1 /\ run[c].pc < 12 /\ UNCHANGED <<left, nap, gds>>
  BY At DEF Namespace
<1>6. /\ run[c] \in RunType /\ left[c] \in Nat /\ nap[c] \in Nat
      /\ requests[c] \in States
      /\ ClientInv(run[c], left[c], nap[c], requests[c])
  BY OfClient
<1>7. /\ ClientInv(w, left[c], nap[c], requests[c]) /\ Steady(run[c], w)
      /\ w.appId = run[c].appId
  BY <1>2, <1>5, <1>6, AfterKeeps
<1>8. CASE sc = "Good"
  <2>1. u = w
    BY <1>3, <1>8
  <2>. QED  BY <1>4, <1>5, <1>7, <2>1, AloneQuietly
<1>9. CASE sc # "Good"
  <2>1. u = [w EXCEPT !.exit = Verdict(w)]
    BY <1>3, <1>9
  <2>2. w = Stopped(run[c], sc)
    BY <1>2, <1>9 DEF After
  <2>3. w \in RunType /\ w.pc = 13 /\ ~ Clean(w)
    BY <1>6, <1>9, <2>2, Halt
  <2>. HIDE <1>2, <2>2
  <2>4. ClientInv(u, left[c], nap[c], requests[c]) /\ Steady(w, u) /\ u.appId = w.appId
    <3>1. PICK code \in {0, 2, 3, 4, 6, 7} : code = Verdict(w)
      BY VerdictIs
    <3>2. u = [w EXCEPT !.exit = code]
      BY <2>1, <3>1
    <3>. QED  BY <1>6, <1>7, <2>3, <3>1, <3>2, ExitClient
  <2>5. Steady(run[c], u)
    <3>1. ~ Clean(u)
      BY <2>1, <2>3 DEF Clean, RunType
    <3>2. u \in RunType /\ u.pc = 13 /\ u.flags = run[c].flags
      BY <1>7, <2>1, <2>3, <2>4 DEF Steady, RunType
    <3>. QED  BY <1>5, <3>1, <3>2 DEF Steady
  <2>. QED  BY <1>4, <1>5, <1>7, <2>4, <2>5, AloneQuietly
<1>. QED  BY <1>8, <1>9

(* The ApplicationId plays no part in what is said of one command.          *)
LEMMA SameButId ==
  ASSUME NEW r, NEW w, NEW l, NEW n, NEW q, ClientInv(r, l, n, q),
         w.pc = r.pc, w.flags = r.flags, w.timeout = r.timeout,
         w.failSc = r.failSc, w.transportSc = r.transportSc,
         w.internal = r.internal, w.asked = r.asked, w.answer = r.answer,
         w.polls = r.polls, w.gaveUp = r.gaveUp, w.exit = r.exit
  PROVE  ClientInv(w, l, n, q)
<1>1. Clean(w) <=> Clean(r)
  BY DEF Clean
<1>2. Walk(w)
  BY <1>1, Zenon DEF ClientInv, Walk
<1>3. Certificate(w, q)
  BY <1>1, Zenon DEF ClientInv, Certificate
<1>4. Polling(w, l, n)
  BY Zenon DEF ClientInv, Polling
<1>. QED  BY <1>2, <1>3, <1>4 DEF ClientInv

LEMMA FindKeeps ==
  ASSUME IInv, NEW c \in Clients, Find(c) PROVE IInv'
<1>1. PICK sc \in Answers, hit \in BOOLEAN, i \in records \cup {NoId} :
        run' = [run EXCEPT ![c] =
                  After([run[c] EXCEPT !.appId = i, !.found = hit], sc)]
  BY DEF Find
<1>3. PICK w : w = [run[c] EXCEPT !.appId = i, !.found = hit]
  OBVIOUS
<1>4. PICK u : u = After(w, sc)
  OBVIOUS
<1>5. run' = [run EXCEPT ![c] = u]
  BY <1>1, <1>3, <1>4
<1>6. run[c].pc = 2 /\ UNCHANGED <<left, nap, gds>>
  BY At DEF Find
<1>7. i \in records \cup {NoId} /\ i \in {NoId} \cup {FreshId(d) : d \in Clients}
  BY <1>1 DEF IInv, TypeOK
<1>8. /\ w \in RunType /\ w.appId = i /\ w.pc = 2
      /\ ClientInv(w, left[c], nap[c], requests[c])
      /\ w.flags = run[c].flags
  <2>1. /\ run[c] \in RunType /\ ClientInv(run[c], left[c], nap[c], requests[c])
    BY OfClient
  <2>2. /\ w \in RunType /\ w.appId = i /\ w.pc = run[c].pc
        /\ w.flags = run[c].flags /\ w.timeout = run[c].timeout
        /\ w.failSc = run[c].failSc /\ w.transportSc = run[c].transportSc
        /\ w.internal = run[c].internal /\ w.asked = run[c].asked
        /\ w.answer = run[c].answer /\ w.polls = run[c].polls
        /\ w.gaveUp = run[c].gaveUp /\ w.exit = run[c].exit
    BY <1>3, <1>7, <2>1 DEF RunType
  <2>3. ClientInv(w, left[c], nap[c], requests[c])
    BY <2>1, <2>2, SameButId
  <2>. QED  BY <1>6, <2>2, <2>3
<1>9. /\ ClientInv(u, left[c], nap[c], requests[c]) /\ Steady(w, u) /\ u.appId = i
      /\ u.pc \in 3 .. 13
  <2>1. left[c] \in Nat /\ nap[c] \in Nat /\ requests[c] \in States
    BY OfClient
  <2>2. w.pc \in {1, 2, 3, 6, 7, 8, 9, 11, 12}
    BY <1>8
  <2>3. /\ ClientInv(u, left[c], nap[c], requests[c]) /\ Steady(w, u)
        /\ u.appId = w.appId /\ u.pc \in w.pc + 1 .. 13
    BY <1>4, <1>8, <2>1, <2>2, AfterKeeps
  <2>. QED  BY <1>8, <2>3
<1>10. /\ Steady(run[c], u)
       /\ u.pc = 13 /\ Clean(u) /\ "unregister" \in u.flags => u.appId \notin records'
  BY <1>6, <1>8, <1>9 DEF Steady
<1>11. /\ records' \subseteq records \cup NewId(c, u)
       /\ u.appId \in {run[c].appId, NoId} \cup records \cup NewId(c, u)
  BY <1>6, <1>7, <1>9 DEF gds
<1>12. /\ left' = [left EXCEPT ![c] = left[c]] /\ nap' = [nap EXCEPT ![c] = nap[c]]
       /\ requests' = [requests EXCEPT ![c] = requests[c]]
       /\ left[c] \in Nat /\ nap[c] \in Nat /\ requests[c] \in States
  BY <1>6, OfClient DEF gds
<1>. QED  BY <1>5, <1>9, <1>10, <1>11, <1>12, Lift, Zenon

LEMMA RegisterKeeps ==
  ASSUME IInv, NEW c \in Clients, Register(c) PROVE IInv'
<1>0. PICK sc \in Answers : \E executed \in Executed(sc) :
        /\ records' = IF executed THEN records \cup {FreshId(c)} ELSE records
        /\ \E id \in {FreshId(c), NoId} :
              run' = [run EXCEPT ![c] = After([run[c] EXCEPT !.appId = id], sc)]
  BY DEF Register
<1>1. PICK executed \in Executed(sc) :
        /\ records' = IF executed THEN records \cup {FreshId(c)} ELSE records
        /\ \E id \in {FreshId(c), NoId} :
              run' = [run EXCEPT ![c] = After([run[c] EXCEPT !.appId = id], sc)]
  BY <1>0
<1>2. PICK i \in {FreshId(c), NoId} :
        run' = [run EXCEPT ![c] = After([run[c] EXCEPT !.appId = i], sc)]
  BY <1>1
<1>3. PICK w : w = [run[c] EXCEPT !.appId = i]
  OBVIOUS
<1>4. PICK u : u = After(w, sc)
  OBVIOUS
<1>5. run' = [run EXCEPT ![c] = u]
  BY <1>2, <1>3, <1>4
<1>6. run[c].pc = 3 /\ UNCHANGED <<left, nap, requests>>
  BY At DEF Register
<1>7. i \in {FreshId(c), NoId} /\ i \in {NoId} \cup {FreshId(d) : d \in Clients}
  BY <1>2
<1>8. /\ w \in RunType /\ w.appId = i /\ w.pc = 3
      /\ ClientInv(w, left[c], nap[c], requests[c])
      /\ w.flags = run[c].flags
  <2>1. /\ run[c] \in RunType /\ ClientInv(run[c], left[c], nap[c], requests[c])
    BY OfClient
  <2>2. /\ w \in RunType /\ w.appId = i /\ w.pc = run[c].pc
        /\ w.flags = run[c].flags /\ w.timeout = run[c].timeout
        /\ w.failSc = run[c].failSc /\ w.transportSc = run[c].transportSc
        /\ w.internal = run[c].internal /\ w.asked = run[c].asked
        /\ w.answer = run[c].answer /\ w.polls = run[c].polls
        /\ w.gaveUp = run[c].gaveUp /\ w.exit = run[c].exit
    BY <1>3, <1>7, <2>1 DEF RunType
  <2>3. ClientInv(w, left[c], nap[c], requests[c])
    BY <2>1, <2>2, SameButId
  <2>. QED  BY <1>6, <2>2, <2>3
<1>9. /\ ClientInv(u, left[c], nap[c], requests[c]) /\ Steady(w, u) /\ u.appId = i
      /\ u.pc \in 4 .. 13
  <2>1. left[c] \in Nat /\ nap[c] \in Nat /\ requests[c] \in States
    BY OfClient
  <2>2. w.pc \in {1, 2, 3, 6, 7, 8, 9, 11, 12}
    BY <1>8
  <2>3. /\ ClientInv(u, left[c], nap[c], requests[c]) /\ Steady(w, u)
        /\ u.appId = w.appId /\ u.pc \in w.pc + 1 .. 13
    BY <1>4, <1>8, <2>1, <2>2, AfterKeeps
  <2>. QED  BY <1>8, <2>3
<1>10. /\ Steady(run[c], u)
       /\ u.pc = 13 /\ Clean(u) /\ "unregister" \in u.flags => u.appId \notin records'
  BY <1>6, <1>8, <1>9 DEF Steady
<1>11. /\ records' \subseteq records \cup NewId(c, u)
       /\ u.appId \in {run[c].appId, NoId} \cup records \cup NewId(c, u)
  <2>1. NewId(c, u) = {FreshId(c)}
    BY <1>6, <1>9 DEF NewId
  <2>2. records' \subseteq records \cup {FreshId(c)}
    BY <1>1, Zenon
  <2>. QED  BY <1>7, <1>9, <2>1, <2>2
<1>12. /\ left' = [left EXCEPT ![c] = left[c]] /\ nap' = [nap EXCEPT ![c] = nap[c]]
       /\ requests' = [requests EXCEPT ![c] = requests[c]]
       /\ left[c] \in Nat /\ nap[c] \in Nat /\ requests[c] \in States
  BY <1>6, OfClient
<1>. QED  BY <1>5, <1>9, <1>10, <1>11, <1>12, Lift, Zenon

LEMMA UnregisterKeeps ==
  ASSUME IInv, NEW c \in Clients, Unregister(c) PROVE IInv'
<1>0. PICK sc \in Answers : \E executed \in Executed(sc) :
        /\ records' = IF executed THEN records \ {run[c].appId} ELSE records
        /\ run' = [run EXCEPT ![c] = After(@, sc)]
  BY DEF Unregister
<1>1. PICK executed \in Executed(sc) :
        /\ records' = IF executed THEN records \ {run[c].appId} ELSE records
        /\ run' = [run EXCEPT ![c] = After(@, sc)]
  BY <1>0
<1>2. PICK u : u = After(run[c], sc)
  OBVIOUS
<1>3. run' = [run EXCEPT ![c] = u]
  BY <1>1, <1>2
<1>4. run[c].pc = 12 /\ UNCHANGED <<left, nap, requests>>
  BY At DEF Unregister
<1>5. /\ ClientInv(u, left[c], nap[c], requests[c]) /\ Steady(run[c], u)
      /\ u.appId = run[c].appId
      /\ u.pc = 13 /\ Clean(u) => sc = "Good"
  BY <1>2, <1>4, OfClient, AfterKeeps
<1>6. /\ records' \subseteq records
      /\ sc = "Good" => run[c].appId \notin records'
  <2>1. CASE executed
    BY <1>1, <2>1
  <2>2. CASE ~ executed
    BY <1>1, <2>2 DEF Executed
  <2>. QED  BY <2>1, <2>2
<1>7. /\ records' \subseteq records \cup NewId(c, u)
      /\ u.appId \in {run[c].appId, NoId} \cup records \cup NewId(c, u)
      /\ u.pc = 13 /\ Clean(u) /\ "unregister" \in u.flags => u.appId \notin records'
  BY <1>5, <1>6
<1>8. /\ left' = [left EXCEPT ![c] = left[c]] /\ nap' = [nap EXCEPT ![c] = nap[c]]
      /\ requests' = [requests EXCEPT ![c] = requests[c]]
      /\ left[c] \in Nat /\ nap[c] \in Nat /\ requests[c] \in States
  BY <1>4, OfClient
<1>. QED  BY <1>3, <1>5, <1>7, <1>8, Lift, Zenon

LEMMA StartKeeps ==
  ASSUME IInv, NEW c \in Clients, Start(c) PROVE IInv'
<1>0. PICK sc \in Answers : \E executed \in Executed(sc) :
        /\ requests' = [requests EXCEPT ![c] = IF executed THEN "pending" ELSE @]
        /\ run' = [run EXCEPT ![c] = After(@, sc)]
        /\ left' = [left EXCEPT ![c] = IF sc = "Good" THEN run[c].timeout ELSE 0]
  BY DEF Start
<1>1. PICK executed \in Executed(sc) :
        /\ requests' = [requests EXCEPT ![c] = IF executed THEN "pending" ELSE @]
        /\ run' = [run EXCEPT ![c] = After(@, sc)]
        /\ left' = [left EXCEPT ![c] = IF sc = "Good" THEN run[c].timeout ELSE 0]
  BY <1>0
<1>2. PICK u : u = After(run[c], sc)
  OBVIOUS
<1>3. PICK q : q = IF executed THEN "pending" ELSE requests[c]
  OBVIOUS
<1>4. PICK l : l = IF sc = "Good" THEN run[c].timeout ELSE 0
  OBVIOUS
<1>5. /\ run' = [run EXCEPT ![c] = u] /\ left' = [left EXCEPT ![c] = l]
      /\ requests' = [requests EXCEPT ![c] = q]
  BY <1>1, <1>2, <1>3, <1>4
<1>6. run[c].pc = 4 /\ nap' = nap /\ records' = records
  BY At DEF Start
<1>7. ClientInv(u, l, nap[c], q) /\ Steady(run[c], u) /\ u.appId = run[c].appId
  <2>1. /\ run[c] \in RunType /\ left[c] \in Nat /\ nap[c] \in Nat
        /\ requests[c] \in States
        /\ ClientInv(run[c], left[c], nap[c], requests[c])
    BY OfClient
  <2>2. sc = "Good" => q = "pending" /\ l = run[c].timeout
    BY <1>3, <1>4 DEF Executed
  <2>. QED  BY <1>2, <1>6, <2>1, <2>2, StartClient
<1>8. l \in Nat /\ q \in States /\ nap[c] \in Nat /\ nap' = [nap EXCEPT ![c] = nap[c]]
  <2>1. run[c].timeout \in Nat
    BY OfClient, GdsAssumption DEF RunType
  <2>2. l \in Nat
    BY <1>4, <2>1
  <2>3. q \in States
    BY <1>3, OfClient DEF States
  <2>. QED  BY <1>6, <2>2, <2>3, OfClient
<1>9. run[c].pc < 12
  BY <1>6
<1>. QED  BY <1>5, <1>6, <1>7, <1>8, <1>9, Alone, Zenon

LEMMA RevokeKeeps ==
  ASSUME IInv, NEW c \in Clients, Revoke(c) PROVE IInv'
<1>0. PICK sc \in Answers : \E executed \in Executed(sc) :
        /\ requests' = [requests EXCEPT ![c] = IF executed THEN "revoked" ELSE @]
        /\ run' = [run EXCEPT ![c] = After(@, sc)]
  BY DEF Revoke
<1>1. PICK executed \in Executed(sc) :
        /\ requests' = [requests EXCEPT ![c] = IF executed THEN "revoked" ELSE @]
        /\ run' = [run EXCEPT ![c] = After(@, sc)]
  BY <1>0
<1>2. PICK u : u = After(run[c], sc)
  OBVIOUS
<1>3. PICK q : q = IF executed THEN "revoked" ELSE requests[c]
  OBVIOUS
<1>5. run' = [run EXCEPT ![c] = u] /\ requests' = [requests EXCEPT ![c] = q]
  BY <1>1, <1>2, <1>3
<1>6. run[c].pc = 10 /\ UNCHANGED <<left, nap, records>>
  BY At DEF Revoke
<1>7. ClientInv(u, left[c], nap[c], q) /\ Steady(run[c], u) /\ u.appId = run[c].appId
  <2>1. /\ run[c] \in RunType /\ left[c] \in Nat /\ nap[c] \in Nat
        /\ requests[c] \in States
        /\ ClientInv(run[c], left[c], nap[c], requests[c])
    BY OfClient
  <2>2. sc = "Good" => q = "revoked"
    BY <1>3 DEF Executed
  <2>. QED  BY <1>2, <1>6, <2>1, <2>2, RevokeClient
<1>8. /\ q \in States /\ left[c] \in Nat /\ nap[c] \in Nat
      /\ left' = [left EXCEPT ![c] = left[c]] /\ nap' = [nap EXCEPT ![c] = nap[c]]
  BY <1>3, <1>6, OfClient DEF States
<1>9. run[c].pc < 12 /\ records' = records
  BY <1>6
<1>. QED  BY <1>5, <1>7, <1>8, <1>9, Alone, Zenon

LEMMA FinishAskKeeps ==
  ASSUME IInv, NEW c \in Clients, FinishAsk(c) PROVE IInv'
<1>0. run[c] \in RunType /\ run \in [Clients -> RunType]
  BY DEF IInv, TypeOK
<1>. DEFINE A(sc) == IF sc # "Good" THEN sc
                     ELSE IF run[c].appId \notin records THEN "Bad"
                     ELSE IF requests[c] = "pending" THEN "pending" ELSE "Good"
            k == IF run[c].polls > PollLimit(run[c]) THEN run[c].polls
                 ELSE run[c].polls + 1
<1>1. PICK sc \in Answers :
        run' = [run EXCEPT ![c] =
                  [run[c] EXCEPT !.asked = TRUE, !.polls = k, !.answer = A(sc)]]
  BY DEF FinishAsk
<1>2. /\ A(sc) \in Answers \cup {"none", "pending"} /\ A(sc) # "none"
      /\ A(sc) = "Good" => requests[c] # "pending"
  BY DEF Answers
<1>3. k \in Nat
  BY <1>0 DEF RunType
<1>4. PICK u : u = [run[c] EXCEPT !.asked = TRUE, !.polls = k, !.answer = A(sc)]
  OBVIOUS
<1>5. run' = [run EXCEPT ![c] = u]
  BY <1>1, <1>4
<1>6. /\ run[c].pc = 5 /\ ~ run[c].asked /\ nap[c] = 0 /\ UNCHANGED <<left, nap, gds>>
  BY At DEF FinishAsk
<1>. HIDE DEF A, k
<1>7. u \in RunType
  <2>1. TRUE \in BOOLEAN
    OBVIOUS
  <2>. QED  BY <1>0, <1>2, <1>3, <1>4, <2>1 DEF RunType
<1>8. /\ u.pc = 5 /\ u.asked = TRUE /\ u.answer = A(sc) /\ u.polls = k
      /\ u.flags = run[c].flags /\ u.timeout = run[c].timeout
      /\ u.appId = run[c].appId /\ u.failSc = run[c].failSc
      /\ u.transportSc = run[c].transportSc /\ u.internal = run[c].internal
      /\ u.gaveUp = run[c].gaveUp /\ u.exit = run[c].exit
  BY <1>0, <1>4, <1>6 DEF RunType
<1>9. u.polls = IF run[c].polls > PollLimit(run[c]) THEN run[c].polls
                ELSE run[c].polls + 1
  BY <1>8 DEF k
<1>10. ClientInv(u, left[c], nap[c], requests[c]) /\ Steady(run[c], u)
  <2>1. /\ left[c] \in Nat /\ requests[c] \in States
        /\ ClientInv(run[c], left[c], 0, requests[c])
    BY <1>6, OfClient
  <2>2. u.answer # "none" /\ (u.answer = "Good" => requests[c] # "pending")
    BY <1>2, <1>8
  <2>3. ClientInv(u, left[c], 0, requests[c]) /\ Steady(run[c], u)
    BY <1>0, <1>6, <1>7, <1>8, <1>9, <2>1, <2>2, FinishAskClient
  <2>. QED  BY <1>6, <2>3
<1>11. run[c].pc < 12
  BY <1>6
<1>. QED  BY <1>5, <1>6, <1>8, <1>10, <1>11, AloneQuietly

LEMMA FinishAnswerKeeps ==
  ASSUME IInv, NEW c \in Clients, FinishAnswer(c) PROVE IInv'
<1>1. PICK w : w = [run[c] EXCEPT !.asked = FALSE]
  OBVIOUS
<1>2. /\ run[c] \in RunType /\ left[c] \in Nat /\ nap[c] \in Nat
      /\ requests[c] \in States
      /\ ClientInv(run[c], left[c], nap[c], requests[c])
      /\ run \in [Clients -> RunType] /\ left \in [Clients -> Nat]
      /\ nap \in [Clients -> Nat]
      /\ requests = [requests EXCEPT ![c] = requests[c]]
      /\ nap = [nap EXCEPT ![c] = nap[c]] /\ left = [left EXCEPT ![c] = left[c]]
  BY OfClient DEF IInv, TypeOK
<1>3. run[c].pc = 5 /\ run[c].asked /\ UNCHANGED gds
  BY At DEF FinishAnswer
<1>4. LookedAt(run[c], w)
  BY <1>1, <1>2, LookedAtIs
<1>5. w.answer = run[c].answer /\ w.pc = 5
  BY <1>3, <1>4 DEF LookedAt
<1>6. run[c].answer \in Answers \cup {"pending"}
  BY <1>2, <1>3 DEF ClientInv, Certificate, RunType
<1>7. /\ IF w.answer = "pending" /\ PollsAgain(c)
         THEN /\ run' = [run EXCEPT ![c] = w]
              /\ nap' = [nap EXCEPT ![c] = Sleep]
         ELSE /\ run' = [run EXCEPT ![c] =
                           IF w.answer = "pending"
                           THEN [Stopped(w, "Bad") EXCEPT !.gaveUp = TRUE]
                           ELSE [After(w, w.answer) EXCEPT !.answer = "none"]]
              /\ UNCHANGED nap
      /\ left' = IF run'[c].pc > run[c].pc /\ ~ run'[c].gaveUp
                 THEN [left EXCEPT ![c] = 0] ELSE left
  BY <1>1, Zenon DEF FinishAnswer
<1>8. /\ requests' = [requests EXCEPT ![c] = requests[c]] /\ records' = records
      /\ run[c].pc < 12
  BY <1>2, <1>3 DEF gds
<1>9. CASE run[c].answer = "pending" /\ left[c] > 0
  <2>1. run' = [run EXCEPT ![c] = w] /\ nap' = [nap EXCEPT ![c] = PollInterval]
    BY <1>5, <1>7, <1>9 DEF PollsAgain, Sleep
  <2>2. left' = left
    <3>1. run'[c] = w
      BY <1>2, <2>1
    <3>2. ~ (run'[c].pc > run[c].pc)
      BY <1>3, <1>5, <3>1
    <3>. QED  BY <1>7, <3>2
  <2>3. /\ ClientInv(w, left[c], PollInterval, requests[c])
        /\ Steady(run[c], w) /\ w.appId = run[c].appId
    BY <1>1, <1>2, <1>3, <1>9, SleepClient
  <2>4. PollInterval \in Nat /\ left' = [left EXCEPT ![c] = left[c]]
    BY <1>2, <2>2, GdsAssumption
  <2>. QED  BY <1>2, <1>8, <2>1, <2>3, <2>4, Alone
<1>10. CASE run[c].answer = "pending" /\ ~ (left[c] > 0)
  <2>1. PICK s : s = Stopped(w, "Bad")
    OBVIOUS
  <2>2. PICK u : u = [s EXCEPT !.gaveUp = TRUE]
    OBVIOUS
  <2>3. run' = [run EXCEPT ![c] = u] /\ nap' = nap
    BY <1>5, <1>7, <1>10, <2>1, <2>2 DEF PollsAgain
  <2>4. left[c] = 0
    BY <1>2, <1>10
  <2>5. /\ ClientInv(u, 0, nap[c], requests[c]) /\ Steady(run[c], u)
        /\ u.appId = run[c].appId /\ u.gaveUp = TRUE
    <3>1. ClientInv(run[c], 0, nap[c], requests[c])
      BY <1>2, <2>4
    <3>2. /\ s \in RunType /\ s.pc = 13
          /\ s.flags = w.flags /\ s.timeout = w.timeout /\ s.appId = w.appId
          /\ s.internal = w.internal /\ s.polls = w.polls /\ s.exit = w.exit
          /\ s.failSc = "Bad" /\ s.transportSc = "Good"
      <4>1. "Bad" \in Answers /\ "Bad" # "Good" /\ w \in RunType
        BY <1>4 DEF Answers, LookedAt
      <4>. QED  BY <2>1, <4>1, Halt
    <3>3. u \in RunType
      <4>1. TRUE \in BOOLEAN
        OBVIOUS
      <4>. QED  BY <2>2, <3>2, <4>1 DEF RunType
    <3>4. /\ u.pc = 13 /\ u.gaveUp = TRUE
          /\ u.flags = w.flags /\ u.timeout = w.timeout /\ u.appId = w.appId
          /\ u.internal = w.internal /\ u.polls = w.polls /\ u.exit = w.exit
          /\ u.failSc = "Bad" /\ u.transportSc = "Good"
      BY <2>2, <3>2 DEF RunType
    <3>5. /\ u.flags = run[c].flags /\ u.timeout = run[c].timeout
          /\ u.appId = run[c].appId /\ u.internal = run[c].internal
          /\ u.polls = run[c].polls /\ u.exit = run[c].exit
      BY <1>4, <3>4 DEF LookedAt
    <3>. QED  BY <1>2, <1>3, <3>1, <3>3, <3>4, <3>5, GiveUpClient
  <2>6. left' = [left EXCEPT ![c] = 0]
    <3>1. run'[c] = u
      BY <1>2, <2>3
    <3>2. left' = left
      BY <1>7, <2>5, <3>1
    <3>. QED  BY <1>2, <2>4, <3>2
  <2>7. 0 \in Nat /\ nap' = [nap EXCEPT ![c] = nap[c]]
    BY <1>2, <2>3
  <2>. QED  BY <1>2, <1>8, <2>3, <2>5, <2>6, <2>7, Alone
<1>11. CASE run[c].answer \in Answers
  <2>1. PICK s : s = After(w, run[c].answer)
    OBVIOUS
  <2>2. PICK u : u = [s EXCEPT !.answer = "none"]
    OBVIOUS
  <2>3. run' = [run EXCEPT ![c] = u] /\ nap' = nap
    <3>1. w.answer # "pending"
      BY <1>5, <1>11 DEF Answers
    <3>. QED  BY <1>5, <1>7, <2>1, <2>2, <3>1
  <2>4. /\ s \in RunType
        /\ s.flags = w.flags /\ s.timeout = w.timeout /\ s.appId = w.appId
        /\ s.polls = w.polls /\ s.exit = w.exit /\ s.gaveUp = w.gaveUp
        /\ \/ s.pc = 6 /\ Clean(s) /\ run[c].answer = "Good"
           \/ s.pc = 13 /\ ~ Clean(s)
    <3>0. w \in RunType /\ w.pc = 5 /\ w.pc \in 0 .. 12 /\ Clean(w)
      BY <1>2, <1>3, <1>4 DEF LookedAt, ClientInv, Walk, Clean
    <3>1. CASE run[c].answer = "Good"
      <4>1. s = Proceed(w)
        BY <2>1, <3>1 DEF After
      <4>2. /\ s \in RunType
            /\ s.flags = w.flags /\ s.timeout = w.timeout /\ s.appId = w.appId
            /\ s.failSc = w.failSc /\ s.transportSc = w.transportSc
            /\ s.internal = w.internal /\ s.polls = w.polls /\ s.exit = w.exit
            /\ s.gaveUp = w.gaveUp /\ (w.pc \in {3, 4, 5} => s.pc = w.pc + 1)
        BY <3>0, <4>1, Onward
      <4>3. s.pc = 6 /\ Clean(s)
        BY <3>0, <4>2 DEF Clean
      <4>. QED  BY <3>1, <4>2, <4>3
    <3>2. CASE run[c].answer # "Good"
      <4>1. s = Stopped(w, run[c].answer)
        BY <2>1, <3>2 DEF After
      <4>. QED  BY <1>11, <3>0, <3>2, <4>1, Halt
    <3>. QED  BY <3>1, <3>2
  <2>5. /\ ClientInv(u, 0, nap[c], requests[c]) /\ Steady(run[c], u)
        /\ u.appId = run[c].appId /\ ~ u.gaveUp /\ u.pc > 5
    <3>1. /\ u \in RunType /\ u.pc = s.pc
          /\ u.flags = s.flags /\ u.timeout = s.timeout /\ u.appId = s.appId
          /\ u.polls = s.polls /\ u.exit = s.exit /\ u.gaveUp = s.gaveUp
          /\ u.failSc = s.failSc /\ u.transportSc = s.transportSc
          /\ u.internal = s.internal
      BY <2>2, <2>4 DEF RunType
    <3>2. /\ u.flags = run[c].flags /\ u.timeout = run[c].timeout
          /\ u.appId = run[c].appId /\ u.polls = run[c].polls
          /\ u.exit = run[c].exit /\ u.gaveUp = run[c].gaveUp
      BY <1>4, <2>4, <3>1 DEF LookedAt
    <3>3. \/ u.pc = 6 /\ Clean(u) /\ run[c].answer = "Good"
          \/ u.pc = 13 /\ ~ Clean(u)
      BY <2>4, <3>1 DEF Clean
    <3>4. ClientInv(u, 0, nap[c], requests[c]) /\ Steady(run[c], u) /\ ~ u.gaveUp
      BY <1>2, <1>3, <3>1, <3>2, <3>3, FinishedClient
    <3>. QED  BY <3>2, <3>3, <3>4
  <2>6. left' = [left EXCEPT ![c] = 0]
    <3>1. run'[c] = u
      BY <1>2, <2>3
    <3>. QED  BY <1>3, <1>7, <2>5, <3>1
  <2>7. 0 \in Nat /\ nap' = [nap EXCEPT ![c] = nap[c]]
    BY <1>2, <2>3
  <2>. QED  BY <1>2, <1>8, <2>3, <2>5, <2>6, <2>7, Alone
<1>. QED  BY <1>6, <1>9, <1>10, <1>11

LEMMA IssueKeeps ==
  ASSUME IInv, NEW c \in Clients, Issue(c) PROVE IInv'
<1>1. /\ run' = run /\ left' = left /\ nap' = nap /\ records' = records
      /\ requests[c] = "pending" /\ requests' = [requests EXCEPT ![c] = "issued"]
  BY DEF Issue
<1>2. TypeOK'
  BY <1>1 DEF IInv, TypeOK, States
<1>3. Registry'
  BY <1>1 DEF IInv, Registry
<1>4. ASSUME NEW d \in Clients
      PROVE  ClientInv(run[d], left[d], nap[d], requests[d])'
  <2>1. ClientInv(run[d], left[d], nap[d], requests[d])
    BY DEF IInv
  <2>2. CASE d # c
    <3>1. requests'[d] = requests[d]
      BY <1>1, <2>2 DEF IInv, TypeOK
    <3>. QED  BY <1>1, <2>1, <3>1
  <2>3. CASE d = c
    <3>1. requests'[d] = "issued" /\ requests[d] = "pending"
      BY <1>1, <2>3 DEF IInv, TypeOK
    <3>2. Certificate(run[d], "issued")
      BY <2>1, <3>1 DEF ClientInv, Certificate
    <3>. QED  BY <1>1, <2>1, <3>1, <3>2 DEF ClientInv
  <2>. QED  BY <2>2, <2>3
<1>. QED  BY <1>2, <1>3, <1>4 DEF IInv

LEMMA TickKeeps == IInv /\ Tick => IInv'
<1>. SUFFICES ASSUME IInv, Tick PROVE IInv'
  OBVIOUS
<1>1. /\ run' = run /\ records' = records /\ requests' = requests
      /\ left' = [c \in Clients |-> IF left[c] > 0 THEN left[c] - 1 ELSE 0]
      /\ nap' = [c \in Clients |-> IF nap[c] > 0 THEN nap[c] - 1 ELSE 0]
  BY DEF Tick, gds
<1>2. ASSUME NEW c \in Clients
      PROVE  ClientInv(run[c], left'[c], nap'[c], requests[c])
             /\ left'[c] \in Nat /\ nap'[c] \in Nat
  <2>1. /\ left'[c] = IF left[c] > 0 THEN left[c] - 1 ELSE 0
        /\ nap'[c] = IF nap[c] > 0 THEN nap[c] - 1 ELSE 0
    BY <1>1
  <2>. QED  BY <2>1, OfClient, TickClient
<1>3. TypeOK'
  BY <1>1, <1>2 DEF IInv, TypeOK
<1>4. Registry'
  BY <1>1 DEF IInv, Registry
<1>. QED  BY <1>1, <1>2, <1>3, <1>4 DEF IInv

LEMMA NextInv == IInv /\ [Next]_vars => IInv'
<1>. SUFFICES ASSUME IInv, [Next]_vars PROVE IInv'
  OBVIOUS
<1>1. CASE Tick
  BY <1>1, TickKeeps
<1>2. CASE \E c \in Clients : Command(c) \/ Issue(c)
  BY <1>2, RefuseKeeps, ConnectKeeps, NamespaceKeeps, AskKeeps, FindKeeps, RegisterKeeps,
     InternalKeeps, StartKeeps, FinishAskKeeps, FinishAnswerKeeps, RevokeKeeps,
     UnregisterKeeps, ReportKeeps, IssueKeeps DEF Command
<1>3. CASE UNCHANGED vars
  BY <1>3 DEF vars, gds, IInv, TypeOK, Registry
<1>. QED  BY <1>1, <1>2, <1>3 DEF Next

(* The inductive invariant holds throughout.                                *)
THEOREM PullInvariant == Spec => []IInv
<1>. QED  BY InitInv, NextInv, PTL DEF Spec

-----------------------------------------------------------------------------
(* Every command, clock and request stays in its type, and the GDS holds no *)
(* record but the ones the commands registered.                             *)
THEOREM TypeCorrect == Spec => []TypeOK
<1>1. IInv => TypeOK
  BY DEF IInv
<1>. QED  BY <1>1, PullInvariant, PTL

(* "success is true when every step that ran was Good": whatever the other  *)
(* commands on the ApplicationUri do, a command that exits 0 has had its    *)
(* certificate issued, revoked if asked, and its application unregistered   *)
(* if asked.                                                                *)
THEOREM SuccessMeansDone == Spec => []SuccessIsComplete
<1>1. IInv => SuccessIsComplete
  <2>. SUFFICES ASSUME IInv, NEW c \in Clients, run[c].exit = 0
                PROVE  /\ requests[c] = IF "revoke" \in run[c].flags THEN "revoked"
                                        ELSE "issued"
                       /\ "unregister" \in run[c].flags => run[c].appId \notin records
    BY DEF SuccessIsComplete
  <2>1. run[c].pc = 13 /\ Clean(run[c])
    BY OfClient DEF ClientInv, Walk
  <2>2. requests[c] = IF "revoke" \in run[c].flags THEN "revoked" ELSE "issued"
    BY <2>1, OfClient DEF ClientInv, Certificate
  <2>. QED  BY <2>1, <2>2 DEF IInv, Registry
<1>. QED  BY <1>1, PullInvariant, PTL

(* The poll loop, for every interval and every time-out: it is left with a  *)
(* failure, and not before the deadline; and FinishRequest is sent at most  *)
(* once per interval and once more.                                         *)
THEOREM PollsKeepTime == Spec => []PollsInTime
<1>1. IInv => PollsInTime
  <2>. SUFFICES ASSUME IInv, NEW c \in Clients
                PROVE  /\ run[c].gaveUp => left[c] = 0 /\ run[c].exit \in {NoExit, 4, 6}
                       /\ run[c].polls <= PollLimit(run[c])
    BY DEF PollsInTime
  <2>1. run[c].gaveUp => left[c] = 0 /\ run[c].exit \in {NoExit, 4, 6}
    BY OfClient DEF ClientInv, Walk, Polling
  <2>2. run[c].polls <= PollLimit(run[c])
    BY OfClient, PollsBounded DEF ClientInv
  <2>. QED  BY <2>1, <2>2
<1>. QED  BY <1>1, PullInvariant, PTL
=============================================================================
