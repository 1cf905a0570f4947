------------------------- MODULE PubSubConfigProofs -------------------------
(***************************************************************************)
(* Proofs about SksPull and its composition with PubSubConfig, for every    *)
(* configuration, every number of groups, and every bound of the lists:     *)
(* pulls are single, keys are where they should be, and a configuration     *)
(* that counts as applied exists as a whole, wired and enabled as it says.  *)
(***************************************************************************)
EXTENDS PubSubConfig, FiniteSetTheorems, WellFoundedInduction, TLAPS

(* Nothing is pulled before every group exists.                             *)
NothingPulled ==
    phase \in {"parse", "adding"} =>
        /\ received = {} /\ inFlight = {} /\ warned = {}
        /\ \A g \in Groups : pulls[g] = 0

Added == Users \ toAdd

Known(u) == Source(GroupOf[u]) \in {"STATIC", "SKS_SERVER"}

(* Groups are listed as they are created, until the list is full; those     *)
(* whose keys are known have them from then on.                             *)
ListedInv ==
    /\ phase = "parse" => toAdd = Users /\ secured = {}
    /\ phase = "running" => toAdd = {}
    /\ phase \in {"parse", "adding", "running"} =>
         /\ secured \subseteq Added
         /\ Added # secured => Cardinality(secured) = MaxSecured
         /\ \A u \in Added : Known(u) => u \in active

(* Groups listed when the keys came have been told of them.                 *)
ToldInv ==
    phase = "running" =>
        \A g \in received : secured \cap UsersOf(g) \subseteq active \cup warned

(* The inductive invariant.                                                 *)
PullInv == TypeOK /\ NothingPulled /\ OnePull /\ ListedInv /\ ToldInv

-----------------------------------------------------------------------------
(* The initial states satisfy the invariant.                                *)
LEMMA PullInit == Init => PullInv
<1>. SUFFICES ASSUME Init PROVE PullInv
  OBVIOUS
<1>1. Cardinality(secured) = 0
  BY FS_EmptySet DEF Init
<1>2. TypeOK
  <2>1. failures \in 0..MaxFailures /\ Cardinality(secured) <= MaxSecured
    BY <1>1, BoundAssumption DEF Init
  <2>2. pulls \in [Groups -> Nat]
    BY DEF Init
  <2>3. timer \in BOOLEAN
    BY Zenon DEF Init
  <2>. QED  BY <2>1, <2>2, <2>3, Zenon DEF Init, TypeOK
<1>3. NothingPulled /\ OnePull /\ ToldInv
  BY DEF Init, NothingPulled, OnePull, ToldInv
<1>4. ListedInv
  BY DEF Init, ListedInv, Added
<1>. QED  BY <1>2, <1>3, <1>4 DEF PullInv

(* Subsets of the groups and of the users are finite and can be counted.    *)
LEMMA Countable ==
    /\ \A S \in SUBSET Groups : Cardinality(S) \in Nat
    /\ \A S \in SUBSET Users : IsFiniteSet(S) /\ Cardinality(S) \in Nat
BY GroupAssumption, FS_Subset, FS_CardinalityType

(* The key source of a group is fixed by the file.                          *)
LEMMA SourceFixed ==
    ASSUME UNCHANGED <<role, keyed>>
    PROVE  /\ Pulled' = Pulled
           /\ \A u \in Users : Known(u)' = Known(u)
BY DEF Pulled, Known, Source

(* One more user in the list, or a list that is full.                       *)
LEMMA ListedStep ==
    ASSUME TypeOK, NEW u \in Users, u \notin secured
    PROVE  /\ Listed(u) \subseteq Users
           /\ Cardinality(Listed(u)) <= MaxSecured
           /\ \/ Listed(u) = secured \cup {u} /\ Cardinality(secured) # MaxSecured
              \/ Listed(u) = secured /\ Cardinality(secured) = MaxSecured
<1>1. /\ secured \subseteq Users /\ IsFiniteSet(secured)
      /\ Cardinality(secured) \in Nat /\ Cardinality(secured) <= MaxSecured
  BY Countable DEF TypeOK
<1>2. Cardinality(secured \cup {u}) = Cardinality(secured) + 1
  BY <1>1, FS_AddElement
<1>. DEFINE n == Cardinality(secured)
<1>3. CASE n < MaxSecured
  <2>1. Listed(u) = secured \cup {u}
    BY <1>3 DEF Listed
  <2>2. n + 1 <= MaxSecured /\ n # MaxSecured
    BY <1>1, <1>3, BoundAssumption
  <2>. QED  BY <1>1, <1>2, <2>1, <2>2
<1>4. CASE ~(n < MaxSecured)
  <2>1. Listed(u) = secured
    BY <1>4 DEF Listed
  <2>2. n = MaxSecured
    BY <1>1, <1>4, BoundAssumption
  <2>. QED  BY <1>1, <2>1, <2>2
<1>. QED  BY <1>3, <1>4

(* Starting pulls for groups of which none is under way keeps them single.  *)
LEMMA AttemptStep ==
    ASSUME TypeOK, OnePull, NEW due \in SUBSET Groups, sks_attempt(due),
           \A g \in due : g \notin received /\ pulls[g] = 0,
           UNCHANGED received
    PROVE  /\ OnePull'
           /\ inFlight' \subseteq Groups
           /\ pulls' \in [Groups -> Nat]
           /\ failures' \in 0..MaxFailures
<1>1. PICK started \in SUBSET due :
         /\ failures + Cardinality(due \ started) <= MaxFailures
         /\ failures' = failures + Cardinality(due \ started)
         /\ inFlight' = inFlight \cup started
         /\ pulls' = [g \in Groups |->
                        IF g \in started THEN pulls[g] + 1 ELSE pulls[g]]
  BY DEF sks_attempt
<1>2. Cardinality(due \ started) \in Nat
  BY Countable
<1>3. failures' \in 0..MaxFailures
  BY <1>1, <1>2, BoundAssumption DEF TypeOK
<1>4. inFlight' \subseteq Groups /\ pulls' \in [Groups -> Nat]
  BY <1>1 DEF TypeOK
<1>5. ASSUME NEW g \in Groups
      PROVE  /\ pulls'[g] <= 1
             /\ g \notin received' => (g \in inFlight' <=> pulls'[g] = 1)
             /\ g \in received' => g \notin inFlight'
  <2>1. CASE g \in started
    <3>1. pulls'[g] = 1 /\ g \notin received /\ g \in inFlight'
      BY <1>1, <2>1
    <3>. QED  BY <3>1
  <2>2. CASE g \notin started
    <3>1. pulls'[g] = pulls[g] /\ (g \in inFlight' <=> g \in inFlight)
      BY <1>1, <2>2
    <3>. QED  BY <3>1 DEF OnePull
  <2>. QED  BY <2>1, <2>2
<1>6. OnePull'
  BY <1>5 DEF OnePull
<1>. QED  BY <1>3, <1>4, <1>6

-----------------------------------------------------------------------------
(* One lemma per action.                                                    *)

(* A group is created: it is listed, and has its keys if they are known.    *)
LEMMA AddUserStep ==
    ASSUME PullInv, NEW u \in Users, AddUser(u)
    PROVE  PullInv'
<1>1. /\ phase = "adding" /\ u \in toAdd /\ toAdd' = toAdd \ {u}
      /\ secured' = Listed(u)
      /\ phase' \in {"adding", "failed"}
      /\ active \subseteq active' /\ active' \subseteq Users
      /\ phase' = "adding" /\ Known(u) => u \in active'
      /\ UNCHANGED <<role, keyed, warned, received, inFlight, pulls, timer,
                     failures>>
  BY DEF AddUser, Known, PullInv, TypeOK
<1>2. /\ toAdd \subseteq Users /\ secured \subseteq Added
      /\ Added # secured => Cardinality(secured) = MaxSecured
      /\ \A v \in Added : Known(v) => v \in active
  BY <1>1 DEF PullInv, ListedInv, TypeOK
<1>3. u \notin secured /\ Added' = Added \cup {u}
  BY <1>1, <1>2 DEF Added
<1>4. /\ Listed(u) \subseteq Users
      /\ Cardinality(Listed(u)) <= MaxSecured
      /\ \/ Listed(u) = secured \cup {u} /\ Cardinality(secured) # MaxSecured
         \/ Listed(u) = secured /\ Cardinality(secured) = MaxSecured
  BY <1>3, ListedStep DEF PullInv
<1>5. TypeOK'
  <2>1. /\ phase' \in {"parse", "adding", "running", "failed", "stopped"}
        /\ toAdd' \subseteq Users /\ secured' \subseteq Users
        /\ Cardinality(secured') <= MaxSecured /\ active' \subseteq Users
    BY <1>1, <1>2, <1>4
  <2>. QED  BY <1>1, <2>1, Zenon DEF PullInv, TypeOK
<1>6. NothingPulled' /\ OnePull' /\ ToldInv'
  BY <1>1 DEF PullInv, NothingPulled, OnePull, ToldInv
<1>7. ListedInv'
  <2>1. secured' \subseteq Added'
    BY <1>1, <1>2, <1>3, <1>4
  <2>2. Added' # secured' => Cardinality(secured') = MaxSecured
    BY <1>1, <1>2, <1>3, <1>4
  <2>3. \A v \in Added' : Known(v)' = Known(v)
    BY <1>1, SourceFixed DEF Added
  <2>4. phase' = "adding" => \A v \in Added' : Known(v)' => v \in active'
    BY <1>1, <1>2, <1>3, <2>3
  <2>. QED  BY <1>1, <2>1, <2>2, <2>4 DEF ListedInv
<1>. QED  BY <1>5, <1>6, <1>7 DEF PullInv

(* Steps that only change the phase.                                        *)
LEMMA PhaseStep ==
    ASSUME PullInv, ParseGroups \/ GiveUp
    PROVE  PullInv'
<1>1. /\ UNCHANGED <<role, keyed, toAdd, secured, active, warned, received,
                     inFlight, pulls, timer, failures>>
      /\ \/ phase = "parse" /\ phase' = "adding"
         \/ phase' = "failed"
  BY DEF ParseGroups, GiveUp
<1>2. \A u \in Users : Known(u)' = Known(u)
  BY <1>1, SourceFixed
<1>3. TypeOK'
  BY <1>1, Zenon DEF PullInv, TypeOK
<1>4. NothingPulled' /\ OnePull' /\ ToldInv'
  BY <1>1 DEF PullInv, NothingPulled, OnePull, ToldInv
<1>5. ListedInv'
  BY <1>1, <1>2 DEF PullInv, ListedInv, Added
<1>. QED  BY <1>3, <1>4, <1>5 DEF PullInv

(* The pulls start with every group in the list that will ever be there.    *)
LEMMA StartStep ==
    ASSUME PullInv, StartPulls
    PROVE  PullInv'
<1>1. /\ phase = "adding" /\ toAdd = {}
      /\ UNCHANGED <<role, keyed, toAdd, secured, active, warned, received>>
      /\ TypeOK /\ OnePull /\ Pulled \subseteq Groups
      /\ received = {} /\ \A g \in Groups : pulls[g] = 0
  BY DEF StartPulls, PullInv, NothingPulled, Pulled
<1>2. \A u \in Users : Known(u)' = Known(u)
  BY <1>1, SourceFixed
<1>3. phase' \in {"running", "failed"} /\ timer' \in BOOLEAN
  <2>1. timer \in BOOLEAN /\ (Pulled # {}) \in BOOLEAN /\ FALSE \in BOOLEAN
    BY <1>1, Zenon DEF TypeOK
  <2>. QED  BY <2>1, Zenon DEF StartPulls
<1>4. /\ OnePull' /\ inFlight' \subseteq Groups /\ pulls' \in [Groups -> Nat]
      /\ failures' \in 0..MaxFailures
  <2>1. CASE sks_attempt(Pulled)
    BY <1>1, <2>1, AttemptStep
  <2>2. CASE UNCHANGED <<inFlight, pulls, failures>>
    BY <1>1, <2>2 DEF TypeOK, OnePull
  <2>. QED  BY <2>1, <2>2 DEF StartPulls
<1>5. TypeOK'
  BY <1>1, <1>3, <1>4, Zenon DEF TypeOK
<1>6. NothingPulled' /\ ToldInv'
  BY <1>1, <1>3 DEF NothingPulled, ToldInv
<1>7. ListedInv'
  BY <1>1, <1>2, <1>3 DEF PullInv, ListedInv, Added
<1>. QED  BY <1>4, <1>5, <1>6, <1>7 DEF PullInv

(* What stays when a step of the event loop leaves the list alone.          *)
LEMMA LoopFrame ==
    ASSUME PullInv, phase = "running",
           UNCHANGED <<phase, role, keyed, toAdd, secured>>,
           active \subseteq active'
    PROVE  NothingPulled' /\ ListedInv'
<1>1. \A u \in Users : Known(u)' = Known(u)
  BY SourceFixed
<1>. QED  BY <1>1 DEF PullInv, NothingPulled, ListedInv, Added

(* The timer attempts only groups without keys and without a pull.          *)
LEMMA RetryStep ==
    ASSUME PullInv, sks_retry_cb
    PROVE  PullInv'
<1>1. /\ phase = "running" /\ sks_attempt(Due) /\ TypeOK /\ OnePull
      /\ UNCHANGED <<phase, role, keyed, toAdd, secured, active, warned,
                     received, timer>>
  BY DEF sks_retry_cb, PullInv
<1>2. Due \subseteq Groups /\ \A g \in Due : g \notin received /\ pulls[g] = 0
  <2>1. ASSUME NEW g \in Due PROVE g \in Groups /\ g \notin received /\ pulls[g] = 0
    <3>1. g \in Groups /\ g \notin received /\ g \notin inFlight
      BY DEF Due, Pulled
    <3>2. pulls[g] \in Nat /\ pulls[g] <= 1 /\ pulls[g] # 1
      BY <1>1, <3>1 DEF TypeOK, OnePull
    <3>. QED  BY <3>1, <3>2
  <2>. QED  BY <2>1
<1>3. /\ OnePull' /\ inFlight' \subseteq Groups /\ pulls' \in [Groups -> Nat]
      /\ failures' \in 0..MaxFailures
  BY <1>1, <1>2, AttemptStep
<1>4. TypeOK'
  BY <1>1, <1>3, Zenon DEF TypeOK
<1>5. NothingPulled' /\ ListedInv'
  BY <1>1, LoopFrame
<1>6. ToldInv'
  BY <1>1 DEF PullInv, ToldInv, UsersOf
<1>. QED  BY <1>3, <1>4, <1>5, <1>6 DEF PullInv

(* The stack's own refresh waits for the pull before it.                    *)
LEMMA RefreshStep ==
    ASSUME PullInv, NEW g \in Groups, Refresh(g)
    PROVE  PullInv'
<1>1. /\ phase = "running" /\ g \in received /\ pulls' = [pulls EXCEPT ![g] = 1]
      /\ UNCHANGED <<phase, role, keyed, toAdd, secured, active, warned,
                     received, inFlight, timer, failures>>
      /\ pulls \in [Groups -> Nat] /\ OnePull
  BY DEF Refresh, PullInv, TypeOK
<1>2. OnePull'
  BY <1>1 DEF OnePull
<1>3. pulls' \in [Groups -> Nat]
  BY <1>1
<1>4. TypeOK'
  BY <1>1, <1>3, Zenon DEF PullInv, TypeOK
<1>5. NothingPulled' /\ ListedInv'
  BY <1>1, LoopFrame
<1>6. ToldInv'
  BY <1>1 DEF PullInv, ToldInv, UsersOf
<1>. QED  BY <1>2, <1>4, <1>5, <1>6 DEF PullInv

(* A pull that has ended was the only one of its group.                     *)
LEMMA PullEnded ==
    ASSUME PullInv, NEW g \in Groups, pulls[g] > 0,
           pulls' = [pulls EXCEPT ![g] = @ - 1],
           inFlight' = inFlight \ {g},
           received' = received \/ received' = received \cup {g}
    PROVE  OnePull' /\ pulls' \in [Groups -> Nat]
<1>1. pulls \in [Groups -> Nat] /\ OnePull
  BY DEF PullInv, TypeOK
<1>2. pulls[g] = 1 /\ pulls'[g] = 0
  BY <1>1 DEF OnePull
<1>3. pulls' \in [Groups -> Nat]
  BY <1>1, <1>2
<1>4. ASSUME NEW h \in Groups
      PROVE  /\ pulls'[h] <= 1
             /\ h \notin received' => (h \in inFlight' <=> pulls'[h] = 1)
             /\ h \in received' => h \notin inFlight'
  <2>1. CASE h = g
    BY <1>2, <2>1
  <2>2. CASE h # g
    <3>1. /\ pulls'[h] = pulls[h] /\ (h \in inFlight' <=> h \in inFlight)
          /\ (h \in received' <=> h \in received)
      BY <1>1, <2>2
    <3>. QED  BY <1>1, <3>1 DEF OnePull
  <2>. QED  BY <2>1, <2>2
<1>. QED  BY <1>3, <1>4 DEF OnePull

(* A pull fails: the group is left for the timer.                           *)
LEMMA PullFailsStep ==
    ASSUME PullInv, NEW g \in Groups, PullFails(g)
    PROVE  PullInv'
<1>1. /\ phase = "running" /\ pulls[g] > 0 /\ failures < MaxFailures
      /\ failures' = failures + 1 /\ pulls' = [pulls EXCEPT ![g] = @ - 1]
      /\ inFlight' = inFlight \ {g}
      /\ UNCHANGED <<phase, role, keyed, toAdd, secured, active, warned,
                     received, timer>>
  BY DEF PullFails
<1>2. OnePull' /\ pulls' \in [Groups -> Nat]
  BY <1>1, PullEnded
<1>3. failures' \in 0..MaxFailures /\ inFlight' \subseteq Groups
  BY <1>1, BoundAssumption DEF PullInv, TypeOK
<1>4. TypeOK'
  BY <1>1, <1>2, <1>3, Zenon DEF PullInv, TypeOK
<1>5. NothingPulled' /\ ListedInv'
  BY <1>1, LoopFrame
<1>6. ToldInv'
  BY <1>1 DEF PullInv, ToldInv, UsersOf
<1>. QED  BY <1>2, <1>4, <1>5, <1>6 DEF PullInv

(* Keys arrive, and every listed user of the group is tried.                *)
LEMMA PullSucceedsStep ==
    ASSUME PullInv, NEW g \in Groups, PullSucceeds(g)
    PROVE  PullInv'
<1>1. /\ phase = "running" /\ pulls[g] > 0
      /\ pulls' = [pulls EXCEPT ![g] = @ - 1]
      /\ inFlight' = inFlight \ {g} /\ received' = received \cup {g}
      /\ UNCHANGED <<phase, role, keyed, toAdd, secured, timer>>
      /\ TypeOK
  BY DEF PullSucceeds, PullInv
<1>2. PICK bad \in SUBSET Activated(g) :
         /\ failures + Cardinality(bad) <= MaxFailures
         /\ failures' = failures + Cardinality(bad)
         /\ active' = active \cup (Activated(g) \ bad)
         /\ warned' = warned \cup bad
  BY DEF PullSucceeds
<1>3. OnePull' /\ pulls' \in [Groups -> Nat]
  BY <1>1, PullEnded
<1>4. Activated(g) \subseteq Users
  BY DEF Activated, UsersOf
<1>5. failures' \in 0..MaxFailures
  <2>1. Cardinality(bad) \in Nat
    BY <1>4, Countable
  <2>. QED  BY <1>1, <1>2, <2>1, BoundAssumption DEF TypeOK
<1>6. /\ inFlight' \subseteq Groups /\ received' \subseteq Groups
      /\ active' \subseteq Users /\ warned' \subseteq Users
      /\ active \subseteq active' /\ warned \subseteq warned'
  BY <1>1, <1>2, <1>4 DEF TypeOK
<1>7. TypeOK'
  BY <1>1, <1>3, <1>5, <1>6, Zenon DEF TypeOK
<1>8. NothingPulled' /\ ListedInv'
  BY <1>1, <1>6, LoopFrame
<1>9. ToldInv'
  <2>1. secured \cap UsersOf(g) \subseteq active' \cup warned'
    BY <1>2 DEF Activated
  <2>2. \A h \in received : secured \cap UsersOf(h) \subseteq active' \cup warned'
    BY <1>1, <1>6 DEF PullInv, ToldInv
  <2>. QED  BY <1>1, <2>1, <2>2 DEF ToldInv, UsersOf
<1>. QED  BY <1>3, <1>7, <1>8, <1>9 DEF PullInv

(* Clean-up leaves nothing.                                                 *)
LEMMA StopStep ==
    ASSUME PullInv, Stop
    PROVE  PullInv'
<1>1. /\ phase' = "stopped" /\ secured' = {} /\ active' = {} /\ warned' = {}
      /\ received' = {} /\ inFlight' = {} /\ pulls' = [g \in Groups |-> 0]
      /\ timer' = FALSE /\ UNCHANGED <<role, keyed, toAdd, failures>>
  BY DEF Stop
<1>2. Cardinality(secured') <= MaxSecured
  BY <1>1, FS_EmptySet, BoundAssumption
<1>3. pulls' \in [Groups -> Nat] /\ OnePull'
  BY <1>1 DEF OnePull
<1>4. TypeOK'
  BY <1>1, <1>2, <1>3, Zenon DEF PullInv, TypeOK
<1>5. NothingPulled' /\ ListedInv' /\ ToldInv'
  BY <1>1 DEF NothingPulled, ListedInv, ToldInv
<1>. QED  BY <1>3, <1>4, <1>5 DEF PullInv

(* Every step of SksPull keeps the invariant.                               *)
LEMMA PullNext == PullInv /\ [Next]_vars => PullInv'
<1>. SUFFICES ASSUME PullInv, [Next]_vars PROVE PullInv'
  OBVIOUS
<1>1. CASE UNCHANGED vars
  BY <1>1, SourceFixed
     DEF vars, PullInv, TypeOK, NothingPulled, OnePull, ListedInv, ToldInv,
         Added, UsersOf
<1>. QED  BY <1>1, AddUserStep, PhaseStep, StartStep, RetryStep, RefreshStep,
             PullFailsStep, PullSucceedsStep, StopStep DEF Next

-----------------------------------------------------------------------------
(* The composition.                                                         *)

(* Applying a configuration does to the keys only what SksPull does: every  *)
(* step of PubSubConfig is a step of SksPull or leaves its state alone.     *)
THEOREM ConfigIsPull == ConfigSpec => Init /\ [][Next]_vars
<1>1. ConfigInit => Init
  BY DEF ConfigInit
<1>2. [ConfigNext]_cvars => [Next]_vars
  <2>. SUFFICES ASSUME [ConfigNext]_cvars PROVE [Next]_vars
    OBVIOUS
  <2>1. CASE UNCHANGED cvars
    BY <2>1 DEF cvars
  <2>2. CASE Parse \/ CreateFails \/ Created \/ EnableFails \/ End
    BY <2>2 DEF Parse, CreateFails, Created, EnableFails, End, Next
  <2>3. CASE Enable \/ EnableDone
    BY <2>3 DEF Enable, EnableDone
  <2>4. CASE Loop
    BY <2>4 DEF Loop, Next
  <2>5. CASE Create
    <3>1. UNCHANGED vars \/ \E u \in Users : AddUser(u)
      BY <2>5, Zenon DEF Create
    <3>. QED  BY <3>1 DEF Next
  <2>. QED  BY <2>1, <2>2, <2>3, <2>4, <2>5 DEF ConfigNext
<1>. QED  BY <1>1, <1>2, PTL DEF ConfigSpec

(* The invariant of the composed system: types, the list within its array,  *)
(* nothing pulled too early, pulls single, listed groups told.              *)
THEOREM KeysInvariant == ConfigSpec => []PullInv
BY PullInit, PullNext, ConfigIsPull, PTL

(* The retry timer, the answers of the SKS and the stack's refreshes never  *)
(* have two pulls of a group under way (sks_attempt, sks_pull_cb).          *)
THEOREM PullsAreSingle == ConfigSpec => []OnePull
<1>1. PullInv => OnePull
  BY DEF PullInv
<1>. QED  BY <1>1, KeysInvariant, PTL

(* A running server has its keys where they are known, and has told every   *)
(* listed group of those that came (apply_group_keys,                       *)
(* activate_keys_for_group), whatever the configuration.                    *)
THEOREM KeysAreInPlace == ConfigSpec => []KeysInPlace
<1>1. PullInv => KeysInPlace
  <2>. SUFFICES ASSUME PullInv, phase = "running" PROVE KeysInPlace
    BY DEF KeysInPlace
  <2>1. Added = Users /\ ListedInv /\ ToldInv
    BY DEF PullInv, ListedInv, Added
  <2>. QED  BY <2>1 DEF ListedInv, ToldInv, KeysInPlace, Known
<1>. QED  BY <1>1, KeysInvariant, PTL

-----------------------------------------------------------------------------
(* The steps of a configuration.                                            *)

DataSetAt(c, i) == Step("dataSet", c.dataSets[i], None, <<1, i, 0, 0, 0>>)
FieldAt(c, i, f) == Step("field", c.dataSets[i], None, <<1, i, 0, 0, f>>)
ConnectionAt(c, i) == Step("connection", c.connections[i], None, <<2, i, 0, 0, 0>>)
WriterGroupAt(c, i, j) ==
    Step("writerGroup", c.connections[i].writerGroups[j], c.connections[i].id,
         <<2, i, 1, j, 0>>)
WriterAt(c, i, j, m) ==
    Step("writer", c.connections[i].writerGroups[j].members[m],
         c.connections[i].writerGroups[j].id, <<2, i, 1, j, m>>)
ReaderGroupAt(c, i, j) ==
    Step("readerGroup", c.connections[i].readerGroups[j], c.connections[i].id,
         <<2, i, 2, j, 0>>)
ReaderAt(c, i, j, m) ==
    Step("reader", c.connections[i].readerGroups[j].members[m],
         c.connections[i].readerGroups[j].id, <<2, i, 2, j, m>>)

IsDataSet(c, s) ==
    \E i \in DOMAIN c.dataSets : i <= MaxComponents /\ s = DataSetAt(c, i)
IsField(c, s) ==
    \E i \in DOMAIN c.dataSets :
        i <= MaxComponents /\ \E f \in 1..c.dataSets[i].fields : s = FieldAt(c, i, f)
IsConnection(c, s) == \E i \in DOMAIN c.connections : s = ConnectionAt(c, i)
IsWriterGroup(c, s) ==
    \E i \in DOMAIN c.connections :
        \E j \in DOMAIN c.connections[i].writerGroups : s = WriterGroupAt(c, i, j)
IsWriter(c, s) ==
    \E i \in DOMAIN c.connections :
        \E j \in DOMAIN c.connections[i].writerGroups :
            \E m \in DOMAIN c.connections[i].writerGroups[j].members :
                s = WriterAt(c, i, j, m)
IsReaderGroup(c, s) ==
    \E i \in DOMAIN c.connections :
        \E j \in DOMAIN c.connections[i].readerGroups : s = ReaderGroupAt(c, i, j)
IsReader(c, s) ==
    \E i \in DOMAIN c.connections :
        \E j \in DOMAIN c.connections[i].readerGroups :
            \E m \in DOMAIN c.connections[i].readerGroups[j].members :
                s = ReaderAt(c, i, j, m)

(* A step is one of seven sorts, each from its place in the loops.          *)
LEMMA Shape ==
    ASSUME NEW c, NEW s
    PROVE  s \in BuildSteps(c) <=>
              \/ IsDataSet(c, s) \/ IsField(c, s) \/ IsConnection(c, s)
              \/ IsWriterGroup(c, s) \/ IsWriter(c, s)
              \/ IsReaderGroup(c, s) \/ IsReader(c, s)
<1>1. s \in BuildSteps(c) <=>
         \/ \E i \in DOMAIN c.dataSets :
               i <= MaxComponents /\ s \in DataSetSteps(c.dataSets[i], i)
         \/ \E i \in DOMAIN c.connections : s \in ConnectionSteps(c.connections[i], i)
  BY Zenon DEF BuildSteps
<1>2. \A i : s \in DataSetSteps(c.dataSets[i], i) <=>
         \/ s = DataSetAt(c, i)
         \/ \E f \in 1..c.dataSets[i].fields : s = FieldAt(c, i, f)
  BY Zenon DEF DataSetSteps, DataSetAt, FieldAt
<1>3. \A i : s \in ConnectionSteps(c.connections[i], i) <=>
         \/ s = ConnectionAt(c, i)
         \/ \E j \in DOMAIN c.connections[i].writerGroups :
               \/ s = WriterGroupAt(c, i, j)
               \/ \E m \in DOMAIN c.connections[i].writerGroups[j].members :
                     s = WriterAt(c, i, j, m)
         \/ \E j \in DOMAIN c.connections[i].readerGroups :
               \/ s = ReaderGroupAt(c, i, j)
               \/ \E m \in DOMAIN c.connections[i].readerGroups[j].members :
                     s = ReaderAt(c, i, j, m)
  <2>. TAKE i
  <2>. DEFINE con == c.connections[i]
  <2>1. s \in ConnectionSteps(con, i) <=>
          \/ s = ConnectionAt(c, i)
          \/ \E j \in DOMAIN con.writerGroups :
                s \in GroupSteps("writerGroup", "writer", con.writerGroups[j], con, i, 1, j)
          \/ \E j \in DOMAIN con.readerGroups :
                s \in GroupSteps("readerGroup", "reader", con.readerGroups[j], con, i, 2, j)
    BY Zenon DEF ConnectionSteps, ConnectionAt
  <2>2. \A j : s \in GroupSteps("writerGroup", "writer", con.writerGroups[j], con, i, 1, j)
          <=> \/ s = WriterGroupAt(c, i, j)
              \/ \E m \in DOMAIN con.writerGroups[j].members : s = WriterAt(c, i, j, m)
    BY Zenon DEF GroupSteps, WriterGroupAt, WriterAt
  <2>3. \A j : s \in GroupSteps("readerGroup", "reader", con.readerGroups[j], con, i, 2, j)
          <=> \/ s = ReaderGroupAt(c, i, j)
              \/ \E m \in DOMAIN con.readerGroups[j].members : s = ReaderAt(c, i, j, m)
    BY Zenon DEF GroupSteps, ReaderGroupAt, ReaderAt
  <2>. HIDE DEF con
  <2>4. QED  BY <2>1, <2>2, <2>3, Zenon DEF con
<1>4. \/ \E i \in DOMAIN c.dataSets :
           i <= MaxComponents /\ s \in DataSetSteps(c.dataSets[i], i)
      <=> IsDataSet(c, s) \/ IsField(c, s)
  BY <1>2, Zenon DEF IsDataSet, IsField
<1>5. (\E i \in DOMAIN c.connections : s \in ConnectionSteps(c.connections[i], i))
      <=> \/ IsConnection(c, s) \/ IsWriterGroup(c, s) \/ IsWriter(c, s)
          \/ IsReaderGroup(c, s) \/ IsReader(c, s)
  BY <1>3, Zenon
     DEF IsConnection, IsWriterGroup, IsWriter, IsReaderGroup, IsReader
<1>. QED  BY <1>1, <1>4, <1>5, Zenon


(* The steps that a data set's fields are.                                  *)
FieldStep(d, f) == Step("field", d.of, None, <<1, d.at[2], 0, 0, f>>)

Leaves == {"writer", "reader"}
GroupKinds == {"writerGroup", "readerGroup"}

(* What a component is created under.                                       *)
ParentKind(k) ==
    IF k = "writer" THEN "writerGroup" ELSE IF k = "reader" THEN "readerGroup"
    ELSE "connection"

(* A data set and its fields come in one run, the fields in their order.    *)
DataSetShape(c, d) ==
    /\ d.at = <<1, d.at[2], 0, 0, 0>> /\ d.parent = None
    /\ d.of \in Range(c.dataSets)
    /\ \A f \in 1..d.of.fields :
          /\ FieldStep(d, f) \in BuildSteps(c) /\ Before(d.at, FieldStep(d, f).at)
          /\ \A e \in 1..d.of.fields :
                e < f => Before(FieldStep(d, e).at, FieldStep(d, f).at)

LEMMA DataSetFacts ==
    ASSUME NEW c \in Configs, NEW d \in BuildSteps(c), d.kind = "dataSet"
    PROVE  DataSetShape(c, d)
<1>1. PICK i \in DOMAIN c.dataSets : i <= MaxComponents /\ d = DataSetAt(c, i)
  <2>1. /\ ~IsField(c, d) /\ ~IsConnection(c, d) /\ ~IsWriterGroup(c, d)
        /\ ~IsWriter(c, d) /\ ~IsReaderGroup(c, d) /\ ~IsReader(c, d)
    BY DEF IsField, IsConnection, IsWriterGroup, IsWriter, IsReaderGroup, IsReader,
           FieldAt, ConnectionAt, WriterGroupAt, WriterAt, ReaderGroupAt, ReaderAt, Step
  <2>. QED  BY <2>1, Shape, Zenon DEF IsDataSet
<1>2. d.of = c.dataSets[i] /\ d.parent = None /\ d.at = <<1, i, 0, 0, 0>> /\ d.at[2] = i
  BY <1>1 DEF DataSetAt, Step
<1>3. d.of \in Range(c.dataSets)
  BY <1>2 DEF Range
<1>4. ASSUME NEW f \in 1..d.of.fields 
      PROVE  FieldStep(d, f) \in BuildSteps(c) /\ Before(d.at, FieldStep(d, f).at)
  <2>1. FieldStep(d, f) = FieldAt(c, i, f)
    BY <1>2 DEF FieldStep, FieldAt
  <2>2. IsField(c, FieldStep(d, f))
    BY <1>1, <1>2, <2>1 DEF IsField
  <2>3. FieldStep(d, f).at = <<1, i, 0, 0, f>>
    BY <1>2 DEF FieldStep, Step
  <2>4. Before(<<1, i, 0, 0, 0>>, <<1, i, 0, 0, f>>)
    BY DEF Before
  <2>. QED  BY <1>2, <2>2, <2>3, <2>4, Shape, Zenon
<1>5. ASSUME NEW f \in 1..d.of.fields, NEW e \in 1..d.of.fields, e < f
      PROVE  Before(FieldStep(d, e).at, FieldStep(d, f).at)
  <2>1. FieldStep(d, e).at = <<1, i, 0, 0, e>> /\ FieldStep(d, f).at = <<1, i, 0, 0, f>>
    BY <1>2 DEF FieldStep, Step
  <2>2. e \in Nat /\ f \in Nat
    OBVIOUS
  <2>3. Before(<<1, i, 0, 0, e>>, <<1, i, 0, 0, f>>)
    BY <1>5, <2>2 DEF Before
  <2>. QED  BY <2>1, <2>3
<1>. QED  BY <1>2, <1>3, <1>4, <1>5, Zenon DEF DataSetShape

(* A field is one of a data set that came before it.                        *)
LEMMA FieldFacts ==
    ASSUME NEW c \in Configs, NEW s \in BuildSteps(c), s.kind = "field"
    PROVE  \E d \in BuildSteps(c) :
              /\ d.kind = "dataSet" /\ d.of = s.of /\ Before(d.at, s.at)
              /\ \E f \in 1..d.of.fields : s = FieldStep(d, f)
<1>1. PICK i \in DOMAIN c.dataSets :
         i <= MaxComponents /\ \E f \in 1..c.dataSets[i].fields : s = FieldAt(c, i, f)
  <2>1. /\ ~IsDataSet(c, s) /\ ~IsConnection(c, s) /\ ~IsWriterGroup(c, s)
        /\ ~IsWriter(c, s) /\ ~IsReaderGroup(c, s) /\ ~IsReader(c, s)
    BY DEF IsDataSet, IsConnection, IsWriterGroup, IsWriter, IsReaderGroup, IsReader,
           DataSetAt, ConnectionAt, WriterGroupAt, WriterAt, ReaderGroupAt, ReaderAt, Step
  <2>. QED  BY <2>1, Shape, Zenon DEF IsField
<1>2. PICK f \in 1..c.dataSets[i].fields : s = FieldAt(c, i, f)
  BY <1>1
<1>3. PICK d : d = DataSetAt(c, i)
  OBVIOUS
<1>4. d \in BuildSteps(c)
  BY <1>1, <1>3, Shape, Zenon DEF IsDataSet
<1>5. /\ d.kind = "dataSet" /\ d.of = c.dataSets[i] /\ d.at = <<1, i, 0, 0, 0>>
      /\ d.at[2] = i /\ s.of = c.dataSets[i] /\ s.at = <<1, i, 0, 0, f>>
  BY <1>2, <1>3 DEF DataSetAt, FieldAt, Step
<1>6. Before(<<1, i, 0, 0, 0>>, <<1, i, 0, 0, f>>)
  BY DEF Before
<1>7. s = FieldStep(d, f)
  BY <1>2, <1>5 DEF FieldStep, FieldAt
<1>. QED  BY <1>4, <1>5, <1>6, <1>7

(* What has a parent comes after it.                                        *)
LEMMA ParentFacts ==
    ASSUME NEW c \in Configs, NEW s \in BuildSteps(c), s.kind \in Leaves \cup GroupKinds
    PROVE  \E p \in BuildSteps(c) :
              /\ p.kind = ParentKind(s.kind) /\ p.of.id = s.parent
              /\ Before(p.at, s.at)
<1>1. ~IsDataSet(c, s) /\ ~IsField(c, s) /\ ~IsConnection(c, s)
  BY DEF Leaves, GroupKinds, IsDataSet, IsField, IsConnection, DataSetAt, FieldAt,
         ConnectionAt, Step
<1>2. CASE IsWriterGroup(c, s)
  <2>0. PICK i \in DOMAIN c.connections :
           \E j \in DOMAIN c.connections[i].writerGroups : s = WriterGroupAt(c, i, j)
    BY <1>2 DEF IsWriterGroup
  <2>1. PICK j \in DOMAIN c.connections[i].writerGroups : s = WriterGroupAt(c, i, j)
    BY <2>0
  <2>2. PICK p : p = ConnectionAt(c, i)
    OBVIOUS
  <2>3. p \in BuildSteps(c)
    BY <2>2, Shape, Zenon DEF IsConnection
  <2>4. /\ p.kind = "connection" /\ p.of.id = s.parent /\ s.kind = "writerGroup"
        /\ p.at = <<2, i, 0, 0, 0>> /\ s.at = <<2, i, 1, j, 0>>
    BY <2>1, <2>2 DEF WriterGroupAt, ConnectionAt, Step
  <2>5. Before(<<2, i, 0, 0, 0>>, <<2, i, 1, j, 0>>)
    BY DEF Before
  <2>. QED  BY <2>3, <2>4, <2>5 DEF ParentKind
<1>3. CASE IsReaderGroup(c, s)
  <2>0. PICK i \in DOMAIN c.connections :
           \E j \in DOMAIN c.connections[i].readerGroups : s = ReaderGroupAt(c, i, j)
    BY <1>3 DEF IsReaderGroup
  <2>1. PICK j \in DOMAIN c.connections[i].readerGroups : s = ReaderGroupAt(c, i, j)
    BY <2>0
  <2>2. PICK p : p = ConnectionAt(c, i)
    OBVIOUS
  <2>3. p \in BuildSteps(c)
    BY <2>2, Shape, Zenon DEF IsConnection
  <2>4. /\ p.kind = "connection" /\ p.of.id = s.parent /\ s.kind = "readerGroup"
        /\ p.at = <<2, i, 0, 0, 0>> /\ s.at = <<2, i, 2, j, 0>>
    BY <2>1, <2>2 DEF ReaderGroupAt, ConnectionAt, Step
  <2>5. Before(<<2, i, 0, 0, 0>>, <<2, i, 2, j, 0>>)
    BY DEF Before
  <2>. QED  BY <2>3, <2>4, <2>5 DEF ParentKind
<1>4. CASE IsWriter(c, s)
  <2>0. PICK i \in DOMAIN c.connections :
           \E j \in DOMAIN c.connections[i].writerGroups :
              \E m \in DOMAIN c.connections[i].writerGroups[j].members :
                 s = WriterAt(c, i, j, m)
    BY <1>4, Zenon DEF IsWriter
  <2>j. PICK j \in DOMAIN c.connections[i].writerGroups :
           \E m \in DOMAIN c.connections[i].writerGroups[j].members : s = WriterAt(c, i, j, m)
    BY <2>0
  <2>1. PICK m \in DOMAIN c.connections[i].writerGroups[j].members : s = WriterAt(c, i, j, m)
    BY <2>j
  <2>2. PICK p : p = WriterGroupAt(c, i, j)
    OBVIOUS
  <2>3. p \in BuildSteps(c)
    BY <2>2, Shape, Zenon DEF IsWriterGroup
  <2>4. /\ p.kind = "writerGroup" /\ p.of.id = s.parent /\ s.kind = "writer"
        /\ p.of = c.connections[i].writerGroups[j]
        /\ p.at = <<2, i, 1, j, 0>> /\ s.at = <<2, i, 1, j, m>>
    BY <2>1, <2>2 DEF WriterGroupAt, WriterAt, Step
  <2>5. p.of.members \in Seq(Range(p.of.members)) /\ m \in DOMAIN p.of.members
    BY <2>3, <2>4, ConfigAssumption
  <2>6. m \in Nat /\ 0 < m
    BY <2>5
  <2>7. Before(<<2, i, 1, j, 0>>, <<2, i, 1, j, m>>)
    BY <2>6 DEF Before
  <2>. QED  BY <2>3, <2>4, <2>7 DEF ParentKind
<1>5. CASE IsReader(c, s)
  <2>0. PICK i \in DOMAIN c.connections :
           \E j \in DOMAIN c.connections[i].readerGroups :
              \E m \in DOMAIN c.connections[i].readerGroups[j].members :
                 s = ReaderAt(c, i, j, m)
    BY <1>5, Zenon DEF IsReader
  <2>j. PICK j \in DOMAIN c.connections[i].readerGroups :
           \E m \in DOMAIN c.connections[i].readerGroups[j].members : s = ReaderAt(c, i, j, m)
    BY <2>0
  <2>1. PICK m \in DOMAIN c.connections[i].readerGroups[j].members : s = ReaderAt(c, i, j, m)
    BY <2>j
  <2>2. PICK p : p = ReaderGroupAt(c, i, j)
    OBVIOUS
  <2>3. p \in BuildSteps(c)
    BY <2>2, Shape, Zenon DEF IsReaderGroup
  <2>4. /\ p.kind = "readerGroup" /\ p.of.id = s.parent /\ s.kind = "reader"
        /\ p.of = c.connections[i].readerGroups[j]
        /\ p.at = <<2, i, 2, j, 0>> /\ s.at = <<2, i, 2, j, m>>
    BY <2>1, <2>2 DEF ReaderGroupAt, ReaderAt, Step
  <2>5. p.of.members \in Seq(Range(p.of.members)) /\ m \in DOMAIN p.of.members
    BY <2>3, <2>4, ConfigAssumption
  <2>6. m \in Nat /\ 0 < m
    BY <2>5
  <2>7. Before(<<2, i, 2, j, 0>>, <<2, i, 2, j, m>>)
    BY <2>6 DEF Before
  <2>. QED  BY <2>3, <2>4, <2>7 DEF ParentKind
<1>. QED  BY <1>1, <1>2, <1>3, <1>4, <1>5, Shape, Zenon

(* What a step can be, and what has no parent.                              *)
LEMMA KindFacts ==
    ASSUME NEW c, NEW s \in BuildSteps(c)
    PROVE  /\ s.kind \in Kinds \cup {"field"}
           /\ s.kind \in {"dataSet", "connection"} => s.parent = None
<1>1. s.kind \in Kinds \cup {"field"}
  <2>1. \/ IsDataSet(c, s) \/ IsField(c, s) \/ IsConnection(c, s)
        \/ IsWriterGroup(c, s) \/ IsWriter(c, s)
        \/ IsReaderGroup(c, s) \/ IsReader(c, s)
    BY Shape, Zenon
  <2>2. s.kind \in {"dataSet", "field", "connection", "writerGroup", "writer",
                    "readerGroup", "reader"}
    BY <2>1 DEF IsDataSet, IsField, IsConnection, IsWriterGroup, IsWriter,
                IsReaderGroup, IsReader, DataSetAt, FieldAt, ConnectionAt,
                WriterGroupAt, WriterAt, ReaderGroupAt, ReaderAt, Step
  <2>. QED  BY <2>2 DEF Kinds
<1>2. ASSUME s.kind \in {"dataSet", "connection"} PROVE s.parent = None
  <2>1. /\ ~IsField(c, s) /\ ~IsWriterGroup(c, s)
        /\ ~IsWriter(c, s) /\ ~IsReaderGroup(c, s) /\ ~IsReader(c, s)
    BY <1>2 DEF IsField, IsWriterGroup, IsWriter, IsReaderGroup, IsReader,
                FieldAt, WriterGroupAt, WriterAt, ReaderGroupAt, ReaderAt, Step
  <2>2. IsDataSet(c, s) \/ IsConnection(c, s)
    BY <2>1, Shape, Zenon
  <2>. QED  BY <2>2 DEF IsDataSet, IsConnection, DataSetAt, ConnectionAt, Step
<1>. QED  BY <1>1, <1>2

(* Data sets, with their fields, come before everything else.               *)
LEMMA DataSetsFirst ==
    ASSUME NEW c, NEW d \in BuildSteps(c), NEW s \in BuildSteps(c),
           d.kind \in {"dataSet", "field"}, s.kind \notin {"dataSet", "field"}
    PROVE  Before(d.at, s.at)
<1>1. \E p1, p2, p3, p4 : d.at = <<1, p1, p2, p3, p4>>
  <2>1. /\ ~IsConnection(c, d) /\ ~IsWriterGroup(c, d)
        /\ ~IsWriter(c, d) /\ ~IsReaderGroup(c, d) /\ ~IsReader(c, d)
    BY DEF IsConnection, IsWriterGroup, IsWriter, IsReaderGroup, IsReader,
           ConnectionAt, WriterGroupAt, WriterAt, ReaderGroupAt, ReaderAt, Step
  <2>2. IsDataSet(c, d) \/ IsField(c, d)
    BY <2>1, Shape, Zenon
  <2>. QED  BY <2>2 DEF IsDataSet, IsField, DataSetAt, FieldAt, Step
<1>2. \E q1, q2, q3, q4 : s.at = <<2, q1, q2, q3, q4>>
  <2>1. ~IsDataSet(c, s) /\ ~IsField(c, s)
    BY DEF IsDataSet, IsField, DataSetAt, FieldAt, Step
  <2>2. \/ IsConnection(c, s) \/ IsWriterGroup(c, s) \/ IsWriter(c, s)
        \/ IsReaderGroup(c, s) \/ IsReader(c, s)
    BY <2>1, Shape, Zenon
  <2>. QED  BY <2>2 DEF IsConnection, IsWriterGroup, IsWriter,
                IsReaderGroup, IsReader, ConnectionAt,
                WriterGroupAt, WriterAt, ReaderGroupAt, ReaderAt, Step
<1>3. PICK p1, p2, p3, p4 : d.at = <<1, p1, p2, p3, p4>>
  BY <1>1
<1>4. PICK q1, q2, q3, q4 : s.at = <<2, q1, q2, q3, q4>>
  BY <1>2
<1>5. Before(<<1, p1, p2, p3, p4>>, <<2, q1, q2, q3, q4>>)
  BY DEF Before
<1>. QED  BY <1>3, <1>4, <1>5

-----------------------------------------------------------------------------
(* The inductive invariant of the creation and the enabling.                *)

Done == BuildSteps(cfg) \ todo

DoneOf(k) == {s \in Done : s.kind = k}
Ids(k) == {s.of.id : s \in DoneOf(k)}

(* What has been done came before what has not.                             *)
InOrder ==
    /\ cfg \in Configs /\ todo \subseteq BuildSteps(cfg)
    /\ \A s \in Done, t \in todo : ~Before(t.at, s.at)

Entry(s) == stack[s.of.id]

(* What a component was created with.                                       *)
EntryInv(s) ==
    /\ Entry(s) = [kind |-> s.kind, parent |-> s.parent,
                   uses |-> Entry(s).uses, fields |-> Entry(s).fields]
    /\ s.kind = "dataSet" => Entry(s).uses = s.of.name
    /\ s.kind = "writer" /\ s.of.dataSet # None =>
          \E d \in Done : /\ d.kind = "dataSet"
                          /\ Entry(s).uses = d.of.id /\ d.of.name = s.of.dataSet
    /\ s.kind = "readerGroup" /\ s.of.queue = None =>
          \A i \in DOMAIN s.of.members : s.of.members[i].queue \in {None, Entry(s).uses}

(* The fields a data set has are the first of those it is to have.          *)
FieldsInv(d) ==
    /\ Entry(d).fields \in 0..d.of.fields
    /\ \A f \in 1..d.of.fields : FieldStep(d, f) \in todo <=> Entry(d).fields < f

(* The stack holds what has been done, until the server is deleted.         *)
StackInv ==
    /\ DOMAIN stack = {s.of.id : s \in {s \in Done : phase # "stopped"}}
    /\ phase # "stopped" =>
         /\ \A s \in Done : Creates(s) => EntryInv(s)
         /\ \A d \in Done : d.kind = "dataSet" => FieldsInv(d)

(* A list has everything of its kind, unless there is too much of it.       *)
ListInv ==
    /\ DOMAIN built = Kinds
    /\ \A k \in Kinds :
         /\ built[k] \in Seq(Ids(k))
         /\ Len(built[k]) <= MaxComponents
         /\ Len(built[k]) <= Cardinality(DoneOf(k))
         /\ phase \in {"parse", "adding", "running"} =>
               Ids(k) \subseteq Range(built[k]) \/ Cardinality(DoneOf(k)) > MaxComponents
         /\ phase \in {"parse", "failed", "stopped"} => built[k] = <<>>

(* What has been enabled are the first calls of those to be made.           *)
EnableInv ==
    /\ phase \in {"parse", "adding", "running", "failed", "stopped"}
    /\ applied \in {"no", "enabling", "yes"}
    /\ applied = "no" <=> phase # "running"
    /\ phase \in {"parse", "adding"} => on = {}
    /\ applied # "no" => todo = {}
    /\ applied # "no" /\ cfg.enabled =>
         /\ calls \subseteq EnableCalls
         /\ on = {call.id : call \in EnableCalls \ calls}
         /\ \A c \in EnableCalls \ calls, d \in calls : ~Before(d.at, c.at)
    /\ applied # "no" /\ ~cfg.enabled => on = {} /\ applied = "yes"
    /\ applied = "yes" => calls = {}

BuildInv == InOrder /\ StackInv /\ ListInv /\ EnableInv

-----------------------------------------------------------------------------
(* The invariant has what the properties say.                               *)

(* The parts of a configuration that can be counted.                        *)
LEMMA Finite ==
    ASSUME InOrder
    PROVE  \A k : IsFiniteSet(DoneOf(k)) /\ Cardinality(DoneOf(k)) \in Nat
<1>1. IsFiniteSet(BuildSteps(cfg))
  BY ConfigAssumption DEF InOrder
<1>. QED  BY <1>1, FS_Subset, FS_CardinalityType DEF Done, DoneOf

(* No two components have the same id.                                      *)
LEMMA SameId ==
    ASSUME InOrder, NEW s \in BuildSteps(cfg), NEW t \in BuildSteps(cfg),
           Creates(s), Creates(t), s.of.id = t.of.id
    PROVE  s = t
BY ConfigAssumption DEF InOrder

(* The list that a call is for, and its component.                          *)
LEMMA CallFacts ==
    ASSUME BuildInv, NEW call \in EnableCalls
    PROVE  \E o \in DOMAIN EnableOrder :
              \E i \in DOMAIN built[EnableOrder[o]] :
                 /\ call = [id |-> built[EnableOrder[o]][i], at |-> <<o, i>>]
                 /\ call.id = built[EnableOrder[o]][i] /\ call.at = <<o, i>>
                 /\ \E t \in Done : t.kind = EnableOrder[o] /\ t.of.id = call.id
<1>1. PICK o \in DOMAIN EnableOrder :
         \E i \in DOMAIN built[EnableOrder[o]] :
            call = [id |-> built[EnableOrder[o]][i], at |-> <<o, i>>]
  BY Zenon DEF EnableCalls
<1>2. PICK i \in DOMAIN built[EnableOrder[o]] :
         call = [id |-> built[EnableOrder[o]][i], at |-> <<o, i>>]
  BY <1>1
<1>3. EnableOrder[o] \in Kinds
  BY DEF EnableOrder, Kinds
<1>4. PICK k : k = EnableOrder[o]
  OBVIOUS
<1>5. built[k] \in Seq(Ids(k))
  BY <1>3, <1>4 DEF BuildInv, ListInv
<1>6. built[k][i] \in Ids(k)
  BY <1>2, <1>4, <1>5
<1>7. call.id = built[k][i] /\ call.at = <<o, i>>
  BY <1>2, <1>4
<1>8. \E t \in Done : t.kind = k /\ t.of.id = call.id
  BY <1>6, <1>7 DEF Ids, DoneOf
<1>. QED  BY <1>2, <1>4, <1>7, <1>8

(* Every list but that of the data sets is gone through.                    *)
LEMMA CalledFor ==
    ASSUME BuildInv, NEW k \in Kinds \ {"dataSet"}, NEW id \in Range(built[k]),
           id \in ConfigOn(cfg)
    PROVE  \E o \in DOMAIN EnableOrder :
              EnableOrder[o] = k /\ \E i : [id |-> id, at |-> <<o, i>>] \in EnableCalls
<1>1. PICK o \in DOMAIN EnableOrder : EnableOrder[o] = k
  BY DEF EnableOrder, Kinds
<1>2. PICK i \in DOMAIN built[k] : id = built[k][i]
  BY DEF Range
<1>3. PICK call : call = [id |-> id, at |-> <<o, i>>]
  OBVIOUS
<1>4. call.id = id
  BY <1>3
<1>5. call \in UNION {{[id |-> built[EnableOrder[n]][m], at |-> <<n, m>>] :
                            m \in DOMAIN built[EnableOrder[n]]} : n \in DOMAIN EnableOrder}
  <2>1. call = [id |-> built[EnableOrder[o]][i], at |-> <<o, i>>]
        /\ i \in DOMAIN built[EnableOrder[o]]
    BY <1>1, <1>2, <1>3
  <2>2. call \in {[id |-> built[EnableOrder[o]][m], at |-> <<o, m>>] :
                      m \in DOMAIN built[EnableOrder[o]]}
    BY <2>1
  <2>. QED  BY <2>2
<1>6. call \in EnableCalls
  BY <1>4, <1>5, Zenon DEF EnableCalls
<1>. QED  BY <1>1, <1>3, <1>6

(* What is enabled in the end.                                              *)
LEMMA AppliedFromInv ==
    ASSUME BuildInv
    PROVE  AppliedWhole
<1>. SUFFICES ASSUME applied = "yes"
     PROVE  /\ DOMAIN stack = {s.of.id : s \in BuildSteps(cfg)}
            /\ on = UNION {{id \in Range(built[k]) : id \in ConfigOn(cfg)} :
                              k \in {k \in Kinds \ {"dataSet"} : cfg.enabled}}
            /\ Fits(cfg) /\ cfg.enabled => on = ConfigOn(cfg)
  BY DEF AppliedWhole
<1>1. phase = "running" /\ todo = {} /\ calls = {} /\ Done = BuildSteps(cfg)
  BY DEF BuildInv, EnableInv, Done
<1>2. DOMAIN stack = {s.of.id : s \in BuildSteps(cfg)}
  <2>1. {s \in Done : phase # "stopped"} = BuildSteps(cfg)
    BY <1>1
  <2>. QED  BY <2>1 DEF BuildInv, StackInv
<1>3. CASE ~cfg.enabled
  <2>1. on = {}
    BY <1>3 DEF BuildInv, EnableInv
  <2>2. {k \in Kinds \ {"dataSet"} : cfg.enabled} = {}
    BY <1>3
  <2>. QED  BY <1>2, <1>3, <2>1, <2>2
<1>4. CASE cfg.enabled
  <2>1. on = {call.id : call \in EnableCalls}
    BY <1>1, <1>4 DEF BuildInv, EnableInv
  <2>2. {k \in Kinds \ {"dataSet"} : cfg.enabled} = Kinds \ {"dataSet"}
    BY <1>4
  <2>3. ASSUME NEW id \in on
        PROVE  \E k \in Kinds \ {"dataSet"} : id \in Range(built[k]) /\ id \in ConfigOn(cfg)
    <3>1. PICK call \in EnableCalls : id = call.id
      BY <2>1
    <3>2. id \in ConfigOn(cfg)
      BY <3>1 DEF EnableCalls
    <3>3. PICK o \in DOMAIN EnableOrder : \E i \in DOMAIN built[EnableOrder[o]] :
             id = built[EnableOrder[o]][i]
      BY <3>1, CallFacts, Zenon
    <3>4. EnableOrder[o] \in Kinds \ {"dataSet"}
      BY DEF EnableOrder, Kinds
    <3>. QED  BY <3>2, <3>3, <3>4 DEF Range
  <2>4. ASSUME NEW k \in Kinds \ {"dataSet"}, NEW id \in Range(built[k]),
               id \in ConfigOn(cfg)
        PROVE  id \in on
    <3>1. PICK o, i : [id |-> id, at |-> <<o, i>>] \in EnableCalls
      BY <2>4, CalledFor
    <3>. QED  BY <2>1, <3>1
  <2>5. on = UNION {{id \in Range(built[k]) : id \in ConfigOn(cfg)} :
                       k \in Kinds \ {"dataSet"}}
    <3>1. ASSUME NEW id
          PROVE  id \in on <=> \E k \in Kinds \ {"dataSet"} :
                                  id \in Range(built[k]) /\ id \in ConfigOn(cfg)
      BY <2>3, <2>4
    <3>. QED  BY <3>1
  <2>6. ASSUME Fits(cfg) PROVE on = ConfigOn(cfg)
    <3>1. on \subseteq ConfigOn(cfg)
      BY <2>3
    <3>2. ASSUME NEW id \in ConfigOn(cfg) PROVE id \in on
      <4>1. PICK s \in BuildSteps(cfg) : /\ s.kind \notin {"dataSet", "field"}
                                         /\ id = s.of.id
        BY DEF ConfigOn
      <4>2. PICK k : k = s.kind
        OBVIOUS
      <4>3. k \in Kinds \ {"dataSet"}
        BY <4>1, <4>2, KindFacts
      <4>4. DoneOf(k) = {t \in BuildSteps(cfg) : t.kind = k}
        BY <1>1 DEF DoneOf
      <4>5. Cardinality(DoneOf(k)) \in Nat /\ Cardinality(DoneOf(k)) <= MaxComponents
        BY <2>6, <4>3, <4>4, Finite DEF Fits, BuildInv
      <4>6. ~(Cardinality(DoneOf(k)) > MaxComponents)
        BY <4>5, ConfigAssumption
      <4>7. Ids(k) \subseteq Range(built[k])
        BY <1>1, <4>3, <4>6 DEF BuildInv, ListInv
      <4>8. id \in Ids(k)
        BY <4>1, <4>2, <4>4 DEF Ids
      <4>. QED  BY <2>4, <4>3, <4>7, <4>8
    <3>. QED  BY <3>1, <3>2
  <2>. QED  BY <1>2, <2>2, <2>5, <2>6
<1>. QED  BY <1>3, <1>4

(* Everything a component hangs on has been created, fields included.       *)
LEMMA WiredFromInv ==
    ASSUME BuildInv
    PROVE  WiredAsConfigured
<1>. SUFFICES ASSUME NEW s \in BuildSteps(cfg), Creates(s), s.of.id \in DOMAIN stack
     PROVE  /\ s.parent # None => s.parent \in DOMAIN stack
            /\ s.kind = "writer" /\ s.of.dataSet # None =>
                  \E d \in Range(cfg.dataSets) :
                     /\ stack[s.of.id].uses = d.id /\ d.name = s.of.dataSet
                     /\ d.id \in DOMAIN stack /\ stack[d.id].fields = d.fields
            /\ s.kind = "readerGroup" /\ s.of.queue = None =>
                  \A i \in DOMAIN s.of.members :
                     s.of.members[i].queue \in {None, stack[s.of.id].uses}
  BY DEF WiredAsConfigured
<1>1. /\ InOrder /\ cfg \in Configs /\ phase # "stopped"
      /\ DOMAIN stack = {t.of.id : t \in Done}
      /\ \A t \in Done : Creates(t) => EntryInv(t)
      /\ \A d \in Done : d.kind = "dataSet" => FieldsInv(d)
  BY DEF BuildInv, StackInv, InOrder
<1>2. s \in Done
  <2>1. PICK t \in Done : t.of.id = s.of.id
    BY <1>1
  <2>2. t \in BuildSteps(cfg)
    BY DEF Done
  <2>3. CASE Creates(t)
    BY <1>1, <2>1, <2>2, <2>3, SameId
  <2>4. CASE ~Creates(t)
    <3>1. t.kind = "field"
      BY <2>4 DEF Creates
    <3>2. PICK d \in BuildSteps(cfg) : d.kind = "dataSet" /\ d.of = t.of /\ Before(d.at, t.at)
      BY <1>1, <2>2, <3>1, FieldFacts
    <3>3. d = s
      BY <1>1, <2>1, <3>2, SameId DEF Creates
    <3>4. d \notin todo
      BY <1>1, <3>2 DEF InOrder
    <3>. QED  BY <3>3, <3>4 DEF Done
  <2>. QED  BY <2>3, <2>4
<1>3. EntryInv(s)
  BY <1>1, <1>2
<1>4. ASSUME s.parent # None PROVE s.parent \in DOMAIN stack
  <2>1. s.kind \in Leaves \cup GroupKinds
    BY <1>4, KindFacts DEF Creates, Kinds, Leaves, GroupKinds
  <2>2. PICK p \in BuildSteps(cfg) : p.of.id = s.parent /\ Before(p.at, s.at)
    BY <1>1, <2>1, ParentFacts
  <2>3. p \in Done
    BY <1>1, <1>2, <2>2 DEF InOrder, Done
  <2>. QED  BY <1>1, <2>2, <2>3
<1>5. ASSUME s.kind = "writer", s.of.dataSet # None
      PROVE  \E d \in Range(cfg.dataSets) :
                /\ stack[s.of.id].uses = d.id /\ d.name = s.of.dataSet
                /\ d.id \in DOMAIN stack /\ stack[d.id].fields = d.fields
  <2>1. PICK d \in Done : /\ d.kind = "dataSet"
                          /\ Entry(s).uses = d.of.id /\ d.of.name = s.of.dataSet
    BY <1>3, <1>5 DEF EntryInv
  <2>2. d \in BuildSteps(cfg)
    BY DEF Done
  <2>3. DataSetShape(cfg, d)
    BY <1>1, <2>1, <2>2, DataSetFacts
  <2>4. d.of.fields \in Nat
    BY <1>1, <2>1, <2>2, ConfigAssumption
  <2>5. FieldsInv(d)
    BY <1>1, <2>1
  <2>6. PICK n \in 0..d.of.fields : n = Entry(d).fields
    BY <2>5 DEF FieldsInv
  <2>7. n = d.of.fields
    <3>1. SUFFICES ASSUME n # d.of.fields PROVE FALSE
      OBVIOUS
    <3>2. d.of.fields \in 1..d.of.fields /\ n < d.of.fields
      BY <2>4, <2>6, <3>1
    <3>3. PICK t : t = FieldStep(d, d.of.fields)
      OBVIOUS
    <3>4. t \in todo
      BY <2>5, <2>6, <3>2, <3>3 DEF FieldsInv
    <3>5. t \in BuildSteps(cfg) /\ t.kind = "field"
      BY <2>3, <3>2, <3>3 DEF DataSetShape, FieldStep, Step
    <3>6. Before(t.at, s.at)
      BY <1>1, <1>5, <3>5, DataSetsFirst
    <3>. QED  BY <1>1, <1>2, <3>4, <3>6 DEF InOrder
  <2>. QED  BY <1>1, <2>1, <2>3, <2>6, <2>7 DEF DataSetShape, Entry
<1>. QED  BY <1>3, <1>4, <1>5 DEF EntryInv, Entry

(* A list comes before the list of what its members belong to.              *)
LEMMA ChildrenFromInv ==
    ASSUME BuildInv
    PROVE  ChildrenFirst
<1>. SUFFICES ASSUME NEW id \in DOMAIN stack, id \in ConfigOn(cfg),
                     id \in UNION {Range(built[k]) : k \in Kinds},
                     stack[id].parent \in on
     PROVE  id \in on
  BY DEF ChildrenFirst
<1>1. PICK k \in Kinds : id \in Range(built[k])
  OBVIOUS
<1>2. phase \notin {"parse", "failed", "stopped"}
  <2>1. built[k] # <<>>
    BY <1>1 DEF Range
  <2>. QED  BY <2>1 DEF BuildInv, ListInv
<1>3. applied # "no" /\ todo = {}
  BY <1>2 DEF BuildInv, EnableInv
<1>4. cfg.enabled
  BY <1>3 DEF BuildInv, EnableInv
<1>5. /\ calls \subseteq EnableCalls
      /\ on = {call.id : call \in EnableCalls \ calls}
      /\ \A c \in EnableCalls \ calls, d \in calls : ~Before(d.at, c.at)
      /\ InOrder /\ cfg \in Configs /\ Done = BuildSteps(cfg) /\ phase # "stopped"
      /\ \A t \in Done : Creates(t) => EntryInv(t)
  BY <1>3, <1>4 DEF BuildInv, EnableInv, InOrder, StackInv, Done
<1>6. PICK s \in Done : s.kind = k /\ s.of.id = id
  <2>1. built[k] \in Seq(Ids(k))
    BY DEF BuildInv, ListInv
  <2>2. id \in Ids(k)
    BY <1>1, <2>1 DEF Range
  <2>. QED  BY <2>2 DEF Ids, DoneOf
<1>7. Creates(s) /\ s \in BuildSteps(cfg)
  BY <1>5, <1>6 DEF Creates, Kinds
<1>8. stack[id].parent = s.parent
  <2>1. EntryInv(s)
    BY <1>5, <1>7
  <2>2. Entry(s).parent = s.parent
    BY <2>1 DEF EntryInv
  <2>. QED  BY <1>6, <2>2 DEF Entry
<1>9. PICK c \in EnableCalls \ calls : c.id = s.parent
  BY <1>5, <1>8
<1>10. PICK o \in DOMAIN EnableOrder :
          \E i : c.at = <<o, i>> /\ \E t \in Done : t.kind = EnableOrder[o] /\ t.of.id = c.id
  <2>1. c \in EnableCalls
    OBVIOUS
  <2>2. \E n \in DOMAIN EnableOrder :
           \E i \in DOMAIN built[EnableOrder[n]] :
              c.at = <<n, i>> /\ \E t \in Done : t.kind = EnableOrder[n] /\ t.of.id = c.id
    BY <2>1, CallFacts, Zenon
  <2>. QED  BY <2>2, Zenon
<1>10a. PICK i :
           c.at = <<o, i>> /\ \E t \in Done : t.kind = EnableOrder[o] /\ t.of.id = c.id
  BY <1>10
<1>11. PICK t \in Done : c.at = <<o, i>> /\ t.kind = EnableOrder[o] /\ t.of.id = c.id
  BY <1>10a
<1>12. Creates(t) /\ t \in BuildSteps(cfg)
  BY <1>5, <1>11 DEF Creates, EnableOrder
<1>13. s.kind \in Leaves \cup GroupKinds
  <2>1. s.parent # None
    BY <1>5, <1>9, <1>11, <1>12, ConfigAssumption
  <2>. QED  BY <1>7, <2>1, KindFacts DEF Creates, Kinds, Leaves, GroupKinds
<1>14. PICK p \in BuildSteps(cfg) : p.kind = ParentKind(s.kind) /\ p.of.id = s.parent
  BY <1>5, <1>7, <1>13, ParentFacts
<1>15. t = p
  <2>1. Creates(p)
    BY <1>13, <1>14 DEF Creates, ParentKind, Leaves, GroupKinds
  <2>. QED  BY <1>5, <1>9, <1>11, <1>12, <1>14, <2>1, SameId
<1>16. EnableOrder[o] = ParentKind(k)
  BY <1>6, <1>11, <1>14, <1>15
<1>17. k \in Kinds \ {"dataSet"}
  BY <1>6, <1>13 DEF Leaves, GroupKinds
<1>18. PICK q \in DOMAIN EnableOrder :
          EnableOrder[q] = k /\ \E j : [id |-> id, at |-> <<q, j>>] \in EnableCalls
  BY <1>1, <1>17, CalledFor
<1>19. PICK j : [id |-> id, at |-> <<q, j>>] \in EnableCalls
  BY <1>18
<1>20. q < o
  BY <1>6, <1>13, <1>16, <1>18 DEF EnableOrder, ParentKind, Leaves, GroupKinds
<1>21. PICK d : d = [id |-> id, at |-> <<q, j>>]
  OBVIOUS
<1>22. d.at = <<q, j>> /\ d.id = id /\ d \in EnableCalls
  BY <1>19, <1>21
<1>23. Before(<<q, j>>, <<o, i>>)
  BY <1>20 DEF Before, EnableOrder
<1>24. d \notin calls
  BY <1>5, <1>9, <1>11, <1>22, <1>23
<1>. QED  BY <1>5, <1>22, <1>24

-----------------------------------------------------------------------------
(* Steps that create nothing.                                               *)

(* The initial states satisfy the invariant.                                *)
LEMMA BuildInit == ConfigInit => BuildInv
<1>. SUFFICES ASSUME ConfigInit PROVE BuildInv
  OBVIOUS
<1>1. /\ cfg \in Configs /\ todo = BuildSteps(cfg) /\ DOMAIN stack = {}
      /\ built = EmptyBuilt /\ calls = {} /\ on = {} /\ applied = "no"
      /\ phase = "parse" /\ Done = {}
  BY DEF ConfigInit, Init, Done
<1>2. InOrder
  BY <1>1 DEF InOrder
<1>3. StackInv
  BY <1>1 DEF StackInv
<1>4. ListInv
  <2>1. ASSUME NEW k \in Kinds PROVE built[k] = <<>> /\ Ids(k) = {}
    BY <1>1 DEF EmptyBuilt, Ids, DoneOf
  <2>2. ASSUME NEW k \in Kinds PROVE Cardinality(DoneOf(k)) \in Nat
    BY <1>2, Finite
  <2>3. ASSUME NEW k \in Kinds
        PROVE  /\ built[k] \in Seq(Ids(k)) /\ Len(built[k]) = 0
               /\ Ids(k) \subseteq Range(built[k])
    <3>1. <<>> \in Seq(Ids(k)) /\ Len(<<>>) = 0
      OBVIOUS
    <3>. QED  BY <2>1, <3>1
  <2>. QED  BY <1>1, <2>1, <2>2, <2>3, ConfigAssumption DEF ListInv, EmptyBuilt
<1>5. EnableInv
  BY <1>1 DEF EnableInv
<1>. QED  BY <1>2, <1>3, <1>4, <1>5 DEF BuildInv

(* What keeps the order and the stack.                                      *)
LEMMA StackFrame ==
    ASSUME InOrder, StackInv, UNCHANGED <<cfg, todo, stack>>,
           phase # "stopped", phase' # "stopped"
    PROVE  InOrder' /\ StackInv'
<1>1. Done' = Done
  BY DEF Done
<1>2. InOrder'
  BY <1>1 DEF InOrder
<1>3. \A s : EntryInv(s)' <=> EntryInv(s)
  BY <1>1 DEF EntryInv, Entry
<1>4. \A d : FieldsInv(d)' <=> FieldsInv(d)
  BY DEF FieldsInv, Entry
<1>5. DOMAIN stack = {s.of.id : s \in Done} /\ {s \in Done' : phase' # "stopped"} = Done
  BY <1>1 DEF StackInv
<1>. QED  BY <1>1, <1>2, <1>3, <1>4, <1>5 DEF StackInv

(* The lists are given back.                                                *)
LEMMA ListsGivenBack ==
    ASSUME InOrder', built' = EmptyBuilt, phase' \in {"failed", "stopped"}
    PROVE  ListInv'
<1>1. \A k : Cardinality(DoneOf(k)') \in Nat
  <2>1. IsFiniteSet(BuildSteps(cfg'))
    BY ConfigAssumption DEF InOrder
  <2>. QED  BY <2>1, FS_Subset, FS_CardinalityType DEF Done, DoneOf
<1>2. ASSUME NEW k \in Kinds
      PROVE  /\ built'[k] \in Seq(Ids(k)') /\ Len(built'[k]) <= MaxComponents
             /\ Len(built'[k]) <= Cardinality(DoneOf(k)') /\ built'[k] = <<>>
  <2>1. built'[k] = <<>>
    BY DEF EmptyBuilt
  <2>2. Len(built'[k]) = 0 /\ built'[k] \in Seq(Ids(k)')
    BY <2>1
  <2>. QED  BY <1>1, <2>1, <2>2, ConfigAssumption
<1>. QED  BY <1>2 DEF ListInv, EmptyBuilt

(* The lists stay.                                                          *)
LEMMA ListsKept ==
    ASSUME ListInv, UNCHANGED <<cfg, todo, built>>,
           phase' = phase \/ (phase = "adding" /\ phase' = "running")
    PROVE  ListInv'
<1>1. Done' = Done
  BY DEF Done
<1>2. \A k : DoneOf(k)' = DoneOf(k) /\ Ids(k)' = Ids(k)
  BY <1>1 DEF DoneOf, Ids
<1>. QED  BY <1>2 DEF ListInv

(* Nothing but keys changes.                                                *)
LEMMA KeysOnly ==
    ASSUME BuildInv, UNCHANGED own, UNCHANGED phase
    PROVE  BuildInv'
<1>0. UNCHANGED <<cfg, todo, stack, built, calls, on, applied>>
  BY DEF own
<1>1. Done' = Done
  BY <1>0 DEF Done
<1>2. InOrder'
  BY <1>0, <1>1 DEF BuildInv, InOrder
<1>3. StackInv'
  <2>1. \A s : EntryInv(s)' <=> EntryInv(s)
    BY <1>0, <1>1 DEF EntryInv, Entry
  <2>2. \A d : FieldsInv(d)' <=> FieldsInv(d)
    BY <1>0 DEF FieldsInv, Entry
  <2>. QED  BY <1>0, <1>1, <2>1, <2>2 DEF BuildInv, StackInv
<1>4. ListInv'
  <2>1. \A k : DoneOf(k)' = DoneOf(k) /\ Ids(k)' = Ids(k)
    BY <1>1 DEF DoneOf, Ids
  <2>. QED  BY <1>0, <2>1 DEF BuildInv, ListInv
<1>5. EnableInv'
  <2>1. EnableCalls' = EnableCalls
    BY <1>0 DEF EnableCalls
  <2>. QED  BY <1>0, <2>1 DEF BuildInv, EnableInv
<1>. QED  BY <1>2, <1>3, <1>4, <1>5 DEF BuildInv

LEMMA ParseStep ==
    ASSUME BuildInv, Parse
    PROVE  BuildInv'
<1>1. /\ phase = "parse" /\ phase' \in {"adding", "failed"}
      /\ UNCHANGED <<cfg, todo, stack, built, calls, on, applied>>
  BY DEF Parse, ParseGroups, own
<1>2. InOrder' /\ StackInv'
  BY <1>1, StackFrame DEF BuildInv
<1>3. ListInv'
  <2>1. Done' = Done
    BY <1>1 DEF Done
  <2>2. \A k : DoneOf(k)' = DoneOf(k) /\ Ids(k)' = Ids(k)
    BY <2>1 DEF DoneOf, Ids
  <2>. QED  BY <1>1, <2>2 DEF BuildInv, ListInv
<1>4. EnableInv'
  BY <1>1 DEF BuildInv, EnableInv
<1>. QED  BY <1>2, <1>3, <1>4 DEF BuildInv

LEMMA CreateFailsStep ==
    ASSUME BuildInv, CreateFails
    PROVE  BuildInv'
<1>1. /\ phase = "adding" /\ phase' = "failed" /\ built' = EmptyBuilt
      /\ UNCHANGED <<cfg, todo, stack, calls, on, applied>>
  BY DEF CreateFails, GiveUp
<1>2. InOrder' /\ StackInv'
  BY <1>1, StackFrame DEF BuildInv
<1>3. ListInv'
  BY <1>1, <1>2, ListsGivenBack
<1>4. EnableInv'
  BY <1>1 DEF BuildInv, EnableInv
<1>. QED  BY <1>2, <1>3, <1>4 DEF BuildInv

(* Everything has been created: the calls are those of the whole lists.     *)
LEMMA CreatedStep ==
    ASSUME BuildInv, Created
    PROVE  BuildInv'
<1>1. /\ phase = "adding" /\ todo = {} /\ phase' \in {"running", "failed"}
      /\ applied' = IF phase' # "running" THEN "no"
                    ELSE IF cfg.enabled THEN "enabling" ELSE "yes"
      /\ calls' = IF applied' = "enabling" THEN EnableCalls ELSE {}
      /\ built' = IF phase' = "failed" THEN EmptyBuilt ELSE built
      /\ UNCHANGED <<cfg, todo, stack, on>>
  BY DEF Created, StartPulls, Kept
<1>2. InOrder' /\ StackInv'
  BY <1>1, StackFrame DEF BuildInv
<1>3. CASE phase' = "failed"
  <2>1. ListInv'
    BY <1>1, <1>2, <1>3, ListsGivenBack
  <2>2. EnableInv'
    BY <1>1, <1>3 DEF EnableInv
  <2>. QED  BY <1>2, <2>1, <2>2 DEF BuildInv
<1>4. CASE phase' = "running"
  <2>1. built' = built
    BY <1>1, <1>4
  <2>2. ListInv'
    BY <1>1, <1>4, <2>1, ListsKept DEF BuildInv
  <2>3. EnableCalls' = EnableCalls
    BY <1>1, <2>1 DEF EnableCalls
  <2>4. on' = {}
    BY <1>1 DEF BuildInv, EnableInv
  <2>5. CASE cfg.enabled
    <3>1. applied' = "enabling" /\ calls' = EnableCalls
      BY <1>1, <1>4, <2>5
    <3>. QED  BY <1>1, <1>2, <1>4, <2>2, <2>3, <2>4, <2>5, <3>1 DEF BuildInv, EnableInv
  <2>6. CASE ~cfg.enabled
    <3>1. applied' = "yes" /\ calls' = {}
      BY <1>1, <1>4, <2>6
    <3>. QED  BY <1>1, <1>2, <1>4, <2>2, <2>4, <2>6, <3>1 DEF BuildInv, EnableInv
  <2>. QED  BY <2>5, <2>6
<1>. QED  BY <1>1, <1>3, <1>4

(* The next call is made.                                                   *)
LEMMA EnableStep ==
    ASSUME BuildInv, Enable
    PROVE  BuildInv'
<1>1. PICK call \in calls : /\ IsNext(call, calls) /\ on' = on \cup {call.id}
                            /\ calls' = calls \ {call}
  BY DEF Enable
<1>2. /\ applied = "enabling" /\ phase' = phase
      /\ UNCHANGED <<cfg, todo, stack, built, applied>>
  BY DEF Enable, vars
<1>3. /\ phase = "running" /\ cfg.enabled /\ todo = {}
      /\ calls \subseteq EnableCalls
      /\ on = {c.id : c \in EnableCalls \ calls}
      /\ \A c \in EnableCalls \ calls, d \in calls : ~Before(d.at, c.at)
  BY <1>2 DEF BuildInv, EnableInv
<1>4. InOrder' /\ StackInv'
  BY <1>2, <1>3, StackFrame DEF BuildInv
<1>5. ListInv'
  BY <1>2, <1>3, ListsKept DEF BuildInv
<1>6. EnableCalls' = EnableCalls
  BY <1>2 DEF EnableCalls
<1>7. EnableCalls \ calls' = (EnableCalls \ calls) \cup {call}
  BY <1>1, <1>3
<1>8. on' = {c.id : c \in EnableCalls \ calls'}
  BY <1>1, <1>3, <1>7
<1>9. \A c \in EnableCalls \ calls', d \in calls' : ~Before(d.at, c.at)
  BY <1>1, <1>3, <1>7 DEF IsNext
<1>10. EnableInv'
  BY <1>1, <1>2, <1>3, <1>6, <1>8, <1>9 DEF EnableInv
<1>. QED  BY <1>4, <1>5, <1>10 DEF BuildInv

LEMMA EnableFailsStep ==
    ASSUME BuildInv, EnableFails
    PROVE  BuildInv'
<1>1. /\ applied = "enabling" /\ phase' = "failed" /\ built' = EmptyBuilt
      /\ applied' = "no" /\ calls' = {} /\ UNCHANGED <<cfg, todo, stack, on>>
  BY DEF EnableFails, GiveUp
<1>2. phase = "running"
  BY <1>1 DEF BuildInv, EnableInv
<1>3. InOrder' /\ StackInv'
  BY <1>1, <1>2, StackFrame DEF BuildInv
<1>4. ListInv'
  BY <1>1, <1>3, ListsGivenBack
<1>5. EnableInv'
  BY <1>1 DEF EnableInv
<1>. QED  BY <1>3, <1>4, <1>5 DEF BuildInv

LEMMA EnableDoneStep ==
    ASSUME BuildInv, EnableDone
    PROVE  BuildInv'
<1>1. /\ applied = "enabling" /\ calls = {} /\ applied' = "yes" /\ phase' = phase
      /\ UNCHANGED <<cfg, todo, stack, built, calls, on>>
  BY DEF EnableDone, vars
<1>2. phase = "running"
  BY <1>1 DEF BuildInv, EnableInv
<1>3. InOrder' /\ StackInv' /\ ListInv'
  BY <1>1, <1>2, StackFrame, ListsKept DEF BuildInv
<1>4. EnableCalls' = EnableCalls
  BY <1>1 DEF EnableCalls
<1>5. EnableInv'
  BY <1>1, <1>2, <1>4 DEF BuildInv, EnableInv
<1>. QED  BY <1>3, <1>5 DEF BuildInv

LEMMA EndStep ==
    ASSUME BuildInv, End
    PROVE  BuildInv'
<1>1. /\ phase' = "stopped" /\ DOMAIN stack' = {} /\ built' = EmptyBuilt
      /\ applied' = "no" /\ UNCHANGED <<cfg, todo, calls>>
  BY DEF End, Stop
<1>2. Done' = Done
  BY <1>1 DEF Done
<1>3. InOrder'
  BY <1>1, <1>2 DEF BuildInv, InOrder
<1>4. StackInv'
  BY <1>1 DEF StackInv
<1>5. ListInv'
  BY <1>1, <1>3, ListsGivenBack
<1>6. EnableInv'
  BY <1>1 DEF EnableInv
<1>. QED  BY <1>3, <1>4, <1>5, <1>6 DEF BuildInv

-----------------------------------------------------------------------------
(* Steps that create something.                                             *)

(* A set of positions has a least one.                                      *)
LEMMA Least ==
    ASSUME NEW T, T \subseteq Nat, T # {}
    PROVE  \E i \in T : \A j \in T : i <= j
<1>1. PICK R : R = OpToRel(<, Nat)
  OBVIOUS
<1>2. \E x \in T : \A y \in T : ~ (<<y, x>> \in R)
  BY <1>1, NatLessThanWellFounded, WFMin
<1>3. \A x, y \in Nat : <<y, x>> \in R <=> y < x
  BY <1>1 DEF OpToRel
<1>4. \A x, y \in Nat : ~ (y < x) <=> x <= y
  OBVIOUS
<1>. QED  BY <1>2, <1>3, <1>4, Zenon

(* What comes next, done: all that came before it had been.                 *)
LEMMA NextDone ==
    ASSUME InOrder, NEW s \in todo, IsNext(s, todo), todo' = todo \ {s}, cfg' = cfg
    PROVE  /\ InOrder' /\ s \in BuildSteps(cfg) /\ s \notin Done
           /\ Done' = Done \cup {s}
           /\ \A t \in BuildSteps(cfg) : Before(t.at, s.at) => t \in Done
           /\ \A t \in BuildSteps(cfg) : Before(s.at, t.at) => t \in todo
<1>1. s \in BuildSteps(cfg) /\ s \notin Done /\ Done' = Done \cup {s}
  BY DEF InOrder, Done
<1>2. \A t \in BuildSteps(cfg) : Before(t.at, s.at) => t \in Done
  BY DEF IsNext, Done
<1>3. \A t \in BuildSteps(cfg) : Before(s.at, t.at) => t \in todo
  BY DEF InOrder, Done
<1>4. \A t \in Done', u \in todo' : ~Before(u.at, t.at)
  BY <1>1 DEF IsNext, InOrder
<1>5. InOrder'
  BY <1>4 DEF InOrder
<1>. QED  BY <1>1, <1>2, <1>3, <1>5

(* The data set of a field has been created before it.                      *)
LEMMA DataSetOfField ==
    ASSUME InOrder, NEW t \in Done, ~Creates(t)
    PROVE  \E d \in Done : d.kind = "dataSet" /\ d.of = t.of
<1>1. t.kind = "field" /\ t \in BuildSteps(cfg) /\ cfg \in Configs
  BY DEF Creates, Done, InOrder
<1>2. PICK d \in BuildSteps(cfg) : d.kind = "dataSet" /\ d.of = t.of /\ Before(d.at, t.at)
  BY <1>1, FieldFacts
<1>. QED  BY <1>2 DEF InOrder, Done

(* A component to be created is not there yet.                              *)
LEMMA Fresh ==
    ASSUME InOrder, NEW s \in todo, Creates(s), NEW t \in Done
    PROVE  t.of.id # s.of.id
<1>1. s \in BuildSteps(cfg) /\ s \notin Done
  BY DEF InOrder, Done
<1>2. CASE Creates(t)
  BY <1>1, <1>2, SameId DEF Done
<1>3. CASE ~Creates(t)
  <2>1. PICK d \in Done : d.kind = "dataSet" /\ d.of = t.of
    BY <1>3, DataSetOfField
  <2>2. d.of.id # s.of.id
    BY <1>1, <2>1, SameId DEF Done, Creates
  <2>. QED  BY <2>1, <2>2
<1>. QED  BY <1>2, <1>3

(* find_pds finds a data set of the name it is given.                       *)
LEMMA FindFacts ==
    ASSUME InOrder, StackInv, ListInv, phase = "adding",
           NEW name, find_pds(name) # None
    PROVE  \E d \in Done : /\ d.kind = "dataSet" /\ d.of.name = name
                           /\ find_pds(name) = d.of.id
<1>. DEFINE list == built["dataSet"]
            found == {i \in DOMAIN list : stack[list[i]].uses = name}
<1>1. list \in Seq(Ids("dataSet"))
  BY DEF ListInv, Kinds
<1>2. found # {} /\ found \subseteq Nat
  <2>1. DOMAIN list \subseteq Nat
    BY <1>1
  <2>. QED  BY <2>1 DEF find_pds
<1>3. PICK i \in found : \A j \in found : i <= j
  BY <1>2, Least
<1>4. (CHOOSE n \in found : \A j \in found : n <= j) \in found
  BY <1>3, Zenon
<1>5. PICK n \in found : n = CHOOSE m \in found : \A j \in found : m <= j
  BY <1>4
<1>6. find_pds(name) = list[n]
  BY <1>2, <1>5 DEF find_pds
<1>7. list[n] \in Ids("dataSet") /\ stack[list[n]].uses = name
  <2>1. n \in DOMAIN list /\ stack[list[n]].uses = name
    OBVIOUS
  <2>2. PICK l, I : l = list /\ I = Ids("dataSet")
    OBVIOUS
  <2>3. l[n] \in I
    BY <1>1, <2>1, <2>2
  <2>. QED  BY <2>1, <2>2, <2>3
<1>8. PICK d \in Done : d.kind = "dataSet" /\ d.of.id = list[n]
  BY <1>7 DEF Ids, DoneOf
<1>9. EntryInv(d)
  BY <1>8 DEF StackInv, Creates
<1>10. d.of.name = name
  BY <1>7, <1>8, <1>9 DEF EntryInv, Entry
<1>. QED  BY <1>6, <1>8, <1>10

(* The queue of a reader group that has none of its own.                    *)
LEMMA QueueFacts ==
    ASSUME NEW g, g.members \in Seq(Range(g.members)), g.queue = None,
           Cardinality(Queues(g)) <= 1, NEW i \in DOMAIN g.members
    PROVE  g.members[i].queue \in {None, QueueOf(g)}
<1>. SUFFICES ASSUME g.members[i].queue # None
     PROVE  g.members[i].queue = QueueOf(g)
  OBVIOUS
<1>1. PICK q : q = g.members[i].queue
  OBVIOUS
<1>2. q \in Queues(g)
  BY <1>1 DEF Queues
<1>3. PICK r \in Queues(g) : r = QueueOf(g)
  <2>1. (CHOOSE r \in Queues(g) : TRUE) \in Queues(g)
    BY <1>2, Zenon
  <2>2. QueueOf(g) = CHOOSE r \in Queues(g) : TRUE
    BY <1>2 DEF QueueOf
  <2>. QED  BY <2>1, <2>2
<1>4. IsFiniteSet(Queues(g))
  <2>1. PICK n \in Nat : DOMAIN g.members = 1..n
    OBVIOUS
  <2>2. IsFiniteSet(DOMAIN g.members)
    BY <2>1, FS_Interval
  <2>3. PICK S, F : /\ S = {g.members[m].queue : m \in DOMAIN g.members}
                    /\ F = [m \in DOMAIN g.members |-> g.members[m].queue]
    OBVIOUS
  <2>4. F \in Surjection(DOMAIN g.members, S)
    BY <2>3 DEF Surjection
  <2>5. IsFiniteSet(S)
    BY <2>2, <2>4, FS_Surjection
  <2>. QED  BY <2>3, <2>5, FS_Subset DEF Queues
<1>5. q = r
  <2>1. SUFFICES ASSUME q # r PROVE FALSE
    OBVIOUS
  <2>2. Cardinality({q} \cup {r}) = 2
    <3>1. IsFiniteSet({q}) /\ Cardinality({q}) = 1
      BY FS_Singleton
    <3>2. Cardinality({q} \cup {r}) = Cardinality({q}) + 1
      BY <2>1, <3>1, FS_AddElement
    <3>3. PICK m, n : m = Cardinality({q} \cup {r}) /\ n = Cardinality({q})
      OBVIOUS
    <3>4. m = n + 1 /\ n = 1
      BY <3>1, <3>2, <3>3, Zenon
    <3>5. m = 2
      BY <3>4
    <3>. QED  BY <3>3, <3>5, Zenon
  <2>3. PICK T : T = {q} \cup {r}
    OBVIOUS
  <2>4. T \in SUBSET Queues(g)
    BY <1>2, <1>3, <2>3
  <2>5. Cardinality(T) <= Cardinality(Queues(g)) /\ Cardinality(Queues(g)) \in Nat
    BY <1>4, <2>4, FS_Subset, FS_CardinalityType, Zenon
  <2>. QED  BY <2>2, <2>3, <2>5
<1>. QED  BY <1>1, <1>3, <1>5

(* A component of the stack hangs where the configuration says.             *)
LEMMA ComponentStep ==
    ASSUME InOrder, StackInv, ListInv, phase = "adding", phase' # "stopped",
           NEW s \in todo, IsNext(s, todo), Accepted(s), Creates(s),
           stack' = [id \in DOMAIN stack \cup {s.of.id} |->
                       IF id = s.of.id THEN Component(s) ELSE stack[id]],
           todo' = todo \ {s}, cfg' = cfg
    PROVE  StackInv'
<1>1. /\ InOrder' /\ s \in BuildSteps(cfg) /\ s \notin Done
      /\ Done' = Done \cup {s}
      /\ \A t \in BuildSteps(cfg) : Before(s.at, t.at) => t \in todo
      /\ cfg \in Configs
  BY NextDone DEF InOrder
<1>2. /\ DOMAIN stack = {t.of.id : t \in Done}
      /\ \A t \in Done : Creates(t) => EntryInv(t)
      /\ \A d \in Done : d.kind = "dataSet" => FieldsInv(d)
  BY DEF StackInv
<1>3. \A t \in Done : t.of.id # s.of.id
  BY Fresh
<1>4. \A t \in Done : Entry(t)' = Entry(t)
  BY <1>2, <1>3 DEF Entry
<1>5. /\ Entry(s)' = Component(s) /\ Entry(s)'.uses = Uses(s) /\ Entry(s)'.fields = 0
      /\ Entry(s)' = [kind |-> s.kind, parent |-> s.parent, uses |-> Uses(s), fields |-> 0]
  BY DEF Entry, Component
<1>6. DOMAIN stack' = {t.of.id : t \in Done'}
  BY <1>1, <1>2
<1>7. ASSUME NEW t \in Done, Creates(t) PROVE EntryInv(t)'
  <2>1. EntryInv(t) /\ Entry(t)' = Entry(t) /\ Done \subseteq Done'
    BY <1>1, <1>2, <1>4, <1>7
  <2>. QED  BY <2>1 DEF EntryInv
<1>8. EntryInv(s)'
  <2>1. s.kind = "dataSet" => Uses(s) = s.of.name
    BY DEF Uses
  <2>2. ASSUME s.kind = "writer", s.of.dataSet # None
        PROVE  \E d \in Done : /\ d.kind = "dataSet"
                               /\ Uses(s) = d.of.id /\ d.of.name = s.of.dataSet
    <3>1. Uses(s) = find_pds(s.of.dataSet) /\ find_pds(s.of.dataSet) # None
      BY <2>2 DEF Uses, Accepted
    <3>. QED  BY <3>1, FindFacts
  <2>3. ASSUME s.kind = "readerGroup", s.of.queue = None, NEW i \in DOMAIN s.of.members
        PROVE  s.of.members[i].queue \in {None, Uses(s)}
    <3>1. Uses(s) = QueueOf(s.of) /\ Cardinality(Queues(s.of)) <= 1
      BY <2>3 DEF Uses, Accepted
    <3>2. s.of.members \in Seq(Range(s.of.members))
      BY <1>1, <2>3, ConfigAssumption
    <3>. QED  BY <2>3, <3>1, <3>2, QueueFacts
  <2>. QED  BY <1>1, <1>5, <2>1, <2>2, <2>3 DEF EntryInv
<1>9. ASSUME NEW d \in Done, d.kind = "dataSet" PROVE FieldsInv(d)'
  <2>1. FieldsInv(d) /\ Entry(d)' = Entry(d)
    BY <1>2, <1>4, <1>9
  <2>2. \A f : FieldStep(d, f) # s
    BY DEF FieldStep, Step, Creates
  <2>. QED  BY <2>1, <2>2 DEF FieldsInv
<1>10. ASSUME s.kind = "dataSet" PROVE FieldsInv(s)'
  <2>1. s.of.fields \in Nat
    BY <1>1, <1>10, ConfigAssumption
  <2>2. DataSetShape(cfg, s)
    BY <1>1, <1>10, DataSetFacts
  <2>3. ASSUME NEW f \in 1..s.of.fields PROVE FieldStep(s, f) \in todo'
    <3>1. FieldStep(s, f) \in todo
      BY <1>1, <2>2 DEF DataSetShape
    <3>2. FieldStep(s, f) # s
      BY DEF FieldStep, Step, Creates
    <3>. QED  BY <3>1, <3>2
  <2>. QED  BY <1>5, <2>1, <2>3 DEF FieldsInv
<1>. QED  BY <1>1, <1>6, <1>7, <1>8, <1>9, <1>10 DEF StackInv

(* A data set gets its next field.                                          *)
LEMMA FieldAdded ==
    ASSUME InOrder, StackInv, phase = "adding", phase' # "stopped",
           NEW s \in todo, IsNext(s, todo), ~Creates(s),
           stack' = [stack EXCEPT ![s.of.id].fields = @ + 1],
           todo' = todo \ {s}, cfg' = cfg
    PROVE  StackInv'
<1>1. /\ InOrder' /\ s \in BuildSteps(cfg) /\ s \notin Done
      /\ Done' = Done \cup {s}
      /\ \A t \in BuildSteps(cfg) : Before(t.at, s.at) => t \in Done
      /\ cfg \in Configs /\ s.kind = "field"
  BY NextDone DEF InOrder, Creates
<1>2. /\ DOMAIN stack = {t.of.id : t \in Done}
      /\ \A t \in Done : Creates(t) => EntryInv(t)
      /\ \A d \in Done : d.kind = "dataSet" => FieldsInv(d)
  BY DEF StackInv
<1>3. PICK d \in BuildSteps(cfg) :
         /\ d.kind = "dataSet" /\ d.of = s.of /\ Before(d.at, s.at)
         /\ \E f \in 1..d.of.fields : s = FieldStep(d, f)
  BY <1>1, FieldFacts
<1>4. PICK f \in 1..d.of.fields : s = FieldStep(d, f)
  BY <1>3
<1>5. d \in Done /\ Creates(d) /\ d.of.id \in DOMAIN stack /\ d.of.fields \in Nat
  BY <1>1, <1>2, <1>3, ConfigAssumption DEF Creates
<1>6. PICK n \in 0..d.of.fields : n = Entry(d).fields
  BY <1>2, <1>3, <1>5 DEF FieldsInv
<1>7. \A g \in 1..d.of.fields : FieldStep(d, g) \in todo <=> n < g
  BY <1>2, <1>3, <1>5, <1>6 DEF FieldsInv
<1>8. f = n + 1
  <2>1. n < f
    BY <1>4, <1>7
  <2>2. \A g \in 1..d.of.fields : g < f => FieldStep(d, g) \in Done
    <3>1. DataSetShape(cfg, d)
      BY <1>1, <1>3, DataSetFacts
    <3>. QED  BY <1>1, <1>4, <3>1 DEF DataSetShape
  <2>3. \A g \in 1..d.of.fields : g < f => ~(n < g)
    BY <1>7, <2>2 DEF Done
  <2>4. n + 1 \in 1..d.of.fields
    BY <1>5, <2>1
  <2>. QED  BY <1>5, <2>1, <2>3, <2>4
<1>9. \A t \in Done : Creates(t) /\ t # d => t.of.id # d.of.id
  BY <1>5, SameId DEF Done
<1>10. \A t \in Done : Creates(t) /\ t # d => Entry(t)' = Entry(t)
  BY <1>2, <1>3, <1>5, <1>9 DEF Entry
<1>11. PICK u : Entry(d) = [kind |-> d.kind, parent |-> d.parent, uses |-> u, fields |-> n]
  BY <1>2, <1>5, <1>6 DEF EntryInv
<1>12. Entry(d)' = [kind |-> d.kind, parent |-> d.parent, uses |-> u, fields |-> n + 1]
  <2>1. Entry(d)' = [Entry(d) EXCEPT !.fields = @ + 1]
    BY <1>3, <1>5 DEF Entry
  <2>. QED  BY <1>11, <2>1
<1>13. DOMAIN stack' = {t.of.id : t \in Done'}
  BY <1>1, <1>2, <1>3, <1>5
<1>14. ASSUME NEW t \in Done', Creates(t) PROVE EntryInv(t)'
  <2>1. t \in Done /\ Done \subseteq Done' /\ EntryInv(t)
    BY <1>1, <1>2, <1>14
  <2>2. CASE t = d
    <3>1. Entry(d).uses = u /\ Entry(d)'.uses = u
      BY <1>11, <1>12
    <3>2. Entry(d)' = [kind |-> d.kind, parent |-> d.parent,
                       uses |-> Entry(d)'.uses, fields |-> Entry(d)'.fields]
      BY <1>12
    <3>3. u = d.of.name
      BY <1>3, <2>1, <2>2, <3>1 DEF EntryInv
    <3>. QED  BY <1>3, <2>2, <3>1, <3>2, <3>3 DEF EntryInv
  <2>3. CASE t # d
    <3>1. Entry(t)' = Entry(t)
      BY <1>10, <1>14, <2>1, <2>3
    <3>. QED  BY <2>1, <3>1 DEF EntryInv
  <2>. QED  BY <2>2, <2>3
<1>15. ASSUME NEW e \in Done', e.kind = "dataSet" PROVE FieldsInv(e)'
  <2>1. e \in Done /\ Creates(e) /\ FieldsInv(e)
    BY <1>1, <1>2, <1>15 DEF Creates
  <2>2. CASE e = d
    <3>1. Entry(d)'.fields = n + 1 /\ n + 1 \in 0..d.of.fields
      BY <1>4, <1>5, <1>8, <1>12
    <3>2. ASSUME NEW g \in 1..d.of.fields
          PROVE  FieldStep(d, g) \in todo' <=> n + 1 < g
      <4>1. FieldStep(d, g) = s <=> g = f
        BY <1>4 DEF FieldStep, Step
      <4>2. FieldStep(d, g) \in todo' <=> n < g /\ g # f
        BY <1>7, <4>1
      <4>. QED  BY <1>8, <4>2
    <3>. QED  BY <2>2, <3>1, <3>2 DEF FieldsInv
  <2>3. CASE e # d
    <3>1. Entry(e)' = Entry(e)
      BY <1>10, <2>1, <2>3
    <3>2. \A g : FieldStep(e, g) # s
      <4>1. e.of.id # s.of.id
        BY <1>3, <1>9, <2>1, <2>3
      <4>. QED  BY <4>1 DEF FieldStep, Step
    <3>. QED  BY <2>1, <3>1, <3>2 DEF FieldsInv
  <2>. QED  BY <2>2, <2>3
<1>. QED  BY <1>13, <1>14, <1>15 DEF StackInv

(* A component is remembered while its list has room.                       *)
LEMMA RememberStep ==
    ASSUME InOrder, ListInv, phase = "adding", phase' = "adding",
           NEW s \in todo, IsNext(s, todo), Creates(s), built' = Remember(s),
           todo' = todo \ {s}, cfg' = cfg
    PROVE  ListInv'
<1>1. s \in BuildSteps(cfg) /\ s \notin Done /\ Done' = Done \cup {s}
  BY NextDone
<1>2. s.kind \in Kinds
  BY <1>1, KindFacts DEF Creates
<1>3. PICK n : n = s.of.id
  OBVIOUS
<1>4. PICK k \in Kinds : k = s.kind
  BY <1>2
<1>5. /\ built[k] \in Seq(Ids(k)) /\ Len(built[k]) <= MaxComponents
      /\ Len(built[k]) <= Cardinality(DoneOf(k))
      /\ Ids(k) \subseteq Range(built[k]) \/ Cardinality(DoneOf(k)) > MaxComponents
      /\ DOMAIN built = Kinds
  BY DEF ListInv
<1>6. /\ DOMAIN built' = Kinds
      /\ built'[k] = IF Len(built[k]) < MaxComponents THEN Append(built[k], n) ELSE built[k]
      /\ \A j \in Kinds : j # k => built'[j] = built[j]
  BY <1>3, <1>4, <1>5 DEF Remember
<1>7. ASSUME NEW j \in Kinds, j # k
      PROVE  DoneOf(j)' = DoneOf(j) /\ Ids(j)' = Ids(j)
  <2>1. DoneOf(j)' = DoneOf(j)
    BY <1>1, <1>4, <1>7 DEF DoneOf
  <2>. QED  BY <2>1 DEF Ids
<1>8. DoneOf(k)' = DoneOf(k) \cup {s} /\ s \notin DoneOf(k)
  BY <1>1, <1>4 DEF DoneOf
<1>9. Ids(k)' = Ids(k) \cup {n}
  BY <1>3, <1>8 DEF Ids
<1>10. /\ Cardinality(DoneOf(k)) \in Nat
       /\ Cardinality(DoneOf(k)') = Cardinality(DoneOf(k)) + 1
  BY <1>8, Finite, FS_AddElement
<1>11. PICK l, I, J, q, r, x :
          /\ l = built[k] /\ I = Ids(k) /\ J = Ids(k)' /\ x = built'[k]
          /\ q = Cardinality(DoneOf(k)) /\ r = Cardinality(DoneOf(k)')
  OBVIOUS
<1>12. /\ l \in Seq(I) /\ J = I \cup {n} /\ q \in Nat /\ r = q + 1
       /\ Len(l) <= MaxComponents /\ Len(l) <= q
       /\ I \subseteq Range(l) \/ q > MaxComponents
       /\ x = IF Len(l) < MaxComponents THEN Append(l, n) ELSE l
  BY <1>5, <1>6, <1>9, <1>10, <1>11
<1>13. /\ x \in Seq(J) /\ Len(x) <= MaxComponents /\ Len(x) <= r
       /\ J \subseteq Range(x) \/ r > MaxComponents
  <2>1. l \in Seq(J) /\ Len(l) \in Nat
    BY <1>12
  <2>2. CASE Len(l) < MaxComponents
    <3>1. x = Append(l, n) /\ n \in J
      BY <1>12, <2>2
    <3>2. x \in Seq(J) /\ Len(x) = Len(l) + 1
      BY <2>1, <3>1
    <3>3. Len(x) <= MaxComponents /\ Len(x) <= r
      BY <1>12, <2>1, <2>2, <3>2, ConfigAssumption
    <3>4. Range(x) = Range(l) \cup {n}
      <4>1. \A i \in DOMAIN l : i \in DOMAIN x /\ x[i] = l[i]
        BY <2>1, <3>1
      <4>2. Len(x) \in DOMAIN x /\ x[Len(x)] = n
        BY <2>1, <3>1
      <4>3. \A i \in DOMAIN x : i \in DOMAIN l \/ x[i] = n
        BY <2>1, <3>1
      <4>. QED  BY <4>1, <4>2, <4>3 DEF Range
    <3>5. q > MaxComponents => r > MaxComponents
      BY <1>12, ConfigAssumption
    <3>. QED  BY <1>12, <3>2, <3>3, <3>4, <3>5
  <2>3. CASE ~(Len(l) < MaxComponents)
    <3>1. x = l /\ Len(l) = MaxComponents
      BY <1>12, <2>1, <2>3, ConfigAssumption
    <3>2. r > MaxComponents /\ Len(l) <= r
      BY <1>12, <2>1, <3>1, ConfigAssumption
    <3>. QED  BY <1>12, <2>1, <3>1, <3>2
  <2>. QED  BY <2>2, <2>3
<1>14. ASSUME NEW j \in Kinds
       PROVE  /\ built'[j] \in Seq(Ids(j)') /\ Len(built'[j]) <= MaxComponents
              /\ Len(built'[j]) <= Cardinality(DoneOf(j)')
              /\ \/ Ids(j)' \subseteq Range(built'[j])
                 \/ Cardinality(DoneOf(j)') > MaxComponents
  <2>1. CASE j = k
    BY <1>11, <1>13, <2>1
  <2>2. CASE j # k
    BY <1>6, <1>7, <2>2 DEF ListInv
  <2>. QED  BY <2>1, <2>2
<1>. QED  BY <1>6, <1>14 DEF ListInv

(* The next step of the configuration is taken.                             *)
LEMMA CreateStep ==
    ASSUME BuildInv, Create
    PROVE  BuildInv'
<1>1. PICK s \in todo :
         /\ IsNext(s, todo)
         /\ Accepted(s)
         /\ IF Creates(s)
            THEN /\ stack' = [id \in DOMAIN stack \cup {s.of.id} |->
                                IF id = s.of.id THEN Component(s) ELSE stack[id]]
                 /\ IF s.of.id \in Users THEN AddUser(s.of.id) ELSE UNCHANGED vars
                 /\ built' = Kept(Remember(s))
            ELSE /\ stack' = [stack EXCEPT ![s.of.id].fields = @ + 1]
                 /\ UNCHANGED <<vars, built>>
         /\ todo' = todo \ {s}
  BY DEF Create
<1>2. /\ phase = "adding" /\ UNCHANGED <<cfg, calls, on, applied>>
      /\ InOrder /\ StackInv /\ ListInv /\ EnableInv
  BY DEF Create, BuildInv
<1>3. phase' \in {"adding", "failed"}
  BY <1>1, <1>2 DEF AddUser, vars
<1>4. InOrder' /\ Done' = Done \cup {s} /\ s \in BuildSteps(cfg)
  BY <1>1, <1>2, NextDone
<1>5. EnableInv'
  BY <1>2, <1>3 DEF EnableInv
<1>6. CASE Creates(s)
  <2>1. StackInv'
    BY <1>1, <1>2, <1>3, <1>6, ComponentStep
  <2>2. CASE phase' = "failed"
    <3>1. built' = EmptyBuilt
      BY <1>1, <1>6, <2>2 DEF Kept
    <3>2. ListInv'
      BY <1>4, <2>2, <3>1, ListsGivenBack
    <3>. QED  BY <1>4, <1>5, <2>1, <3>2 DEF BuildInv
  <2>3. CASE phase' = "adding"
    <3>1. built' = Remember(s)
      BY <1>1, <1>6, <2>3 DEF Kept
    <3>2. ListInv'
      BY <1>1, <1>2, <1>6, <2>3, <3>1, RememberStep
    <3>. QED  BY <1>4, <1>5, <2>1, <3>2 DEF BuildInv
  <2>. QED  BY <1>3, <2>2, <2>3
<1>7. CASE ~Creates(s)
  <2>1. /\ stack' = [stack EXCEPT ![s.of.id].fields = @ + 1]
        /\ phase' = "adding" /\ built' = built
    BY <1>1, <1>2, <1>7 DEF vars
  <2>2. StackInv'
    BY <1>1, <1>2, <1>7, <2>1, FieldAdded
  <2>3. ASSUME NEW k \in Kinds PROVE DoneOf(k)' = DoneOf(k) /\ Ids(k)' = Ids(k)
    <3>1. s.kind # k
      BY <1>7 DEF Creates, Kinds
    <3>2. DoneOf(k)' = DoneOf(k)
      BY <1>4, <3>1 DEF DoneOf
    <3>. QED  BY <3>2 DEF Ids
  <2>4. ListInv'
    BY <1>2, <2>1, <2>3 DEF ListInv
  <2>. QED  BY <1>4, <1>5, <2>2, <2>4 DEF BuildInv
<1>. QED  BY <1>6, <1>7

(* Every step keeps the invariant.                                          *)
LEMMA BuildNext == BuildInv /\ [ConfigNext]_cvars => BuildInv'
<1>. SUFFICES ASSUME BuildInv, [ConfigNext]_cvars PROVE BuildInv'
  OBVIOUS
<1>1. CASE UNCHANGED cvars
  BY <1>1, KeysOnly DEF cvars, vars
<1>2. CASE Loop
  <2>1. UNCHANGED own /\ phase' = phase
    BY <1>2 DEF Loop, sks_retry_cb, Refresh, PullFails, PullSucceeds
  <2>. QED  BY <2>1, KeysOnly
<1>. QED  BY <1>1, <1>2, ParseStep, CreateStep, CreateFailsStep, CreatedStep,
             EnableStep, EnableFailsStep, EnableDoneStep, EndStep DEF ConfigNext

(* The invariant of applying a configuration: steps in the order of the     *)
(* loops, the stack and the lists as far as they have come, the components  *)
(* enabled as far as enable_all has come.                                   *)
THEOREM BuildInvariant == ConfigSpec => []BuildInv
BY BuildInit, BuildNext, PTL DEF ConfigSpec

(* A configuration that counts as applied exists as a whole, and what it    *)
(* enables is enabled, as far as the lists of struct Built reach            *)
(* (pubsub_server_apply, enable_all), whatever the configuration.           *)
THEOREM AppliedIsWhole == ConfigSpec => []AppliedWhole
<1>1. BuildInv => AppliedWhole
  BY AppliedFromInv
<1>. QED  BY <1>1, BuildInvariant, PTL

(* Writers publish complete data sets of the name they give, reader groups  *)
(* subscribe their readers' queue, and parents come first (find_pds,        *)
(* add_writer_group, add_reader_group, add_connections).                    *)
THEOREM WiringIsRight == ConfigSpec => []WiredAsConfigured
<1>1. BuildInv => WiredAsConfigured
  BY WiredFromInv
<1>. QED  BY <1>1, BuildInvariant, PTL

(* Nothing is enabled before what it contains (enable_all).                 *)
THEOREM ChildrenAreFirst == ConfigSpec => []ChildrenFirst
<1>1. BuildInv => ChildrenFirst
  BY ChildrenFromInv
<1>. QED  BY <1>1, BuildInvariant, PTL
=============================================================================
