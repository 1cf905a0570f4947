------------------------------ MODULE SksPull ------------------------------
(***************************************************************************)
(* Where secured PubSub groups get their keys from (pubsub_server.c): the   *)
(* key source of each SecurityGroup, the list of writer and reader groups   *)
(* that use it (apply_group_keys), pulling keys from a remote Security Key  *)
(* Service (sks_attempt, sks_pull_cb), the retry until the first keys       *)
(* arrive (sks_retry_cb), and their activation (activate_keys_for_group).   *)
(*                                                                          *)
(* The configuration is applied in one go; answers of the SKS, the retry    *)
(* timer and the stack's own refreshes then interleave in the event loop.   *)
(***************************************************************************)
EXTENDS Naturals, FiniteSets

CONSTANTS
    Groups,       \* SecurityGroups of the configuration
    Users,        \* writer and reader groups with a SecurityGroupId
    GroupOf,      \* GroupOf[u]: the SecurityGroup of u
    MaxSecured,   \* MAX_SECURED
    MaxFailures   \* bound: attempts, answers and activations that fail

ASSUME GroupAssumption ==
    /\ IsFiniteSet(Groups)
    /\ IsFiniteSet(Users)
    /\ GroupOf \in [Users -> Groups]
ASSUME BoundAssumption == MaxSecured \in Nat /\ MaxFailures \in Nat

VARIABLES
    phase,    \* "parse", "adding", "running", "failed", "stopped"
    role,     \* what the file asks for: "serveSks", "sksClient" or neither
    keyed,    \* SecurityGroups with static "keys" in the file
    toAdd,    \* users that add_connections has still to create
    secured,  \* g_secured
    active,   \* users whose keys are set or activated
    warned,   \* users whose activation failed when keys arrived
    received, \* sksKeysReceived of each group
    inFlight, \* sksInFlight of each group
    pulls,    \* pulls[g]: GetSecurityKeys calls of the stack under way
    timer,    \* the repeated callback sks_retry_cb exists
    failures  \* failures so far

vars == <<phase, role, keyed, toAdd, secured, active, warned, received,
          inFlight, pulls, timer, failures>>

Init ==
    /\ phase = "parse"
    /\ role \in {"serveSks", "sksClient", "none"}
    /\ keyed \in SUBSET Groups
    /\ toAdd = Users
    /\ secured = {}
    /\ active = {}
    /\ warned = {}
    /\ received = {}
    /\ inFlight = {}
    /\ pulls = [g \in Groups |-> 0]
    /\ timer = FALSE
    /\ failures = 0

-----------------------------------------------------------------------------
(* Applying the configuration.                                              *)

Source(g) ==
    CASE role = "serveSks" -> "SKS_SERVER"
      [] role # "serveSks" /\ g \in keyed -> "STATIC"
      [] role = "sksClient" /\ g \notin keyed -> "SKS_CLIENT"
      [] OTHER -> "NONE"

Pulled == {g \in Groups : Source(g) = "SKS_CLIENT"}

UsersOf(g) == {u \in Users : GroupOf[u] = g}

(* An unsupported policy is an error; static keys and an SKS of its own     *)
(* exclude each other; creating the SecurityGroups of an SKS may fail.      *)
ParseGroups ==
    /\ phase = "parse"
    /\ \/ phase' = "adding" /\ (role = "serveSks" => keyed = {})
       \/ phase' = "failed"
    /\ UNCHANGED <<role, keyed, toAdd, secured, active, warned, received, inFlight,
                   pulls, timer, failures>>

(* The list is bounded; a user beyond the bound is dropped silently.        *)
Listed(u) ==
    IF Cardinality(secured) < MaxSecured THEN secured \cup {u} ELSE secured

(* apply_group_keys for the next writer or reader group: known keys are put *)
(* in place at once, and failing to is fatal.                               *)
AddUser(u) ==
    /\ phase = "adding"
    /\ u \in toAdd
    /\ toAdd' = toAdd \ {u}
    /\ secured' = Listed(u)
    /\ IF Source(GroupOf[u]) \in {"STATIC", "SKS_SERVER"}
       THEN \/ active' = active \cup {u} /\ UNCHANGED phase
            \/ phase' = "failed" /\ UNCHANGED active
       ELSE UNCHANGED <<phase, active>>
    /\ UNCHANGED <<role, keyed, warned, received, inFlight, pulls, timer, failures>>

(* sks_attempt for the groups in due: a pull starts, or the certificate,    *)
(* the client configuration or UA_Server_setSksClient fails and the group   *)
(* is left for the retry.                                                   *)
sks_attempt(due) ==
    \E started \in SUBSET due :
        /\ failures + Cardinality(due \ started) <= MaxFailures
        /\ failures' = failures + Cardinality(due \ started)
        /\ inFlight' = inFlight \cup started
        /\ pulls' = [g \in Groups |-> IF g \in started THEN pulls[g] + 1 ELSE pulls[g]]

(* The pulls start when every group exists; then the configuration counts   *)
(* as applied. Invalid sksClient settings are fatal; the result of adding   *)
(* the retry timer is not looked at, so there may be none.                  *)
StartPulls ==
    /\ phase = "adding"
    /\ toAdd = {}
    /\ \/ /\ phase' = "running"
          /\ timer' \in {FALSE, Pulled # {}}
          /\ sks_attempt(Pulled)
       \/ /\ Pulled # {}
          /\ phase' = "failed"
          /\ UNCHANGED <<timer, inFlight, pulls, failures>>
    /\ UNCHANGED <<role, keyed, toAdd, secured, active, warned, received>>

(* pubsub_server_apply fails for a reason that is not the keys'.            *)
GiveUp ==
    /\ phase \in {"adding", "running"}
    /\ phase' = "failed"
    /\ UNCHANGED <<role, keyed, toAdd, secured, active, warned, received, inFlight,
                   pulls, timer, failures>>

-----------------------------------------------------------------------------
(* The event loop.                                                          *)

MutDue == {g \in Pulled : g \notin received}

Due == {g \in Pulled : g \notin received /\ g \notin inFlight}

(* sks_retry_cb, every 2 s.                                                 *)
sks_retry_cb ==
    /\ phase = "running"
    /\ timer
    /\ sks_attempt(Due)
    /\ UNCHANGED <<phase, role, keyed, toAdd, secured, active, warned, received, timer>>

(* The stack asks again at half the key lifetime once it has keys.          *)
Refresh(g) ==
    /\ phase = "running"
    /\ g \in received
    /\ pulls[g] = 0
    /\ pulls' = [pulls EXCEPT ![g] = 1]
    /\ UNCHANGED <<phase, role, keyed, toAdd, secured, active, warned, received,
                   inFlight, timer, failures>>

MutPullFails(g) ==
    /\ phase = "running"
    /\ pulls[g] > 0
    /\ failures < MaxFailures
    /\ failures' = failures + 1
    /\ pulls' = [pulls EXCEPT ![g] = @ - 1]
    /\ UNCHANGED <<phase, role, keyed, toAdd, secured, active, warned, received,
                   inFlight, timer>>

(* sks_pull_cb with a Bad status: not reachable, refused, timed out.        *)
PullFails(g) ==
    /\ phase = "running"
    /\ pulls[g] > 0
    /\ failures < MaxFailures
    /\ failures' = failures + 1
    /\ pulls' = [pulls EXCEPT ![g] = @ - 1]
    /\ inFlight' = inFlight \ {g}
    /\ UNCHANGED <<phase, role, keyed, toAdd, secured, active, warned, received, timer>>

MutActivated(g) ==
    LET listed == secured \cap UsersOf(g) IN IF listed = {} THEN {} ELSE {CHOOSE u \in listed : TRUE}

(* activate_keys_for_group tries every listed user of the group.            *)
Activated(g) == secured \cap UsersOf(g)

(* sks_pull_cb with keys; a failed activation is a warning.                 *)
PullSucceeds(g) ==
    /\ phase = "running"
    /\ pulls[g] > 0
    /\ pulls' = [pulls EXCEPT ![g] = @ - 1]
    /\ inFlight' = inFlight \ {g}
    /\ received' = received \cup {g}
    /\ \E bad \in SUBSET Activated(g) :
          /\ failures + Cardinality(bad) <= MaxFailures
          /\ failures' = failures + Cardinality(bad)
          /\ active' = active \cup (Activated(g) \ bad)
          /\ warned' = warned \cup bad
    /\ UNCHANGED <<phase, role, keyed, toAdd, secured, timer>>

(* The server is deleted, with its timers and pulls; pubsub_server_cleanup  *)
(* clears the rest.                                                         *)
Stop ==
    /\ phase \in {"running", "failed"}
    /\ phase' = "stopped"
    /\ secured' = {}
    /\ active' = {}
    /\ warned' = {}
    /\ received' = {}
    /\ inFlight' = {}
    /\ pulls' = [g \in Groups |-> 0]
    /\ timer' = FALSE
    /\ UNCHANGED <<role, keyed, toAdd, failures>>

Next ==
    \/ ParseGroups
    \/ \E u \in Users : AddUser(u)
    \/ StartPulls
    \/ GiveUp
    \/ sks_retry_cb
    \/ \E g \in Groups : Refresh(g) \/ PullFails(g) \/ PullSucceeds(g)
    \/ Stop

(* The timer keeps firing, and every pull is answered: the stack's client   *)
(* has timeouts for connecting and for the call.                            *)
Fairness ==
    /\ WF_vars(sks_retry_cb)
    /\ \A g \in Groups : WF_vars(PullFails(g) \/ PullSucceeds(g))

Spec == Init /\ [][Next]_vars /\ Fairness

-----------------------------------------------------------------------------
(* Properties.                                                              *)

(* Type correctness; the list g_secured stays within its array.             *)
TypeOK ==
    /\ phase \in {"parse", "adding", "running", "failed", "stopped"}
    /\ role \in {"serveSks", "sksClient", "none"}
    /\ keyed \subseteq Groups
    /\ toAdd \subseteq Users
    /\ secured \subseteq Users
    /\ Cardinality(secured) <= MaxSecured
    /\ active \subseteq Users
    /\ warned \subseteq Users
    /\ received \subseteq Groups
    /\ inFlight \subseteq Groups
    /\ pulls \in [Groups -> Nat]
    /\ timer \in BOOLEAN
    /\ failures \in 0..MaxFailures

(* One pull at a time: the retry timer never starts a second GetSecurityKeys*)
(* for a group while one is under way, and the flag is set exactly while    *)
(* the first keys are being pulled (sks_attempt, sks_retry_cb, sks_pull_cb).*)
OnePull ==
    \A g \in Groups :
        /\ pulls[g] <= 1
        /\ g \notin received => (g \in inFlight <=> pulls[g] = 1)
        /\ g \in received => g \notin inFlight

(* Keys are in place when they should be: a running server has the static   *)
(* and its own SKS's keys in every group that uses them, and after the      *)
(* first answer of a remote SKS every listed group has its keys, or was     *)
(* warned about - none was created too late to be told, and none is missing *)
(* from the list but what is beyond MAX_SECURED (apply_group_keys,          *)
(* activate_keys_for_group).                                                *)
KeysInPlace ==
    phase = "running" =>
        /\ \A u \in Users :
              Source(GroupOf[u]) \in {"STATIC", "SKS_SERVER"} => u \in active
        /\ \A g \in received : secured \cap UsersOf(g) \subseteq active \cup warned
        /\ Users # secured => Cardinality(secured) = MaxSecured

(* The SKS may start after this server: once failures cease, every group    *)
(* that pulls gets its keys, given that the timer could be added            *)
(* (sks_retry_cb).                                                          *)
KeysArrive ==
    \A g \in Groups :
        (phase = "running" /\ timer /\ g \in Pulled)
            ~> (g \in received \/ phase # "running")
=============================================================================
