---------------------------- MODULE PubSubConfig ----------------------------
(***************************************************************************)
(* server --pubsub-config (pubsub_server_apply): the data sets, connections,*)
(* groups, writers and readers of a configuration are created one by one    *)
(* with calls of the stack, secured groups get their keys on the way        *)
(* (SksPull, which this module composes), and then everything enabled in    *)
(* the configuration is enabled. The first failure gives the configuration  *)
(* up, and the server exits.                                                *)
(*                                                                          *)
(* The whole of it runs before the event loop does. The stack is external:  *)
(* any call may fail. The list of what was created (struct Built), by which *)
(* components are enabled and later recovered, is bounded per kind.         *)
(***************************************************************************)
EXTENDS SksPull, Sequences, Functions

CONSTANTS
    Configs,        \* configurations
    MaxComponents   \* MAX_COMPONENTS, of each kind

None == "none"      \* a name or queue that is not given

Kinds == {"dataSet", "writer", "writerGroup", "reader", "readerGroup", "connection"}

VARIABLES
    cfg,      \* the PubSubConfigurationDataType
    todo,     \* steps of add_published_datasets and add_connections to come
    stack,    \* what exists in the stack: id -> [kind, parent, uses, fields]
    built,    \* struct Built: kind -> sequence of ids
    calls,    \* calls of enable_all to come
    on,       \* components enabled
    applied   \* "no", "enabling", "yes": enable_all

own == <<cfg, todo, stack, built, calls, on, applied>>
cvars == <<vars, own>>

-----------------------------------------------------------------------------
(* What the loops over the configuration do. A step is placed by the         *)
(* indices of its loops, outermost first: 1 for the data sets and 2 for the *)
(* connections, the index in that array, 1 for the writer groups and 2 for  *)
(* the reader groups of a connection, the index of the group, and that of   *)
(* the field, writer or reader. 0 stands before the loop.                   *)

Step(kind, of, parent, at) == [kind |-> kind, of |-> of, parent |-> parent, at |-> at]

(* Loops go through their indices upwards.                                  *)
Before(p, q) ==
    \E n \in DOMAIN p : p[n] < q[n] /\ \A m \in 1..(n - 1) : p[m] = q[m]

(* What comes next of a set of steps or calls.                              *)
IsNext(s, S) == s \in S /\ \A t \in S : ~Before(t.at, s.at)

DataSetSteps(d, i) ==
    {Step("dataSet", d, None, <<1, i, 0, 0, 0>>)}
    \cup {Step("field", d, None, <<1, i, 0, 0, f>>) : f \in 1..d.fields}

GroupSteps(kind, leaf, g, c, i, l, j) ==
    {Step(kind, g, c.id, <<2, i, l, j, 0>>)}
    \cup {Step(leaf, g.members[m], g.id, <<2, i, l, j, m>>) : m \in DOMAIN g.members}

ConnectionSteps(c, i) ==
    {Step("connection", c, None, <<2, i, 0, 0, 0>>)}
    \cup (UNION {GroupSteps("writerGroup", "writer", c.writerGroups[j], c, i, 1, j) :
                     j \in DOMAIN c.writerGroups})
    \cup (UNION {GroupSteps("readerGroup", "reader", c.readerGroups[j], c, i, 2, j) :
                     j \in DOMAIN c.readerGroups})

(* Data sets beyond the bound are passed over.                              *)
BuildSteps(c) ==
    (UNION {DataSetSteps(c.dataSets[i], i) :
               i \in {i \in DOMAIN c.dataSets : i <= MaxComponents}})
    \cup (UNION {ConnectionSteps(c.connections[i], i) : i \in DOMAIN c.connections})

Creates(s) == s.kind # "field"

(* Configurations are made of arrays. The ids are the NodeIds that the      *)
(* stack gives out: no two components share one, and none is null.          *)
ASSUME ConfigAssumption ==
    /\ MaxComponents \in Nat
    /\ \A c \in Configs :
          /\ c.dataSets \in Seq(Range(c.dataSets))
          /\ IsFiniteSet(BuildSteps(c))
          /\ \A s \in BuildSteps(c) :
                /\ s.of.id # None
                /\ s.kind = "dataSet" => s.of.fields \in Nat
                /\ s.kind \in {"writerGroup", "readerGroup"} =>
                      s.of.members \in Seq(Range(s.of.members))
          /\ \A s, t \in BuildSteps(c) :
                Creates(s) /\ Creates(t) /\ s.of.id = t.of.id => s = t

EmptyBuilt == [k \in Kinds |-> <<>>]

ConfigInit ==
    /\ Init
    /\ cfg \in Configs
    /\ todo = BuildSteps(cfg)
    /\ stack = [id \in {} |-> None]
    /\ built = EmptyBuilt
    /\ calls = {}
    /\ on = {}
    /\ applied = "no"

(* The file is read, decoded and its SecurityGroups are looked at, or that  *)
(* fails (ParseGroups).                                                     *)
Parse ==
    /\ ParseGroups
    /\ UNCHANGED own

-----------------------------------------------------------------------------
(* add_published_datasets, add_writer_group, add_reader_group,              *)
(* add_connections.                                                         *)

(* find_pds: the first data set of that name in the list.                   *)
find_pds(name) ==
    LET found == {i \in DOMAIN built["dataSet"] : stack[built["dataSet"][i]].uses = name}
    IN  IF found = {} THEN None
        ELSE built["dataSet"][CHOOSE i \in found : \A j \in found : i <= j]

(* The QueueNames of a reader group's readers.                              *)
Queues(g) == {g.members[i].queue : i \in DOMAIN g.members} \ {None}

MutQueueOf(g) ==
    IF g.queue # None THEN g.queue
    ELSE IF g.members = <<>> THEN None ELSE g.members[1].queue
(* A reader group subscribes its own QueueName, else its readers'.          *)
QueueOf(g) ==
    IF g.queue # None THEN g.queue
    ELSE IF Queues(g) = {} THEN None ELSE CHOOSE q \in Queues(g) : TRUE

(* resolve_security: a secured group names a SecurityGroup of the file.     *)
Resolved(g) == g.mode = "None" \/ g.securityGroupId \in Groups

(* What the adapter itself refuses: an address, publisher or data source    *)
(* of the wrong type or not supported (of.valid), a SecurityGroup or a data *)
(* set that is not there, different QueueNames in one reader group.         *)
Accepted(s) ==
    CASE s.kind \in {"dataSet", "connection", "reader"} -> s.of.valid
      [] s.kind = "writer" -> s.of.dataSet = None \/ find_pds(s.of.dataSet) # None
      [] s.kind = "writerGroup" -> Resolved(s.of)
      [] s.kind = "readerGroup" ->
            Resolved(s.of) /\ (s.of.queue # None \/ Cardinality(Queues(s.of)) <= 1)
      [] OTHER -> TRUE

(* What a component hangs on besides its parent.                            *)
Uses(s) ==
    CASE s.kind = "dataSet" -> s.of.name
      [] s.kind = "writer" -> IF s.of.dataSet = None THEN None ELSE find_pds(s.of.dataSet)
      [] s.kind = "readerGroup" -> QueueOf(s.of)
      [] OTHER -> None

Component(s) == [kind |-> s.kind, parent |-> s.parent, uses |-> Uses(s), fields |-> 0]

MutRemember(s) ==
    IF s.kind = "readerGroup" THEN built
    ELSE [built EXCEPT ![s.kind] = IF Len(@) < MaxComponents THEN Append(@, s.of.id) ELSE @]
(* The list entry of a component; beyond the bound there is none.           *)
Remember(s) ==
    [built EXCEPT ![s.kind] = IF Len(@) < MaxComponents THEN Append(@, s.of.id) ELSE @]

(* An attempt that fails gives its list back.                               *)
Kept(b) == IF phase' = "failed" THEN EmptyBuilt ELSE b

(* A step succeeds; a secured group gets its keys as part of it.            *)
Create ==
    /\ phase = "adding"
    /\ \E s \in todo :
         /\ IsNext(s, todo)
         /\ Accepted(s)
         /\ IF Creates(s)
            THEN /\ stack' = [id \in DOMAIN stack \cup {s.of.id} |->
                                IF id = s.of.id THEN Component(s) ELSE stack[id]]
                 /\ IF s.of.id \in Users THEN AddUser(s.of.id) ELSE UNCHANGED vars
                 /\ built' = Kept(Remember(s))
            ELSE /\ stack' = [stack EXCEPT ![s.of.id].fields = @ + 1]
                 /\ UNCHANGED <<vars, built>>
         /\ todo' = todo \ {s}
    /\ UNCHANGED <<cfg, calls, on, applied>>

(* The adapter refuses a step, or a call of the stack fails.                *)
CreateFails ==
    /\ phase = "adding" /\ todo # {}
    /\ GiveUp
    /\ built' = EmptyBuilt
    /\ UNCHANGED <<cfg, todo, stack, calls, on, applied>>

-----------------------------------------------------------------------------
(* Components the configuration says are enabled.                           *)
ConfigOn(c) ==
    {s.of.id : s \in {s \in BuildSteps(c) :
                        s.kind \notin {"dataSet", "field"} /\ s.of.enabled}}

MutEnableOrder == <<"connection", "readerGroup", "reader", "writerGroup", "writer">>
(* Children first, connections last.                                        *)
EnableOrder == <<"writer", "writerGroup", "reader", "readerGroup", "connection">>

(* The calls for the enabled entries of the lists, list by list.            *)
EnableCalls ==
    {call \in UNION {{[id |-> built[EnableOrder[o]][i], at |-> <<o, i>>] :
                          i \in DOMAIN built[EnableOrder[o]]} : o \in DOMAIN EnableOrder} :
        call.id \in ConfigOn(cfg)}

(* Everything exists: key pulls start, and then the components are enabled. *)
Created ==
    /\ phase = "adding" /\ todo = {}
    /\ StartPulls
    /\ applied' = IF phase' # "running" THEN "no" ELSE IF cfg.enabled THEN "enabling" ELSE "yes"
    /\ calls' = IF applied' = "enabling" THEN EnableCalls ELSE {}
    /\ built' = Kept(built)
    /\ UNCHANGED <<cfg, todo, stack, on>>

Enable ==
    /\ applied = "enabling"
    /\ \E call \in calls :
          /\ IsNext(call, calls)
          /\ on' = on \cup {call.id}
          /\ calls' = calls \ {call}
    /\ UNCHANGED <<vars, cfg, todo, stack, built, applied>>

EnableFails ==
    /\ applied = "enabling" /\ calls # {}
    /\ GiveUp
    /\ applied' = "no"
    /\ calls' = {}
    /\ built' = EmptyBuilt
    /\ UNCHANGED <<cfg, todo, stack, on>>

EnableDone ==
    /\ applied = "enabling" /\ calls = {}
    /\ applied' = "yes"
    /\ UNCHANGED <<vars, cfg, todo, stack, built, calls, on>>

(* The event loop: what SksPull does once it runs.                          *)
Loop ==
    /\ applied = "yes"
    /\ sks_retry_cb \/ \E g \in Groups : Refresh(g) \/ PullFails(g) \/ PullSucceeds(g)
    /\ UNCHANGED own

(* The server is deleted with its components; pubsub_server_cleanup.        *)
End ==
    /\ phase = "failed" \/ applied = "yes"
    /\ Stop
    /\ stack' = [id \in {} |-> None]
    /\ built' = EmptyBuilt
    /\ on' = {}
    /\ applied' = "no"
    /\ UNCHANGED <<cfg, todo, calls>>

ConfigNext ==
    \/ Parse \/ Create \/ CreateFails \/ Created
    \/ Enable \/ EnableFails \/ EnableDone \/ Loop \/ End

(* As for SksPull; and pubsub_server_apply is a function that returns.      *)
ConfigFairness ==
    /\ WF_cvars(Enable \/ EnableDone)
    /\ WF_cvars(applied = "yes" /\ sks_retry_cb /\ UNCHANGED own)
    /\ \A g \in Groups :
          WF_cvars(applied = "yes" /\ (PullFails(g) \/ PullSucceeds(g)) /\ UNCHANGED own)

ConfigSpec == ConfigInit /\ [][ConfigNext]_cvars /\ ConfigFairness

-----------------------------------------------------------------------------
(* Properties.                                                              *)

(* No kind of component has more members than the list has room for.        *)
Fits(c) ==
    /\ Len(c.dataSets) <= MaxComponents
    /\ \A k \in Kinds :
          Cardinality({s \in BuildSteps(c) : s.kind = k}) <= MaxComponents

(* "a ready server has its PubSub configuration in place": when the         *)
(* configuration counts as applied every component exists, and exactly      *)
(* those the configuration enables have been enabled - through the list,    *)
(* so that the error recovery knows them too - unless a kind has more       *)
(* members than MAX_COMPONENTS.                                             *)
AppliedWhole ==
    applied = "yes" =>
        /\ DOMAIN stack = {s.of.id : s \in BuildSteps(cfg)}
        /\ on = UNION {{id \in Range(built[k]) : id \in ConfigOn(cfg)} :
                          k \in {k \in Kinds \ {"dataSet"} : cfg.enabled}}
        /\ Fits(cfg) /\ cfg.enabled => on = ConfigOn(cfg)

(* A writer publishes a complete data set of the name it gives, all fields  *)
(* of which were added before; a reader's queue is the one its group        *)
(* subscribes, unless the group names one of its own; and nothing hangs on  *)
(* a parent that does not exist.                                            *)
WiredAsConfigured ==
    \A s \in BuildSteps(cfg) :
        Creates(s) /\ s.of.id \in DOMAIN stack =>
            LET c == stack[s.of.id] IN
            /\ s.parent # None => s.parent \in DOMAIN stack
            /\ s.kind = "writer" /\ s.of.dataSet # None =>
                  \E d \in Range(cfg.dataSets) :
                     /\ c.uses = d.id /\ d.name = s.of.dataSet
                     /\ d.id \in DOMAIN stack /\ stack[d.id].fields = d.fields
            /\ s.kind = "readerGroup" /\ s.of.queue = None =>
                  \A i \in DOMAIN s.of.members :
                     s.of.members[i].queue \in {None, c.uses}

(* "Children first, connections last": nothing is enabled before the        *)
(* components it contains that are on the list (the surplus beyond          *)
(* MAX_COMPONENTS is never enabled), so no group sends or receives with a   *)
(* part of its listed members, at no time while the calls go on.            *)
ChildrenFirst ==
    \A id \in DOMAIN stack :
        /\ id \in ConfigOn(cfg) /\ id \in UNION {Range(built[k]) : k \in Kinds}
        /\ stack[id].parent \in on
        => id \in on

=============================================================================
