--------------------------- MODULE MCPubSubConfig ---------------------------
(* Model-checking instance of PubSubConfig: one connection with three       *)
(* writer groups and a reader group, all secured, in variations: disabled   *)
(* parts, duplicate and missing data sets, agreeing and differing queues,   *)
(* and more data sets, or more writers, than the list holds.                *)
EXTENDS PubSubConfig, TLC

MCGroupOf == ("w1" :> "g1") @@ ("w2" :> "g1") @@ ("r1" :> "g2")

DataSet(id, name, fields) == [id |-> id, name |-> name, fields |-> fields, valid |-> TRUE]
Writer(id, dataSet, enabled) == [id |-> id, dataSet |-> dataSet, enabled |-> enabled]
Reader(id, queue) == [id |-> id, queue |-> queue, enabled |-> TRUE, valid |-> TRUE]
Group(id, members, queue) ==
    [id |-> id, enabled |-> TRUE, mode |-> "Sign", securityGroupId |-> MCGroupOf[id],
     queue |-> queue, members |-> members]

Config(enabled, dataSets, writers, readers, queue) ==
    [enabled |-> enabled, dataSets |-> dataSets,
     connections |->
       <<[id |-> "c1", enabled |-> enabled, valid |-> TRUE,
          writerGroups |-> <<Group("w1", writers, None), Group("w2", <<>>, None)>>,
          readerGroups |-> <<Group("r1", readers, queue)>>]>>]

A == DataSet("d1", "A", 2)
B == DataSet("d2", "B", 0)
A2 == DataSet("d3", "A", 1)

TwoWriters == <<Writer("x1", "A", TRUE), Writer("x2", None, FALSE)>>
TwoReaders(q1, q2) == <<Reader("y1", q1), Reader("y2", q2)>>

Plain == Config(TRUE, <<A, B>>, TwoWriters, TwoReaders("q", "q"), None)

Unsecured ==
    [Plain EXCEPT !.connections[1].writerGroups =
        Append(@, [Group("w1", <<>>, None) EXCEPT !.id = "w3", !.mode = "None",
                                                   !.enabled = FALSE])]

Unresolved ==
    [Plain EXCEPT !.connections[1].writerGroups =
        Append(@, [Group("w1", <<>>, None) EXCEPT !.id = "w3",
                                                   !.securityGroupId = "nowhere"])]

MCConfigs ==
    {Plain, Unsecured, Unresolved,
     Config(FALSE, <<B, A>>, TwoWriters, TwoReaders(None, "q"), None),
     Config(TRUE, <<A2, A>>, TwoWriters, TwoReaders(None, "q"), None),
     Config(TRUE, <<B>>, TwoWriters, <<>>, None),
     Config(TRUE, <<A>>, TwoWriters, TwoReaders("p", "q"), None),
     Config(TRUE, <<A>>, TwoWriters, TwoReaders("p", "q"), "own"),
     Config(TRUE, <<B, DataSet("d4", "C", 0), DataSet("d5", "D", 0), A>>, TwoWriters, <<>>, None),
     Config(TRUE, <<A>>, TwoWriters \o <<Writer("x3", "A", TRUE), Writer("x4", "A", TRUE)>>,
            <<>>, None)}
=============================================================================
