--------------------------- MODULE MCEventHistory ---------------------------
(* Model-checking instance of EventHistory: four events of two types, two   *)
(* nodes, and update commands of up to two events over three keys.          *)
EXTENDS EventHistory

MCArchive == <<[type |-> "System", sev |-> 1], [type |-> "Base", sev |-> 2],
               [type |-> "System", sev |-> 3], [type |-> "Base", sev |-> 4]>>

Seg(prefix, name) == <<[prefix |-> prefix, name |-> name]>>

Severity == Seg(-1, "Severity")
Vendor == Seg(2, "Vendor") \o Seg(2, "Detail")
TextKey == Seg(-2, "Severity")
BadPaths == {Seg(70000, "Severity"), Seg(2, ""), Seg(-1, "A") \o Seg(-1, "")}

MCReadArgs ==
    [nodes : {1, 2}, scenario : {TRUE}, num : {0, 1}, ofType : {None, "Base", "System"},
     minSev : {-1, 3}, cp : {FALSE}, release : {FALSE}, valid : {TRUE}, select : {<<Severity>>}]
    \cup
    [nodes : {1, 2}, scenario : {FALSE}, num : {0}, ofType : {None}, minSev : {-1},
     cp : BOOLEAN, release : BOOLEAN, valid : BOOLEAN,
     select : {<<Severity, p>> : p \in BadPaths \cup {Vendor}}]

Values == {[type |-> None, val |-> "number"], [type |-> "UInt16", val |-> "number"],
           [type |-> None, val |-> "null"], [type |-> "QualifiedName", val |-> "object"],
           [type |-> None, val |-> "object"], [type |-> "UInt16", val |-> "unparsable"]}

Keys == {Severity, Vendor, TextKey}

Events ==
    {<<>>} \cup {<<[key |-> k, val |-> v]>> : k \in Keys \cup BadPaths, v \in Values}
    \cup {<<[key |-> p[1], val |-> v], [key |-> p[2], val |-> w]>> :
            p \in Keys \X Keys, v \in Values, w \in {[type |-> None, val |-> "string"]}}

ThreeKeys == <<[key |-> Severity, val |-> [type |-> None, val |-> "bool"]],
               [key |-> Vendor, val |-> [type |-> None, val |-> "text"]],
               [key |-> TextKey, val |-> [type |-> "String", val |-> "missing"]]>>

MCUpdateArgs ==
    [perform : {"insert", "upsert"}, ids : {<<>>}, valid : {TRUE},
     select : {<<>>, <<Vendor>>, <<TextKey, Severity>>},
     events : {<<>>} \cup {<<e>> : e \in Events \cup {ThreeKeys}}
              \cup {<<e, f>> : e \in Events, f \in {<<>>, ThreeKeys} \cup
                        {<<[key |-> k, val |-> [type |-> None, val |-> "string"]]>> : k \in Keys}}]
    \cup
    [perform : {"delete"}, valid : BOOLEAN, ids : {<<>>, <<"id1">>, <<"id1", Invalid>>}, select : {<<>>},
     events : {<<>>}]
=============================================================================
