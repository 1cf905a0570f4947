------------------------------ MODULE MCAlarms ------------------------------
(* Model-checking instance of Alarms: two conditions, a store that the      *)
(* events of a command can fill, and command lines with two, one or none of *)
(* the actions, for a condition by name, the first one retained, and one    *)
(* that is not there.                                                       *)
EXTENDS Alarms

MCConditions == <<"alarm", "second">>

MCCommandLines ==
    {[actions |-> {"acknowledge", "addComment"}, name |-> AnyName],
     [actions |-> {"confirm"}, name |-> "second"],
     [actions |-> {"confirm"}, name |-> "other"],
     [actions |-> {}, name |-> AnyName]}
=============================================================================
