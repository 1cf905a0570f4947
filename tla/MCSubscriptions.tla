-------------------------- MODULE MCSubscriptions --------------------------
(* Model-checking instance of Subscriptions.                                *)
EXTENDS Subscriptions

MCRevisions == {[rpi |-> 100, rlt |-> 30, rmk |-> 10],
                [rpi |-> 100, rlt |-> 29, rmk |-> 10]}
=============================================================================
