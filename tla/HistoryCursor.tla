---------------------------- MODULE HistoryCursor ----------------------------
(***************************************************************************)
(* What raw HistoryRead with continuation points promises to a client that  *)
(* runs --scenario continue: a cursor of its own over the samples of its    *)
(* window. There is no table, no token, no channel and no other client in   *)
(* it. HistoryRead implements it (ImplementsCursor) for as long as the      *)
(* server has not run out of continuation points.                           *)
(***************************************************************************)
EXTENDS Integers, Sequences

CONSTANTS
    Readers,  \* client processes
    Windows   \* windows of samples they ask for

VARIABLES
    view,      \* view[r]: what the scenario of r has shown of its window
    exhausted  \* more continuation points were issued than the server has

vars == <<view, exhausted>>

(* The first n samples of a window, and how many it has.                    *)
Prefix(w, n) == [k \in 1..n |-> w.lo + k - 1]

Size(w) == IF w.hi < w.lo THEN 0 ELSE w.hi - w.lo + 1

NoView == [win |-> [lo |-> 1, hi |-> 0], got |-> <<>>, verdict |-> "none"]

Init == view = [r \in Readers |-> NoView] /\ exhausted = FALSE

Begin(r, w) ==
    view' = [view EXCEPT ![r] =
               [win |-> w, got |-> <<>>, verdict |-> "open"]]

(* How far the next page may get.                                           *)
Onward(r) == Len(view[r].got)..Size(view[r].win)

(* A page adds to what was shown, and what was shown is a prefix again. A   *)
(* page that was lost or empty adds nothing.                                *)
Page(r, n) ==
    /\ view[r].verdict = "open"
    /\ view' = [view EXCEPT ![r].got = Prefix(view[r].win, n)]

(* The last page settles the verdict: success only if nothing is missing.   *)
End(r, n, verdict) ==
    /\ view[r].verdict = "open"
    /\ verdict = "whole" => n = Size(view[r].win)
    /\ view' = [view EXCEPT ![r] = [win |-> view[r].win, verdict |-> verdict,
                                    got |-> Prefix(view[r].win, n)]]

(* The client is killed, or its next command reads in another way.          *)
Leave(r) == view' = [view EXCEPT ![r] = NoView]

Next ==
    \/ /\ ~exhausted
       /\ exhausted' = FALSE
       /\ \E r \in Readers :
            \/ \E w \in Windows : Begin(r, w)
            \/ \E n \in Onward(r) : Page(r, n)
            \/ \E n \in Onward(r), verdict \in {"whole", "failed"} :
                  End(r, n, verdict)
            \/ Leave(r)
    \/ exhausted' = TRUE  \* and from then on nothing is promised

Spec == Init /\ [][Next]_vars
=============================================================================
