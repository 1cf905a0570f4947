--------------------------- MODULE MCHistoryRead ---------------------------
(* Model-checking instances of HistoryRead.                                 *)
EXTENDS HistoryRead

(* All samples, and the last one only: a continuation point taken in the    *)
(* first window can lie beyond the end of the second.                       *)
MCWindows == {[lo |-> 1, hi |-> NumSamples],
              [lo |-> NumSamples, hi |-> NumSamples]}

(* All samples only.                                                        *)
MCFullWindow == {[lo |-> 1, hi |-> NumSamples]}
=============================================================================
