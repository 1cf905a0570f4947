--------------------------- MODULE TrustListRead ---------------------------
(***************************************************************************)
(* p12_read_trust_list (part12.c): read the TrustList file of a certificate *)
(* group with Open or OpenWithMasks, Read in chunks, Close. It is one       *)
(* routine of two commands, push and gds-pull, so it is written as the      *)
(* relation between a read's states (TrustListSteps) and the commands'      *)
(* modules take its steps.                                                  *)
(*                                                                          *)
(* An answer is Good, Bad (any other status of the service or method),      *)
(* Timeout or Closed: the last two are what p12_is_transport tells apart.   *)
(* A call without an answer may have been executed by the server, and a     *)
(* Read may bring fewer bytes than asked for anywhere in the file.          *)
(***************************************************************************)
EXTENDS Integers

CONSTANTS
    Chunk,        \* P12_READ_CHUNK, in the units of FileLengths
    FileLengths   \* lengths of the TrustList files a server may hold

ASSUME TrustListAssumption ==
    /\ Chunk \in Nat \ {0}
    /\ FileLengths # {} /\ FileLengths \subseteq Nat

Answers == {"Good", "Bad", "Timeout", "Closed"}

\* p12_is_transport.
IsTransport(sc) == sc \in {"Timeout", "Closed"}

\* p12_exit_code: of a status that ends a command as a whole.
ExitCode(sc) == IF sc = "Timeout" THEN 7 ELSE IF IsTransport(sc) THEN 3 ELSE 4

\* The answers to a call: on a connection known to be closed, none.
Answer(dead) == IF dead THEN {"Closed"} ELSE Answers

\* Where the effect of a call shows at the server.
Executed(sc) ==
    IF sc = "Good" THEN {TRUE} ELSE IF IsTransport(sc) THEN BOOLEAN ELSE {FALSE}

StartRead(len, dead) ==
    [at |-> "translate",      \* then "open", "read", "close", "done"
     len |-> len, got |-> 0,  \* length of the file, bytes read
     handle |-> FALSE,        \* the file is open at the server
     readSc |-> "Good",       \* readSc: how the chunk loop ended
     sc |-> "Good",           \* the result
     dead |-> dead,           \* the connection is closed
     lost |-> FALSE,          \* history: the handle is out of the client's hands
     clean |-> TRUE]          \* history: every answer was Good, no read short

\* No read under way.
NoRead == [StartRead(0, FALSE) EXCEPT !.at = "done"]

Answered(t, sc) ==
    [t EXCEPT !.dead = t.dead \/ sc = "Closed", !.clean = t.clean /\ sc = "Good"]

\* The NodeIds of the three methods.
TranslateSteps(t) ==
    {[Answered(t, sc) EXCEPT !.at = IF sc = "Good" THEN "open" ELSE "done",
                             !.sc = sc] : sc \in Answer(t.dead)}

\* Open: a Good answer without a UInt32 handle is BadUnexpectedError, and the
\* file stays open.
OpenSteps(t) ==
    (UNION {{[Answered(t, sc) EXCEPT !.at = IF sc = "Good" THEN "read" ELSE "done",
                                     !.sc = sc, !.handle = h,
                                     !.lost = IsTransport(sc)]
             : h \in Executed(sc)} : sc \in Answer(t.dead)})
    \cup (IF t.dead THEN {}
          ELSE {[t EXCEPT !.at = "done", !.sc = "Bad", !.handle = TRUE,
                          !.lost = TRUE, !.clean = FALSE]})

MutLastChunk(n) == n <= Chunk
\* The chunk that ends the loop.
LastChunk(n) == n < Chunk

MutReadRetried(t, sc) == Answered(t, sc)
\* A Read that is not Good ends the loop; the file is closed all the same.
ReadFailed(t, sc) ==
    [Answered(t, sc) EXCEPT !.at = "close", !.readSc = sc]

\* What a Read can bring: what is left, up to a chunk.
Available(t) == IF t.len - t.got < Chunk THEN t.len - t.got ELSE Chunk

\* Read: the server gives what is available or less, and nothing in a Good
\* answer without a ByteString (clen = 0).
ReadSteps(t) ==
    (IF t.dead THEN {}
     ELSE {[t EXCEPT !.got = t.got + n,
                     !.at = IF LastChunk(n) THEN "close" ELSE "read",
                     !.clean = t.clean /\ n = Available(t)]
           : n \in 0 .. Available(t)})
    \cup {ReadFailed(t, sc) : sc \in Answer(t.dead) \ {"Good"}}

\* UA_decodeBinary of what was read: a part of a TrustListDataType does not
\* decode.
Decoded(t) == IF t.got = t.len THEN "Good" ELSE "Bad"

\* readSc before closeSc before the decoder's verdict.
ReadResult(t, closeSc) ==
    IF t.readSc # "Good" THEN t.readSc
    ELSE IF closeSc # "Good" THEN closeSc
    ELSE Decoded(t)

CloseSteps(t) ==
    UNION {{[Answered(t, sc) EXCEPT !.at = "done", !.sc = ReadResult(t, sc),
                                    !.handle = ~ closed,
                                    !.lost = sc # "Good"]
            : closed \in Executed(sc)} : sc \in Answer(t.dead)}

TrustListSteps(t) ==
    CASE t.at = "translate" -> TranslateSteps(t)
      [] t.at = "open" -> OpenSteps(t)
      [] t.at = "read" -> ReadSteps(t)
      [] t.at = "close" -> CloseSteps(t)
      [] OTHER -> {}

-----------------------------------------------------------------------------
\* What a read promises, of its end state t.

\* The loop reads the file to its end whatever its length is a multiple of: when
\* every answer was Good and no Read was short, the result is the whole, decoded
\* list. A short Read before the end of the file stops the loop early; then the
\* read fails, a list that is not the whole is never its result.
WholeList(t) ==
    t.at = "done" => /\ t.clean => t.sc = "Good"
                     /\ t.sc = "Good" => t.got = t.len

\* "Close also after a failed Read": a file that is still open after the read
\* is out of the client's hands (the answer to its Open had no handle or was
\* lost, or its Close was refused or not answered).
HandleClosed(t) ==
    t.at = "done" /\ t.handle => t.lost

=============================================================================
