-------------------------- MODULE CertificatePush --------------------------
(***************************************************************************)
(* client push (push.c): certificate management of a server. On one session *)
(* the command reads the group's TrustList, makes the changes its flags ask *)
(* for, applies or cancels them, reads TransactionDiagnostics and then the  *)
(* TrustList again, stopping at the first Bad status.                       *)
(*                                                                          *)
(* The server is external. The changes of a session are one transaction:    *)
(* pending until ApplyChanges makes them live together, or CancelChanges or *)
(* the end of the session drops them. Some servers carry out a change at    *)
(* its call instead: AddCertificate and RemoveCertificate do on open62541   *)
(* and node-opcua, whose ApplyChanges then answers BadNothingToDo           *)
(* (scripts/features.sh:336), and UpdateCertificate may say that no         *)
(* ApplyChanges is required. Any call may be refused, and its answer or the *)
(* connection may be lost before or after the server executed it.           *)
(***************************************************************************)
EXTENDS TrustListRead, Sequences, FiniteSets

CONSTANTS
    FlagSets      \* the command lines to run, a set of sets of flags

\* The steps that change the server's configuration.
Changes == {"add", "remove", "selfSigned", "delete", "update", "reset"}

\* Flags beside them: NodeIds of the form nsu=..., which are resolved after
\* connecting, and what push_parse stores as apply, cancel, ...
Flags == Changes \cup {"nsuType", "nsuDelete", "getCerts", "csr", "apply",
                       "cancel", "diagnostics"}

ASSUME PushAssumption ==
    /\ FlagSets \subseteq SUBSET Flags
    /\ \A f \in FlagSets : "nsuDelete" \in f => "delete" \in f

NoExit == -1

\* push_steps, in order.
Steps == <<"resolveType", "translate", "before", "add", "remove", "getCerts",
           "selfSigned", "resolveDelete", "delete", "update", "csr",
           "rejected", "reset", "apply", "cancel", "diagnostics", "after">>

VARIABLES
    flags,    \* the command line
    pc,       \* index of the step under way, 0 before connecting
    tl,       \* the TrustList read under way or last
    failSc,   \* o->failSc, Good while o->failed is 0
    applied,  \* applied
    inputErr, \* o->inputErr
    ret,      \* result of push_steps
    results,  \* the status keys of the result, per step
    exit,     \* exit code
    reported, \* serviceResult of the result
    dead,     \* the connection is closed
    pending,  \* server: changes of the session's transaction
    live,     \* server: changes in force
    atOnce    \* history: the changes that were in force with their call

client == <<flags, pc, tl, failSc, applied, inputErr, ret, results, exit, reported>>
vars == <<client, dead, pending, live, atOnce>>

Asked == flags \cap Changes

MutCancelFlag ==
    "apply" \notin flags /\ ("cancel" \in flags \/ "selfSigned" \in flags)
\* a->cancel: implied by a certificate created or deleted without --apply.
CancelFlag ==
    /\ "apply" \notin flags
    /\ "cancel" \in flags \/ "selfSigned" \in flags \/ "delete" \in flags

MutRuns(s, sc, did) ==
    CASE s = "apply" -> "apply" \in flags
      [] s = "rejected" -> sc = "Good"
      [] s = "diagnostics" -> s \in flags /\ (sc = "Good" \/ did)
      [] s = "resolveType" -> "nsuType" \in flags
      [] s = "resolveDelete" -> sc = "Good" /\ "nsuDelete" \in flags
      [] s = "cancel" -> sc = "Good" /\ CancelFlag
      [] s \in {"translate", "before"} -> TRUE
      [] s = "after" -> sc = "Good"
      [] OTHER -> sc = "Good" /\ s \in flags
\* The condition of a step, with failSc = sc and applied = did.
Runs(s, sc, did) ==
    CASE s \in {"translate", "before"} -> TRUE
      [] s = "resolveType" -> "nsuType" \in flags
      [] s = "resolveDelete" -> sc = "Good" /\ "nsuDelete" \in flags
      [] s \in {"rejected", "after"} -> sc = "Good"
      [] s = "cancel" -> sc = "Good" /\ CancelFlag
      [] s = "diagnostics" -> s \in flags /\ (sc = "Good" \/ did)
      [] OTHER -> sc = "Good" /\ s \in flags

Done == Len(Steps) + 1

\* The step after step i.
NextStep(i, sc, did) ==
    LET later == {j \in i + 1 .. Len(Steps) : Runs(Steps[j], sc, did)}
    IN  IF later = {} THEN Done ELSE CHOOSE j \in later : \A k \in later : j <= k

Step == IF pc \in 1 .. Len(Steps) THEN Steps[pc] ELSE "none"

Init ==
    /\ flags \in FlagSets
    /\ pc = 0 /\ tl = NoRead
    /\ failSc = "Good" /\ applied = FALSE /\ inputErr = FALSE /\ ret = "Good"
    /\ results = [s \in {Steps[i] : i \in DOMAIN Steps} |-> "absent"]
    /\ exit = NoExit /\ reported = "Good"
    /\ dead = FALSE /\ pending = {} /\ live = {} /\ atOnce = {}

-----------------------------------------------------------------------------
\* push_parse: a bad flag or an unreadable file is an input error before
\* connecting.
BadInput ==
    /\ pc = 0 /\ exit = NoExit
    /\ exit' = 2 /\ reported' = "Bad"
    /\ UNCHANGED <<flags, pc, tl, failSc, applied, inputErr, ret, results, dead,
                   pending, live, atOnce>>

\* cli_make_client.
Connect ==
    /\ pc = 0 /\ exit = NoExit
    /\ pc' = NextStep(0, "Good", FALSE)
    /\ UNCHANGED <<flags, tl, failSc, applied, inputErr, ret, results, exit,
                   reported, dead, pending, live, atOnce>>

ConnectFails(sc) ==
    /\ pc = 0 /\ exit = NoExit
    /\ exit' = ExitCode(sc) /\ reported' = sc
    /\ UNCHANGED <<flags, pc, tl, failSc, applied, inputErr, ret, results, dead,
                   pending, live, atOnce>>

\* make_client_unconnected: an unknown security policy (2), no such endpoint
\* (3), keys or certificates that cannot be used, no memory (6).
NotConfigured ==
    /\ pc = 0 /\ exit = NoExit
    /\ exit' \in {2, 3, 6} /\ reported' = "Bad"
    /\ UNCHANGED <<flags, pc, tl, failSc, applied, inputErr, ret, results, dead,
                   pending, live, atOnce>>

\* p12_resolve_nodeid of --certificate-type-id and of --delete-certificate. Only
\* nsu=... can fail here, push_parse has validated every other form; a
\* NamespaceArray that cannot be read is an unknown namespace too.
Resolve(sc) ==
    /\ Step \in {"resolveType", "resolveDelete"}
    /\ sc \in Answer(dead)
    /\ dead' = (dead \/ sc = "Closed")
    /\ IF sc = "Good"
       THEN /\ pc' = NextStep(pc, failSc, applied)
            /\ UNCHANGED <<inputErr, ret>>
       ELSE pc' = Done /\ inputErr' = TRUE /\ ret' = "Bad"
    /\ UNCHANGED <<flags, tl, failSc, applied, results, exit, reported, pending,
                   live, atOnce>>

\* The NodeIds of the group's TrustList and its methods.
Translate(sc) ==
    /\ Step = "translate"
    /\ sc \in Answer(dead)
    /\ dead' = (dead \/ sc = "Closed")
    /\ ret' = sc
    /\ pc' = IF sc = "Good" THEN NextStep(pc, failSc, applied) ELSE Done
    /\ UNCHANGED <<flags, tl, failSc, applied, inputErr, results, exit, reported,
                   pending, live, atOnce>>

BeginRead ==
    /\ Step \in {"before", "after"} /\ tl.at = "done"
    /\ \E len \in FileLengths : tl' = StartRead(len, dead)
    /\ UNCHANGED <<flags, pc, failSc, applied, inputErr, ret, results, exit,
                   reported, dead, pending, live, atOnce>>

\* p12_read_trust_list; any failure ends push_steps.
ReadList ==
    /\ Step \in {"before", "after"} /\ tl.at # "done"
    /\ tl' \in TrustListSteps([tl EXCEPT !.dead = dead])
    /\ dead' = tl'.dead
    /\ IF tl'.at # "done" THEN UNCHANGED <<pc, ret, results>>
       ELSE /\ ret' = tl'.sc
            /\ results' = [results EXCEPT ![Step] = tl'.sc]
            /\ pc' = IF tl'.sc = "Good" THEN NextStep(pc, failSc, applied) ELSE Done
    /\ UNCHANGED <<flags, failSc, applied, inputErr, exit, reported, pending, live,
                   atOnce>>

Methods == {Steps[i] : i \in DOMAIN Steps} \
           {"resolveType", "translate", "before", "resolveDelete", "diagnostics",
            "after"}

\* The changes a server may carry out at their call: all but the two that
\* --cancel is implied by, which only servers with transactions have.
Immediate == Changes \ {"selfSigned", "delete"}

\* The transaction, when the server answers a method with sc and executed says
\* whether it carried it out.
Transaction(s, sc, executed) ==
    \/ executed /\ s \in Changes
       /\ pending' = pending \cup {s} /\ UNCHANGED <<live, atOnce>>
    \/ executed /\ s \in Immediate
       /\ live' = live \cup {s} /\ atOnce' = atOnce \cup {s}
       /\ UNCHANGED pending
    \/ executed /\ s = "apply"
       /\ live' = live \cup pending /\ pending' = {} /\ UNCHANGED atOnce
    \/ executed /\ s = "cancel"
       /\ pending' = {} /\ UNCHANGED <<live, atOnce>>
    \/ ~ executed /\ s = "apply" /\ sc = "Bad"
       /\ pending' \in {pending, {}} /\ UNCHANGED <<live, atOnce>>
    \/ ~ (executed /\ s \in Changes \cup {"apply", "cancel"})
       /\ UNCHANGED <<pending, live, atOnce>>

MutFirst(sc) == sc
\* push_fail: the first failing status is kept.
First(sc) == IF failSc # "Good" THEN failSc ELSE sc

\* push_call, PUSH_TRANSPORT_CHECK and push_step: a transport failure ends
\* push_steps, any other Bad status only fails the steps to come.
CallMethod(sc) ==
    /\ Step \in Methods
    /\ sc \in Answer(dead)
    /\ \E executed \in Executed(sc) : Transaction(Step, sc, executed)
    /\ dead' = (dead \/ sc = "Closed")
    /\ IF IsTransport(sc)
       THEN /\ ret' = sc /\ pc' = Done
            /\ UNCHANGED <<results, failSc, applied>>
       ELSE /\ results' = [results EXCEPT ![Step] = sc]
            /\ failSc' = First(sc)
            /\ applied' = (applied \/ Step = "apply")
            /\ pc' = NextStep(pc, failSc', applied')
            /\ UNCHANGED ret
    /\ UNCHANGED <<flags, tl, inputErr, exit, reported>>

\* push_tx_diagnostics.
Diagnostics(sc) ==
    /\ Step = "diagnostics"
    /\ sc \in Answer(dead)
    /\ dead' = (dead \/ sc = "Closed")
    /\ IF IsTransport(sc)
       THEN /\ ret' = sc /\ pc' = Done
            /\ UNCHANGED <<results, failSc>>
       ELSE /\ results' = [results EXCEPT ![Step] = sc]
            /\ failSc' = First(sc)
            /\ pc' = NextStep(pc, failSc', applied)
            /\ UNCHANGED ret
    /\ UNCHANGED <<flags, tl, applied, inputErr, exit, reported, pending, live,
                   atOnce>>

\* The envelope of cmd_push: exit code and serviceResult.
Verdict ==
    IF inputErr THEN <<2, ret>>
    ELSE IF ret # "Good" THEN <<ExitCode(ret), ret>>
    ELSE IF failSc # "Good" THEN <<4, failSc>>
    ELSE <<0, "Good">>

Report ==
    /\ pc = Done /\ exit = NoExit
    /\ exit' = Verdict[1] /\ reported' = Verdict[2]
    /\ UNCHANGED <<flags, pc, tl, failSc, applied, inputErr, ret, results, dead,
                   pending, live, atOnce>>

\* o.j.oom: the result did not fit into memory, whatever the steps did.
OutOfMemory ==
    /\ pc = Done /\ exit = NoExit
    /\ exit' = 6 /\ reported' = "Bad"
    /\ UNCHANGED <<flags, pc, tl, failSc, applied, inputErr, ret, results, dead,
                   pending, live, atOnce>>

-----------------------------------------------------------------------------
\* A server that applied new certificates closes the channels that used the
\* old ones shortly after its answer.
ChannelCloses ==
    /\ live # {} /\ ~ dead
    /\ dead' = TRUE
    /\ UNCHANGED <<client, pending, live, atOnce>>

\* CloseSession, or the session's timeout, drops the transaction.
SessionEnds ==
    /\ exit # NoExit /\ pending # {}
    /\ pending' = {}
    /\ UNCHANGED <<client, dead, live, atOnce>>

Command ==
    \/ BadInput \/ Connect \/ NotConfigured
    \/ BeginRead \/ ReadList \/ Report \/ OutOfMemory
    \/ ConnectFails("Timeout") \/ ConnectFails("Closed")
    \/ \E sc \in Answers : \/ Resolve(sc) \/ Translate(sc)
                           \/ CallMethod(sc) \/ Diagnostics(sc)

Next == Command \/ ChannelCloses \/ SessionEnds

Spec == Init /\ [][Next]_vars /\ WF_vars(Command) /\ WF_vars(SessionEnds)

-----------------------------------------------------------------------------
\* A push that fails half-way (push_steps stops at the first Bad status or lost
\* connection) leaves the transaction's part of the configuration alone: beside
\* the changes the server carried out at their calls, nothing is in force, or
\* all that was asked for, and only with --apply.
AllOrNothing ==
    live # atOnce => live = Asked /\ "apply" \in flags

\* "--cancel is implied by --create-self-signed / --delete-certificate without
\* --apply": when the command succeeds, what it created or deleted is not left
\* in a transaction that someone could still apply, and no change of a
\* transaction is in force.
NotInstalled ==
    /\ exit = 0 /\ "apply" \notin flags
    /\ flags \cap {"selfSigned", "delete", "cancel"} # {}
    => pending = {} /\ live = atOnce

\* The exit code tells what became of the changes: 0 means that every step asked
\* for was answered Good, none Bad (a failed ApplyChanges is not made good by the
\* TransactionDiagnostics read after it) and, with --apply, that the changes are
\* in force; an input error (also one found late, when --delete-certificate is
\* resolved after the first changes) leaves none in force but those carried out
\* at their calls; and exit 4 leaves another one only if ApplyChanges itself was
\* Good.
ExitTellsEffect ==
    /\ exit = 0 =>
        /\ \A s \in (flags \ {"cancel"}) \cap Methods : results[s] = "Good"
        /\ CancelFlag => results["cancel"] = "Good"
        /\ \A s \in DOMAIN results : results[s] # "Bad"
        /\ results["before"] = "Good" /\ results["after"] = "Good"
        /\ "apply" \in flags => live = Asked
    /\ exit = 2 => live = atOnce
    /\ exit = 4 /\ live # atOnce => results["apply"] = "Good"

\* p12_read_trust_list, before and after the changes: a trust list of any
\* length that comes in whole chunks is read to its end, one that is cut short
\* is a failure and never a shorter list, and the file's handle does not stay
\* open at the server unless an answer was lost or Close refused.
TrustListsRead == WholeList(tl) /\ HandleClosed(tl)

\* Every push ends, and so does the transaction it may have left open.
PushEnds == <>(exit # NoExit /\ pending = {})
=============================================================================
