------------------------------ MODULE GdsPull ------------------------------
(***************************************************************************)
(* client gds-pull (gds_pull.c): the pull model of certificate management.  *)
(* A command finds or registers its application at a Global Discovery       *)
(* Server, requests a certificate, polls FinishRequest until it is issued   *)
(* or the time is up, reads the trust list, and on request revokes the      *)
(* certificate and unregisters the application. It stops at the first       *)
(* failure. Several commands may run at once for the same ApplicationUri.   *)
(*                                                                          *)
(* The GDS is external: a set of application records, and per request       *)
(* whether it is still pending. It may refuse a call, and answers may be    *)
(* lost. Time is counted in ticks, the poll interval and the time-out are   *)
(* counted down.                                                            *)
(***************************************************************************)
EXTENDS TrustListRead, Sequences, FiniteSets

CONSTANTS
    Clients,        \* the gds-pull commands
    FlagSets,       \* command lines: subsets of {"csr", "revoke", "unregister"}
    PollInterval,   \* GDS_FINISH_POLL_MS
    FinishTimeouts  \* values of --finish-timeout-ms

ASSUME GdsAssumption ==
    /\ FlagSets \subseteq SUBSET {"csr", "revoke", "unregister"}
    /\ PollInterval \in Nat \ {0}
    /\ FinishTimeouts \subseteq Nat

NoExit == -1
NoId == <<>>      \* the null NodeId

\* gds_namespace and gds_steps, in order.
Steps == <<"namespace", "find", "register", "start", "finish", "groups",
           "getTrustList", "readList", "status", "revoke", "check",
           "unregister">>

VARIABLES
    run,      \* run[c]: the command: flags, pc, appId, ..., see Init
    left,     \* left[c]: time until the deadline of FinishRequest
    nap,      \* nap[c]: time until the sleep between two polls ends
    records,  \* GDS: ApplicationIds with the ApplicationUri
    requests  \* GDS: requests[c], "none", "pending", "issued" or "revoked"

gds == <<records, requests>>
vars == <<run, left, nap, gds>>

Done == Len(Steps) + 1
StepOf(c) == IF run[c].pc \in DOMAIN Steps THEN Steps[run[c].pc] ELSE "none"

\* The steps a command takes: RegisterApplication only if nothing was found,
\* the last ones as asked.
Takes(r, s) ==
    CASE s = "register" -> ~ r.found
      [] s \in {"revoke", "check"} -> "revoke" \in r.flags
      [] s = "unregister" -> "unregister" \in r.flags
      [] OTHER -> TRUE

\* The command after a step that was Good.
Proceed(r) ==
    LET later == {j \in r.pc + 1 .. Len(Steps) : Takes(r, Steps[j])}
    IN  [r EXCEPT !.pc = IF later = {} THEN Done
                         ELSE CHOOSE j \in later : \A k \in later : j <= k]

MutStopped(r, sc) ==
    [(IF IsTransport(sc) THEN [r EXCEPT !.pc = Done] ELSE Proceed(r)) EXCEPT
        !.transportSc = IF IsTransport(sc) THEN sc ELSE "Good"]
\* gds_call and the steps with code of their own: a transport failure and a Bad
\* status both end gds_steps.
Stopped(r, sc) ==
    [r EXCEPT !.pc = Done,
              !.transportSc = IF IsTransport(sc) THEN sc ELSE "Good",
              !.failSc = IF IsTransport(sc) THEN "Good" ELSE sc]

After(r, sc) == IF sc = "Good" THEN Proceed(r) ELSE Stopped(r, sc)

Init ==
    /\ run \in [Clients ->
          {[flags |-> f, timeout |-> t, pc |-> 0, appId |-> NoId,
            found |-> FALSE, failSc |-> "Good", transportSc |-> "Good",
            internal |-> FALSE, asked |-> FALSE, answer |-> "none", polls |-> 0,
            gaveUp |-> FALSE, exit |-> NoExit]
           : f \in FlagSets, t \in FinishTimeouts}]
    /\ left = [c \in Clients |-> 0]
    /\ nap = [c \in Clients |-> 0]
    /\ records = {}
    /\ requests = [c \in Clients |-> "none"]

-----------------------------------------------------------------------------
\* gds_parse fails, or cli_make_client does.
Refuse(c) ==
    /\ run[c].pc = 0 /\ run[c].exit = NoExit
    /\ \E code \in {2, 3, 6, 7} : run' = [run EXCEPT ![c].exit = code]
    /\ UNCHANGED <<left, nap, gds>>

Connect(c) ==
    /\ run[c].pc = 0 /\ run[c].exit = NoExit
    /\ run' = [run EXCEPT ![c] = Proceed(@)]
    /\ UNCHANGED <<left, nap, gds>>

\* The envelope of cmd_gds_pull.
Verdict(r) ==
    IF r.transportSc # "Good" THEN ExitCode(r.transportSc)
    ELSE IF r.internal THEN 6
    ELSE IF r.failSc # "Good" THEN 4
    ELSE 0

\* gds_namespace comes before gds_steps: a failure is reported at once.
Namespace(c) ==
    /\ StepOf(c) = "namespace"
    /\ \E sc \in Answers :
          LET r == After(run[c], sc)
          IN  run' = [run EXCEPT ![c] =
                        IF sc = "Good" THEN r ELSE [r EXCEPT !.exit = Verdict(r)]]
    /\ UNCHANGED <<left, nap, gds>>

\* GetCertificateGroups, GetTrustList, GetCertificateStatus and
\* CheckRevocationStatus change nothing at the GDS. Nor does reading the trust
\* list; its calls are the steps of TrustListRead, of which only the result
\* matters here.
Ask(c) ==
    /\ StepOf(c) \in {"groups", "getTrustList", "readList", "status", "check"}
    /\ \E sc \in Answers :
          run' = [run EXCEPT ![c] = After(@, sc)]
    /\ UNCHANGED <<left, nap, gds>>

\* FindApplications: the first record that decodes is taken (gds_record_id),
\* whatever its id, the null NodeId too; there may be none.
Find(c) ==
    /\ StepOf(c) = "find"
    /\ \E sc \in Answers : \E hit \in {FALSE, sc = "Good"} :
          \E id \in IF hit THEN records \cup {NoId} ELSE {NoId} :
             run' = [run EXCEPT ![c] =
                        After([@ EXCEPT !.appId = id, !.found = hit], sc)]
    /\ UNCHANGED <<left, nap, gds>>

\* An ApplicationId that is not in use.
FreshId(c) == <<c>>

\* RegisterApplication. A Good answer without a NodeId is not looked into: the
\* command goes on with the null NodeId.
Register(c) ==
    /\ StepOf(c) = "register"
    /\ \E sc \in Answers : \E executed \in Executed(sc) :
          /\ records' = IF executed THEN records \cup {FreshId(c)} ELSE records
          /\ \E id \in IF sc = "Good" THEN {FreshId(c), NoId} ELSE {NoId} :
                run' = [run EXCEPT ![c] = After([@ EXCEPT !.appId = id], sc)]
    /\ UNCHANGED <<left, nap, requests>>

\* A request that cannot be built ends gds_steps as an internal error.
Internal(c) ==
    /\ run' = [run EXCEPT ![c] = [@ EXCEPT !.pc = Done, !.internal = TRUE]]
    /\ UNCHANGED <<left, nap, gds>>

\* gds_encode_record fails.
RecordFails(c) == StepOf(c) = "register" /\ Internal(c)

\* gds_make_csr fails, for a request with a key of the client's own.
CsrFails(c) == StepOf(c) = "start" /\ "csr" \in run[c].flags /\ Internal(c)

\* StartSigningRequest or StartNewKeyPairRequest, then the deadline is set. The
\* GDS knows registered applications only.
Start(c) ==
    /\ StepOf(c) = "start"
    /\ \E sc \in Answers : \E executed \in Executed(sc) :
          /\ executed => run[c].appId \in records
          /\ requests' = [requests EXCEPT ![c] = IF executed THEN "pending" ELSE @]
          /\ run' = [run EXCEPT ![c] = After(@, sc)]
          /\ left' = [left EXCEPT ![c] = IF sc = "Good" THEN run[c].timeout ELSE 0]
    /\ UNCHANGED <<nap, records>>

\* The GDS issues a certificate, to an application that is still registered.
Issue(c) ==
    /\ requests[c] = "pending" /\ run[c].appId \in records
    /\ requests' = [requests EXCEPT ![c] = "issued"]
    /\ UNCHANGED <<run, left, nap, records>>

\* The polls a command of this time-out makes at most, the one after the
\* deadline included. The count of polls stops just above it.
PollLimit(r) == (r.timeout + PollInterval - 1) \div PollInterval + 1

\* FinishRequest is sent and the GDS answers it, BadNothingToDo while pending.
FinishAsk(c) ==
    /\ StepOf(c) = "finish" /\ ~ run[c].asked /\ nap[c] = 0
    /\ \E sc \in Answers :
          run' = [run EXCEPT ![c] =
                    [@ EXCEPT
                        !.asked = TRUE,
                        !.polls = IF run[c].polls > PollLimit(run[c])
                                  THEN run[c].polls ELSE run[c].polls + 1,
                        !.answer = IF sc # "Good" THEN sc
                                   ELSE IF run[c].appId \notin records THEN "Bad"
                                   ELSE IF requests[c] = "pending" THEN "pending"
                                   ELSE "Good"]]
    /\ UNCHANGED <<left, nap, gds>>

\* gds_sleep_ms(GDS_FINISH_POLL_MS).
Sleep == PollInterval

MutPollsAgain(c) == left[c] > PollInterval
MutPollsForever(c) == TRUE
\* gds_now_ms() < deadline.
PollsAgain(c) == left[c] > 0

\* The answer is looked at: again after a sleep, or on.
FinishAnswer(c) ==
    /\ StepOf(c) = "finish" /\ run[c].asked
    /\ LET r == [run[c] EXCEPT !.asked = FALSE]
       IN  IF r.answer = "pending" /\ PollsAgain(c)
           THEN /\ run' = [run EXCEPT ![c] = r]
                /\ nap' = [nap EXCEPT ![c] = Sleep]
           ELSE /\ run' = [run EXCEPT ![c] =
                              IF r.answer = "pending"
                              THEN [Stopped(r, "Bad") EXCEPT !.gaveUp = TRUE]
                              ELSE [After(r, r.answer) EXCEPT !.answer = "none"]]
                /\ UNCHANGED nap
    /\ left' = IF run'[c].pc > run[c].pc /\ ~ run'[c].gaveUp
               THEN [left EXCEPT ![c] = 0] ELSE left
    /\ UNCHANGED gds

\* RevokeCertificate of the certificate FinishRequest returned.
Revoke(c) ==
    /\ StepOf(c) = "revoke"
    /\ \E sc \in Answers : \E executed \in Executed(sc) :
          /\ requests' = [requests EXCEPT ![c] = IF executed THEN "revoked" ELSE @]
          /\ run' = [run EXCEPT ![c] = After(@, sc)]
    /\ UNCHANGED <<left, nap, records>>

\* UnregisterApplication of the application found or registered.
Unregister(c) ==
    /\ StepOf(c) = "unregister"
    /\ \E sc \in Answers : \E executed \in Executed(sc) :
          /\ sc = "Good" => run[c].appId \in records
          /\ records' = IF executed THEN records \ {run[c].appId} ELSE records
          /\ run' = [run EXCEPT ![c] = After(@, sc)]
    /\ UNCHANGED <<left, nap, requests>>

\* gds_steps is over and its outcome is reported.
Report(c) ==
    /\ run[c].pc = Done /\ run[c].exit = NoExit
    /\ run' = [run EXCEPT ![c].exit = Verdict(run[c])]
    /\ UNCHANGED <<left, nap, gds>>

\* The result ran out of memory on the way: nothing else is reported, although
\* every step was taken.
OutOfMemory(c) ==
    /\ run[c].pc = Done /\ run[c].exit = NoExit
    /\ run' = [run EXCEPT ![c].exit = 6]
    /\ UNCHANGED <<left, nap, gds>>

\* Time passes.
Tick ==
    /\ \E c \in Clients : left[c] > 0 \/ nap[c] > 0
    /\ left' = [c \in Clients |-> IF left[c] > 0 THEN left[c] - 1 ELSE 0]
    /\ nap' = [c \in Clients |-> IF nap[c] > 0 THEN nap[c] - 1 ELSE 0]
    /\ UNCHANGED <<run, gds>>

Command(c) ==
    \/ Refuse(c) \/ Connect(c) \/ Namespace(c) \/ Ask(c) \/ Find(c) \/ Register(c)
    \/ RecordFails(c) \/ CsrFails(c) \/ Start(c)
    \/ FinishAsk(c) \/ FinishAnswer(c) \/ Revoke(c)
    \/ Unregister(c) \/ Report(c) \/ OutOfMemory(c)

Next == Tick \/ \E c \in Clients : Command(c) \/ Issue(c)

Spec ==
    /\ Init /\ [][Next]_vars
    /\ WF_vars(Tick) /\ \A c \in Clients : WF_vars(Command(c))

-----------------------------------------------------------------------------
\* "success is true when every step that ran was Good": a command that exits 0
\* has its certificate, has had it revoked if it was asked to, and with
\* --unregister leaves no record of its application, also when another command
\* works on the same ApplicationUri.
SuccessIsComplete ==
    \A c \in Clients : run[c].exit = 0 =>
        /\ requests[c] = IF "revoke" \in run[c].flags THEN "revoked" ELSE "issued"
        /\ "unregister" \in run[c].flags => run[c].appId \notin records

\* The poll loop races its deadline: a command gives the request up only once
\* --finish-timeout-ms have passed, and reports it as a failure of the service
\* (or that it ran out of memory);
\* and with "FinishRequest every 200 ms" the number of polls is bounded by the
\* time-out, the one after the deadline included, however fast the GDS answers.
PollsInTime ==
    \A c \in Clients :
        /\ run[c].gaveUp => left[c] = 0 /\ run[c].exit \in {NoExit, 4, 6}
        /\ run[c].polls <= PollLimit(run[c])

\* Every command ends, whatever the GDS does with the request.
PullEnds == \A c \in Clients : <>(run[c].exit # NoExit)
=============================================================================
