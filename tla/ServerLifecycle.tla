--------------------------- MODULE ServerLifecycle ---------------------------
(***************************************************************************)
(* The life of a server process (server_run in server.c, started by main):  *)
(* the order in which it loads the fixture, removes a stale ready file,     *)
(* configures and starts the stack, applies PubSub, registers with a Local  *)
(* Discovery Server (LDS), writes the ready file (write_ready_file_atomic), *)
(* serves until a signal, and stops; with every early return, crashes at    *)
(* any point and restarts in the same container, where the files survive.   *)
(*                                                                          *)
(* A file is described by the incarnation that wrote it (0: no file) and by *)
(* whether its content is whole: the results of fprintf and fclose are not  *)
(* looked at, so a short temporary file is renamed like a whole one.        *)
(***************************************************************************)
EXTENDS Naturals

CONSTANTS
    MaxRuns,      \* bound: processes started in one container
    MaxExchanges  \* asynchronous register requests the stack keeps, per kind

ASSUME RunsAssumption == MaxRuns \in Nat
ASSUME ExchangesAssumption == MaxExchanges \in Nat

(* --ready-file: not given, from OPCUA_READY_FILE, or given explicitly;     *)
(* whether --pubsub-config and --register-with are given.                   *)
Args == [ready : {"no", "default", "explicit"}, pubsub : BOOLEAN, lds : BOOLEAN]

VARIABLES
    pc,          \* where server_run is; "down": no process
    args,        \* ServerArgs of the process
    run,         \* which process of the container this is
    armed,       \* the signal handlers are installed
    running,     \* g_running
    listening,   \* the stack accepts connections
    applied,     \* the PubSub configuration is in place
    regTimer,    \* the repeated callback register_with_lds exists
    ready,       \* the ready file
    tmp,         \* <path>.tmp
    lds,         \* what the LDS lists: "online" or "offline"
    exch,        \* exch[k]: register requests with IsOnline = k under way
    unregistered,\* the LDS has got this process's unregistration
    keptFile,    \* an unlink of the ready file failed in this process
    exit         \* exit status of the last process

vars == <<pc, args, run, armed, running, listening, applied, regTimer, ready,
          tmp, lds, exch, unregistered, keptFile, exit>>

fileVars == <<ready, tmp, keptFile>>
ldsVars == <<lds, exch, unregistered>>
stackVars == <<listening, applied, regTimer>>
procVars == <<args, run, armed, running, exit>>

NoFile == [by |-> 0, whole |-> FALSE]
NoExchange == [k \in {"online", "offline"} |-> 0]

Init ==
    /\ pc = "down"
    /\ args = [ready |-> "no", pubsub |-> FALSE, lds |-> FALSE]
    /\ run = 0
    /\ armed = FALSE
    /\ running = TRUE
    /\ listening = FALSE
    /\ applied = FALSE
    /\ regTimer = FALSE
    /\ ready = NoFile
    /\ tmp = NoFile
    /\ lds = "offline"
    /\ exch = NoExchange
    /\ unregistered = FALSE
    /\ keptFile = FALSE
    /\ exit = "none"

-----------------------------------------------------------------------------
(* How a process ends.                                                      *)

(* The process is gone: its sockets, timers and requests with it. Files and *)
(* the entry of the LDS stay.                                               *)
Gone(status) ==
    /\ pc' = "down"
    /\ exit' = status
    /\ armed' = FALSE
    /\ listening' = FALSE
    /\ applied' = FALSE
    /\ regTimer' = FALSE
    /\ exch' = NoExchange
    /\ UNCHANGED <<args, run, running, lds, unregistered>>

(* An early return of server_run.                                           *)
GiveUp(status) == Gone(status) /\ UNCHANGED fileVars

(* SIGKILL, a crash, or the end of the container, at any point.             *)
Kill ==
    /\ pc # "down"
    /\ Gone("killed")
    /\ UNCHANGED fileVars

(* SIGTERM or SIGINT. Before the handlers are installed the default action  *)
(* ends the process, unless it is PID 1 of its container, which the signal  *)
(* does not reach (no step).                                                *)
Signal ==
    /\ pc # "down"
    /\ \/ /\ armed
          /\ running' = FALSE
          /\ UNCHANGED <<pc, args, run, armed, exit>>
          /\ UNCHANGED <<stackVars, fileVars, ldsVars>>
       \/ ~armed /\ Gone("killed") /\ UNCHANGED fileVars

-----------------------------------------------------------------------------
(* Starting.                                                                *)

Start(a) ==
    /\ pc = "down"
    /\ run < MaxRuns
    /\ pc' = "parse"
    /\ args' = a
    /\ run' = run + 1
    /\ running' = TRUE
    /\ unregistered' = FALSE
    /\ keptFile' = FALSE
    /\ exit' = "none"
    /\ UNCHANGED <<armed, ready, tmp, lds, exch>>
    /\ UNCHANGED stackVars

(* server_parse_args, in main: an argument it does not take ends the        *)
(* process before server_run.                                               *)
ParseArgs ==
    /\ pc = "parse"
    /\ \/ GiveUp("2")
       \/ /\ pc' = "load"
          /\ UNCHANGED <<procVars, stackVars, fileVars, ldsVars>>

LoadFixture ==
    /\ pc = "load"
    /\ \/ GiveUp("1")
       \/ /\ pc' = "stale"
          /\ UNCHANGED <<procVars, stackVars, fileVars, ldsVars>>

(* unlink_ready_file: a failed unlink is a warning.                         *)
Unlink ==
    \/ /\ ready' = NoFile
       /\ UNCHANGED <<tmp, keptFile>>
    \/ /\ ready.by # 0
       /\ keptFile' = TRUE
       /\ UNCHANGED <<ready, tmp>>

MutRemoveStale ==
    /\ pc = "stale"
    /\ pc' = "configure"
    /\ IF args.ready = "explicit" THEN Unlink ELSE UNCHANGED fileVars
    /\ UNCHANGED <<procVars, stackVars, ldsVars>>

RemoveStale ==
    /\ pc = "stale"
    /\ pc' = "configure"
    /\ IF args.ready # "no" THEN Unlink ELSE UNCHANGED fileVars
    /\ UNCHANGED <<procVars, stackVars, ldsVars>>

(* Security configuration, the server object and its address space; the     *)
(* signal handlers are installed at the end.                                *)
Configure ==
    /\ pc = "configure"
    /\ \/ GiveUp("1")
       \/ /\ pc' = "startup"
          /\ armed' = TRUE
          /\ UNCHANGED <<args, run, running, exit>>
          /\ UNCHANGED <<stackVars, fileVars, ldsVars>>

Startup ==
    /\ pc = "startup"
    /\ \/ GiveUp("1")
       \/ /\ pc' = "pubsub"
          /\ listening' = TRUE
          /\ UNCHANGED <<applied, regTimer>>
          /\ UNCHANGED <<procVars, fileVars, ldsVars>>

ApplyPubSub ==
    /\ pc = "pubsub"
    /\ \/ args.pubsub /\ GiveUp("1")
       \/ /\ pc' = "register"
          /\ applied' = args.pubsub
          /\ UNCHANGED <<listening, regTimer>>
          /\ UNCHANGED <<procVars, fileVars, ldsVars>>

(* UA_Server_registerDiscovery and UA_Server_deregisterDiscovery: a request *)
(* starts, or fails to, which is only logged.                               *)
Request(k) ==
    \/ exch[k] < MaxExchanges /\ exch' = [exch EXCEPT ![k] = @ + 1]
    \/ exch' = exch

(* The first registration, and the timer for the next ones. The result of   *)
(* UA_Server_addRepeatedCallback is not looked at: there may be no timer.   *)
RegisterFirst ==
    /\ pc = "register"
    /\ pc' = "ready"
    /\ regTimer' \in {FALSE, args.lds}
    /\ IF args.lds THEN Request("online") ELSE exch' = exch
    /\ UNCHANGED <<listening, applied, lds, unregistered>>
    /\ UNCHANGED <<procVars, fileVars>>

(* write_ready_file_atomic, first half: the temporary file is written,      *)
(* whole or short, or cannot be opened.                                     *)
WriteTmp ==
    /\ pc = "ready"
    /\ \/ /\ args.ready = "no"
          /\ pc' = "loop"
          /\ UNCHANGED <<procVars, stackVars, fileVars, ldsVars>>
       \/ /\ args.ready # "no"
          /\ pc' = "rename"
          /\ \E whole \in BOOLEAN : tmp' = [by |-> run, whole |-> whole]
          /\ UNCHANGED <<ready, keptFile>>
          /\ UNCHANGED <<procVars, stackVars, ldsVars>>
       \/ /\ args.ready = "default"
          /\ pc' = "loop"
          /\ UNCHANGED <<procVars, stackVars, fileVars, ldsVars>>
       \/ args.ready = "explicit" /\ GiveUp("6")

(* Second half: the rename, or its failure, which removes the temporary     *)
(* file. Failing is fatal only for an explicit --ready-file.                *)
RenameReady ==
    /\ pc = "rename"
    /\ \/ /\ pc' = "loop"
          /\ ready' = tmp
          /\ tmp' = NoFile
          /\ UNCHANGED keptFile
          /\ UNCHANGED <<procVars, stackVars, ldsVars>>
       \/ /\ args.ready = "default"
          /\ pc' = "loop"
          /\ tmp' = NoFile
          /\ UNCHANGED <<ready, keptFile>>
          /\ UNCHANGED <<procVars, stackVars, ldsVars>>
       \/ /\ args.ready = "explicit"
          /\ Gone("6")
          /\ tmp' = NoFile
          /\ UNCHANGED <<ready, keptFile>>

-----------------------------------------------------------------------------
(* Serving: the event loop iterates in the main loop and while the          *)
(* unregistration is given time.                                            *)

Iterating == pc \in {"loop", "drain"}

RegisterAgain ==
    /\ Iterating
    /\ regTimer
    /\ Request("online")
    /\ UNCHANGED <<pc, lds, unregistered>>
    /\ UNCHANGED <<procVars, stackVars, fileVars>>

(* A request reaches the LDS, which lists or drops the server, or is lost.  *)
(* Requests have a connection each: nothing orders them.                    *)
Exchange(k) ==
    /\ Iterating
    /\ exch[k] > 0
    /\ exch' = [exch EXCEPT ![k] = @ - 1]
    /\ \/ lds' = k /\ unregistered' = (unregistered \/ k = "offline")
       \/ UNCHANGED <<lds, unregistered>>
    /\ UNCHANGED pc
    /\ UNCHANGED <<procVars, stackVars, fileVars>>

(* The LDS drops a registration that was not renewed in time.               *)
Expire ==
    /\ lds = "online"
    /\ lds' = "offline"
    /\ UNCHANGED <<pc, exch, unregistered>>
    /\ UNCHANGED <<procVars, stackVars, fileVars>>

-----------------------------------------------------------------------------
(* Stopping.                                                                *)

LeaveLoop ==
    /\ pc = "loop"
    /\ ~running
    /\ pc' = "unregister"
    /\ UNCHANGED <<procVars, stackVars, fileVars, ldsVars>>

Unregister ==
    /\ pc = "unregister"
    /\ IF args.lds
       THEN pc' = "drain" /\ Request("offline")
       ELSE pc' = "disable" /\ exch' = exch
    /\ UNCHANGED <<lds, unregistered>>
    /\ UNCHANGED <<procVars, stackVars, fileVars>>

MutDrainDone ==
    /\ pc = "drain"
    /\ exch = NoExchange
    /\ pc' = "disable"
    /\ UNCHANGED <<procVars, stackVars, fileVars, ldsVars>>

(* 1500 ms have passed.                                                     *)
DrainDone ==
    /\ pc = "drain"
    /\ pc' = "disable"
    /\ UNCHANGED <<procVars, stackVars, fileVars, ldsVars>>

DisablePubSub ==
    /\ pc = "disable"
    /\ pc' = "shutdown"
    /\ applied' = FALSE
    /\ UNCHANGED <<listening, regTimer>>
    /\ UNCHANGED <<procVars, fileVars, ldsVars>>

(* UA_Server_run_shutdown, UA_Server_delete and pubsub_server_cleanup.      *)
Shutdown ==
    /\ pc = "shutdown"
    /\ pc' = "unlink"
    /\ listening' = FALSE
    /\ regTimer' = FALSE
    /\ exch' = NoExchange
    /\ UNCHANGED <<applied, lds, unregistered>>
    /\ UNCHANGED <<procVars, fileVars>>

MutRemoveReady ==
    /\ pc = "unlink"
    /\ IF args.ready = "explicit" THEN Unlink ELSE UNCHANGED fileVars
    /\ Gone("0")

RemoveReady ==
    /\ pc = "unlink"
    /\ IF args.ready # "no" THEN Unlink ELSE UNCHANGED fileVars
    /\ Gone("0")

(* The steps server_run takes by itself.                                    *)
Step ==
    \/ ParseArgs
    \/ LoadFixture
    \/ RemoveStale
    \/ Configure
    \/ Startup
    \/ ApplyPubSub
    \/ RegisterFirst
    \/ WriteTmp
    \/ RenameReady
    \/ LeaveLoop
    \/ Unregister
    \/ DrainDone
    \/ DisablePubSub
    \/ Shutdown
    \/ RemoveReady

Next ==
    \/ \E a \in Args : Start(a)
    \/ Step
    \/ RegisterAgain
    \/ \E k \in {"online", "offline"} : Exchange(k)
    \/ Expire
    \/ Signal
    \/ Kill

(* server_run is sequential code whose calls return; the main loop sees     *)
(* g_running after at most one iteration of the event loop.                 *)
Spec == Init /\ [][Next]_vars /\ WF_vars(Step)

-----------------------------------------------------------------------------
(* Properties.                                                              *)

Serving == {"configure", "startup", "pubsub", "register", "ready", "rename",
            "loop", "unregister", "drain"}
Locations == Serving \cup {"down", "parse", "load", "stale", "disable",
                           "shutdown", "unlink"}
Files == [by : Nat, whole : BOOLEAN]

(* Type correctness.                                                        *)
TypeOK ==
    /\ pc \in Locations
    /\ args \in Args
    /\ run \in Nat
    /\ armed \in BOOLEAN
    /\ running \in BOOLEAN
    /\ listening \in BOOLEAN
    /\ applied \in BOOLEAN
    /\ regTimer \in BOOLEAN
    /\ ready \in Files
    /\ tmp \in Files
    /\ lds \in {"online", "offline"}
    /\ exch \in [{"online", "offline"} -> 0..MaxExchanges]
    /\ unregistered \in BOOLEAN
    /\ keptFile \in BOOLEAN
    /\ exit \in {"none", "killed", "0", "1", "2", "6"}

(* A ready server is ready: from the removal of a stale file to the stop,   *)
(* a ready file was written by this very process, which accepts connections *)
(* and has its PubSub configuration in place, whatever crashed processes    *)
(* left behind (server_run, write_ready_file_atomic). A file that could not *)
(* be unlinked is the exception.                                            *)
ReadyMeansServing ==
    (pc \in Serving /\ args.ready # "no" /\ ready.by # 0 /\ ~keptFile) =>
        /\ ready.by = run
        /\ listening
        /\ args.pubsub => applied

(* Exit statuses are honest: 0 only after a signal and with the ready file  *)
(* removed, 6 only for an explicit --ready-file, and a process that gave up *)
(* with 1, 2 or 6 never signalled that it was ready (main, server_run).     *)
ExitStatus ==
    /\ exit = "0" => ~running /\ (args.ready # "no" => ready.by = 0 \/ keptFile)
    /\ exit = "6" => args.ready = "explicit"
    /\ exit \in {"1", "2", "6"} => ready.by # run

(* A signal the process handles ends it: neither the event loop nor the     *)
(* wait for the unregistration, with the registration timer still firing,   *)
(* keeps it alive (server_run, on_signal).                                  *)
StopsOnSignal == (armed /\ ~running) ~> (pc = "down")

(* The server is "unregistered (IsOnline=false) on SIGTERM": once the LDS   *)
(* got the unregistration, the process does not register again.             *)
StaysUnregistered == unregistered => lds = "offline"
=============================================================================
