---------------------------- MODULE ServerProofs ----------------------------
(***************************************************************************)
(* Proofs about the server process. ServerLifecycle, for any number of      *)
(* crashes and restarts: type correctness, what a ready file means, and     *)
(* what an exit status says. PubSubRecovery, for every configuration, every *)
(* pair of delays and any number of errors: type correctness, one recovery  *)
(* at a time, and no component forgotten in Error.                          *)
(***************************************************************************)
EXTENDS ServerLifecycle, PubSubRecovery, TLAPS

-----------------------------------------------------------------------------
(* The life of the process.                                                 *)


(* The part of server_run before the ready file is in place.                *)
Starting == {"parse", "load", "stale", "configure", "startup", "pubsub", "register",
             "ready", "rename"}

(* Which process wrote which file.                                          *)
Writers ==
    /\ ready.by <= run
    /\ tmp.by <= run
    /\ pc = "rename" => tmp.by = run /\ args.ready # "no"
    /\ pc \in Starting => ready.by # run
    /\ (pc \in Serving /\ args.ready # "no" /\ ~keptFile) =>
          ready.by = 0 \/ ready.by = run

(* What the stack and the flags are at each location.                       *)
Control ==
    /\ pc \in {"pubsub", "register", "ready", "rename", "loop", "unregister",
               "drain", "disable", "shutdown"} => listening
    /\ pc \in {"register", "ready", "rename", "loop", "unregister", "drain",
               "disable"} => (args.pubsub => applied)
    /\ pc \in {"unregister", "drain", "disable", "shutdown", "unlink"} => ~running
    /\ pc # "down" => exit = "none"

(* The inductive invariant.                                                 *)
IInv == TypeOK /\ Writers /\ Control /\ ExitStatus

-----------------------------------------------------------------------------
(* The absent file.                                                         *)
LEMMA NoFileType == NoFile \in Files /\ NoFile.by = 0
<1>1. 0 \in Nat /\ FALSE \in BOOLEAN
  OBVIOUS
<1>. QED  BY <1>1, Zenon DEF NoFile, Files

(* A container starts without a process and without files.                  *)
LEMMA InitInv == Init => IInv
<1>. SUFFICES ASSUME Init PROVE IInv
  OBVIOUS
<1>1. TypeOK
  <2>1. /\ armed \in BOOLEAN /\ running \in BOOLEAN /\ listening \in BOOLEAN
        /\ applied \in BOOLEAN /\ regTimer \in BOOLEAN
        /\ unregistered \in BOOLEAN /\ keptFile \in BOOLEAN
    BY Zenon DEF Init
  <2>2. ready \in Files /\ tmp \in Files
    BY NoFileType DEF Init
  <2>3. args \in Args
    BY DEF Init, Args
  <2>4. exch \in [{"online", "offline"} -> 0..MaxExchanges]
    BY ExchangesAssumption DEF Init, NoExchange
  <2>5. pc \in Locations /\ run \in Nat /\ lds \in {"online", "offline"}
        /\ exit \in {"none", "killed", "0", "1", "2", "6"}
    BY DEF Init, Locations
  <2>. QED  BY <2>1, <2>2, <2>3, <2>4, <2>5 DEF TypeOK
<1>2. Writers /\ Control /\ ExitStatus
  BY NoFileType DEF Init, Writers, Control, ExitStatus, Starting, Serving
<1>. QED  BY <1>1, <1>2 DEF IInv

(* Every way to leave keeps the types.                                      *)
LEMMA GoneType ==
    ASSUME TypeOK, NEW status \in {"killed", "0", "1", "2", "6"}, Gone(status),
           ready' \in Files, tmp' \in Files, keptFile' \in BOOLEAN
    PROVE  TypeOK'
<1>1. /\ armed' \in BOOLEAN /\ listening' \in BOOLEAN
      /\ applied' \in BOOLEAN /\ regTimer' \in BOOLEAN
  BY Zenon DEF Gone
<1>2. exch' \in [{"online", "offline"} -> 0..MaxExchanges]
  BY ExchangesAssumption DEF Gone, NoExchange
<1>3. /\ pc' \in Locations /\ exit' \in {"none", "killed", "0", "1", "2", "6"}
      /\ UNCHANGED <<args, run, running, lds, unregistered>>
  BY DEF Gone, Locations
<1>. QED  BY <1>1, <1>2, <1>3 DEF TypeOK

(* Leaving without touching a file keeps the invariant when the status is   *)
(* "killed", or a failure before the ready file exists.                     *)
LEMMA GoneInv ==
    ASSUME IInv, NEW status \in {"killed", "1", "2", "6"}, Gone(status),
           UNCHANGED <<ready, keptFile>>, tmp' = tmp \/ tmp' = NoFile,
           status # "killed" => pc \in Starting,
           status = "6" => args.ready = "explicit"
    PROVE  IInv'
<1>1. TypeOK'
  <2>1. ready' \in Files /\ tmp' \in Files /\ keptFile' \in BOOLEAN
    BY NoFileType DEF IInv, TypeOK
  <2>. QED  BY <2>1, GoneType DEF IInv
<1>2. /\ pc' = "down" /\ exit' = status /\ UNCHANGED <<args, run, running>>
  BY DEF Gone
<1>3. Writers'
  BY <1>2, NoFileType DEF IInv, TypeOK, Writers, Starting, Serving
<1>4. Control'
  BY <1>2 DEF Control
<1>5. ExitStatus'
  BY <1>2 DEF IInv, Writers, ExitStatus
<1>. QED  BY <1>1, <1>3, <1>4, <1>5 DEF IInv

(* unlink_ready_file leaves no ready file or says that it failed.           *)
LEMMA UnlinkFacts ==
    ASSUME TypeOK, Unlink
    PROVE  /\ ready' \in Files /\ tmp' \in Files /\ keptFile' \in BOOLEAN
           /\ tmp' = tmp
           /\ ready'.by = 0 \/ (keptFile' /\ ready' = ready)
<1>1. CASE ready' = NoFile /\ UNCHANGED <<tmp, keptFile>>
  BY <1>1, NoFileType DEF TypeOK
<1>2. CASE keptFile' = TRUE /\ UNCHANGED <<ready, tmp>>
  BY <1>2 DEF TypeOK
<1>. QED  BY <1>1, <1>2 DEF Unlink

(* Starting a register request keeps the number of requests within bounds.  *)
LEMMA RequestType ==
    ASSUME TypeOK, NEW k \in {"online", "offline"}, Request(k)
    PROVE  exch' \in [{"online", "offline"} -> 0..MaxExchanges]
BY ExchangesAssumption DEF TypeOK, Request

(* Every step of the process, its environment and the LDS keeps the         *)
(* invariant.                                                               *)
LEMMA NextInv == IInv /\ [Next]_vars => IInv'
<1>. SUFFICES ASSUME IInv, [Next]_vars PROVE IInv'
  OBVIOUS
<1>0. TypeOK /\ Writers /\ Control /\ ExitStatus
  BY DEF IInv
<1>1. CASE UNCHANGED vars
  BY <1>0, <1>1 DEF vars, IInv, TypeOK, Writers, Control, ExitStatus
<1>2. ASSUME NEW a \in Args, Start(a) PROVE IInv'
  <2>1. /\ pc' = "parse" /\ args' = a /\ run' = run + 1 /\ exit' = "none"
        /\ running' = TRUE /\ unregistered' = FALSE /\ keptFile' = FALSE
        /\ UNCHANGED <<armed, ready, tmp, lds, exch, listening, applied, regTimer>>
    BY <1>2 DEF Start, stackVars
  <2>2. TypeOK'
    <3>1. running' \in BOOLEAN /\ unregistered' \in BOOLEAN /\ keptFile' \in BOOLEAN
      BY <2>1, Zenon
    <3>. QED  BY <1>0, <2>1, <3>1 DEF TypeOK, Locations, Serving
  <2>3. Writers'
    BY <1>0, <2>1 DEF TypeOK, Writers, Starting, Serving, Files
  <2>4. Control' /\ ExitStatus'
    BY <2>1 DEF Control, ExitStatus
  <2>. QED  BY <2>2, <2>3, <2>4 DEF IInv
<1>22. CASE ParseArgs
  <2>1. CASE GiveUp("2")
    BY <1>22, <2>1, GoneInv DEF ParseArgs, GiveUp, fileVars, Starting
  <2>2. CASE ~GiveUp("2")
    <3>1. /\ pc = "parse" /\ pc' = "load"
          /\ UNCHANGED <<args, run, armed, running, exit, ready, tmp, keptFile, listening,
                       applied, regTimer, lds, exch, unregistered>>
      BY <1>22, <2>2 DEF ParseArgs, procVars, stackVars, fileVars, ldsVars
    <3>2. TypeOK'
      BY <1>0, <3>1 DEF TypeOK, Locations, Serving
    <3>3. Writers'
      BY <1>0, <3>1 DEF TypeOK, Writers, Starting, Serving
    <3>4. Control'
      BY <1>0, <3>1 DEF TypeOK, Control
    <3>5. ExitStatus'
      BY <1>0, <3>1 DEF ExitStatus
    <3>. QED  BY <3>2, <3>3, <3>4, <3>5 DEF IInv
  <2>. QED  BY <2>1, <2>2
<1>3. CASE LoadFixture
  <2>1. CASE GiveUp("1")
    BY <1>3, <2>1, GoneInv DEF LoadFixture, GiveUp, fileVars, Starting
  <2>2. CASE ~GiveUp("1")
    <3>1. /\ pc = "load" /\ pc' = "stale"
          /\ UNCHANGED <<args, run, armed, running, exit, ready, tmp, keptFile, listening,
                       applied, regTimer, lds, exch, unregistered>>
      BY <1>3, <2>2 DEF LoadFixture, procVars, stackVars, fileVars, ldsVars
    <3>2. TypeOK'
      BY <1>0, <3>1 DEF TypeOK, Locations, Serving
    <3>3. Writers'
      BY <1>0, <3>1 DEF TypeOK, Writers, Starting, Serving
    <3>4. Control'
      BY <1>0, <3>1 DEF TypeOK, Control
    <3>5. ExitStatus'
      BY <1>0, <3>1 DEF ExitStatus
    <3>. QED  BY <3>2, <3>3, <3>4, <3>5 DEF IInv
  <2>. QED  BY <2>1, <2>2
<1>4. CASE RemoveStale
  <2>1. /\ pc = "stale" /\ pc' = "configure"
        /\ UNCHANGED <<args, run, armed, running, exit, listening, applied,
                       regTimer, lds, exch, unregistered>>
    BY <1>4 DEF RemoveStale, procVars, stackVars, ldsVars
  <2>2. /\ ready' \in Files /\ tmp' \in Files /\ keptFile' \in BOOLEAN
        /\ tmp' = tmp
        /\ ready'.by = 0 \/ ready' = ready
        /\ args.ready # "no" => ready'.by = 0 \/ keptFile'
    <3>1. CASE args.ready # "no"
      BY <1>0, <1>4, <3>1, UnlinkFacts DEF RemoveStale
    <3>2. CASE args.ready = "no"
      BY <1>0, <1>4, <3>2 DEF RemoveStale, fileVars, TypeOK
    <3>. QED  BY <3>1, <3>2
  <2>3. TypeOK'
    BY <1>0, <2>1, <2>2 DEF TypeOK, Locations, Serving
  <2>4. run # 0
    BY <1>0, <2>1 DEF TypeOK, Writers, Starting, Files
  <2>5. Writers'
    BY <1>0, <2>1, <2>2, <2>4 DEF TypeOK, Writers, Starting, Serving
  <2>6. Control' /\ ExitStatus'
    BY <1>0, <2>1 DEF Control, ExitStatus
  <2>. QED  BY <2>3, <2>5, <2>6 DEF IInv
<1>5. CASE Configure
  <2>1. CASE GiveUp("1")
    BY <1>5, <2>1, GoneInv DEF Configure, GiveUp, fileVars, Starting
  <2>2. CASE ~GiveUp("1")
    <3>1. /\ pc = "configure" /\ pc' = "startup" /\ armed' = TRUE
          /\ UNCHANGED <<args, run, running, exit, ready, tmp, keptFile,
                         listening, applied, regTimer, lds, exch, unregistered>>
      BY <1>5, <2>2 DEF Configure, procVars, stackVars, fileVars, ldsVars
    <3>2. TypeOK'
      <4>1. armed' \in BOOLEAN
        BY <3>1, Zenon
      <4>. QED  BY <1>0, <3>1, <4>1 DEF TypeOK, Locations, Serving
    <3>3. Writers'
      BY <1>0, <3>1 DEF TypeOK, Writers, Starting, Serving
    <3>4. Control'
      BY <1>0, <3>1 DEF TypeOK, Control
    <3>5. ExitStatus'
      BY <1>0, <3>1 DEF ExitStatus
    <3>. QED  BY <3>2, <3>3, <3>4, <3>5 DEF IInv
  <2>. QED  BY <2>1, <2>2
<1>6. CASE Startup
  <2>1. CASE GiveUp("1")
    BY <1>6, <2>1, GoneInv DEF Startup, GiveUp, fileVars, Starting
  <2>2. CASE ~GiveUp("1")
    <3>1. /\ pc = "startup" /\ pc' = "pubsub" /\ listening' = TRUE
          /\ UNCHANGED <<args, run, armed, running, exit, ready, tmp, keptFile,
                         applied, regTimer, lds, exch, unregistered>>
      BY <1>6, <2>2 DEF Startup, procVars, stackVars, fileVars, ldsVars
    <3>2. TypeOK'
      <4>1. listening' \in BOOLEAN
        BY <3>1, Zenon
      <4>. QED  BY <1>0, <3>1, <4>1 DEF TypeOK, Locations, Serving
    <3>3. Writers'
      BY <1>0, <3>1 DEF TypeOK, Writers, Starting, Serving
    <3>4. Control'
      BY <1>0, <3>1 DEF TypeOK, Control
    <3>5. ExitStatus'
      BY <1>0, <3>1 DEF ExitStatus
    <3>. QED  BY <3>2, <3>3, <3>4, <3>5 DEF IInv
  <2>. QED  BY <2>1, <2>2
<1>7. CASE ApplyPubSub
  <2>1. CASE GiveUp("1")
    BY <1>7, <2>1, GoneInv DEF ApplyPubSub, GiveUp, fileVars, Starting
  <2>2. CASE ~GiveUp("1")
    <3>1. /\ pc = "pubsub" /\ pc' = "register" /\ applied' = args.pubsub
          /\ UNCHANGED <<args, run, armed, running, exit, ready, tmp, keptFile,
                         listening, regTimer, lds, exch, unregistered>>
      BY <1>7, <2>2 DEF ApplyPubSub, procVars, stackVars, fileVars, ldsVars
    <3>2. TypeOK'
      BY <1>0, <3>1 DEF TypeOK, Locations, Serving, Args
    <3>3. Writers'
      BY <1>0, <3>1 DEF TypeOK, Writers, Starting, Serving
    <3>4. Control'
      BY <1>0, <3>1 DEF TypeOK, Control
    <3>5. ExitStatus'
      BY <1>0, <3>1 DEF ExitStatus
    <3>. QED  BY <3>2, <3>3, <3>4, <3>5 DEF IInv
  <2>. QED  BY <2>1, <2>2
<1>8. CASE RegisterFirst
  <2>1. /\ pc = "register" /\ pc' = "ready" /\ regTimer' \in {FALSE, args.lds}
        /\ UNCHANGED <<args, run, armed, running, exit, ready, tmp, keptFile,
                       listening, applied, lds, unregistered>>
    BY <1>8 DEF RegisterFirst, procVars, stackVars, fileVars
  <2>2. exch' \in [{"online", "offline"} -> 0..MaxExchanges]
    BY <1>0, <1>8, RequestType DEF TypeOK, RegisterFirst
  <2>3. TypeOK'
    <3>1. args.lds \in BOOLEAN
      BY <1>0 DEF TypeOK, Args
    <3>2. regTimer' \in BOOLEAN
      BY <2>1, <3>1, Zenon
    <3>. QED  BY <1>0, <2>1, <2>2, <3>2 DEF TypeOK, Locations, Serving
  <2>4. Writers'
    BY <1>0, <2>1 DEF TypeOK, Writers, Starting, Serving
  <2>5. Control'
    BY <1>0, <2>1 DEF Control
  <2>6. ExitStatus'
    BY <1>0, <2>1 DEF ExitStatus
  <2>. QED  BY <2>3, <2>4, <2>5, <2>6 DEF IInv
<1>9. CASE WriteTmp
  <2>1. CASE args.ready = "explicit" /\ GiveUp("6")
    BY <1>9, <2>1, GoneInv DEF WriteTmp, GiveUp, fileVars, Starting
  <2>2. CASE /\ pc' = "loop"
             /\ UNCHANGED <<procVars, stackVars, fileVars, ldsVars>>
    <3>1. /\ pc = "ready" /\ pc' = "loop"
          /\ UNCHANGED <<args, run, armed, running, exit, ready, tmp, keptFile,
                         listening, applied, regTimer, lds, exch, unregistered>>
      BY <1>9, <2>2 DEF WriteTmp, procVars, stackVars, fileVars, ldsVars
    <3>2. TypeOK'
      BY <1>0, <3>1 DEF TypeOK, Locations, Serving
    <3>3. Writers'
      BY <1>0, <3>1 DEF TypeOK, Writers, Starting, Serving
    <3>4. Control' /\ ExitStatus'
      BY <1>0, <3>1 DEF Control, ExitStatus
    <3>. QED  BY <3>2, <3>3, <3>4 DEF IInv
  <2>3. CASE /\ args.ready # "no" /\ pc' = "rename"
             /\ \E whole \in BOOLEAN : tmp' = [by |-> run, whole |-> whole]
             /\ UNCHANGED <<ready, keptFile>>
             /\ UNCHANGED <<procVars, stackVars, ldsVars>>
    <3>1. /\ pc = "ready" /\ pc' = "rename"
          /\ UNCHANGED <<args, run, armed, running, exit, ready, keptFile,
                         listening, applied, regTimer, lds, exch, unregistered>>
      BY <1>9, <2>3 DEF WriteTmp, procVars, stackVars, ldsVars
    <3>2. tmp' \in Files /\ tmp'.by = run
      BY <1>0, <2>3 DEF TypeOK, Files
    <3>3. TypeOK'
      BY <1>0, <3>1, <3>2 DEF TypeOK, Locations, Serving
    <3>4. Writers'
      BY <1>0, <2>3, <3>1, <3>2 DEF TypeOK, Writers, Starting, Serving
    <3>5. Control' /\ ExitStatus'
      BY <1>0, <3>1 DEF Control, ExitStatus
    <3>. QED  BY <3>3, <3>4, <3>5 DEF IInv
  <2>. QED  BY <1>9, <2>1, <2>2, <2>3 DEF WriteTmp
<1>10. CASE RenameReady
  <2>1. CASE args.ready = "explicit" /\ Gone("6")
             /\ tmp' = NoFile /\ UNCHANGED <<ready, keptFile>>
    BY <1>10, <2>1, GoneInv DEF RenameReady, Starting
  <2>2. CASE /\ pc' = "loop" /\ tmp' = NoFile /\ UNCHANGED keptFile
             /\ ready' = tmp \/ ready' = ready
             /\ UNCHANGED <<procVars, stackVars, ldsVars>>
    <3>1. /\ pc = "rename" /\ pc' = "loop" /\ tmp' = NoFile
          /\ ready' = tmp \/ ready' = ready
          /\ UNCHANGED <<args, run, armed, running, exit, keptFile,
                         listening, applied, regTimer, lds, exch, unregistered>>
      BY <1>10, <2>2 DEF RenameReady, procVars, stackVars, ldsVars
    <3>2. TypeOK'
      BY <1>0, <3>1, NoFileType DEF TypeOK, Locations, Serving
    <3>3. Writers'
      BY <1>0, <3>1, NoFileType DEF TypeOK, Writers, Starting, Serving
    <3>4. Control' /\ ExitStatus'
      BY <1>0, <3>1 DEF Control, ExitStatus
    <3>. QED  BY <3>2, <3>3, <3>4 DEF IInv
  <2>. QED  BY <1>10, <2>1, <2>2 DEF RenameReady
<1>11. CASE RegisterAgain
  <2>1. UNCHANGED <<pc, args, run, armed, running, exit, ready, tmp, keptFile,
                       listening, applied, regTimer, lds, unregistered>>
    BY <1>11 DEF RegisterAgain, procVars, stackVars, fileVars
  <2>2. exch' \in [{"online", "offline"} -> 0..MaxExchanges]
    BY <1>0, <1>11, RequestType DEF TypeOK, RegisterAgain
  <2>3. TypeOK'
    BY <1>0, <2>1, <2>2 DEF TypeOK, Locations, Serving, Args
  <2>4. Writers'
    BY <1>0, <2>1 DEF TypeOK, Writers, Starting, Serving
  <2>5. Control'
    BY <1>0, <2>1 DEF Control
  <2>6. ExitStatus'
    BY <1>0, <2>1 DEF ExitStatus
  <2>. QED  BY <2>3, <2>4, <2>5, <2>6 DEF IInv
<1>12. ASSUME NEW k \in {"online", "offline"}, Exchange(k) PROVE IInv'
  <2>1. UNCHANGED <<pc, args, run, armed, running, exit, ready, tmp, keptFile,
                    listening, applied, regTimer>>
    BY <1>12 DEF Exchange, procVars, stackVars, fileVars
  <2>2. exch' \in [{"online", "offline"} -> 0..MaxExchanges]
    BY <1>0, <1>12, ExchangesAssumption DEF Exchange, TypeOK
  <2>3. lds' \in {"online", "offline"} /\ unregistered' \in BOOLEAN
    BY <1>0, <1>12 DEF Exchange, TypeOK
  <2>4. TypeOK'
    BY <1>0, <2>1, <2>2, <2>3 DEF TypeOK
  <2>5. Writers' /\ Control' /\ ExitStatus'
    BY <1>0, <2>1 DEF Writers, Control, ExitStatus
  <2>. QED  BY <2>4, <2>5 DEF IInv
<1>13. CASE Expire
  <2>1. /\ UNCHANGED <<pc, args, run, armed, running, exit, ready, tmp, keptFile,
                       listening, applied, regTimer, exch, unregistered>>
        /\ lds' = "offline"
    BY <1>13 DEF Expire, procVars, stackVars, fileVars
  <2>2. TypeOK'
    BY <1>0, <2>1 DEF TypeOK
  <2>3. Writers' /\ Control' /\ ExitStatus'
    BY <1>0, <2>1 DEF Writers, Control, ExitStatus
  <2>. QED  BY <2>2, <2>3 DEF IInv
<1>14. CASE LeaveLoop
  <2>1. /\ pc = "loop" /\ pc' = "unregister" /\ ~running
        /\ UNCHANGED <<args, run, armed, running, exit, ready, tmp, keptFile, listening,
                       applied, regTimer, lds, exch, unregistered>>
    BY <1>14 DEF LeaveLoop, procVars, stackVars, fileVars, ldsVars
  <2>2. TypeOK'
    BY <1>0, <2>1 DEF TypeOK, Locations, Serving
  <2>3. Writers'
    BY <1>0, <2>1 DEF TypeOK, Writers, Starting, Serving
  <2>4. Control'
    BY <1>0, <2>1 DEF Control
  <2>5. ExitStatus'
    BY <1>0, <2>1 DEF ExitStatus
  <2>. QED  BY <2>2, <2>3, <2>4, <2>5 DEF IInv
<1>15. CASE Unregister
  <2>1. /\ pc = "unregister" /\ pc' \in {"drain", "disable"}
        /\ UNCHANGED <<args, run, armed, running, exit, ready, tmp, keptFile,
                       listening, applied, regTimer, lds, unregistered>>
    BY <1>15 DEF Unregister, procVars, stackVars, fileVars
  <2>2. exch' \in [{"online", "offline"} -> 0..MaxExchanges]
    BY <1>0, <1>15, RequestType DEF TypeOK, Unregister
  <2>3. TypeOK'
    BY <1>0, <2>1, <2>2 DEF TypeOK, Locations, Serving, Args
  <2>4. Writers'
    BY <1>0, <2>1 DEF TypeOK, Writers, Starting, Serving
  <2>5. Control'
    BY <1>0, <2>1 DEF Control
  <2>6. ExitStatus'
    BY <1>0, <2>1 DEF ExitStatus
  <2>. QED  BY <2>3, <2>4, <2>5, <2>6 DEF IInv
<1>16. CASE DrainDone
  <2>1. /\ pc = "drain" /\ pc' = "disable"
        /\ UNCHANGED <<args, run, armed, running, exit, ready, tmp, keptFile, listening,
                       applied, regTimer, lds, exch, unregistered>>
    BY <1>16 DEF DrainDone, procVars, stackVars, fileVars, ldsVars
  <2>2. TypeOK'
    BY <1>0, <2>1 DEF TypeOK, Locations, Serving
  <2>3. Writers'
    BY <1>0, <2>1 DEF TypeOK, Writers, Starting, Serving
  <2>4. Control'
    BY <1>0, <2>1 DEF Control
  <2>5. ExitStatus'
    BY <1>0, <2>1 DEF ExitStatus
  <2>. QED  BY <2>2, <2>3, <2>4, <2>5 DEF IInv
<1>17. CASE DisablePubSub
  <2>1. /\ pc = "disable" /\ pc' = "shutdown" /\ applied' = FALSE
        /\ UNCHANGED <<args, run, armed, running, exit, ready, tmp, keptFile,
                       listening, regTimer, lds, exch, unregistered>>
    BY <1>17 DEF DisablePubSub, procVars, stackVars, fileVars, ldsVars
  <2>2. TypeOK'
    <3>1. applied' \in BOOLEAN
      BY <2>1, Zenon
    <3>. QED  BY <1>0, <2>1, <3>1 DEF TypeOK, Locations, Serving
  <2>3. Writers'
    BY <1>0, <2>1 DEF TypeOK, Writers, Starting, Serving
  <2>4. Control'
    BY <1>0, <2>1 DEF Control
  <2>5. ExitStatus'
    BY <1>0, <2>1 DEF ExitStatus
  <2>. QED  BY <2>2, <2>3, <2>4, <2>5 DEF IInv
<1>18. CASE Shutdown
  <2>1. /\ pc = "shutdown" /\ pc' = "unlink" /\ listening' = FALSE
        /\ regTimer' = FALSE /\ exch' = NoExchange
        /\ UNCHANGED <<args, run, armed, running, exit, ready, tmp, keptFile,
                       applied, lds, unregistered>>
    BY <1>18 DEF Shutdown, procVars, stackVars, fileVars, ldsVars
  <2>2. TypeOK'
    <3>1. listening' \in BOOLEAN /\ regTimer' \in BOOLEAN
      BY <2>1, Zenon
    <3>2. exch' \in [{"online", "offline"} -> 0..MaxExchanges]
      BY <2>1, ExchangesAssumption DEF NoExchange
    <3>. QED  BY <1>0, <2>1, <3>1, <3>2 DEF TypeOK, Locations, Serving
  <2>3. Writers'
    BY <1>0, <2>1 DEF TypeOK, Writers, Starting, Serving
  <2>4. Control'
    BY <1>0, <2>1 DEF Control
  <2>5. ExitStatus'
    BY <1>0, <2>1 DEF ExitStatus
  <2>. QED  BY <2>2, <2>3, <2>4, <2>5 DEF IInv
<1>19. CASE RemoveReady
  <2>1. /\ ready' \in Files /\ tmp' \in Files /\ keptFile' \in BOOLEAN
        /\ tmp' = tmp
        /\ ready'.by = 0 \/ ready' = ready
        /\ args.ready # "no" => ready'.by = 0 \/ keptFile'
    <3>1. CASE args.ready # "no"
      BY <1>0, <1>19, <3>1, UnlinkFacts DEF RemoveReady
    <3>2. CASE args.ready = "no"
      BY <1>0, <1>19, <3>2 DEF RemoveReady, fileVars, TypeOK
    <3>. QED  BY <3>1, <3>2
  <2>2. TypeOK'
    BY <1>0, <1>19, <2>1, GoneType DEF RemoveReady
  <2>3. /\ pc = "unlink" /\ pc' = "down" /\ exit' = "0"
        /\ UNCHANGED <<args, run, running>>
    BY <1>19 DEF RemoveReady, Gone
  <2>4. Writers'
    BY <1>0, <2>1, <2>3 DEF TypeOK, Writers, Starting, Serving
  <2>5. Control' /\ ExitStatus'
    BY <1>0, <2>1, <2>3 DEF Control, ExitStatus
  <2>. QED  BY <2>2, <2>4, <2>5 DEF IInv
<1>20. CASE Signal
  <2>1. CASE Gone("killed") /\ UNCHANGED fileVars
    BY <2>1, GoneInv DEF fileVars
  <2>2. CASE /\ armed /\ running' = FALSE
             /\ UNCHANGED <<pc, args, run, armed, exit>>
             /\ UNCHANGED <<stackVars, fileVars, ldsVars>>
    <3>1. /\ UNCHANGED <<pc, args, run, armed, exit, ready, tmp, keptFile,
                         listening, applied, regTimer, lds, exch, unregistered>>
          /\ running' = FALSE
      BY <2>2 DEF stackVars, fileVars, ldsVars
    <3>2. running' \in BOOLEAN
      BY <3>1, Zenon
    <3>3. TypeOK'
      BY <1>0, <3>1, <3>2 DEF TypeOK
    <3>4. Writers' /\ Control' /\ ExitStatus'
      BY <1>0, <3>1 DEF Writers, Control, ExitStatus
    <3>. QED  BY <3>3, <3>4 DEF IInv
  <2>. QED  BY <1>20, <2>1, <2>2 DEF Signal
<1>21. CASE Kill
  BY <1>21, GoneInv DEF Kill, fileVars
<1>. QED
  BY <1>1, <1>2, <1>3, <1>4, <1>5, <1>6, <1>7, <1>8, <1>9, <1>10, <1>11,
     <1>12, <1>13, <1>14, <1>15, <1>16, <1>17, <1>18, <1>19, <1>20, <1>21, <1>22
     DEF Next, Step

(* The inductive invariant holds throughout.                                *)
THEOREM LifecycleInvariant == Spec => []IInv
BY InitInv, NextInv, PTL DEF Spec

(* The state is well typed, and no more register requests are under way     *)
(* than the stack keeps.                                                    *)
THEOREM TypeCorrect == Spec => []TypeOK
<1>1. IInv => TypeOK
  BY DEF IInv
<1>. QED  BY <1>1, LifecycleInvariant, PTL

(* Whatever crashed processes left behind, the ready file of a serving      *)
(* process is its own, and the process accepts connections.                 *)
THEOREM ReadyIsTrue == Spec => []ReadyMeansServing
<1>1. IInv => ReadyMeansServing
  <2>. SUFFICES ASSUME IInv, pc \in Serving, args.ready # "no",
                       ready.by # 0, ~keptFile
                PROVE  ready.by = run /\ listening /\ (args.pubsub => applied)
    BY DEF ReadyMeansServing
  <2>1. ready.by = run
    BY DEF IInv, Writers
  <2>2. pc \in {"loop", "unregister", "drain"}
    BY <2>1 DEF IInv, Writers, Starting, Serving
  <2>. QED  BY <2>1, <2>2 DEF IInv, Control
<1>. QED  BY <1>1, LifecycleInvariant, PTL

(* An exit status tells whether the process ever signalled readiness and    *)
(* whether it cleaned up.                                                   *)
THEOREM ExitIsHonest == Spec => []ExitStatus
<1>1. IInv => ExitStatus
  BY DEF IInv
<1>. QED  BY <1>1, LifecycleInvariant, PTL

-----------------------------------------------------------------------------
(* Error recovery of the PubSub components.                                 *)


(* Where control can be.                                                    *)
RecoveryControl ==
    /\ recovering => built /\ calls \subseteq Tracked /\ phase # "enabling"
    /\ ~recovering => ~failed
    /\ built => phase \in {"enabling", "running", "stopping"}
    /\ phase = "starting" => \A c \in Components : state[c] = "Disabled"

(* A component in Error is covered by a registered timed callback, or by    *)
(* the rest of the round that is running: it is still to be looked at, or   *)
(* the round knows that a re-enable failed and will schedule another one.   *)
Covered(c) ==
    \/ timers # {}
    \/ timerLost
    \/ recovering /\ (c \in calls \/ failed)

AllCovered == built => \A c \in Tracked : state[c] = "Error" => Covered(c)

(* The inductive invariant.                                                 *)
RecoveryInv == RecoveryTypeOK /\ OneRecovery /\ RecoveryControl /\ AllCovered

-----------------------------------------------------------------------------
(* The delay to wait and its double stay within the bounds of the code.     *)
LEMMA WaitBounds ==
    ASSUME RecoveryTypeOK
    PROVE  /\ NextWait \in 1..MaxDelay
           /\ Double(NextWait) \in 0..MaxDelay
<1>1. NextWait \in 1..MaxDelay
  BY DelayAssumption DEF RecoveryTypeOK, NextWait
<1>. QED  BY <1>1, DelayAssumption DEF Double

(* schedule_recovery leaves a timed callback registered, or reports that it *)
(* could not register one; either way the types and the flag agree.         *)
LEMMA ScheduleFacts ==
    ASSUME RecoveryTypeOK, OneRecovery, schedule_recovery
    PROVE  /\ pending' \in BOOLEAN /\ timerLost' \in BOOLEAN
           /\ delay' \in 0..MaxDelay /\ age' \in 0..(StableTime + 1)
           /\ timers' \subseteq 0..MaxDelay
           /\ OneRecovery'
           /\ timers' # {} \/ timerLost'
<1>1. CASE pending /\ UNCHANGED schedVars
  BY <1>1 DEF RecoveryTypeOK, OneRecovery, schedVars
<1>2. CASE ~pending
  <2>1. timers = {}
    BY <1>2 DEF OneRecovery
  <2>2. /\ age' = 0
        /\ delay' = Double(NextWait)
        /\ \/ /\ pending' = TRUE
              /\ timers' = timers \cup {NextWait}
              /\ timerLost' = FALSE
           \/ timerLost' = TRUE /\ UNCHANGED <<pending, timers>>
    BY <1>2 DEF schedule_recovery
  <2>3. 0 \in 0..(StableTime + 1)
    BY DelayAssumption DEF StableTime
  <2>4. CASE /\ pending' = TRUE
             /\ timers' = timers \cup {NextWait}
             /\ timerLost' = FALSE
    <3>1. timers' = {NextWait}
      BY <2>1, <2>4
    <3>2. OneRecovery'
      BY <2>4, <3>1 DEF OneRecovery
    <3>3. timers' \subseteq 0..MaxDelay /\ timers' # {}
      BY <3>1, WaitBounds
    <3>4. delay' \in 0..MaxDelay /\ age' \in 0..(StableTime + 1)
      BY <2>2, <2>3, WaitBounds
    <3>. QED  BY <2>4, <3>2, <3>3, <3>4
  <2>5. CASE timerLost' = TRUE /\ UNCHANGED <<pending, timers>>
    BY <2>2, <2>3, <2>5, WaitBounds DEF OneRecovery, RecoveryTypeOK
  <2>. QED  BY <2>2, <2>4, <2>5
<1>. QED  BY <1>1, <1>2 DEF schedule_recovery

(* A report of the stack: every component in Error afterwards was in Error  *)
(* before, or a timed callback covers it now.                               *)
LEMMA ReportFacts ==
    ASSUME RecoveryTypeOK, OneRecovery, NEW c \in Components,
           NEW s \in {"Disabled", "Operational", "Error"}, on_state_change(c, s)
    PROVE  /\ pending' \in BOOLEAN /\ timerLost' \in BOOLEAN
           /\ delay' \in 0..MaxDelay /\ age' \in 0..(StableTime + 1)
           /\ timers' \subseteq 0..MaxDelay
           /\ state' \in [Components -> {"Disabled", "Operational", "Error"}]
           /\ OneRecovery'
           /\ timers # {} \/ timerLost => timers' # {} \/ timerLost'
           /\ \A d \in Tracked : built /\ state'[d] = "Error" =>
                 timers' # {} \/ timerLost' \/ (d # c /\ state[d] = "Error")
<1>1. state' = [state EXCEPT ![c] = s]
  BY DEF on_state_change
<1>2. state' \in [Components -> {"Disabled", "Operational", "Error"}]
  BY <1>1 DEF RecoveryTypeOK
<1>3. \A d \in Tracked : /\ d # c => state'[d] = state[d]
                         /\ state'[c] = s
  BY <1>1, ConfigAssumption DEF RecoveryTypeOK, Tracked
<1>4. CASE built /\ c \in Tracked /\ s = "Error"
  <2>1. schedule_recovery
    BY <1>4 DEF on_state_change
  <2>. QED  BY <1>2, <2>1, ScheduleFacts
<1>5. CASE ~(built /\ c \in Tracked /\ s = "Error")
  <2>1. UNCHANGED schedVars
    BY <1>5 DEF on_state_change
  <2>. QED  BY <1>2, <1>3, <1>5, <2>1 DEF schedVars, RecoveryTypeOK, OneRecovery
<1>. QED  BY <1>4, <1>5

(* The server starts with nothing configured and nothing scheduled.         *)
LEMMA RecoveryInitInv == RecoveryInit => RecoveryInv
<1>. SUFFICES ASSUME RecoveryInit PROVE RecoveryInv
  OBVIOUS
<1>1. RecoveryTypeOK
  <2>1. /\ built \in BOOLEAN /\ pending \in BOOLEAN /\ timerLost \in BOOLEAN
        /\ failed \in BOOLEAN /\ recovering \in BOOLEAN
    BY Zenon DEF RecoveryInit
  <2>2. StableTime \in Nat
    BY DelayAssumption DEF StableTime
  <2>3. /\ 0 \in 0..MaxDelay
        /\ age \in 0..(StableTime + 1)
    BY <2>2, DelayAssumption DEF RecoveryInit
  <2>4. /\ phase \in Phases
        /\ state \in [Components -> {"Disabled", "Operational", "Error"}]
        /\ timers \subseteq 0..MaxDelay /\ calls \subseteq ConfigOn
        /\ delay \in 0..MaxDelay /\ errors \in Nat
    BY <2>3 DEF RecoveryInit, Phases
  <2>. QED  BY <2>1, <2>3, <2>4, Zenon DEF RecoveryTypeOK
<1>2. OneRecovery /\ RecoveryControl /\ AllCovered
  BY DEF RecoveryInit, OneRecovery, RecoveryControl, AllCovered
<1>. QED  BY <1>1, <1>2 DEF RecoveryInv

(* Steps that leave the scheduling alone and put no component into Error.   *)
LEMMA QuietStep ==
    ASSUME RecoveryInv, UNCHANGED schedVars,
           \A d \in Tracked : built' /\ state'[d] = "Error" =>
                 built /\ state[d] = "Error",
           \A d \in Tracked : state[d] = "Error" =>
                 (recovering /\ (d \in calls \/ failed) =>
                    recovering' /\ (d \in calls' \/ failed'))
    PROVE  OneRecovery' /\ AllCovered'
BY DEF RecoveryInv, schedVars, OneRecovery, AllCovered, Covered

(* The bookkeeping of a reported state keeps its types.                     *)
LEMMA CountType ==
    ASSUME RecoveryTypeOK, NEW s, ErrorCount(s)
    PROVE  errors' \in Nat
BY DEF RecoveryTypeOK, ErrorCount, Trouble

(* Every step of the server and of the stack keeps the invariant.           *)
LEMMA RecoveryNextInv == RecoveryInv /\ [RecoveryNext]_recoveryVars => RecoveryInv'
<1>. SUFFICES ASSUME RecoveryInv, [RecoveryNext]_recoveryVars PROVE RecoveryInv'
  OBVIOUS
<1>0. /\ RecoveryTypeOK /\ OneRecovery /\ RecoveryControl /\ AllCovered
      /\ Tracked \subseteq ConfigOn /\ ConfigOn \subseteq Components
  BY ConfigAssumption DEF Tracked, RecoveryInv
<1>1. CASE UNCHANGED recoveryVars
  BY <1>0, <1>1 DEF RecoveryInv, recoveryVars, RecoveryTypeOK, OneRecovery, RecoveryControl, AllCovered, Covered
<1>2. ASSUME NEW enable \in BOOLEAN, Apply(enable) PROVE RecoveryInv'
  <2>1. ~recovering /\ (\A d \in Components : state[d] = "Disabled")
        /\ UNCHANGED <<state, failed, recovering, errors>>
        /\ UNCHANGED schedVars /\ built' = TRUE /\ calls' \subseteq ConfigOn
        /\ phase' \in {"enabling", "running"}
    BY <1>0, <1>2 DEF Apply, RecoveryControl
  <2>2. RecoveryTypeOK'
    BY <1>0, <2>1 DEF RecoveryTypeOK, Phases, schedVars
  <2>3. OneRecovery' /\ AllCovered'
    BY <1>0, <2>1 DEF OneRecovery, AllCovered, schedVars
  <2>4. RecoveryControl'
    BY <1>0, <2>1 DEF RecoveryControl
  <2>. QED  BY <2>2, <2>3, <2>4 DEF RecoveryInv
<1>3. ASSUME NEW c \in Components, NEW s \in {"Disabled", "Operational", "Error"},
             on_state_change(c, s), ErrorCount(s),
             UNCHANGED <<phase, built, failed, recovering>>,
             calls' = calls \/ calls' = calls \ {c},
             phase # "starting"
      PROVE  RecoveryInv'
  <2>1. /\ errors' \in Nat
        /\ calls' \subseteq calls
    BY <1>0, <1>3, CountType
  <2>2. /\ pending' \in BOOLEAN /\ timerLost' \in BOOLEAN
        /\ delay' \in 0..MaxDelay /\ age' \in 0..(StableTime + 1)
        /\ timers' \subseteq 0..MaxDelay
        /\ state' \in [Components -> {"Disabled", "Operational", "Error"}]
        /\ OneRecovery'
        /\ timers # {} \/ timerLost => timers' # {} \/ timerLost'
        /\ \A d \in Tracked : built /\ state'[d] = "Error" =>
              timers' # {} \/ timerLost' \/ (d # c /\ state[d] = "Error")
    BY <1>0, <1>3, ReportFacts
  <2>3. RecoveryTypeOK'
    BY <1>0, <1>3, <2>1, <2>2 DEF RecoveryTypeOK
  <2>4. RecoveryControl'
    BY <1>0, <1>3, <2>1 DEF RecoveryControl
  <2>5. AllCovered'
    <3>. SUFFICES ASSUME built', NEW d \in Tracked, state'[d] = "Error"
                  PROVE  Covered(d)'
      BY DEF AllCovered
    <3>1. CASE timers' # {} \/ timerLost'
      BY <3>1 DEF Covered
    <3>2. CASE d # c /\ state[d] = "Error"
      <4>1. Covered(d)
        BY <1>0, <1>3, <3>2 DEF AllCovered
      <4>2. CASE timers # {} \/ timerLost
        BY <2>2, <4>2 DEF Covered
      <4>3. CASE recovering /\ (d \in calls \/ failed)
        BY <1>3, <3>2, <4>3 DEF Covered
      <4>. QED  BY <4>1, <4>2, <4>3 DEF Covered
    <3>. QED  BY <1>3, <2>2, <3>1, <3>2
  <2>. QED  BY <2>2, <2>3, <2>4, <2>5 DEF RecoveryInv
<1>4. ASSUME NEW c \in Components, NEW s \in {"Disabled", "Operational", "Error"},
             StackReport(c, s)
      PROVE  RecoveryInv'
  BY <1>3, <1>4 DEF StackReport
<1>5. ASSUME NEW c \in Components, NEW s \in {"Disabled", "Operational", "Error"},
             EnableOk(c, s)
      PROVE  RecoveryInv'
  <2>1. CASE s # state[c]
    BY <1>3, <1>5, <2>1 DEF EnableOk
  <2>2. CASE s = state[c]
    <3>1. /\ state' = state /\ UNCHANGED schedVars
          /\ UNCHANGED <<phase, built, failed, recovering>>
          /\ calls' = calls \ {c} /\ ErrorCount(s) /\ phase = "enabling"
      BY <1>5, <2>2 DEF EnableOk
    <3>2. ~recovering
      BY <1>0, <3>1 DEF RecoveryControl
    <3>3. RecoveryTypeOK'
      BY <1>0, <3>1, CountType DEF RecoveryTypeOK, schedVars
    <3>4. RecoveryControl'
      BY <1>0, <3>1 DEF RecoveryControl
    <3>5. OneRecovery' /\ AllCovered'
      BY <3>1, <3>2, QuietStep
    <3>. QED  BY <3>3, <3>4, <3>5 DEF RecoveryInv
  <2>. QED  BY <2>1, <2>2
<1>6. ASSUME NEW c \in Components, EnableFails(c) PROVE RecoveryInv'
  <2>1. /\ phase = "enabling" /\ phase' = "failed" /\ built' = FALSE /\ calls' = {}
        /\ Trouble /\ UNCHANGED <<state, failed, recovering>>
        /\ UNCHANGED schedVars
    BY <1>6 DEF EnableFails
  <2>2. RecoveryTypeOK'
    <3>1. errors' \in Nat
      BY <1>0, <2>1 DEF RecoveryTypeOK, Trouble
    <3>2. phase' \in Phases /\ built' \in BOOLEAN /\ calls' \subseteq ConfigOn
      BY <2>1, Zenon DEF Phases
    <3>3. UNCHANGED <<state, failed, recovering, pending, delay, age,
                      timers, timerLost>>
      BY <2>1 DEF schedVars
    <3>. QED  BY <1>0, <3>1, <3>2, <3>3 DEF RecoveryTypeOK
  <2>3. OneRecovery' /\ AllCovered'
    BY <1>0, <2>1 DEF OneRecovery, AllCovered, schedVars
  <2>4. RecoveryControl'
    BY <1>0, <2>1 DEF RecoveryControl
  <2>. QED  BY <2>2, <2>3, <2>4 DEF RecoveryInv
<1>7. CASE EnableDone
  <2>1. /\ phase = "enabling" /\ phase' = "running"
        /\ UNCHANGED <<built, state, calls, failed, recovering, errors>>
        /\ UNCHANGED schedVars
    BY <1>7 DEF EnableDone
  <2>2. RecoveryTypeOK'
    BY <1>0, <2>1 DEF RecoveryTypeOK, schedVars, Phases
  <2>3. OneRecovery' /\ AllCovered'
    BY <2>1, QuietStep
  <2>4. RecoveryControl'
    BY <1>0, <2>1 DEF RecoveryControl
  <2>. QED  BY <2>2, <2>3, <2>4 DEF RecoveryInv
<1>8. CASE RecoverStart
  <2>1. /\ phase \in {"running", "failed", "stopping"} /\ ~recovering
        /\ 0 \in timers /\ timers' = timers \ {0} /\ pending' = FALSE
        /\ recovering' = built /\ failed' = FALSE
        /\ calls' = (IF built THEN Tracked ELSE {})
        /\ UNCHANGED <<phase, built, state, delay, age, timerLost, errors>>
    BY <1>8 DEF RecoverStart
  <2>2. RecoveryTypeOK'
    BY <1>0, <2>1 DEF RecoveryTypeOK
  <2>3. timers' = {}
    BY <1>0, <2>1 DEF OneRecovery
  <2>4. OneRecovery'
    BY <2>1, <2>3 DEF OneRecovery
  <2>5. AllCovered'
    BY <2>1 DEF AllCovered, Covered
  <2>6. RecoveryControl'
    BY <1>0, <2>1 DEF RecoveryControl
  <2>. QED  BY <2>2, <2>4, <2>5, <2>6 DEF RecoveryInv
<1>9. ASSUME NEW c \in Tracked, RecoverSkip(c) PROVE RecoveryInv'
  <2>1. /\ recovering /\ state[c] # "Error" /\ calls' = calls \ {c}
        /\ UNCHANGED <<phase, built, state, failed, recovering, errors>>
        /\ UNCHANGED schedVars
    BY <1>9 DEF RecoverSkip
  <2>2. RecoveryTypeOK'
    BY <1>0, <2>1 DEF RecoveryTypeOK, schedVars
  <2>3. OneRecovery' /\ AllCovered'
    BY <2>1, QuietStep
  <2>4. RecoveryControl'
    BY <1>0, <2>1 DEF RecoveryControl
  <2>. QED  BY <2>2, <2>3, <2>4 DEF RecoveryInv
<1>10. ASSUME NEW c \in Tracked, RecoverFails(c) PROVE RecoveryInv'
  <2>1. /\ recovering /\ calls' = calls \ {c} /\ failed' = TRUE
        /\ Trouble /\ UNCHANGED <<phase, built, state, recovering>>
        /\ UNCHANGED schedVars
    BY <1>10 DEF RecoverFails
  <2>2. RecoveryTypeOK'
    BY <1>0, <2>1 DEF RecoveryTypeOK, schedVars, Trouble
  <2>3. OneRecovery' /\ AllCovered'
    BY <2>1, QuietStep
  <2>4. RecoveryControl'
    BY <1>0, <2>1 DEF RecoveryControl
  <2>. QED  BY <2>2, <2>3, <2>4 DEF RecoveryInv
<1>11. ASSUME NEW c \in Tracked, NEW s \in {"Operational", "Error"},
              RecoverEnable(c, s)
       PROVE  RecoveryInv'
  <2>1. phase # "starting"
    BY <1>0, <1>11 DEF RecoveryControl, RecoverEnable
  <2>. QED  BY <1>0, <1>3, <1>11, <2>1 DEF RecoverEnable
<1>12. CASE RecoverDone
  <2>1. /\ recovering /\ calls = {} /\ recovering' = FALSE /\ failed' = FALSE
        /\ UNCHANGED <<phase, built, state, calls, errors>>
    BY <1>12 DEF RecoverDone
  <2>2. RecoveryControl'
    BY <1>0, <2>1 DEF RecoveryControl
  <2>3. CASE failed
    <3>1. /\ pending' \in BOOLEAN /\ timerLost' \in BOOLEAN
          /\ delay' \in 0..MaxDelay /\ age' \in 0..(StableTime + 1)
          /\ timers' \subseteq 0..MaxDelay
          /\ OneRecovery'
          /\ timers' # {} \/ timerLost'
      BY <1>0, <1>12, <2>3, ScheduleFacts DEF RecoverDone
    <3>2. RecoveryTypeOK'
      BY <1>0, <2>1, <3>1 DEF RecoveryTypeOK
    <3>3. AllCovered'
      BY <3>1 DEF AllCovered, Covered
    <3>. QED  BY <2>2, <3>1, <3>2, <3>3 DEF RecoveryInv
  <2>4. CASE ~failed
    <3>1. UNCHANGED schedVars
      BY <1>12, <2>4 DEF RecoverDone
    <3>2. RecoveryTypeOK'
      BY <1>0, <2>1, <3>1 DEF RecoveryTypeOK, schedVars
    <3>3. OneRecovery' /\ AllCovered'
      BY <2>1, <2>4, <3>1, QuietStep
    <3>. QED  BY <2>2, <3>2, <3>3 DEF RecoveryInv
  <2>. QED  BY <2>3, <2>4
<1>13. CASE Tick
  <2>1. /\ 0 \notin timers /\ timers' = {t - 1 : t \in timers}
        /\ age' = Older(age)
        /\ UNCHANGED <<phase, built, state, pending, delay, timerLost, calls,
                       failed, recovering, errors>>
    BY <1>13 DEF Tick
  <2>2. age' \in 0..(StableTime + 1)
    BY <1>0, <2>1, DelayAssumption DEF RecoveryTypeOK, Older, StableTime
  <2>3. timers' \subseteq 0..MaxDelay
    BY <1>0, <2>1, DelayAssumption DEF RecoveryTypeOK
  <2>4. RecoveryTypeOK'
    BY <1>0, <2>1, <2>2, <2>3 DEF RecoveryTypeOK
  <2>5. timers' = {} <=> timers = {}
    BY <2>1
  <2>6. \A t, u \in timers' : t = u
    BY <1>0, <2>1 DEF OneRecovery
  <2>7. OneRecovery'
    BY <1>0, <2>1, <2>5, <2>6 DEF OneRecovery
  <2>8. AllCovered'
    BY <1>0, <2>1, <2>5 DEF AllCovered, Covered
  <2>9. RecoveryControl'
    BY <1>0, <2>1 DEF RecoveryControl
  <2>. QED  BY <2>4, <2>7, <2>8, <2>9 DEF RecoveryInv
<1>14. CASE DisableAll
  <2>1. /\ phase' = "stopping" /\ state' = [c \in Components |-> "Disabled"]
        /\ phase = "running" /\ ~recovering
        /\ UNCHANGED <<built, calls, failed, recovering, errors>>
        /\ UNCHANGED schedVars
    BY <1>14 DEF DisableAll
  <2>2. RecoveryTypeOK'
    BY <1>0, <2>1 DEF RecoveryTypeOK, schedVars, Phases
  <2>3. OneRecovery' /\ AllCovered'
    BY <1>0, <2>1 DEF OneRecovery, AllCovered, schedVars
  <2>4. RecoveryControl'
    BY <1>0, <2>1 DEF RecoveryControl
  <2>. QED  BY <2>2, <2>3, <2>4 DEF RecoveryInv
<1>15. CASE Cleanup
  <2>1. /\ phase' = "stopped" /\ built' = FALSE /\ pending' = FALSE /\ delay' = 0
        /\ age' = StableTime + 1 /\ timers' = {} /\ timerLost' = FALSE
        /\ ~recovering
        /\ UNCHANGED <<state, calls, failed, recovering, errors>>
    BY <1>15 DEF Cleanup
  <2>2. RecoveryTypeOK'
    <3>1. /\ phase' \in Phases /\ built' \in BOOLEAN /\ pending' \in BOOLEAN
          /\ timerLost' \in BOOLEAN
      BY <2>1, Zenon DEF Phases
    <3>2. StableTime \in Nat
      BY DelayAssumption DEF StableTime
    <3>3. /\ delay' \in 0..MaxDelay /\ age' \in 0..(StableTime + 1)
          /\ timers' \subseteq 0..MaxDelay
      BY <2>1, <3>2, DelayAssumption
    <3>4. UNCHANGED <<state, calls, failed, recovering, errors>>
      BY <2>1
    <3>. QED  BY <1>0, <3>1, <3>3, <3>4 DEF RecoveryTypeOK
  <2>3. OneRecovery' /\ AllCovered'
    BY <2>1 DEF OneRecovery, AllCovered
  <2>4. RecoveryControl'
    BY <1>0, <2>1 DEF RecoveryControl
  <2>. QED  BY <2>2, <2>3, <2>4 DEF RecoveryInv
<1>. QED
  BY <1>1, <1>2, <1>4, <1>5, <1>6, <1>7, <1>8, <1>9, <1>10, <1>11, <1>12,
     <1>13, <1>14, <1>15 DEF RecoveryNext, RecoverStep

(* The inductive invariant holds throughout.                                *)
THEOREM RecoveryInvariant == RecoverySpec => []RecoveryInv
BY RecoveryInitInv, RecoveryNextInv, PTL DEF RecoverySpec

(* The recovery state is well typed and no delay leaves the bounds of the   *)
(* code, for every configuration and any number of errors.                  *)
THEOREM RecoveryTypeCorrect == RecoverySpec => []RecoveryTypeOK
<1>1. RecoveryInv => RecoveryTypeOK
  BY DEF RecoveryInv
<1>. QED  BY <1>1, RecoveryInvariant, PTL

(* No component that the configuration enabled is ever left in Error        *)
(* without a timed callback that will re-enable it.                         *)
THEOREM NoForgottenError == RecoverySpec => []ErrorIsScheduled
<1>1. RecoveryInv => ErrorIsScheduled
  BY DEF RecoveryInv, AllCovered, Covered, ErrorIsScheduled
<1>. QED  BY <1>1, RecoveryInvariant, PTL

(* Recovery rounds never pile up.                                           *)
THEOREM RecoveryIsSingle == RecoverySpec => []OneRecovery
<1>1. RecoveryInv => OneRecovery
  BY DEF RecoveryInv
<1>. QED  BY <1>1, RecoveryInvariant, PTL
=============================================================================
