--------------------------- MODULE PubSubRecovery ---------------------------
(***************************************************************************)
(* Error recovery of the PubSub components (pubsub_server.c): enabling the  *)
(* configured components at start-up (enable_all), the state-change         *)
(* callback that schedules a re-enable with a doubling delay                *)
(* (on_state_change, schedule_recovery), the timed callback that performs   *)
(* it (recover_cb, recover), and the end of the server                      *)
(* (pubsub_server_cleanup).                                                 *)
(*                                                                          *)
(* Everything runs in the server's event-loop thread. What interleaves is   *)
(* the stack's state machine: enabling a component calls on_state_change    *)
(* back before it returns, for that component and for others, so both loops *)
(* are modelled call by call, with the reports of the stack in between.     *)
(* Time is counted in ticks; the event loop runs a due timer before it      *)
(* waits for the next tick.                                                 *)
(***************************************************************************)
EXTENDS Integers

CONSTANTS
    Components,   \* components the configuration created
    Kind,         \* Kind[c]: connection, writerGroup, readerGroup, or the
                  \* leaves writer and reader
    ConfigOn,     \* components with `enabled` set in the configuration
    MinDelay,     \* RECOVERY_MIN_MS (200 ms)
    MaxDelay,     \* RECOVERY_MAX_MS (5000 ms)
    MaxErrors     \* bound: errors and failed enables in a behaviour

Kinds == {"connection", "writerGroup", "readerGroup", "writer", "reader"}

ASSUME KindAssumption == Kind \in [Components -> Kinds]
ASSUME ConfigAssumption == ConfigOn \subseteq Components
ASSUME DelayAssumption ==
    /\ MinDelay \in Nat \ {0}
    /\ MaxDelay \in Nat
    /\ MinDelay <= MaxDelay
ASSUME ErrorsAssumption == MaxErrors \in Nat

(* What find_created finds: enabled connections and groups.                 *)
Tracked ==
    {c \in ConfigOn : Kind[c] \in {"connection", "writerGroup", "readerGroup"}}

(* lastErrorAt this long ago counts as stable.                              *)
StableTime == 2 * MaxDelay

VARIABLES
    phase,      \* "starting", "enabling", "running", "failed", "stopping",
                \* "stopped": how far pubsub_server_apply and the server are
    built,      \* g_rt.built is set
    state,      \* state[c]: the PubSubState last reported; "Operational"
                \* stands for every state but Disabled and Error
    pending,    \* g_rt.recoveryPending
    delay,      \* g_rt.recoveryDelayMs
    age,        \* ticks since g_rt.lastErrorAt, up to StableTime + 1
    timers,     \* remaining ticks of the timed callbacks registered
    timerLost,  \* the last registration of a timed callback failed
    calls,      \* components the running loop has still to look at
    failed,     \* recover_cb: some re-enable of this round failed
    recovering, \* recover_cb is running
    errors      \* errors and failed enables so far

recoveryVars == <<phase, built, state, pending, delay, age, timers, timerLost,
                  calls, failed, recovering, errors>>

schedVars == <<pending, delay, age, timers, timerLost>>

RecoveryInit ==
    /\ phase = "starting"
    /\ built = FALSE
    /\ state = [c \in Components |-> "Disabled"]
    /\ pending = FALSE
    /\ delay = 0
    /\ age = StableTime + 1
    /\ timers = {}
    /\ timerLost = FALSE
    /\ calls = {}
    /\ failed = FALSE
    /\ recovering = FALSE
    /\ errors = 0

-----------------------------------------------------------------------------
(* schedule_recovery.                                                       *)

NextWait ==
    IF age > StableTime \/ delay = 0 THEN MinDelay ELSE delay

Double(d) == IF d * 2 > MaxDelay THEN MaxDelay ELSE d * 2

MutScheduleRecovery ==
    /\ age' = 0
    /\ delay' = Double(NextWait)
    /\ pending' = TRUE
    /\ timers' = timers \cup {NextWait}
    /\ timerLost' = FALSE

(* Nothing while a re-enable is pending. The registration of the timed      *)
(* callback may fail; nothing tries it again.                               *)
schedule_recovery ==
    \/ pending /\ UNCHANGED schedVars
    \/ /\ ~pending
       /\ age' = 0
       /\ delay' = Double(NextWait)
       /\ \/ /\ pending' = TRUE
             /\ timers' = timers \cup {NextWait}
             /\ timerLost' = FALSE
          \/ timerLost' = TRUE /\ UNCHANGED <<pending, timers>>

(* on_state_change: the stack reports that c is now in state s.             *)
on_state_change(c, s) ==
    /\ state' = [state EXCEPT ![c] = s]
    /\ IF built /\ c \in Tracked /\ s = "Error"
       THEN schedule_recovery
       ELSE UNCHANGED schedVars

(* An error, or an enable that fails, uses up the bound.                    *)
Trouble == errors < MaxErrors /\ errors' = errors + 1

(* A reported error counts.                                                 *)
ErrorCount(s) == IF s = "Error" THEN Trouble ELSE UNCHANGED errors

(* The stack, or a client through the information model, changes the state  *)
(* of a component: on its own, or nested in an enable call.                 *)
StackReport(c, s) ==
    /\ phase \in {"enabling", "running", "stopping"}
    /\ s # state[c]
    /\ on_state_change(c, s)
    /\ ErrorCount(s)
    /\ UNCHANGED <<phase, built, calls, failed, recovering>>

-----------------------------------------------------------------------------
(* pubsub_server_apply, from the point where the components exist.          *)

EnableRank(c) ==
    CASE Kind[c] = "writer" -> 1
      [] Kind[c] = "writerGroup" -> 2
      [] Kind[c] = "reader" -> 3
      [] Kind[c] = "readerGroup" -> 4
      [] Kind[c] = "connection" -> 5

RecoverRank(c) ==
    CASE Kind[c] = "connection" -> 1
      [] Kind[c] = "writerGroup" -> 2
      [] OTHER -> 3

(* The runtime state is in place before the first enable.                   *)
Apply(enable) ==
    /\ phase = "starting"
    /\ built' = TRUE
    /\ phase' = IF enable THEN "enabling" ELSE "running"
    /\ calls' = IF enable THEN ConfigOn ELSE {}
    /\ UNCHANGED <<state, failed, recovering, errors>>
    /\ UNCHANGED schedVars

(* A call of enable_all succeeds; the component may fail again at once.     *)
EnableOk(c, s) ==
    /\ phase = "enabling"
    /\ c \in calls
    /\ \A d \in calls : EnableRank(c) <= EnableRank(d)
    /\ s \in {"Operational", "Error"}
    /\ IF s = state[c] THEN state' = state /\ UNCHANGED schedVars
                       ELSE on_state_change(c, s)
    /\ ErrorCount(s)
    /\ calls' = calls \ {c}
    /\ UNCHANGED <<phase, built, failed, recovering>>

(* A call of enable_all fails: the configuration is given up and the server *)
(* will exit. A re-enable already scheduled stays scheduled.                *)
EnableFails(c) ==
    /\ phase = "enabling"
    /\ c \in calls
    /\ \A d \in calls : EnableRank(c) <= EnableRank(d)
    /\ Trouble
    /\ phase' = "failed"
    /\ built' = FALSE
    /\ calls' = {}
    /\ UNCHANGED <<state, failed, recovering>>
    /\ UNCHANGED schedVars

EnableDone ==
    /\ phase = "enabling"
    /\ calls = {}
    /\ phase' = "running"
    /\ UNCHANGED <<built, state, calls, failed, recovering, errors>>
    /\ UNCHANGED schedVars

-----------------------------------------------------------------------------
(* recover_cb.                                                              *)

MutRecoverStart ==
    /\ phase \in {"running", "failed", "stopping"}
    /\ ~recovering
    /\ 0 \in timers
    /\ timers' = timers \ {0}
    /\ recovering' = built
    /\ calls' = IF built THEN Tracked ELSE {}
    /\ failed' = FALSE
    /\ UNCHANGED <<phase, built, state, pending, delay, age, timerLost,
                   errors>>

(* The flag is cleared first, so that an error of this round schedules the  *)
(* next one.                                                                *)
RecoverStart ==
    /\ phase \in {"running", "failed", "stopping"}
    /\ ~recovering
    /\ 0 \in timers
    /\ timers' = timers \ {0}
    /\ pending' = FALSE
    /\ recovering' = built
    /\ calls' = IF built THEN Tracked ELSE {}
    /\ failed' = FALSE
    /\ UNCHANGED <<phase, built, state, delay, age, timerLost, errors>>

(* recover looks at one component, connections first, and skips it unless   *)
(* it is in Error now; otherwise the enable succeeds, fails (from Error to  *)
(* Error: no report), or succeeds and the component fails again at once.    *)
RecoverSkip(c) ==
    /\ recovering
    /\ c \in calls
    /\ \A d \in calls : RecoverRank(c) <= RecoverRank(d)
    /\ state[c] # "Error"
    /\ calls' = calls \ {c}
    /\ UNCHANGED <<phase, built, state, failed, recovering, errors>>
    /\ UNCHANGED schedVars

MutRecoverFails(c) ==
    /\ recovering
    /\ c \in calls
    /\ \A d \in calls : RecoverRank(c) <= RecoverRank(d)
    /\ state[c] = "Error"
    /\ Trouble
    /\ calls' = calls \ {c}
    /\ UNCHANGED <<phase, built, state, failed, recovering>>
    /\ UNCHANGED schedVars

RecoverFails(c) ==
    /\ recovering
    /\ c \in calls
    /\ \A d \in calls : RecoverRank(c) <= RecoverRank(d)
    /\ state[c] = "Error"
    /\ Trouble
    /\ failed' = TRUE
    /\ calls' = calls \ {c}
    /\ UNCHANGED <<phase, built, state, recovering>>
    /\ UNCHANGED schedVars

RecoverEnable(c, s) ==
    /\ recovering
    /\ c \in calls
    /\ \A d \in calls : RecoverRank(c) <= RecoverRank(d)
    /\ state[c] = "Error"
    /\ on_state_change(c, s)
    /\ ErrorCount(s)
    /\ calls' = calls \ {c}
    /\ UNCHANGED <<phase, built, failed, recovering>>

RecoverDone ==
    /\ recovering
    /\ calls = {}
    /\ recovering' = FALSE
    /\ failed' = FALSE
    /\ IF failed THEN schedule_recovery ELSE UNCHANGED schedVars
    /\ UNCHANGED <<phase, built, state, calls, errors>>

RecoverStep ==
    \/ \E c \in Tracked :
         \/ RecoverSkip(c)
         \/ RecoverFails(c)
         \/ \E s \in {"Operational", "Error"} : RecoverEnable(c, s)
    \/ RecoverDone

-----------------------------------------------------------------------------
(* Time and the end of the server.                                          *)

Older(t) == IF t > StableTime THEN t ELSE t + 1

Tick ==
    /\ phase \in {"running", "failed", "stopping"}
    /\ ~recovering
    /\ 0 \notin timers
    /\ timers' = {t - 1 : t \in timers}
    /\ age' = Older(age)
    /\ UNCHANGED <<phase, built, state, pending, delay, timerLost, calls,
                   failed, recovering, errors>>

(* UA_Server_disableAllPubSubComponents on the way out.                     *)
DisableAll ==
    /\ phase = "running"
    /\ ~recovering
    /\ phase' = "stopping"
    /\ state' = [c \in Components |-> "Disabled"]
    /\ UNCHANGED <<built, calls, failed, recovering, errors>>
    /\ UNCHANGED schedVars

(* The server is deleted with its timers; then the runtime state is freed.  *)
Cleanup ==
    /\ phase \in {"failed", "stopping"}
    /\ ~recovering
    /\ phase' = "stopped"
    /\ built' = FALSE
    /\ pending' = FALSE
    /\ delay' = 0
    /\ age' = StableTime + 1
    /\ timers' = {}
    /\ timerLost' = FALSE
    /\ UNCHANGED <<state, calls, failed, recovering, errors>>

RecoveryNext ==
    \/ \E enable \in BOOLEAN : Apply(enable)
    \/ \E c \in Components, s \in {"Disabled", "Operational", "Error"} :
          StackReport(c, s) \/ EnableOk(c, s)
    \/ \E c \in Components : EnableFails(c)
    \/ EnableDone
    \/ RecoverStart
    \/ RecoverStep
    \/ Tick
    \/ DisableAll
    \/ Cleanup

(* The event loop runs timed callbacks that are due, and time passes.       *)
Fairness ==
    /\ WF_recoveryVars(Tick)
    /\ WF_recoveryVars(RecoverStart)
    /\ WF_recoveryVars(RecoverStep)

RecoverySpec == RecoveryInit /\ [][RecoveryNext]_recoveryVars /\ Fairness

-----------------------------------------------------------------------------
(* Properties.                                                              *)

Phases == {"starting", "enabling", "running", "failed", "stopping", "stopped"}

(* Type correctness; it includes that no delay exceeds RECOVERY_MAX_MS.     *)
RecoveryTypeOK ==
    /\ phase \in Phases
    /\ built \in BOOLEAN
    /\ state \in [Components -> {"Disabled", "Operational", "Error"}]
    /\ pending \in BOOLEAN
    /\ delay \in 0..MaxDelay
    /\ age \in 0..(StableTime + 1)
    /\ timers \subseteq 0..MaxDelay
    /\ timerLost \in BOOLEAN
    /\ calls \subseteq ConfigOn
    /\ failed \in BOOLEAN
    /\ recovering \in BOOLEAN
    /\ errors \in Nat

(* No component is forgotten in Error: whenever a connection or a group     *)
(* that the configuration enabled is in Error and no recovery round runs, a *)
(* timed callback that will re-enable it is registered, however errors,     *)
(* failed re-enables and reports nested in enable calls interleave          *)
(* (on_state_change, recover_cb) - unless registering the last one failed.  *)
ErrorIsScheduled ==
    (built /\ ~recovering) =>
        \A c \in Tracked : state[c] = "Error" => timers # {} \/ timerLost

(* One recovery at a time: the flag recoveryPending is set exactly while    *)
(* one timed callback is registered, so rounds never pile up.               *)
OneRecovery ==
    /\ pending <=> timers # {}
    /\ \A t, u \in timers : t = u

(* Once errors cease, every component in Error is re-enabled: the           *)
(* recovery started for one error also reaches those that failed meanwhile, *)
(* and a failed re-enable is retried (recover_cb).                          *)
ErrorsAreRecovered ==
    \A c \in Tracked :
        (phase = "running" /\ state[c] = "Error") ~>
            (state[c] # "Error" \/ phase # "running" \/ timerLost)

=============================================================================
