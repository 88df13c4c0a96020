------------------------ MODULE OfonoVoiceCallHandler ------------------------
(***************************************************************************)
(* OfonoVoiceCallHandler (plugins/providers/ofono): the object voicecalld  *)
(* keeps for one oFono call.  This module holds the state of the handlers  *)
(* and what each of their methods and slots does to it; the provider       *)
(* module decides when they run.                                           *)
(*                                                                         *)
(* A call in oFono has an object path on a modem, its key.  Paths are      *)
(* reused, so several handlers may have been created for the same key.     *)
(***************************************************************************)
EXTENDS VoiceCallStatus, Naturals

CONSTANTS
    Modem, Path,   \* modems, and the call object paths oFono uses on each
    Handler,       \* handler objects, one per generateHandlerId() value
    NoCall,        \* the NULL handler pointer
    MaxDuration    \* bound: seconds one call may last

ASSUME HandlerAssumption == NoCall \notin Handler /\ MaxDuration \in Nat

Key == Modem \X Path

OfonoState == { "incoming", "waiting", "dialing", "alerting", "active", "held", "disconnected" }

VARIABLES
    phase,         \* of each handler object: "unborn", "live" or "gone"
    key,           \* the call each handler was created for, or NoCall
    valid,         \* handlers whose QOfonoVoiceCall has its properties
    state,         \* the oFono state each handler last learned, or "unknown"
    isIncoming,
    isEmergency,
    verdict,       \* filterAction once filterHasRun, else "none"
    duration,      \* seconds accumulated by the duration timer
    staleManager   \* handlers whose ofonoVoiceCallManager pointer is dangling

ofonoHandlerVars ==
    << phase, key, valid, state, isIncoming, isEmergency, verdict, duration, staleManager >>

OfonoHandlerTypeOK ==
    /\ phase \in [Handler -> { "unborn", "live", "gone" }]
    /\ key \in [Handler -> Key \cup { NoCall }]
    /\ valid \subseteq Handler
    /\ state \in [Handler -> OfonoState \cup { "unknown" }]
    /\ isIncoming \in [Handler -> BOOLEAN]
    /\ isEmergency \in [Handler -> BOOLEAN]
    /\ verdict \in [Handler -> VoiceCallFilterAction \cup { "none" }]
    /\ duration \in [Handler -> 0 .. MaxDuration]
    /\ staleManager \subseteq Handler

OfonoHandlerInit ==
    /\ phase = [h \in Handler |-> "unborn"]
    /\ key = [h \in Handler |-> NoCall]
    /\ valid = {}
    /\ state = [h \in Handler |-> "unknown"]
    /\ isIncoming = [h \in Handler |-> FALSE]
    /\ isEmergency = [h \in Handler |-> FALSE]
    /\ verdict = [h \in Handler |-> "none"]
    /\ duration = [h \in Handler |-> 0]
    /\ staleManager = {}

Unborn == { h \in Handler : phase[h] = "unborn" }
Live   == { h \in Handler : phase[h] = "live" }

\* status(): what a handler reports for its oFono state.  A call that has been
\* filtered reports the verdict while it is incoming and after it disconnected.
StatusFrom(s, action) ==
    CASE s = "active"   -> "ACTIVE"
      [] s = "held"     -> "HELD"
      [] s = "dialing"  -> "DIALING"
      [] s = "alerting" -> "ALERTING"
      [] s \in { "incoming", "disconnected" } /\ action # "none" -> FilteredStatus(action)
      [] s = "waiting"  -> "WAITING"
      [] s = "disconnected" /\ action = "none" -> "DISCONNECTED"
      [] OTHER          -> "NULL"

StatusOf(h) == StatusFrom(state[h], verdict[h])

\* The constructor, for the call k: nothing is known of the call yet.
CreateHandlers(born, keyOf) ==
    /\ phase' = [h \in Handler |-> IF h \in born THEN "live" ELSE phase[h]]
    /\ key' = [h \in Handler |-> IF h \in born THEN keyOf[h] ELSE key[h]]

\* deleteLater() or delete.  What the object held is gone with it; its direction,
\* urgency and duration are kept, for the properties that look back on ended calls.
Destroy(hs) ==
    LET reset(f, value) == [h \in Handler |-> IF h \in hs THEN value ELSE f[h]]
    IN /\ phase' = reset(phase, "gone")
       /\ key' = reset(key, NoCall)
       /\ state' = reset(state, "unknown")
       /\ verdict' = reset(verdict, "none")
       /\ valid' = valid \ hs
       /\ staleManager' = staleManager \ hs
       /\ UNCHANGED << isIncoming, isEmergency, duration >>

\* onValidChanged(true): the properties have arrived, the call being in state s.
\* Only a call that is then "incoming" is an incoming call.
OnValidChanged(h, s, emergency) ==
    /\ valid' = valid \cup { h }
    /\ state' = [state EXCEPT ![h] = s]
    /\ isIncoming' = [isIncoming EXCEPT ![h] = (s = "incoming")]
    /\ isEmergency' = [isEmergency EXCEPT ![h] = emergency]

\* filter(action) on each of hs, all in the NULL status: no other accepts a verdict.
RunFilter(hs, action) ==
    verdict' = [h \in Handler |-> IF h \in hs THEN action ELSE verdict[h]]

\* timerEvent: another second has passed with the call ongoing.
TimerEvent(h) ==
    /\ IsOngoing(StatusOf(h))
    /\ duration[h] < MaxDuration
    /\ duration' = [duration EXCEPT ![h] = @ + 1]
    /\ UNCHANGED << phase, key, valid, state, isIncoming, isEmergency, verdict, staleManager >>
=============================================================================
