--------------------------- MODULE VoiceCallManager ---------------------------
(***************************************************************************)
(* VoiceCallManager (src/voicecallmanager.cpp): the registry of providers  *)
(* and calls in the middle of voicecalld, together with what any provider  *)
(* may do to it through the interfaces of lib/src: a provider announces    *)
(* each of its handlers at most once (voiceCallAdded), retracts it at most *)
(* once (voiceCallRemoved) and keeps its own list of them (voiceCalls()).  *)
(*                                                                         *)
(* The daemon is one Qt event loop and every signal is a direct call, so   *)
(* one action is one event with all the slots it runs.  The detailed       *)
(* provider modules instantiate this one and implement its specification.  *)
(***************************************************************************)
EXTENDS VoiceCallStatus, Naturals, FiniteSets

CONSTANTS
    Provider,        \* telephony providers (one per oFono modem or Telepathy account)
    Handler,         \* call handlers; each stands for one generateHandlerId() value
    NoCall,          \* the NULL handler pointer
    Status,          \* the statuses calls go through in this instance
    WithDeviceLock,  \* built with WITH_NEMO_DEVICELOCK
    MaxDuration      \* bound: seconds one call may last

ASSUME StatusAssumption ==
    /\ Status \subseteq VoiceCallStatus
    /\ { "NULL", "INCOMING", "IGNORED", "REJECTED" } \subseteq Status
ASSUME NoCallAssumption == NoCall \notin Handler
ASSUME BoundsAssumption == MaxDuration \in Nat /\ WithDeviceLock \in BOOLEAN

VARIABLES
    \* --- VoiceCallManagerPrivate
    providers,        \* registered providers
    voiceCalls,       \* handlers the manager holds, by id
    activeVoiceCall,  \* the handler clients operate on, or NoCall
    isCallFiltering,  \* some filter has asked to judge incoming calls
    received,         \* persistent counter: seconds of incoming calls
    dialled,          \* persistent counter: seconds of the other calls
    \* --- the providers and handlers, as their abstract interfaces show them
    calls,            \* provider->voiceCalls(), per provider
    gone,             \* handlers that have been destroyed
    status, isIncoming, isEmergency, duration,
    \* --- the device lock service
    managerLockout

managerVars  == << providers, voiceCalls, activeVoiceCall, isCallFiltering >>
counterVars  == << received, dialled >>
handlerVars  == << calls, gone, status, isIncoming, isEmergency, duration >>
vars == << managerVars, counterVars, handlerVars, managerLockout >>

TypeOK ==
    /\ providers \subseteq Provider
    /\ voiceCalls \subseteq Handler
    /\ activeVoiceCall \in Handler \cup { NoCall }
    /\ isCallFiltering \in BOOLEAN
    /\ received \in Nat /\ dialled \in Nat
    /\ calls \in [Provider -> SUBSET Handler]
    /\ gone \subseteq Handler
    /\ status \in [Handler -> Status]
    /\ isIncoming \in [Handler -> BOOLEAN]
    /\ isEmergency \in [Handler -> BOOLEAN]
    /\ duration \in [Handler -> Nat]
    /\ managerLockout \in BOOLEAN

ManagerInit ==
    /\ providers = {}
    /\ voiceCalls = {}
    /\ activeVoiceCall = NoCall
    /\ isCallFiltering = FALSE

Init ==
    /\ ManagerInit
    /\ received = 0 /\ dialled = 0
    /\ calls = [p \in Provider |-> {}]
    /\ gone = {}
    /\ status = [h \in Handler |-> "NULL"]
    /\ isIncoming = [h \in Handler |-> FALSE]
    /\ isEmergency = [h \in Handler |-> FALSE]
    /\ duration = [h \in Handler |-> 0]
    /\ managerLockout = FALSE

-----------------------------------------------------------------------------
(* Derived state *)

Announced == UNION { calls[p] : p \in Provider }

Unannounced == Handler \ (Announced \cup gone)

-----------------------------------------------------------------------------
(* The manager's slots.  Each says what happens to the manager's own state, *)
(* so that a module with a concrete provider can use it as it is.           *)

LockedOut(h) == WithDeviceLock /\ managerLockout /\ ~isEmergency[h]

\* A refused call is hung up and never enters the table.
Admitted(hs) == { h \in hs : ~LockedOut(h) }

\* The calls the manager itself releases from the filter's custody.
ReleasedUnfiltered(hs) ==
    { h \in Admitted(hs) : isIncoming[h] /\ ~isCallFiltering /\ status[h] = "NULL" }

\* Mutant: the latest call always becomes the active one.
OnVoiceCallAdded_Latest(hs) ==
    /\ voiceCalls' = voiceCalls \cup Admitted(hs)
    /\ activeVoiceCall' \in IF Admitted(hs) # {} THEN Admitted(hs) ELSE { activeVoiceCall }

\* onVoiceCallAdded for each of hs, in an order the QHash picks.
OnVoiceCallAdded(hs) ==
    /\ voiceCalls' = voiceCalls \cup Admitted(hs)
    /\ activeVoiceCall' \in IF activeVoiceCall = NoCall /\ Admitted(hs) # {}
                            THEN Admitted(hs)
                            ELSE { activeVoiceCall }

\* activeVoiceCall->handlerId() on a destroyed handler is undefined: the
\* comparison may come out either way.
MayBeActive(h) == activeVoiceCall = h \/ activeVoiceCall \in gone

MustBeActive(h) == activeVoiceCall = h

\* Mutant: the active call is not reset.
ForgetActive_Kept(h) == h \in Handler /\ UNCHANGED activeVoiceCall

ForgetActive(h) ==
    \/ MayBeActive(h)  /\ activeVoiceCall' = NoCall
    \/ ~MustBeActive(h) /\ UNCHANGED activeVoiceCall

\* Mutant: incoming calls fall through to the other counter.
CountCall_Both(h) ==
    /\ received' = IF isIncoming[h] THEN received + duration[h] ELSE received
    /\ dialled' = dialled + duration[h]

\* Mutant: the sign is wrong.
CountCall_Subtract(h) ==
    IF isIncoming[h]
    THEN received' = received - duration[h] /\ UNCHANGED dialled
    ELSE dialled' = dialled - duration[h] /\ UNCHANGED received

CountCall(h) ==
    IF isIncoming[h]
    THEN received' = received + duration[h] /\ UNCHANGED dialled
    ELSE dialled' = dialled + duration[h] /\ UNCHANGED received

\* onVoiceCallRemoved: an id that is not in the table is ignored.
OnVoiceCallRemoved(h) ==
    IF h \in voiceCalls
    THEN /\ voiceCalls' = voiceCalls \ { h }
         /\ ForgetActive(h)
         /\ CountCall(h)
    ELSE UNCHANGED << voiceCalls, activeVoiceCall, counterVars >>

-----------------------------------------------------------------------------
(* What provider plugins do *)

\* Handlers are deleted; a destroyed handler has no status, NULL stands for it.
Destroy(hs) ==
    /\ gone' = gone \cup hs
    /\ status' = [h \in Handler |-> IF h \in hs THEN "NULL" ELSE status[h]]

\* A handler finds out, before it is announced, what kind of call it is.
HandlerPrepared(h, incoming, emergency, s) ==
    /\ h \in Unannounced
    /\ isIncoming' = [isIncoming EXCEPT ![h] = incoming]
    /\ isEmergency' = [isEmergency EXCEPT ![h] = emergency]
    /\ status' = [status EXCEPT ![h] = s]
    /\ UNCHANGED << managerVars, counterVars, calls, gone, duration, managerLockout >>

\* ... or is deleted without ever being announced.
HandlerDiscarded(h) ==
    /\ h \in Unannounced
    /\ Destroy({ h })
    /\ UNCHANGED << managerVars, counterVars, calls, isIncoming, isEmergency,
                    duration, managerLockout >>

\* The manager lets the calls it releases ring.
Release(hs) == status' = [h \in Handler |-> IF h \in hs THEN "INCOMING" ELSE status[h]]

ProviderAddsCall(p, h) ==
    /\ h \in Unannounced
    /\ calls' = [calls EXCEPT ![p] = @ \cup { h }]
    /\ IF p \in providers
       THEN OnVoiceCallAdded({ h }) /\ Release(ReleasedUnfiltered({ h }))
       ELSE UNCHANGED << voiceCalls, activeVoiceCall, status >>
    /\ UNCHANGED << providers, isCallFiltering, counterVars, gone,
                    isIncoming, isEmergency, duration, managerLockout >>

ProviderRemovesCall(p, h) ==
    /\ h \in calls[p]
    /\ calls' = [calls EXCEPT ![p] = @ \ { h }]
    /\ Destroy({ h })
    /\ IF p \in providers
       THEN OnVoiceCallRemoved(h)
       ELSE UNCHANGED << voiceCalls, activeVoiceCall, counterVars >>
    /\ UNCHANGED << providers, isCallFiltering, isIncoming, isEmergency,
                    duration, managerLockout >>

\* Mutant: appendProvider does not catch up with the calls the provider has.
AppendProvider_NoCatchUp(p) ==
    /\ p \notin providers
    /\ providers' = providers \cup { p }
    /\ UNCHANGED << voiceCalls, activeVoiceCall, isCallFiltering, counterVars, handlerVars,
                    managerLockout >>

AppendProvider(p) ==
    /\ p \notin providers
    /\ providers' = providers \cup { p }
    /\ OnVoiceCallAdded(calls[p])
    /\ Release(ReleasedUnfiltered(calls[p]))
    /\ UNCHANGED << isCallFiltering, counterVars, calls, gone,
                    isIncoming, isEmergency, duration, managerLockout >>

\* Only the registration goes: the provider's calls stay in the table.
RemoveProvider(p) ==
    /\ p \in providers
    /\ providers' = providers \ { p }
    /\ UNCHANGED << voiceCalls, activeVoiceCall, isCallFiltering, counterVars,
                    handlerVars, managerLockout >>

\* An unregistered provider may be deleted with the handlers it still owns,
\* the ones it has not announced included.
ProviderDestroyed(p) ==
    /\ p \notin providers
    /\ \E unready \in SUBSET Unannounced : Destroy(calls[p] \cup unready)
    /\ calls' = [calls EXCEPT ![p] = {}]
    /\ UNCHANGED << managerVars, counterVars, isIncoming, isEmergency,
                    duration, managerLockout >>

StatusChanged(h, s) ==
    /\ h \in Announced /\ s # status[h]
    /\ status' = [status EXCEPT ![h] = s]
    /\ UNCHANGED << managerVars, counterVars, calls, gone, isIncoming, isEmergency,
                    duration, managerLockout >>

\* The call's duration timer fires, and the handler says how long the call has
\* lasted; some providers start counting afresh when a call is ongoing again.
DurationChanged(h, seconds) ==
    /\ h \in Announced /\ IsOngoing(status[h])
    /\ duration' = [duration EXCEPT ![h] = seconds]
    /\ UNCHANGED << managerVars, counterVars, calls, gone, status, isIncoming,
                    isEmergency, managerLockout >>

-----------------------------------------------------------------------------
(* What clients and the platform do *)

\* A filter plugin or a D-Bus client passes its verdict on a call in custody.
Filter(h, action) ==
    /\ h \in Announced /\ status[h] = "NULL"
    /\ status' = [status EXCEPT ![h] = FilteredStatus(action)]
    /\ UNCHANGED << managerVars, counterVars, calls, gone, isIncoming, isEmergency,
                    duration, managerLockout >>

SetCallFiltering(on) ==
    /\ isCallFiltering' = on
    /\ UNCHANGED << providers, voiceCalls, activeVoiceCall, counterVars, handlerVars,
                    managerLockout >>

ResetCallDurationCounters ==
    /\ received' = 0 /\ dialled' = 0
    /\ UNCHANGED << managerVars, handlerVars, managerLockout >>

DeviceLockStateChanged ==
    /\ WithDeviceLock
    /\ managerLockout' = ~managerLockout
    /\ UNCHANGED << managerVars, counterVars, handlerVars >>

\* The daemon dies and the service manager restarts it: only the counters,
\* kept by QSettings, survive.
Restart ==
    /\ providers' = {} /\ voiceCalls' = {}
    /\ activeVoiceCall' = NoCall /\ isCallFiltering' = FALSE
    /\ \E unready \in SUBSET Unannounced : Destroy(Announced \cup unready)
    /\ calls' = [p \in Provider |-> {}]
    /\ UNCHANGED << counterVars, isIncoming, isEmergency, duration, managerLockout >>

ProviderStep(p) ==
    \/ AppendProvider(p)
    \/ RemoveProvider(p)
    \/ ProviderDestroyed(p)
    \/ \E h \in Handler : ProviderAddsCall(p, h)
    \/ \E h \in Handler : ProviderRemovesCall(p, h)

HandlerStep(h) ==
    \/ \E incoming, emergency \in BOOLEAN, s \in Status :
            HandlerPrepared(h, incoming, emergency, s)
    \/ HandlerDiscarded(h)
    \/ \E s \in Status : StatusChanged(h, s)
    \/ \E seconds \in 1 .. MaxDuration : DurationChanged(h, seconds)
    \/ \E a \in VoiceCallFilterAction : Filter(h, a)

Next ==
    \/ \E p \in Provider : ProviderStep(p)
    \/ \E h \in Handler : HandlerStep(h)
    \/ \E on \in BOOLEAN : SetCallFiltering(on)
    \/ ResetCallDurationCounters
    \/ DeviceLockStateChanged
    \/ Restart

Spec == Init /\ [][Next]_vars

-----------------------------------------------------------------------------
(* Properties *)

\* The active call is always one the manager holds: /calls/active on D-Bus is
\* never left behind on a call whose own object has been retracted.
ActiveIsKnown == activeVoiceCall # NoCall => activeVoiceCall \in voiceCalls

\* Every call of a registered provider is in the table, however the order of
\* registration, announcement and retraction went; with a device lock this is
\* promised of emergency calls only, and the lock can never keep one out.
RegisteredCallsKnown ==
    \A p \in providers : \A h \in calls[p] :
        ~WithDeviceLock \/ isEmergency[h] => h \in voiceCalls

\* The seconds, of calls of one direction, that have really ended.
Seconds(hs) == UNION { { h } \X (1 .. duration[h]) : h \in hs }

EndedSeconds(incoming) == Seconds({ h \in gone : isIncoming[h] = incoming })

\* Each ended call is counted at most once and under one counter only: what the
\* counters claim is covered by the calls that have really ended, whichever way
\* providers come, go and come back with the same handlers, and across restarts.
CountedOnce ==
    /\ received <= Cardinality(EndedSeconds(TRUE))
    /\ dialled  <= Cardinality(EndedSeconds(FALSE))

\* No call ever takes the active role from another one: the role is given up
\* only when the holder leaves the table or has been destroyed, and it is then
\* vacant for at least one event.
ActiveNeverStolen ==
    [][ activeVoiceCall \notin { NoCall, activeVoiceCall' }
            => /\ activeVoiceCall' = NoCall
               /\ activeVoiceCall \notin voiceCalls' \/ activeVoiceCall \in gone ]_vars
=============================================================================
