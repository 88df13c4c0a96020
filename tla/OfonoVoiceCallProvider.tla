------------------------ MODULE OfonoVoiceCallProvider ------------------------
(***************************************************************************)
(* The oFono side of voicecalld as one system: the provider factory, one   *)
(* OfonoVoiceCallProvider per modem, their handlers, and the manager they  *)
(* announce the calls to (VoiceCallManager, instantiated as M), facing an  *)
(* oFono whose modems, interfaces and calls come and go.                   *)
(*                                                                         *)
(* oFono and libqofono are external: their signals arrive in order, so a   *)
(* step of oFono and the slot it triggers are one action; only the         *)
(* properties of a new call arrive later (BecomesValid), and requests made *)
(* to oFono are merely remembered until it acts on them.                   *)
(***************************************************************************)
EXTENDS OfonoVoiceCallHandler, FiniteSets

CONSTANTS
    WithDeviceLock,   \* built with WITH_NEMO_DEVICELOCK
    FilterInstalled,  \* some plugin or client may turn call filtering on
    Refetch           \* libqofono repeats a failed fetch of a call's properties

VARIABLES
    \* --- oFono
    modems, ifaces,   \* modems present, and those with a VoiceCallManager interface
    net,              \* the state of the call at each key, or "none"
    hangupAsked,      \* keys oFono has been asked to hang up
    fetching,         \* handlers waiting for their call's properties
    \* --- OfonoVoiceCallProviderFactory and the OfonoVoiceCallProviders
    factory,          \* modems with a provider
    ofonoManager,     \* those whose provider has an ofonoManager
    voiceCallAt,      \* d->voiceCalls of each provider, by key
    invalidAt,        \* d->invalidVoiceCalls of each provider, by key
    task,             \* the slot in the middle of which the event loop is
    \* --- VoiceCallManager
    providers, voiceCalls, activeVoiceCall, isCallFiltering, received, dialled,
    managerLockout

netVars      == << modems, ifaces, net >>
providerVars == << factory, ofonoManager, voiceCallAt, invalidAt >>
managerVars  == << providers, voiceCalls, activeVoiceCall, isCallFiltering >>
counterVars  == << received, dialled >>
handlerRest  == << key, valid, state, isIncoming, isEmergency, duration, staleManager >>
vars == << netVars, hangupAsked, fetching, providerVars, task, managerVars, counterVars,
           managerLockout, ofonoHandlerVars >>

CallsOf(m) == { voiceCallAt[<< m, p >>] : p \in Path } \ { NoCall }

M == INSTANCE VoiceCallManager WITH
        Provider <- Modem,
        Status   <- VoiceCallStatus,
        calls    <- [m \in Modem |-> CallsOf(m)],
        gone     <- { h \in Handler : phase[h] = "gone" },
        status   <- [h \in Handler |-> StatusOf(h)]  \* "NULL" once destroyed

Idle == [do |-> "idle", on |-> NoCall]

OfonoTypeOK ==
    /\ OfonoHandlerTypeOK
    /\ modems \subseteq Modem /\ ifaces \subseteq modems
    /\ net \in [Key -> OfonoState \cup { "none" }]
    /\ hangupAsked \subseteq Key
    /\ fetching \subseteq Live \ valid
    /\ factory \subseteq Modem /\ ofonoManager \subseteq Modem
    /\ voiceCallAt \in [Key -> Handler \cup { NoCall }]
    /\ invalidAt \in [Key -> Handler \cup { NoCall }]
    /\ task \in [do : { "closing", "deleting" }, on : Modem]
                \cup [do : { "announcing" }, on : Handler] \cup { Idle }

TypeOK == OfonoTypeOK /\ M!TypeOK

Init ==
    /\ OfonoHandlerInit
    /\ modems = {} /\ ifaces = {}
    /\ net = [k \in Key |-> "none"]
    /\ hangupAsked = {} /\ fetching = {}
    /\ factory = {} /\ ofonoManager = {}
    /\ voiceCallAt = [k \in Key |-> NoCall]
    /\ invalidAt = [k \in Key |-> NoCall]
    /\ task = Idle
    /\ M!ManagerInit
    /\ received = 0 /\ dialled = 0
    /\ managerLockout = FALSE

KeysOf(m) == { m } \X Path

Present(m) == { k \in KeysOf(m) : net[k] # "none" }

\* Bound: handler objects are finitely many, and a call may only appear while
\* one is left for it and for every other call that still needs one.
Unserved == { k \in Key : net[k] # "none" /\ voiceCallAt[k] = NoCall /\ invalidAt[k] = NoCall }
Enough(n) == Cardinality(Unborn) >= n

-----------------------------------------------------------------------------
(* OfonoVoiceCallProvider's slots *)

\* onCallAdded for each of ks: a key already in voiceCalls is skipped; one in
\* invalidVoiceCalls gets a second handler, which replaces the first there.
OnCallAdded(ks) ==
    LET new == { k \in ks : voiceCallAt[k] = NoCall }
    IN \E handlerOf \in [new -> Unborn] :
        LET born == { handlerOf[k] : k \in new }
        IN /\ \A j, k \in new : handlerOf[j] = handlerOf[k] => j = k
           /\ CreateHandlers(born, [h \in born |-> CHOOSE k \in new : handlerOf[k] = h])
           /\ invalidAt' = [k \in Key |-> IF k \in new THEN handlerOf[k] ELSE invalidAt[k]]
           /\ fetching' = fetching \cup born

\* Mutant: an unannounced handler is deleted but stays in invalidVoiceCalls.
OnCallRemoved_KeepsInvalid(k) ==
    /\ Destroy({ voiceCallAt[k], invalidAt[k] })
    /\ voiceCallAt' = [voiceCallAt EXCEPT ![k] = NoCall]
    /\ IF voiceCallAt[k] # NoCall /\ k[1] \in providers
       THEN M!OnVoiceCallRemoved(voiceCallAt[k])
       ELSE UNCHANGED << voiceCalls, activeVoiceCall, counterVars >>
    /\ UNCHANGED << invalidAt, providers, isCallFiltering >>

\* Mutant: voiceCallRemoved is not emitted.
OnCallRemoved_Silent(k) ==
    /\ Destroy({ voiceCallAt[k], invalidAt[k] })
    /\ voiceCallAt' = [voiceCallAt EXCEPT ![k] = NoCall]
    /\ invalidAt' = [invalidAt EXCEPT ![k] = NoCall]
    /\ UNCHANGED << managerVars, counterVars >>

\* onCallRemoved
OnCallRemoved(k) ==
    LET h == voiceCallAt[k]
        m == k[1]
    IN IF h = NoCall
       THEN /\ Destroy({ invalidAt[k] })
            /\ invalidAt' = [invalidAt EXCEPT ![k] = NoCall]
            /\ UNCHANGED << voiceCallAt, managerVars, counterVars >>
       ELSE /\ voiceCallAt' = [voiceCallAt EXCEPT ![k] = NoCall]
            /\ Destroy({ h })
            /\ IF m \in providers
               THEN M!OnVoiceCallRemoved(h)
               ELSE UNCHANGED << voiceCalls, activeVoiceCall, counterVars >>
            /\ UNCHANGED << invalidAt, providers, isCallFiltering >>

-----------------------------------------------------------------------------
(* Calls in oFono *)

\* A call on a busy modem waits; a call that hangs up the last other one rings.
Others(k) == Present(k[1]) \ { k }

Successors(k) ==
    CASE net[k] = "incoming" -> { "active", "disconnected" }
      [] net[k] = "waiting"  -> { "active", "disconnected" }
                                \cup (IF Others(k) = {} THEN { "incoming" } ELSE {})
      [] net[k] = "dialing"  -> { "alerting", "disconnected" }
      [] net[k] = "alerting" -> { "active", "disconnected" }
      [] net[k] = "active"   -> { "held", "disconnected" }
      [] net[k] = "held"     -> { "active", "disconnected" }
      [] OTHER               -> {}

NewCall(k, s) ==
    /\ task = Idle
    /\ k[1] \in ifaces /\ net[k] = "none"
    /\ s = "dialing" \/ s = IF Others(k) = {} THEN "incoming" ELSE "waiting"
    /\ Enough(Cardinality(Unserved) + 1)
    /\ net' = [net EXCEPT ![k] = s]
    /\ hangupAsked' = hangupAsked \ { k }
    /\ IF k[1] \in ofonoManager
       THEN /\ OnCallAdded({ k })
            /\ UNCHANGED << valid, state, isIncoming, isEmergency, verdict, duration, staleManager >>
       ELSE UNCHANGED << invalidAt, fetching, ofonoHandlerVars >>
    /\ UNCHANGED << modems, ifaces, factory, ofonoManager, voiceCallAt, task, managerVars,
                    counterVars, managerLockout >>

\* stateChanged reaches the announced handler; others have yet to fetch the state
\* or are never looked at again.
CallStateChanged(k, s) ==
    /\ task = Idle
    /\ s \in Successors(k)
    /\ net' = [net EXCEPT ![k] = s]
    /\ state' = [h \in Handler |-> IF h = voiceCallAt[k] THEN s ELSE state[h]]
    /\ UNCHANGED << modems, ifaces, hangupAsked, fetching, providerVars, task,
                    managerVars, counterVars, managerLockout, phase, key, valid, isIncoming,
                    isEmergency, verdict, duration, staleManager >>

\* oFono does what hangup() asked.
HangupServed(k) == k \in hangupAsked /\ CallStateChanged(k, "disconnected")

\* What becomes of fetches for calls that have vanished.
StillFetching(vanished) ==
    IF Refetch THEN fetching ELSE { h \in fetching : key[h] \notin vanished }

CallRemoved(k) ==
    /\ task = Idle
    /\ net[k] = "disconnected"
    /\ net' = [net EXCEPT ![k] = "none"]
    /\ hangupAsked' = hangupAsked \ { k }
    /\ IF k[1] \in ofonoManager
       THEN OnCallRemoved(k)
       ELSE UNCHANGED << ofonoHandlerVars, voiceCallAt, invalidAt, managerVars, counterVars >>
    /\ fetching' = { h \in StillFetching({ k }) : phase'[h] = "live" }
    /\ UNCHANGED << modems, ifaces, factory, ofonoManager, task, managerLockout >>

-----------------------------------------------------------------------------
(* Handlers *)

\* The properties of a handler's call arrive, whichever call has its path now.
BecomesValid(h, emergency) ==
    /\ task = Idle
    /\ h \in fetching /\ net[key[h]] # "none"
    /\ emergency => WithDeviceLock
    /\ OnValidChanged(h, net[key[h]], emergency)
    /\ fetching' = fetching \ { h }
    /\ task' = [do |-> "announcing", on |-> h]
    /\ UNCHANGED << netVars, hangupAsked, providerVars, managerVars, counterVars,
                    managerLockout, phase, key, verdict, duration, staleManager >>

\* Mutant: a handler is announced even if its path already has one.
OnVoiceCallHandlerValidChanged_Always(h) ==
    /\ task = [do |-> "announcing", on |-> h]
    /\ task' = Idle
    /\ voiceCallAt' = [voiceCallAt EXCEPT ![key[h]] = h]
    /\ invalidAt' = [invalidAt EXCEPT ![key[h]] = NoCall]
    /\ M!OnVoiceCallAdded({ h })
    /\ RunFilter(M!ReleasedUnfiltered({ h }), "CONTINUE")
    /\ UNCHANGED << netVars, hangupAsked, fetching, factory, ofonoManager, providers,
                    isCallFiltering, counterVars, managerLockout, phase, handlerRest >>

\* Mutant: the call stays in the filter's custody although there is no filter, and
\* is not hung up although the device is locked out.
OnVoiceCallHandlerValidChanged_Unreleased(h) ==
    /\ task = [do |-> "announcing", on |-> h]
    /\ task' = Idle
    /\ voiceCallAt[key[h]] = NoCall
    /\ voiceCallAt' = [voiceCallAt EXCEPT ![key[h]] = h]
    /\ invalidAt' = [invalidAt EXCEPT ![key[h]] = NoCall]
    /\ M!OnVoiceCallAdded({ h })
    /\ UNCHANGED << netVars, hangupAsked, fetching, factory, ofonoManager, providers,
                    isCallFiltering, counterVars, managerLockout, verdict, phase, handlerRest >>

\* onVoiceCallHandlerValidChanged, in the same event: the handler is announced
\* unless its path already has one.  The manager may release it from the filter,
\* or have it hung up while the device is locked out.
OnVoiceCallHandlerValidChanged(h) ==
    LET k == key[h]
        m == k[1]
    IN /\ task = [do |-> "announcing", on |-> h]
       /\ task' = Idle
       /\ IF voiceCallAt[k] = NoCall
          THEN /\ voiceCallAt' = [voiceCallAt EXCEPT ![k] = h]
               /\ invalidAt' = [invalidAt EXCEPT ![k] = NoCall]
               /\ IF m \in providers
                  THEN /\ M!OnVoiceCallAdded({ h })
                       /\ RunFilter(M!ReleasedUnfiltered({ h }), "CONTINUE")
                       /\ hangupAsked' = IF M!LockedOut(h) THEN hangupAsked \cup { k }
                                                           ELSE hangupAsked
                  ELSE UNCHANGED << voiceCalls, activeVoiceCall, verdict, hangupAsked >>
          ELSE UNCHANGED << voiceCallAt, invalidAt, voiceCalls, activeVoiceCall, verdict,
                            hangupAsked >>
       /\ UNCHANGED << netVars, fetching, factory, ofonoManager, providers, isCallFiltering,
                       counterVars, managerLockout, phase, handlerRest >>

DurationTick(h) ==
    /\ task = Idle
    /\ h \in Live /\ h = voiceCallAt[key[h]]
    /\ TimerEvent(h)
    /\ UNCHANGED << netVars, hangupAsked, fetching, providerVars, task, managerVars,
                    counterVars, managerLockout >>

-----------------------------------------------------------------------------
(* Modems and their VoiceCallManager interface *)

Vanish(ks) ==
    /\ net' = [k \in Key |-> IF k \in ks THEN "none" ELSE net[k]]
    /\ hangupAsked' = hangupAsked \ ks

ModemAppears(m) ==
    /\ task = Idle
    /\ m \notin modems
    /\ modems' = modems \cup { m }
    /\ UNCHANGED << ifaces, net, hangupAsked, fetching, providerVars, task, managerVars,
                    counterVars, managerLockout, ofonoHandlerVars >>

\* Mutant: the constructor does not initialize, although the interface is there.
OnModemAdded_Uninitialized(m) ==
    /\ task = Idle
    /\ m \in modems \ factory
    /\ factory' = factory \cup { m }
    /\ providers' = providers \cup { m }
    /\ UNCHANGED << netVars, hangupAsked, fetching, ofonoManager, voiceCallAt, invalidAt, task,
                    voiceCalls, activeVoiceCall, isCallFiltering, counterVars, managerLockout,
                    ofonoHandlerVars >>

\* onModemAdded, at startup or on the signal: the provider's constructor runs
\* initialize() if the interface is there already, then the manager appends it.
OnModemAdded(m) ==
    /\ task = Idle
    /\ m \in modems \ factory
    /\ factory' = factory \cup { m }
    /\ IF m \in ifaces
       THEN /\ ofonoManager' = ofonoManager \cup { m }
            /\ OnCallAdded(Present(m))
            /\ UNCHANGED << valid, state, isIncoming, isEmergency, verdict, duration, staleManager >>
       ELSE UNCHANGED << ofonoManager, invalidAt, fetching, ofonoHandlerVars >>
    /\ providers' = providers \cup { m }
    /\ M!OnVoiceCallAdded(CallsOf(m))
    /\ UNCHANGED << netVars, hangupAsked, voiceCallAt, task, isCallFiltering, counterVars,
                    managerLockout >>

\* interfacesChanged, the interface being there: initialize().
InterfaceBack(m) ==
    /\ task = Idle
    /\ m \in modems \ ifaces
    /\ ifaces' = ifaces \cup { m }
    /\ ofonoManager' = IF m \in factory THEN ofonoManager \cup { m } ELSE ofonoManager
    /\ UNCHANGED << modems, net, hangupAsked, fetching, factory, voiceCallAt, invalidAt,
                    task, managerVars, counterVars, managerLockout, ofonoHandlerVars >>

\* interfacesChanged, the interface being gone: the calls went with it, without
\* callRemoved; the provider removes its announced ones one by one, and then
\* deletes its ofonoManager.  invalidVoiceCalls is left alone.
InterfaceLost(m) ==
    /\ task = Idle
    /\ m \in ifaces
    /\ ifaces' = ifaces \ { m }
    /\ Vanish(KeysOf(m))
    /\ fetching' = StillFetching(KeysOf(m))
    /\ task' = IF m \in ofonoManager THEN [do |-> "closing", on |-> m] ELSE Idle
    /\ UNCHANGED << modems, providerVars, managerVars, counterVars, managerLockout,
                    ofonoHandlerVars >>

CloseCall(m, p) ==
    /\ task = [do |-> "closing", on |-> m]
    /\ voiceCallAt[<< m, p >>] # NoCall
    /\ OnCallRemoved(<< m, p >>)
    /\ UNCHANGED << netVars, hangupAsked, fetching, factory, ofonoManager, task, managerLockout >>

\* Mutant: the ofonoManager goes before the calls have been removed.
DeleteOfonoManager_First(m) ==
    /\ task = [do |-> "closing", on |-> m]
    /\ ofonoManager' = ofonoManager \ { m }
    /\ staleManager' = staleManager \cup { h \in Live : key[h][1] = m }
    /\ task' = Idle
    /\ UNCHANGED << netVars, hangupAsked, fetching, factory, voiceCallAt, invalidAt, managerVars,
                    counterVars, managerLockout, phase, key, valid, state, isIncoming,
                    isEmergency, verdict, duration >>

DeleteOfonoManager(m) ==
    /\ task = [do |-> "closing", on |-> m]
    /\ CallsOf(m) = {}
    /\ ofonoManager' = ofonoManager \ { m }
    /\ staleManager' = staleManager \cup { h \in Live : key[h][1] = m }
    /\ task' = Idle
    /\ UNCHANGED << netVars, hangupAsked, fetching, factory, voiceCallAt, invalidAt, managerVars,
                    counterVars, managerLockout, phase, key, valid, state, isIncoming,
                    isEmergency, verdict, duration >>

\* onModemRemoved: the manager forgets the provider, whose deletion is next.
ModemRemoved(m) ==
    /\ task = Idle
    /\ m \in modems
    /\ modems' = modems \ { m } /\ ifaces' = ifaces \ { m }
    /\ Vanish(KeysOf(m))
    /\ fetching' = StillFetching(KeysOf(m))
    /\ factory' = factory \ { m }
    /\ providers' = providers \ { m }
    /\ task' = IF m \in factory THEN [do |-> "deleting", on |-> m] ELSE Idle
    /\ UNCHANGED << ofonoManager, voiceCallAt, invalidAt, voiceCalls, activeVoiceCall,
                    isCallFiltering, counterVars, managerLockout, ofonoHandlerVars >>

\* The provider's deferred deletion takes all its handlers along.
ProviderDeleted(m) ==
    /\ task = [do |-> "deleting", on |-> m]
    /\ Destroy({ h \in Live : key[h][1] = m })
    /\ fetching' = { h \in fetching : phase'[h] = "live" }
    /\ ofonoManager' = ofonoManager \ { m }
    /\ voiceCallAt' = [k \in Key |-> IF k[1] = m THEN NoCall ELSE voiceCallAt[k]]
    /\ invalidAt' = [k \in Key |-> IF k[1] = m THEN NoCall ELSE invalidAt[k]]
    /\ task' = Idle
    /\ UNCHANGED << netVars, hangupAsked, factory, managerVars, counterVars, managerLockout >>

-----------------------------------------------------------------------------
(* Clients and the platform *)

\* The handlers a client can reach: the ones with an object on D-Bus.
Reachable == voiceCalls \cap Live

\* Mutant: REJECT does not hang up.
FilterCall_NoHangup(h, action) ==
    /\ task = Idle
    /\ h \in Reachable /\ StatusOf(h) = "NULL"
    /\ RunFilter({ h }, action)
    /\ UNCHANGED << netVars, hangupAsked, fetching, providerVars, task, managerVars, counterVars,
                    managerLockout, phase, handlerRest >>

\* Mutant: a verdict is accepted in any status.
FilterCall_Anytime(h, action) ==
    /\ task = Idle
    /\ h \in Reachable
    /\ RunFilter({ h }, action)
    /\ hangupAsked' = IF action = "REJECT" THEN hangupAsked \cup { key[h] } ELSE hangupAsked
    /\ UNCHANGED << netVars, fetching, providerVars, task, managerVars, counterVars,
                    managerLockout, phase, handlerRest >>

\* filter() from a filter plugin's slot or over D-Bus; REJECT hangs up as well.
FilterCall(h, action) ==
    /\ task = Idle
    /\ h \in Reachable /\ StatusOf(h) = "NULL"
    /\ RunFilter({ h }, action)
    /\ hangupAsked' = IF action = "REJECT" THEN hangupAsked \cup { key[h] } ELSE hangupAsked
    /\ UNCHANGED << netVars, fetching, providerVars, task, managerVars, counterVars,
                    managerLockout, phase, handlerRest >>

\* hangup().  answer() and hold() leave nothing behind in the daemon: what they ask
\* of oFono is among what it may do anyway (CallStateChanged).
Hangup(h) ==
    /\ task = Idle
    /\ h \in Reachable
    /\ hangupAsked' = hangupAsked \cup { key[h] }
    /\ UNCHANGED << netVars, fetching, providerVars, task, managerVars, counterVars,
                    managerLockout, ofonoHandlerVars >>

SetCallFiltering(on) ==
    /\ task = Idle /\ FilterInstalled
    /\ isCallFiltering' = on
    /\ UNCHANGED << netVars, hangupAsked, fetching, providerVars, task, providers, voiceCalls,
                    activeVoiceCall, counterVars, managerLockout, ofonoHandlerVars >>

DeviceLockStateChanged ==
    /\ task = Idle /\ WithDeviceLock
    /\ managerLockout' = ~managerLockout
    /\ UNCHANGED << netVars, hangupAsked, fetching, providerVars, task, managerVars, counterVars,
                    ofonoHandlerVars >>

\* The daemon dies and is restarted: oFono and its calls are still there, every
\* object of the daemon is new.
Restart ==
    /\ Enough(Cardinality({ k \in Key : net[k] # "none" }))
    /\ factory # {}
    /\ Destroy(Live)
    /\ fetching' = {} /\ factory' = {} /\ ofonoManager' = {}
    /\ voiceCallAt' = [k \in Key |-> NoCall]
    /\ invalidAt' = [k \in Key |-> NoCall]
    /\ task' = Idle
    /\ providers' = {} /\ voiceCalls' = {}
    /\ activeVoiceCall' = NoCall /\ isCallFiltering' = FALSE
    /\ UNCHANGED << netVars, hangupAsked, counterVars, managerLockout >>

-----------------------------------------------------------------------------

CallStep(k) ==
    \/ \E s \in OfonoState : NewCall(k, s)
    \/ \E s \in OfonoState : CallStateChanged(k, s)
    \/ HangupServed(k)
    \/ CallRemoved(k)

ModemStep(m) ==
    \/ ModemAppears(m)
    \/ OnModemAdded(m)
    \/ InterfaceBack(m)
    \/ InterfaceLost(m)
    \/ \E p \in Path : CloseCall(m, p)
    \/ DeleteOfonoManager(m)
    \/ ModemRemoved(m)
    \/ ProviderDeleted(m)

HandlerStep(h) ==
    \/ \E emergency \in BOOLEAN : BecomesValid(h, emergency)
    \/ OnVoiceCallHandlerValidChanged(h)
    \/ DurationTick(h)
    \/ \E a \in VoiceCallFilterAction : FilterCall(h, a)
    \/ Hangup(h)

Next ==
    \/ \E k \in Key : CallStep(k)
    \/ \E m \in Modem : ModemStep(m)
    \/ \E h \in Handler : HandlerStep(h)
    \/ \E on \in BOOLEAN : SetCallFiltering(on)
    \/ DeviceLockStateChanged
    \/ Restart

Spec == Init /\ [][Next]_vars

\* The event loop gets round to every event that stays pending, and finishes the
\* slot it is in; task only cuts one event into steps, so an event that is pending
\* again and again is not starved by it either.  oFono serves hangups, and takes
\* a disconnected call away.
Fairness ==
    /\ \A h \in Handler :
        /\ SF_vars(\E emergency \in BOOLEAN : BecomesValid(h, emergency))
        /\ WF_vars(OnVoiceCallHandlerValidChanged(h))
    /\ \A m \in Modem :
        /\ SF_vars(OnModemAdded(m))
        /\ WF_vars(\E p \in Path : CloseCall(m, p))
        /\ WF_vars(DeleteOfonoManager(m))
        /\ WF_vars(ProviderDeleted(m))
    /\ \A k \in Key :
        /\ SF_vars(HangupServed(k))
        /\ SF_vars(CallRemoved(k))

FairSpec == Spec /\ Fairness

-----------------------------------------------------------------------------
(* Properties *)

\* No two handlers the manager can still use stand for the same oFono call,
\* although paths are reused and a path may get a second handler while the
\* first one is still waiting for its properties.
OneHandlerPerCall ==
    \A g, h \in Reachable : key[g] = key[h] => g = h

\* Neither hash of a provider ever holds a handler that has been deleted, or
\* one handler twice: onCallRemoved and the lost interface delete what they
\* drop and nothing else.
HashesHoldLiveHandlers ==
    /\ \A k \in Key : voiceCallAt[k] # NoCall =>
            voiceCallAt[k] \in Live /\ key[voiceCallAt[k]] = k /\ voiceCallAt[k] \in valid
    /\ \A k \in Key : invalidAt[k] # NoCall =>
            invalidAt[k] \in Live \ Reachable /\ key[invalidAt[k]] = k

\* A call that was rejected, or refused because the device is locked out, is
\* always one oFono has been asked to hang up, for as long as it rings.
RefusedCallsAreHungUp ==
    \A k \in Key :
        LET h == voiceCallAt[k]
        IN ( /\ h # NoCall /\ k[1] \in providers
             /\ h \notin voiceCalls \/ verdict[h] = "REJECT"
             /\ net[k] = "incoming" )
           => k \in hangupAsked

\* The verdict of the call filter is final: a call it ignored or rejected never
\* rings afterwards, and never waits to be filtered again.
VerdictIsFinal ==
    [][ \A h \in Live : StatusOf(h) \in { "IGNORED", "REJECTED" }
            => StatusOf(h)' \notin { "INCOMING", "NULL" } \/ h \notin Live' ]_vars

\* An announced handler swaps, holds and sends tones through a plain pointer to
\* its provider's ofonoManager, which is never deleted while it is announced.
AnnouncedKeepManager ==
    [][ \A h \in Reachable \ staleManager : h \notin staleManager' \/ h \notin Reachable' ]_vars

\* No call is forgotten: whatever the order in which modem, interface, call and
\* properties turned up, and if the daemon was restarted in the meantime, a call
\* in oFono is announced in the end, unless it ends first.
NobodyForgotten ==
    \A k \in Key : net[k] # "none" ~> (net[k] = "none" \/ voiceCallAt[k] \in voiceCalls)

\* A call the filter has rejected does go away.
RejectedCallsEnd ==
    \A h \in Handler :
        h \in Reachable /\ StatusOf(h) = "REJECTED" ~> h \notin Reachable

\* The provider and its handlers do to the manager what VoiceCallManager allows
\* any provider to do, and the manager's table evolves accordingly.
ImplementsManager == M!Spec

-----------------------------------------------------------------------------
(* What a comment says, and the code does not do *)

\* voicecallmanager.cpp:362: "If no call filter was set, the manager is releasing
\* any call": then no incoming call is left in the NULL state.
ReleasedIfNoFilter ==
    ~FilterInstalled => \A h \in Reachable : state[h] = "incoming" => StatusOf(h) # "NULL"
=============================================================================
