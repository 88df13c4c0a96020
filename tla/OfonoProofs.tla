----------------------------- MODULE OfonoProofs -----------------------------
(***************************************************************************)
(* What the oFono provider guarantees for any modems, call paths, handlers *)
(* and durations, with or without device lock, filter and refetching: its  *)
(* hashes hold the live handlers they should, verdicts are final, refused  *)
(* calls are hung up, and it implements VoiceCallManager.                  *)
(***************************************************************************)
EXTENDS OfonoVoiceCallProvider, TLAPS

Task(what, on) == [do |-> what, on |-> on]

\* A provider is registered with the manager while the factory has it, and owns its
\* handlers and its ofonoManager until it is deleted.
Exists(m) == m \in factory \/ task = Task("deleting", m)

ProvidersOwn ==
    /\ providers = factory
    /\ \A m \in ofonoManager : Exists(m)
    /\ \A h \in Live : key[h] \in Key /\ Exists(key[h][1])

\* Calls need an interface, for which an existing provider has an ofonoManager.
InterfacesAreServed ==
    /\ \A k \in Key : net[k] # "none" => k[1] \in ifaces
    /\ factory \cap ifaces \subseteq ofonoManager
    /\ \A m \in Modem : task = Task("closing", m) => m \notin ifaces
    /\ \A m \in Modem : task = Task("deleting", m) => m \notin factory

\* Nothing is left of a handler that is not there.
OnlyLiveHaveState ==
    \A h \in Handler \ Live :
        state[h] = "unknown" /\ verdict[h] = "none" /\ h \notin valid \cup fetching

\* What the two hashes hold is a handler of the key it is filed under; an announced
\* one knows its call's state, and its call is there unless it is being removed.
AnnouncedAreFiled ==
    \A k \in Key : voiceCallAt[k] # NoCall =>
        /\ voiceCallAt[k] \in Live \cap valid
        /\ key[voiceCallAt[k]] = k
        /\ state[voiceCallAt[k]] # "unknown"
        /\ k[1] \in ofonoManager
        /\ net[k] # "none" \/ task \in { Task("closing", k[1]), Task("deleting", k[1]) }

WaitingAreFiled ==
    \A k \in Key : invalidAt[k] # NoCall =>
        invalidAt[k] \in Live /\ key[invalidAt[k]] = k /\ invalidAt[k] # voiceCallAt[k]

\* The manager's handlers that are still there, and the filtered ones, are announced.
UsedAreFiled ==
    /\ \A h \in Live : h \in voiceCalls \/ verdict[h] # "none" => voiceCallAt[key[h]] = h
    /\ voiceCalls \cap Unborn = {}

\* A handler is announced right after its properties have arrived.
AnnouncingIsFresh ==
    \A h \in Handler : task = Task("announcing", h) =>
        /\ h \in Live \cap valid
        /\ voiceCallAt[key[h]] # h
        /\ state[h] # "unknown" /\ net[key[h]] # "none"
        /\ isIncoming[h] => state[h] = "incoming"

\* A refused call is one oFono has been asked to hang up, in whatever state it is.
RefusedAreAsked ==
    \A k \in Key :
        /\ voiceCallAt[k] # NoCall /\ net[k] # "none"
        /\ voiceCallAt[k] \notin voiceCalls \/ verdict[voiceCallAt[k]] = "REJECT"
        => k \in hangupAsked

OfonoInv ==
    /\ OfonoTypeOK
    /\ ProvidersOwn
    /\ InterfacesAreServed
    /\ OnlyLiveHaveState
    /\ AnnouncedAreFiled
    /\ WaitingAreFiled
    /\ UsedAreFiled
    /\ AnnouncingIsFresh
    /\ RefusedAreAsked

-----------------------------------------------------------------------------
(* Types *)

\* An idle event loop is not in the middle of any slot.
LEMMA IdleIsNoTask ==
    ASSUME NEW x, NEW what \in { "closing", "deleting", "announcing" }
    PROVE  Idle # Task(what, x)
BY DEF Idle, Task

\* The variables start with their types.
LEMMA TypeInit == Init => OfonoTypeOK
BY HandlerAssumption DEF Init, OfonoHandlerInit, OfonoTypeOK, OfonoHandlerTypeOK, Live, Idle

\* What onCallAdded for the keys ks does: the handlers in born come to life, each of
\* them waiting under the key it was created for.
Bears(born, ks) ==
    /\ born \subseteq Unborn
    /\ phase' = [h \in Handler |-> IF h \in born THEN "live" ELSE phase[h]]
    /\ key' \in [Handler -> Key \cup { NoCall }]
    /\ \A h \in born : key'[h] \in ks
    /\ \A h \in Handler \ born : key'[h] = key[h]
    /\ invalidAt' \in [Key -> Handler \cup { NoCall }]
    /\ \A k \in Key : \/ invalidAt'[k] = invalidAt[k]
                      \/ invalidAt'[k] \in born /\ key'[invalidAt'[k]] = k
    /\ fetching' = fetching \cup born

\* onCallAdded bears a handler for each path that has no announced one.
LEMMA CallAdded ==
    ASSUME OfonoTypeOK, NEW ks \in SUBSET Key, OnCallAdded(ks)
    PROVE  \E born : Bears(born, ks)
<1> DEFINE new == { k \in ks : voiceCallAt[k] = NoCall }
<1>1. PICK handlerOf \in [new -> Unborn] :
        LET born == { handlerOf[k] : k \in new }
        IN /\ \A j, k \in new : handlerOf[j] = handlerOf[k] => j = k
           /\ CreateHandlers(born, [h \in born |-> CHOOSE k \in new : handlerOf[k] = h])
           /\ invalidAt' = [k \in Key |-> IF k \in new THEN handlerOf[k] ELSE invalidAt[k]]
           /\ fetching' = fetching \cup born
  BY DEF OnCallAdded
<1> DEFINE born == { handlerOf[k] : k \in new }
           keyOf == [h \in born |-> CHOOSE k \in new : handlerOf[k] = h]
<1>2. born \subseteq Unborn /\ Unborn \subseteq Handler  BY DEF Unborn
<1>3. \A k \in new : handlerOf[k] \in born /\ keyOf[handlerOf[k]] = k
  BY <1>1
<1>4. \A h \in born : keyOf[h] \in new  BY <1>3
<1>5. /\ phase' = [h \in Handler |-> IF h \in born THEN "live" ELSE phase[h]]
      /\ key' = [h \in Handler |-> IF h \in born THEN keyOf[h] ELSE key[h]]
  BY <1>1 DEF CreateHandlers
<1>6. key' \in [Handler -> Key \cup { NoCall }]
  BY <1>4, <1>5 DEF OfonoTypeOK, OfonoHandlerTypeOK
<1>7. \A h \in born : key'[h] \in ks  BY <1>2, <1>4, <1>5
<1>8. \A h \in Handler \ born : key'[h] = key[h]  BY <1>5
<1>9. invalidAt' \in [Key -> Handler \cup { NoCall }]
  BY <1>1, <1>2 DEF OfonoTypeOK
<1>10. \A k \in Key : \/ invalidAt'[k] = invalidAt[k]
                      \/ invalidAt'[k] \in born /\ key'[invalidAt'[k]] = k
  BY <1>1, <1>2, <1>3, <1>5
<1>11. fetching' = fetching \cup born  BY <1>1
<1> HIDE DEF born
<1>12. Bears(born, ks)
  BY <1>2, <1>5, <1>6, <1>7, <1>8, <1>9, <1>10, <1>11 DEF Bears
<1>13. QED  BY <1>12

\* Doing nothing bears no handler.
LEMMA NoneBorn ==
    ASSUME OfonoTypeOK, UNCHANGED << phase, key, invalidAt, fetching >>
    PROVE  Bears({}, {})
BY DEF Bears, OfonoTypeOK, OfonoHandlerTypeOK

\* A new call gets a handler if its modem has an ofonoManager ...
LEMMA NewCallBears ==
    ASSUME OfonoInv, NEW k \in Key, NEW s, NewCall(k, s)
    PROVE  \E born : Bears(born, { j \in { k } : k[1] \in ofonoManager })
<1>1. OfonoTypeOK  BY DEF OfonoInv
<1>2. CASE k[1] \in ofonoManager
  <2>1. OnCallAdded({ k }) /\ { k } \in SUBSET Key  BY <1>2 DEF NewCall
  <2>2. { j \in { k } : k[1] \in ofonoManager } = { k }  BY <1>2
  <2>3. QED  BY <1>1, <2>1, <2>2, CallAdded
<1>3. CASE k[1] \notin ofonoManager
  <2>1. UNCHANGED << phase, key, invalidAt, fetching >>
    BY <1>3 DEF NewCall, ofonoHandlerVars
  <2>2. { j \in { k } : k[1] \in ofonoManager } = {}  BY <1>3
  <2>3. QED  BY <1>1, <2>1, <2>2, NoneBorn
<1>4. QED  BY <1>2, <1>3

\* ... and a new provider creates them for all the calls there are on its modem.
LEMMA ModemAddedBears ==
    ASSUME OfonoInv, NEW m \in Modem, OnModemAdded(m)
    PROVE  \E born : Bears(born, Present(m))
<1>1. OfonoTypeOK  BY DEF OfonoInv
<1>2. CASE m \in ifaces
  <2>1. OnCallAdded(Present(m)) /\ Present(m) \in SUBSET Key
    BY <1>2 DEF OnModemAdded, Present, KeysOf, Key
  <2>2. QED  BY <1>1, <2>1, CallAdded
<1>3. CASE m \notin ifaces
  <2>1. UNCHANGED << phase, key, invalidAt, fetching >>
    BY <1>3 DEF OnModemAdded, ofonoHandlerVars
  <2>2. Present(m) = {}
    BY <1>3 DEF Present, KeysOf, Key, OfonoInv, InterfacesAreServed
  <2>3. QED  BY <1>1, <2>1, <2>2, NoneBorn
<1>4. QED  BY <1>2, <1>3

\* The calls of a modem that are there are filed under keys of that modem.
LEMMA PresentKeys ==
    ASSUME NEW m \in Modem
    PROVE  Present(m) \subseteq { k \in Key : k[1] = m /\ net[k] # "none" }
BY DEF Present, KeysOf, Key

\* A pair of a modem and a path is a key.
LEMMA KeysOfModem ==
    ASSUME NEW m \in Modem
    PROVE  /\ KeysOf(m) = { k \in Key : k[1] = m }
           /\ \A p \in Path : << m, p >> \in Key /\ << m, p >>[1] = m
BY DEF KeysOf, Key

\* A modem without registered calls has none under any of its keys.
LEMMA HasCalls ==
    ASSUME NEW m \in Modem, NEW k \in Key, k[1] = m, CallsOf(m) = {}
    PROVE  voiceCallAt[k] = NoCall
<1>1. PICK p \in Path : k = << m, p >>  BY DEF Key
<1>2. QED  BY <1>1 DEF CallsOf

\* oFono changes the state of calls that are there, to a state it knows, and nothing
\* becomes incoming that was not waiting.
LEMMA OnlyCallsChange ==
    ASSUME NEW k \in Key, NEW s \in Successors(k)
    PROVE  net[k] # "none" /\ s # "unknown" /\ s # "none" /\ (s = "incoming" => net[k] = "waiting")
BY DEF Successors

\* What onCallRemoved for the key k does: the handlers in dead, one at most, are
\* deleted and left in neither hash.
Drops(dead, k) ==
    /\ dead \subseteq Live /\ Destroy(dead)
    /\ \A h \in dead : key[h] = k
    /\ \A j \in Key \ { k } : voiceCallAt[j] \notin dead
    /\ voiceCallAt[k] # NoCall => dead = { voiceCallAt[k] }
    /\ voiceCallAt' = [voiceCallAt EXCEPT ![k] = NoCall]
    /\ invalidAt' \in [Key -> Handler \cup { NoCall }]
    /\ \A j \in Key : invalidAt'[j] # NoCall => invalidAt'[j] = invalidAt[j] /\ invalidAt[j] \notin dead
    /\ voiceCalls' \subseteq voiceCalls /\ voiceCalls \ dead \subseteq voiceCalls'
    /\ providers' = providers

\* onCallRemoved destroys what its path has in either hash, and nothing else.
LEMMA CallDropped ==
    ASSUME OfonoInv, NEW k \in Key, OnCallRemoved(k)
    PROVE  \E dead : Drops(dead, k)
<1> USE HandlerAssumption
        DEF OfonoInv, OfonoTypeOK, OfonoHandlerTypeOK, AnnouncedAreFiled, WaitingAreFiled, Live,
            managerVars, counterVars
<1>1. CASE voiceCallAt[k] = NoCall
  <2> DEFINE dead == { invalidAt[k] } \ { NoCall }
  <2>1. Destroy({ invalidAt[k] })  BY <1>1 DEF OnCallRemoved
  <2>2. Destroy(dead)  BY <2>1 DEF Destroy
  <2>3. /\ dead \subseteq Live /\ \A h \in dead : key[h] = k
        /\ \A j \in Key \ { k } : voiceCallAt[j] \notin dead
    OBVIOUS
  <2>4. invalidAt' = [invalidAt EXCEPT ![k] = NoCall] /\ UNCHANGED << voiceCallAt, managerVars >>
    BY <1>1 DEF OnCallRemoved
  <2>5. \A j \in Key : invalidAt'[j] # NoCall => invalidAt'[j] = invalidAt[j] /\ invalidAt[j] \notin dead
    BY <2>4
  <2>6. QED  BY <1>1, <2>2, <2>3, <2>4, <2>5 DEF Drops
<1>2. CASE voiceCallAt[k] # NoCall
  <2> DEFINE dead == { voiceCallAt[k] }
  <2>1. Destroy(dead) /\ voiceCallAt' = [voiceCallAt EXCEPT ![k] = NoCall] /\ UNCHANGED invalidAt
    BY <1>2 DEF OnCallRemoved
  <2>2. /\ dead \subseteq Live /\ \A h \in dead : key[h] = k
        /\ \A j \in Key \ { k } : voiceCallAt[j] \notin dead
    BY <1>2
  <2>3. voiceCalls' \subseteq voiceCalls /\ voiceCalls \ dead \subseteq voiceCalls'
    BY <1>2 DEF OnCallRemoved, M!OnVoiceCallRemoved
  <2>4. providers' = providers  BY <1>2 DEF OnCallRemoved
  <2>5. \A j \in Key : invalidAt'[j] # NoCall => invalidAt'[j] = invalidAt[j] /\ invalidAt[j] \notin dead
    BY <1>2, <2>1
  <2>6. QED  BY <1>2, <2>1, <2>2, <2>3, <2>4, <2>5 DEF Drops
<1>3. QED  BY <1>1, <1>2

\* When a call is gone it is dropped, if the provider still listens.
LEMMA CallRemovedDrops ==
    ASSUME OfonoInv, NEW k \in Key, CallRemoved(k)
    PROVE  \E dead : Drops(dead, k)
<1>1. CASE k[1] \in ofonoManager
  BY <1>1, CallDropped DEF CallRemoved
<1>2. CASE k[1] \notin ofonoManager
  <2>1. UNCHANGED << ofonoHandlerVars, voiceCallAt, invalidAt, managerVars >>
    BY <1>2 DEF CallRemoved
  <2>2. voiceCallAt[k] = NoCall  BY <1>2 DEF OfonoInv, AnnouncedAreFiled
  <2>3. Destroy({})
    BY <2>1 DEF Destroy, ofonoHandlerVars, OfonoInv, OfonoTypeOK, OfonoHandlerTypeOK
  <2>4. QED
    BY <2>1, <2>2, <2>3 DEF Drops, managerVars, OfonoInv, OfonoTypeOK
<1>3. QED  BY <1>1, <1>2

\* A lost interface closes its calls one at a time, each as onCallRemoved does.
LEMMA CloseCallDrops ==
    ASSUME OfonoInv, NEW m \in Modem, NEW p \in Path, CloseCall(m, p)
    PROVE  \E k, dead : k \in Key /\ k[1] = m /\ voiceCallAt[k] # NoCall /\ Drops(dead, k)
BY CallDropped, KeysOfModem DEF CloseCall

\* An announcement files the handler, unless its key has one, and takes it into the
\* manager's table or has the call hung up; a verdict, if any, is the manager's.
Announces(h) ==
    /\ voiceCallAt[key[h]] = NoCall
    /\ voiceCallAt' = [voiceCallAt EXCEPT ![key[h]] = h]
    /\ invalidAt' = [invalidAt EXCEPT ![key[h]] = NoCall]
    /\ \/ voiceCalls' = voiceCalls \cup { h } /\ hangupAsked' = hangupAsked
       \/ voiceCalls' = voiceCalls /\ hangupAsked' = hangupAsked \cup { key[h] }
    /\ verdict' \in { verdict, [verdict EXCEPT ![h] = "CONTINUE"] }

\* What the announcement of a valid handler does to the hashes and to the manager's
\* table.
LEMMA Announcement ==
    ASSUME OfonoInv, NEW h \in Handler, OnVoiceCallHandlerValidChanged(h)
    PROVE  /\ h \in Live \cap valid /\ key[h] \in Key
           /\ \/ UNCHANGED << voiceCallAt, invalidAt, voiceCalls, verdict, hangupAsked >>
              \/ Announces(h)
<1> USE DEF OfonoInv, OfonoTypeOK, OfonoHandlerTypeOK
<1>1. task = Task("announcing", h)  BY DEF OnVoiceCallHandlerValidChanged, Task
<1>2. h \in Live \cap valid /\ key[h] \in Key /\ Exists(key[h][1])
  BY <1>1 DEF AnnouncingIsFresh, ProvidersOwn
<1>3. key[h][1] \in providers  BY <1>1, <1>2 DEF Exists, Task, ProvidersOwn
<1>4. CASE voiceCallAt[key[h]] # NoCall
  BY <1>2, <1>4 DEF OnVoiceCallHandlerValidChanged
<1>5. CASE voiceCallAt[key[h]] = NoCall
  <2>1. /\ voiceCallAt' = [voiceCallAt EXCEPT ![key[h]] = h]
        /\ invalidAt' = [invalidAt EXCEPT ![key[h]] = NoCall]
        /\ M!OnVoiceCallAdded({ h })
        /\ RunFilter(M!ReleasedUnfiltered({ h }), "CONTINUE")
        /\ hangupAsked' = IF M!LockedOut(h) THEN hangupAsked \cup { key[h] } ELSE hangupAsked
    BY <1>3, <1>5 DEF OnVoiceCallHandlerValidChanged
  <2>2. \/ voiceCalls' = voiceCalls \cup { h } /\ hangupAsked' = hangupAsked
        \/ voiceCalls' = voiceCalls /\ hangupAsked' = hangupAsked \cup { key[h] }
    BY <2>1 DEF M!OnVoiceCallAdded, M!Admitted
  <2>3. M!ReleasedUnfiltered({ h }) = { h } \/ M!ReleasedUnfiltered({ h }) = {}
    BY DEF M!ReleasedUnfiltered, M!Admitted
  <2>4. verdict' \in { verdict, [verdict EXCEPT ![h] = "CONTINUE"] }
    BY <2>1, <2>3 DEF RunFilter
  <2>5. QED  BY <1>2, <1>5, <2>1, <2>2, <2>4 DEF Announces
<1>6. QED  BY <1>4, <1>5

\* A provider starts without announced calls.
LEMMA NewProviderHasNoCalls ==
    ASSUME OfonoInv, NEW m \in Modem, OnModemAdded(m)
    PROVE  CallsOf(m) = {} /\ voiceCalls' = voiceCalls
<1>1. ~Exists(m)  BY IdleIsNoTask DEF OnModemAdded, Exists
<1>2. \A p \in Path : voiceCallAt[<< m, p >>] = NoCall
  BY <1>1, KeysOfModem DEF OfonoInv, AnnouncedAreFiled, ProvidersOwn
<1>3. CallsOf(m) = {}  BY <1>2 DEF CallsOf
<1>4. QED  BY <1>3 DEF OnModemAdded, M!OnVoiceCallAdded, M!Admitted

\* Every step keeps the types.
LEMMA TypeStep == ASSUME OfonoInv, [Next]_vars PROVE OfonoTypeOK'
<1> USE DEF netVars, providerVars, managerVars, counterVars, handlerRest, ofonoHandlerVars, Live,
            OfonoInv, OfonoTypeOK, OfonoHandlerTypeOK
<1>1. ASSUME NEW k \in Key, NEW s \in OfonoState, NewCall(k, s) PROVE OfonoTypeOK'
  <2>1. PICK born : Bears(born, { j \in { k } : k[1] \in ofonoManager })
    BY <1>1, NewCallBears
  <2>2. UNCHANGED << valid, state, isIncoming, isEmergency, verdict, duration, staleManager >>
    BY <1>1 DEF NewCall
  <2>3. OfonoHandlerTypeOK'  BY <2>1, <2>2 DEF Bears
  <2>4. fetching' \subseteq Live' \ valid'
    BY <2>1, <2>2 DEF Bears, Unborn, OnlyLiveHaveState
  <2>5. QED  BY <1>1, <2>1, <2>3, <2>4 DEF NewCall, Bears
<1>2. ASSUME NEW k \in Key, NEW s \in OfonoState, CallStateChanged(k, s) PROVE OfonoTypeOK'
  BY <1>2 DEF CallStateChanged
<1>3. ASSUME NEW k \in Key, CallRemoved(k) PROVE OfonoTypeOK'
  BY <1>3 DEF CallRemoved, OnCallRemoved, Destroy, StillFetching
<1>4. ASSUME NEW m \in Modem, OnModemAdded(m) PROVE OfonoTypeOK'
  <2>1. PICK born : Bears(born, Present(m))  BY <1>4, ModemAddedBears
  <2>2. QED  BY <1>4, <2>1 DEF OnModemAdded, Bears, Unborn, OnlyLiveHaveState
<1>5. ASSUME NEW m \in Modem, NEW p \in Path, CloseCall(m, p) PROVE OfonoTypeOK'
  <2>1. << m, p >> \in Key /\ voiceCallAt[<< m, p >>] \in valid
    BY <1>5 DEF CloseCall, AnnouncedAreFiled, Key
  <2>2. QED  BY <1>5, <2>1 DEF CloseCall, OnCallRemoved, Destroy
<1>6. ASSUME NEW m \in Modem,
             \/ ModemAppears(m) \/ InterfaceBack(m) \/ InterfaceLost(m)
             \/ DeleteOfonoManager(m) \/ ModemRemoved(m) \/ ProviderDeleted(m)
      PROVE  OfonoTypeOK'
  BY <1>6 DEF ModemAppears, InterfaceBack, InterfaceLost, DeleteOfonoManager, ModemRemoved,
              ProviderDeleted, Vanish, StillFetching, Destroy
<1>7. ASSUME NEW h \in Handler, HandlerStep(h) PROVE OfonoTypeOK'
  <2>0. h \in Live => key[h] \in Key  BY DEF ProvidersOwn
  <2>1. ASSUME NEW emergency \in BOOLEAN, BecomesValid(h, emergency) PROVE OfonoTypeOK'
    BY <2>0, <2>1 DEF BecomesValid, OnValidChanged
  <2>2. CASE OnVoiceCallHandlerValidChanged(h)
    <3>1. h \in Live  BY <2>2 DEF OnVoiceCallHandlerValidChanged, AnnouncingIsFresh, Task
    <3>2. QED
      BY <2>0, <2>2, <3>1 DEF OnVoiceCallHandlerValidChanged, RunFilter, VoiceCallFilterAction
  <2>3. CASE DurationTick(h)
    <3>1. duration' \in [Handler -> 0 .. MaxDuration]
      BY <2>3, HandlerAssumption DEF DurationTick, TimerEvent
    <3>2. QED  BY <2>3, <3>1 DEF DurationTick, TimerEvent
  <2>4. ASSUME NEW a \in VoiceCallFilterAction, FilterCall(h, a) PROVE OfonoTypeOK'
    BY <2>0, <2>4 DEF FilterCall, RunFilter, Reachable
  <2>5. CASE Hangup(h)
    BY <2>0, <2>5 DEF Hangup, Reachable
  <2>6. QED  BY <1>7, <2>1, <2>2, <2>3, <2>4, <2>5 DEF HandlerStep
<1>8. CASE Restart
  BY <1>8 DEF Restart, Destroy
<1>9. CASE \/ \E on \in BOOLEAN : SetCallFiltering(on)
           \/ DeviceLockStateChanged \/ UNCHANGED vars
  BY <1>9 DEF SetCallFiltering, DeviceLockStateChanged, vars
<1>10. QED
  BY <1>1, <1>2, <1>3, <1>4, <1>5, <1>6, <1>7, <1>8, <1>9
  DEF Next, CallStep, ModemStep, HangupServed, OfonoState

-----------------------------------------------------------------------------
(* The other conjuncts *)

\* Each of the following is one conjunct of OfonoInv and is proved action by action.
LEMMA ProvidersOwnStep == ASSUME OfonoInv, [Next]_vars PROVE ProvidersOwn'
<1> USE DEF netVars, providerVars, managerVars, counterVars, handlerRest, ofonoHandlerVars, Live,
            OfonoInv, OfonoTypeOK, OfonoHandlerTypeOK, ProvidersOwn, Exists, Task
<1>1. ASSUME NEW k \in Key, NEW s, NewCall(k, s) PROVE ProvidersOwn'
  <2>1. PICK born : Bears(born, { j \in { k } : k[1] \in ofonoManager })
    BY <1>1, NewCallBears
  <2>2. QED  BY <1>1, <2>1 DEF NewCall, Bears
<1>2. ASSUME NEW k \in Key, NEW s, CallStateChanged(k, s) PROVE ProvidersOwn'
  BY <1>2 DEF CallStateChanged
<1>3. ASSUME NEW k \in Key, CallRemoved(k) PROVE ProvidersOwn'
  BY <1>3 DEF CallRemoved, OnCallRemoved, Destroy
<1>4. ASSUME NEW m \in Modem, OnModemAdded(m) PROVE ProvidersOwn'
  <2>1. PICK born : Bears(born, Present(m))  BY <1>4, ModemAddedBears
  <2>2. QED  BY <1>4, <2>1, PresentKeys DEF OnModemAdded, Bears
<1>5. ASSUME NEW m \in Modem, NEW p \in Path, CloseCall(m, p) PROVE ProvidersOwn'
  BY <1>5 DEF CloseCall, OnCallRemoved, Destroy
<1>6. ASSUME NEW m \in Modem,
             \/ ModemAppears(m) \/ InterfaceBack(m) \/ InterfaceLost(m)
             \/ DeleteOfonoManager(m) \/ ModemRemoved(m) \/ ProviderDeleted(m)
      PROVE  ProvidersOwn'
  <2>1. CASE ModemAppears(m) \/ InterfaceBack(m) \/ InterfaceLost(m) \/ DeleteOfonoManager(m)
    BY <2>1 DEF ModemAppears, InterfaceBack, InterfaceLost, DeleteOfonoManager, Idle
  <2>2. CASE ModemRemoved(m)
    BY <2>2 DEF ModemRemoved, Idle
  <2>3. CASE ProviderDeleted(m)
    BY <2>3 DEF ProviderDeleted, Destroy
  <2>4. QED  BY <1>6, <2>1, <2>2, <2>3
<1>7. ASSUME NEW h \in Handler, HandlerStep(h) PROVE ProvidersOwn'
  BY <1>7
     DEF HandlerStep, BecomesValid, OnVoiceCallHandlerValidChanged, DurationTick, FilterCall,
              Hangup, OnValidChanged, RunFilter, TimerEvent, Idle
<1>8. CASE Restart
  BY <1>8 DEF Restart, Destroy
<1>9. CASE \/ \E on \in BOOLEAN : SetCallFiltering(on)
           \/ DeviceLockStateChanged \/ UNCHANGED vars
  BY <1>9 DEF SetCallFiltering, DeviceLockStateChanged, vars
<1>10. QED
  BY <1>1, <1>2, <1>3, <1>4, <1>5, <1>6, <1>7, <1>8, <1>9
     DEF Next, CallStep, ModemStep, HangupServed

\* Interfaces stay served.
LEMMA InterfacesAreServedStep == ASSUME OfonoInv, [Next]_vars PROVE InterfacesAreServed'
<1> USE DEF netVars, providerVars, managerVars, counterVars, handlerRest, ofonoHandlerVars, Live,
            OfonoInv, OfonoTypeOK, OfonoHandlerTypeOK, InterfacesAreServed, ProvidersOwn,
            Exists, Task
<1>1. ASSUME NEW k \in Key, NEW s, NewCall(k, s) PROVE InterfacesAreServed'
  <2>1. PICK born : Bears(born, { j \in { k } : k[1] \in ofonoManager })
    BY <1>1, NewCallBears
  <2>2. QED  BY <1>1, <2>1 DEF NewCall
<1>2. ASSUME NEW k \in Key, NEW s \in OfonoState, CallStateChanged(k, s) PROVE InterfacesAreServed'
  BY <1>2, OnlyCallsChange DEF CallStateChanged
<1>3. ASSUME NEW k \in Key, CallRemoved(k) PROVE InterfacesAreServed'
  <2>1. PICK dead : Drops(dead, k)  BY <1>3, CallRemovedDrops
  <2>2. QED  BY <1>3, <2>1 DEF CallRemoved
<1>4. ASSUME NEW m \in Modem, OnModemAdded(m) PROVE InterfacesAreServed'
  <2>1. PICK born : Bears(born, Present(m))  BY <1>4, ModemAddedBears
  <2>2. QED  BY <1>4, <2>1 DEF OnModemAdded, Idle
<1>5. ASSUME NEW m \in Modem, NEW p \in Path, CloseCall(m, p) PROVE InterfacesAreServed'
  <2>1. PICK k, dead : k \in Key /\ k[1] = m /\ voiceCallAt[k] # NoCall /\ Drops(dead, k)
    BY <1>5, CloseCallDrops
  <2>2. QED  BY <1>5, <2>1 DEF CloseCall
<1>6. ASSUME NEW m \in Modem,
             \/ ModemAppears(m) \/ InterfaceBack(m) \/ InterfaceLost(m)
             \/ DeleteOfonoManager(m) \/ ModemRemoved(m) \/ ProviderDeleted(m)
      PROVE  InterfacesAreServed'
  <2>1. CASE ModemAppears(m) \/ InterfaceBack(m)
    BY <2>1 DEF ModemAppears, InterfaceBack, Idle
  <2>2. CASE InterfaceLost(m)
    BY <2>2, KeysOfModem DEF InterfaceLost, Vanish
  <2>3. CASE DeleteOfonoManager(m)
    BY <2>3, HasCalls DEF DeleteOfonoManager, Idle
  <2>4. CASE ModemRemoved(m)
    BY <2>4, KeysOfModem DEF ModemRemoved, Vanish
  <2>5. CASE ProviderDeleted(m)
    BY <2>5 DEF ProviderDeleted, Idle
  <2>6. QED  BY <1>6, <2>1, <2>2, <2>3, <2>4, <2>5
<1>7. ASSUME NEW h \in Handler, HandlerStep(h) PROVE InterfacesAreServed'
  <2>1. ASSUME NEW emergency \in BOOLEAN, BecomesValid(h, emergency) PROVE InterfacesAreServed'
    BY <2>1 DEF BecomesValid
  <2>2. CASE OnVoiceCallHandlerValidChanged(h)
    BY <2>2 DEF OnVoiceCallHandlerValidChanged, M!OnVoiceCallAdded, Idle
  <2>3. CASE DurationTick(h) \/ Hangup(h)
    BY <2>3 DEF DurationTick, Hangup
  <2>4. ASSUME NEW a \in VoiceCallFilterAction, FilterCall(h, a) PROVE InterfacesAreServed'
    BY <2>4 DEF FilterCall
  <2>5. QED  BY <1>7, <2>1, <2>2, <2>3, <2>4 DEF HandlerStep
<1>8. CASE Restart
  BY <1>8 DEF Restart, Idle
<1>9. CASE \/ \E on \in BOOLEAN : SetCallFiltering(on)
           \/ DeviceLockStateChanged \/ UNCHANGED vars
  BY <1>9 DEF SetCallFiltering, DeviceLockStateChanged, vars
<1>10. QED
  BY <1>1, <1>2, <1>3, <1>4, <1>5, <1>6, <1>7, <1>8, <1>9
  DEF Next, CallStep, ModemStep, HangupServed, OfonoState

\* Handlers leave no state behind.
LEMMA OnlyLiveHaveStateStep == ASSUME OfonoInv, [Next]_vars PROVE OnlyLiveHaveState'
<1> USE DEF netVars, providerVars, managerVars, counterVars, handlerRest, ofonoHandlerVars, Live,
            OfonoInv, OfonoTypeOK, OfonoHandlerTypeOK, OnlyLiveHaveState, ProvidersOwn,
            AnnouncedAreFiled, AnnouncingIsFresh, Task
<1>1. ASSUME NEW k \in Key, NEW s, NewCall(k, s) PROVE OnlyLiveHaveState'
  <2>1. PICK born : Bears(born, { j \in { k } : k[1] \in ofonoManager })
    BY <1>1, NewCallBears
  <2>2. QED  BY <1>1, <2>1 DEF NewCall, Bears
<1>2. ASSUME NEW k \in Key, NEW s \in OfonoState, CallStateChanged(k, s) PROVE OnlyLiveHaveState'
  <2>1. voiceCallAt[k] \in Live \cup { NoCall }  OBVIOUS
  <2>2. QED  BY <1>2, <2>1, HandlerAssumption DEF CallStateChanged
<1>3. ASSUME NEW k \in Key, CallRemoved(k) PROVE OnlyLiveHaveState'
  <2>1. PICK dead : Drops(dead, k)  BY <1>3, CallRemovedDrops
  <2>2. QED  BY <1>3, <2>1 DEF CallRemoved, Drops, Destroy
<1>4. ASSUME NEW m \in Modem, OnModemAdded(m) PROVE OnlyLiveHaveState'
  <2>1. PICK born : Bears(born, Present(m))  BY <1>4, ModemAddedBears
  <2>2. QED  BY <1>4, <2>1 DEF OnModemAdded, Bears
<1>5. ASSUME NEW m \in Modem, NEW p \in Path, CloseCall(m, p) PROVE OnlyLiveHaveState'
  <2>1. PICK k, dead : k \in Key /\ k[1] = m /\ voiceCallAt[k] # NoCall /\ Drops(dead, k)
    BY <1>5, CloseCallDrops
  <2>2. voiceCallAt[k] \in valid /\ dead = { voiceCallAt[k] }  BY <2>1 DEF Drops
  <2>3. QED  BY <1>5, <2>1, <2>2 DEF CloseCall, Drops, Destroy
<1>6. ASSUME NEW m \in Modem,
             \/ ModemAppears(m) \/ InterfaceBack(m) \/ InterfaceLost(m)
             \/ DeleteOfonoManager(m) \/ ModemRemoved(m) \/ ProviderDeleted(m)
      PROVE  OnlyLiveHaveState'
  <2>1. CASE ModemAppears(m) \/ InterfaceBack(m)
    BY <2>1 DEF ModemAppears, InterfaceBack
  <2>2. CASE InterfaceLost(m)
    BY <2>2 DEF InterfaceLost, StillFetching
  <2>3. CASE DeleteOfonoManager(m)
    BY <2>3, HasCalls DEF DeleteOfonoManager
  <2>4. CASE ModemRemoved(m)
    BY <2>4 DEF ModemRemoved, StillFetching
  <2>5. CASE ProviderDeleted(m)
    BY <2>5 DEF ProviderDeleted, Destroy
  <2>6. QED  BY <1>6, <2>1, <2>2, <2>3, <2>4, <2>5
<1>7. ASSUME NEW h \in Handler, HandlerStep(h) PROVE OnlyLiveHaveState'
  <2>1. ASSUME NEW emergency \in BOOLEAN, BecomesValid(h, emergency) PROVE OnlyLiveHaveState'
    BY <2>1 DEF BecomesValid, OnValidChanged
  <2>2. CASE OnVoiceCallHandlerValidChanged(h)
    BY <2>2 DEF OnVoiceCallHandlerValidChanged, RunFilter, M!ReleasedUnfiltered, M!Admitted
  <2>3. CASE DurationTick(h) \/ Hangup(h)
    BY <2>3 DEF DurationTick, TimerEvent, Hangup
  <2>4. ASSUME NEW a \in VoiceCallFilterAction, FilterCall(h, a) PROVE OnlyLiveHaveState'
    BY <2>4 DEF FilterCall, RunFilter, Reachable
  <2>5. QED  BY <1>7, <2>1, <2>2, <2>3, <2>4 DEF HandlerStep
<1>8. CASE Restart
  BY <1>8 DEF Restart, Destroy
<1>9. CASE \/ \E on \in BOOLEAN : SetCallFiltering(on)
           \/ DeviceLockStateChanged \/ UNCHANGED vars
  BY <1>9 DEF SetCallFiltering, DeviceLockStateChanged, vars
<1>10. QED
  BY <1>1, <1>2, <1>3, <1>4, <1>5, <1>6, <1>7, <1>8, <1>9
  DEF Next, CallStep, ModemStep, HangupServed, OfonoState

\* Announced handlers stay under the key of their call.
LEMMA AnnouncedAreFiledStep == ASSUME OfonoInv, [Next]_vars PROVE AnnouncedAreFiled'
<1> USE DEF netVars, providerVars, managerVars, counterVars, handlerRest, ofonoHandlerVars, Live,
            OfonoInv, OfonoTypeOK, OfonoHandlerTypeOK, AnnouncedAreFiled, ProvidersOwn,
            Exists, InterfacesAreServed, AnnouncingIsFresh, Task
<1>1. ASSUME NEW k \in Key, NEW s, NewCall(k, s) PROVE AnnouncedAreFiled'
  <2>1. PICK born : Bears(born, { j \in { k } : k[1] \in ofonoManager })
    BY <1>1, NewCallBears
  <2>2. QED  BY <1>1, <2>1 DEF NewCall, Bears, Unborn
<1>2. ASSUME NEW k \in Key, NEW s \in OfonoState, CallStateChanged(k, s) PROVE AnnouncedAreFiled'
  BY <1>2, OnlyCallsChange DEF CallStateChanged
<1>3. ASSUME NEW k \in Key, CallRemoved(k) PROVE AnnouncedAreFiled'
  <2>1. PICK dead : Drops(dead, k)  BY <1>3, CallRemovedDrops
  <2>2. QED  BY <1>3, <2>1 DEF CallRemoved, Drops, Destroy
<1>4. ASSUME NEW m \in Modem, OnModemAdded(m) PROVE AnnouncedAreFiled'
  <2>1. PICK born : Bears(born, Present(m))  BY <1>4, ModemAddedBears
  <2>2. QED  BY <1>4, <2>1 DEF OnModemAdded, Bears, Unborn
<1>5. ASSUME NEW m \in Modem, NEW p \in Path, CloseCall(m, p) PROVE AnnouncedAreFiled'
  <2>1. PICK k, dead : k \in Key /\ k[1] = m /\ voiceCallAt[k] # NoCall /\ Drops(dead, k)
    BY <1>5, CloseCallDrops
  <2>2. QED  BY <1>5, <2>1 DEF CloseCall, Drops, Destroy
<1>6. ASSUME NEW m \in Modem,
             \/ ModemAppears(m) \/ InterfaceBack(m) \/ InterfaceLost(m)
             \/ DeleteOfonoManager(m) \/ ModemRemoved(m) \/ ProviderDeleted(m)
      PROVE  AnnouncedAreFiled'
  <2>1. CASE ModemAppears(m) \/ InterfaceBack(m)
    BY <2>1 DEF ModemAppears, InterfaceBack
  <2>2. CASE InterfaceLost(m)
    BY <2>2, KeysOfModem DEF InterfaceLost, Vanish, Idle
  <2>3. CASE DeleteOfonoManager(m)
    BY <2>3, HasCalls DEF DeleteOfonoManager, Idle
  <2>4. CASE ModemRemoved(m)
    BY <2>4, KeysOfModem DEF ModemRemoved, Vanish, Idle
  <2>5. CASE ProviderDeleted(m)
    BY <2>5 DEF ProviderDeleted, Destroy
  <2>6. QED  BY <1>6, <2>1, <2>2, <2>3, <2>4, <2>5
<1>7. ASSUME NEW h \in Handler, HandlerStep(h) PROVE AnnouncedAreFiled'
  <2>1. ASSUME NEW emergency \in BOOLEAN, BecomesValid(h, emergency) PROVE AnnouncedAreFiled'
    BY <2>1 DEF BecomesValid, OnValidChanged, Idle
  <2>2. CASE OnVoiceCallHandlerValidChanged(h)
    BY <2>2 DEF OnVoiceCallHandlerValidChanged, M!OnVoiceCallAdded, Idle
  <2>3. CASE DurationTick(h) \/ Hangup(h)
    BY <2>3 DEF DurationTick, TimerEvent, Hangup
  <2>4. ASSUME NEW a \in VoiceCallFilterAction, FilterCall(h, a) PROVE AnnouncedAreFiled'
    BY <2>4 DEF FilterCall
  <2>5. QED  BY <1>7, <2>1, <2>2, <2>3, <2>4 DEF HandlerStep
<1>8. CASE Restart
  BY <1>8 DEF Restart
<1>9. CASE \/ \E on \in BOOLEAN : SetCallFiltering(on)
           \/ DeviceLockStateChanged \/ UNCHANGED vars
  BY <1>9 DEF SetCallFiltering, DeviceLockStateChanged, vars
<1>10. QED
  BY <1>1, <1>2, <1>3, <1>4, <1>5, <1>6, <1>7, <1>8, <1>9
  DEF Next, CallStep, ModemStep, HangupServed, OfonoState

\* So do the ones that wait for their properties.
LEMMA WaitingAreFiledStep == ASSUME OfonoInv, [Next]_vars PROVE WaitingAreFiled'
<1> USE DEF netVars, providerVars, managerVars, counterVars, handlerRest, ofonoHandlerVars, Live,
            OfonoInv, OfonoTypeOK, OfonoHandlerTypeOK, WaitingAreFiled, AnnouncedAreFiled,
            AnnouncingIsFresh, ProvidersOwn, Task
<1>1. ASSUME NEW k \in Key, NEW s, NewCall(k, s) PROVE WaitingAreFiled'
  <2>1. PICK born : Bears(born, { j \in { k } : k[1] \in ofonoManager })
    BY <1>1, NewCallBears
  <2>2. voiceCallAt' = voiceCallAt  BY <1>1 DEF NewCall
  <2>3. \A j \in Key : voiceCallAt[j] \notin born
    BY <2>1, HandlerAssumption DEF Bears, Unborn
  <2>4. Live' = Live \cup born  BY <2>1 DEF Bears, Unborn
  <2>5. QED  BY <2>1, <2>2, <2>3, <2>4 DEF Bears, Unborn
<1>2. ASSUME NEW k \in Key, NEW s \in OfonoState, CallStateChanged(k, s) PROVE WaitingAreFiled'
  BY <1>2 DEF CallStateChanged
<1>3. ASSUME NEW k \in Key, CallRemoved(k) PROVE WaitingAreFiled'
  <2>1. PICK dead : Drops(dead, k)  BY <1>3, CallRemovedDrops
  <2>2. QED  BY <1>3, <2>1 DEF CallRemoved, Drops, Destroy
<1>4. ASSUME NEW m \in Modem, OnModemAdded(m) PROVE WaitingAreFiled'
  <2>1. PICK born : Bears(born, Present(m))  BY <1>4, ModemAddedBears
  <2>2. voiceCallAt' = voiceCallAt  BY <1>4 DEF OnModemAdded
  <2>3. \A j \in Key : voiceCallAt[j] \notin born
    BY <2>1, HandlerAssumption DEF Bears, Unborn
  <2>4. Live' = Live \cup born  BY <2>1 DEF Bears, Unborn
  <2>5. QED  BY <2>1, <2>2, <2>3, <2>4 DEF Bears, Unborn
<1>5. ASSUME NEW m \in Modem, NEW p \in Path, CloseCall(m, p) PROVE WaitingAreFiled'
  <2>1. PICK k, dead : k \in Key /\ k[1] = m /\ voiceCallAt[k] # NoCall /\ Drops(dead, k)
    BY <1>5, CloseCallDrops
  <2>2. QED  BY <1>5, <2>1 DEF CloseCall, Drops, Destroy
<1>6. ASSUME NEW m \in Modem,
             \/ ModemAppears(m) \/ InterfaceBack(m) \/ InterfaceLost(m)
             \/ DeleteOfonoManager(m) \/ ModemRemoved(m) \/ ProviderDeleted(m)
      PROVE  WaitingAreFiled'
  <2>1. CASE ModemAppears(m) \/ InterfaceBack(m)
    BY <2>1 DEF ModemAppears, InterfaceBack
  <2>2. CASE InterfaceLost(m)
    BY <2>2 DEF InterfaceLost
  <2>3. CASE DeleteOfonoManager(m)
    BY <2>3, HasCalls DEF DeleteOfonoManager
  <2>4. CASE ModemRemoved(m)
    BY <2>4 DEF ModemRemoved
  <2>5. CASE ProviderDeleted(m)
    BY <2>5 DEF ProviderDeleted, Destroy
  <2>6. QED  BY <1>6, <2>1, <2>2, <2>3, <2>4, <2>5
<1>7. ASSUME NEW h \in Handler, HandlerStep(h) PROVE WaitingAreFiled'
  <2>1. ASSUME NEW emergency \in BOOLEAN, BecomesValid(h, emergency) PROVE WaitingAreFiled'
    BY <2>1 DEF BecomesValid
  <2>2. CASE OnVoiceCallHandlerValidChanged(h)
    BY <2>2 DEF OnVoiceCallHandlerValidChanged, M!OnVoiceCallAdded
  <2>3. CASE DurationTick(h) \/ Hangup(h)
    BY <2>3 DEF DurationTick, TimerEvent, Hangup
  <2>4. ASSUME NEW a \in VoiceCallFilterAction, FilterCall(h, a) PROVE WaitingAreFiled'
    BY <2>4 DEF FilterCall
  <2>5. QED  BY <1>7, <2>1, <2>2, <2>3, <2>4 DEF HandlerStep
<1>8. CASE Restart
  BY <1>8 DEF Restart
<1>9. CASE \/ \E on \in BOOLEAN : SetCallFiltering(on)
           \/ DeviceLockStateChanged \/ UNCHANGED vars
  BY <1>9 DEF SetCallFiltering, DeviceLockStateChanged, vars
<1>10. QED
  BY <1>1, <1>2, <1>3, <1>4, <1>5, <1>6, <1>7, <1>8, <1>9
  DEF Next, CallStep, ModemStep, HangupServed, OfonoState

\* What the manager and the filter hold stays announced.
LEMMA UsedAreFiledStep == ASSUME OfonoInv, [Next]_vars PROVE UsedAreFiled'
<1> USE DEF netVars, providerVars, managerVars, counterVars, handlerRest, ofonoHandlerVars, Live,
            Unborn, OfonoInv, OfonoTypeOK, OfonoHandlerTypeOK, UsedAreFiled,
            AnnouncedAreFiled, AnnouncingIsFresh, ProvidersOwn, OnlyLiveHaveState, Exists, Task
<1>1. ASSUME NEW k \in Key, NEW s, NewCall(k, s) PROVE UsedAreFiled'
  <2>1. PICK born : Bears(born, { j \in { k } : k[1] \in ofonoManager })
    BY <1>1, NewCallBears
  <2>2. UNCHANGED << voiceCallAt, voiceCalls, verdict >>  BY <1>1 DEF NewCall
  <2>3. Live' = Live \cup born /\ Unborn' \subseteq Unborn  BY <2>1 DEF Bears
  <2>4. QED  BY <2>1, <2>2, <2>3 DEF Bears
<1>2. ASSUME NEW k \in Key, NEW s \in OfonoState, CallStateChanged(k, s) PROVE UsedAreFiled'
  BY <1>2 DEF CallStateChanged
<1>3. ASSUME NEW k \in Key, CallRemoved(k) PROVE UsedAreFiled'
  <2>1. PICK dead : Drops(dead, k)  BY <1>3, CallRemovedDrops
  <2>2. QED  BY <1>3, <2>1 DEF CallRemoved, Drops, Destroy
<1>4. ASSUME NEW m \in Modem, OnModemAdded(m) PROVE UsedAreFiled'
  <2>1. PICK born : Bears(born, Present(m))  BY <1>4, ModemAddedBears
  <2>2. UNCHANGED << voiceCallAt, voiceCalls >>  BY <1>4, NewProviderHasNoCalls DEF OnModemAdded
  <2>3. UNCHANGED verdict  BY <1>4 DEF OnModemAdded
  <2>4. Live' = Live \cup born /\ Unborn' \subseteq Unborn  BY <2>1 DEF Bears
  <2>5. QED  BY <2>1, <2>2, <2>3, <2>4 DEF Bears
<1>5. ASSUME NEW m \in Modem, NEW p \in Path, CloseCall(m, p) PROVE UsedAreFiled'
  <2>1. PICK k, dead : k \in Key /\ k[1] = m /\ voiceCallAt[k] # NoCall /\ Drops(dead, k)
    BY <1>5, CloseCallDrops
  <2>2. QED  BY <1>5, <2>1 DEF CloseCall, Drops, Destroy
<1>6. ASSUME NEW m \in Modem,
             \/ ModemAppears(m) \/ InterfaceBack(m) \/ InterfaceLost(m)
             \/ DeleteOfonoManager(m) \/ ModemRemoved(m) \/ ProviderDeleted(m)
      PROVE  UsedAreFiled'
  <2>1. CASE ModemAppears(m) \/ InterfaceBack(m)
    BY <2>1 DEF ModemAppears, InterfaceBack
  <2>2. CASE InterfaceLost(m)
    BY <2>2 DEF InterfaceLost
  <2>3. CASE DeleteOfonoManager(m)
    BY <2>3 DEF DeleteOfonoManager
  <2>4. CASE ModemRemoved(m)
    BY <2>4 DEF ModemRemoved
  <2>5. CASE ProviderDeleted(m)
    <3>1. \A g \in Live' : g \in Live /\ key'[g] = key[g] /\ verdict'[g] = verdict[g] /\ key[g][1] # m
      BY <2>5 DEF ProviderDeleted, Destroy
    <3>2. \A k \in Key : k[1] # m => voiceCallAt'[k] = voiceCallAt[k]
      BY <2>5 DEF ProviderDeleted
    <3>3. voiceCalls' = voiceCalls /\ Unborn' \subseteq Unborn
      BY <2>5 DEF ProviderDeleted, Destroy
    <3>4. QED  BY <3>1, <3>2, <3>3
  <2>6. QED  BY <1>6, <2>1, <2>2, <2>3, <2>4, <2>5
<1>7. ASSUME NEW h \in Handler, HandlerStep(h) PROVE UsedAreFiled'
  <2>1. ASSUME NEW emergency \in BOOLEAN, BecomesValid(h, emergency) PROVE UsedAreFiled'
    BY <2>1 DEF BecomesValid
  <2>2. CASE OnVoiceCallHandlerValidChanged(h)
    <3>1. UNCHANGED << phase, key, net >>  BY <2>2 DEF OnVoiceCallHandlerValidChanged
    <3>2. QED  BY <2>2, <3>1, Announcement, HandlerAssumption DEF Announces
  <2>3. CASE DurationTick(h) \/ Hangup(h)
    BY <2>3 DEF DurationTick, TimerEvent, Hangup
  <2>4. ASSUME NEW a \in VoiceCallFilterAction, FilterCall(h, a) PROVE UsedAreFiled'
    BY <2>4 DEF FilterCall, RunFilter, Reachable
  <2>5. QED  BY <1>7, <2>1, <2>2, <2>3, <2>4 DEF HandlerStep
<1>8. CASE Restart
  BY <1>8 DEF Restart, Destroy
<1>9. CASE \/ \E on \in BOOLEAN : SetCallFiltering(on)
           \/ DeviceLockStateChanged \/ UNCHANGED vars
  BY <1>9 DEF SetCallFiltering, DeviceLockStateChanged, vars
<1>10. QED
  BY <1>1, <1>2, <1>3, <1>4, <1>5, <1>6, <1>7, <1>8, <1>9
  DEF Next, CallStep, ModemStep, HangupServed, OfonoState

\* Between a handler's properties and its announcement nothing happens to it.
LEMMA AnnouncingIsFreshStep == ASSUME OfonoInv, [Next]_vars PROVE AnnouncingIsFresh'
<1> USE DEF netVars, providerVars, managerVars, counterVars, handlerRest, ofonoHandlerVars, Live,
            OfonoInv, OfonoTypeOK, OfonoHandlerTypeOK, AnnouncingIsFresh, AnnouncedAreFiled,
            ProvidersOwn, UsedAreFiled, Task
<1>1. ASSUME NEW k \in Key, NEW s, NewCall(k, s) PROVE AnnouncingIsFresh'
  <2>1. PICK born : Bears(born, { j \in { k } : k[1] \in ofonoManager })
    BY <1>1, NewCallBears
  <2>2. QED  BY <1>1, <2>1 DEF NewCall, Bears, Unborn
<1>2. ASSUME NEW k \in Key, NEW s \in OfonoState, CallStateChanged(k, s) PROVE AnnouncingIsFresh'
  BY <1>2 DEF CallStateChanged, Idle
<1>3. ASSUME NEW k \in Key, CallRemoved(k) PROVE AnnouncingIsFresh'
  <2>1. PICK dead : Drops(dead, k)  BY <1>3, CallRemovedDrops
  <2>2. QED  BY <1>3, <2>1 DEF CallRemoved, Idle
<1>4. ASSUME NEW m \in Modem, OnModemAdded(m) PROVE AnnouncingIsFresh'
  <2>1. PICK born : Bears(born, Present(m))  BY <1>4, ModemAddedBears
  <2>2. QED  BY <1>4, <2>1 DEF OnModemAdded, Bears, Unborn
<1>5. ASSUME NEW m \in Modem, NEW p \in Path, CloseCall(m, p) PROVE AnnouncingIsFresh'
  <2>1. PICK k, dead : k \in Key /\ k[1] = m /\ voiceCallAt[k] # NoCall /\ Drops(dead, k)
    BY <1>5, CloseCallDrops
  <2>2. QED  BY <1>5, <2>1 DEF CloseCall
<1>6. ASSUME NEW m \in Modem,
             \/ ModemAppears(m) \/ InterfaceBack(m) \/ InterfaceLost(m)
             \/ DeleteOfonoManager(m) \/ ModemRemoved(m) \/ ProviderDeleted(m)
      PROVE  AnnouncingIsFresh'
  <2>1. CASE ModemAppears(m) \/ InterfaceBack(m)
    BY <2>1 DEF ModemAppears, InterfaceBack
  <2>2. CASE InterfaceLost(m)
    BY <2>2 DEF InterfaceLost, Idle
  <2>3. CASE DeleteOfonoManager(m)
    BY <2>3 DEF DeleteOfonoManager, Idle
  <2>4. CASE ModemRemoved(m)
    BY <2>4 DEF ModemRemoved, Idle
  <2>5. CASE ProviderDeleted(m)
    BY <2>5 DEF ProviderDeleted, Idle
  <2>6. QED  BY <1>6, <2>1, <2>2, <2>3, <2>4, <2>5
<1>7. ASSUME NEW h \in Handler, HandlerStep(h) PROVE AnnouncingIsFresh'
  <2>1. ASSUME NEW emergency \in BOOLEAN, BecomesValid(h, emergency) PROVE AnnouncingIsFresh'
    <3>1. h \in Live \ valid /\ key[h] \in Key  BY <2>1 DEF BecomesValid
    <3>2. net[key[h]] \in OfonoState /\ voiceCallAt[key[h]] # h
      BY <2>1, <3>1, HandlerAssumption DEF BecomesValid
    <3>3. \A g \in Handler : task' = Task("announcing", g) => g = h
      BY <2>1 DEF BecomesValid
    <3>4. /\ h \in valid' /\ state'[h] = net[key[h]]
          /\ UNCHANGED << voiceCallAt, key, net, phase >>
      BY <2>1 DEF BecomesValid, OnValidChanged
    <3>5. isIncoming'[h] = (net[key[h]] = "incoming")
      BY <2>1 DEF BecomesValid, OnValidChanged
    <3>6. isIncoming'[h] => state'[h] = "incoming"  BY <3>4, <3>5, Zenon
    <3>7. state'[h] # "unknown" /\ net[key[h]] # "none"  BY <3>2, <3>4 DEF OfonoState
    <3>8. QED  BY <3>1, <3>2, <3>3, <3>4, <3>6, <3>7
  <2>2. CASE OnVoiceCallHandlerValidChanged(h)
    BY <2>2 DEF OnVoiceCallHandlerValidChanged, M!OnVoiceCallAdded, Idle
  <2>3. CASE DurationTick(h) \/ Hangup(h)
    BY <2>3 DEF DurationTick, TimerEvent, Hangup
  <2>4. ASSUME NEW a \in VoiceCallFilterAction, FilterCall(h, a) PROVE AnnouncingIsFresh'
    BY <2>4 DEF FilterCall
  <2>5. QED  BY <1>7, <2>1, <2>2, <2>3, <2>4 DEF HandlerStep
<1>8. CASE Restart
  BY <1>8 DEF Restart, Idle
<1>9. CASE \/ \E on \in BOOLEAN : SetCallFiltering(on)
           \/ DeviceLockStateChanged \/ UNCHANGED vars
  BY <1>9 DEF SetCallFiltering, DeviceLockStateChanged, vars
<1>10. QED
  BY <1>1, <1>2, <1>3, <1>4, <1>5, <1>6, <1>7, <1>8, <1>9
  DEF Next, CallStep, ModemStep, HangupServed, OfonoState

\* A refused call stays asked to end.
LEMMA RefusedAreAskedStep == ASSUME OfonoInv, [Next]_vars PROVE RefusedAreAsked'
<1> USE DEF netVars, providerVars, managerVars, counterVars, handlerRest, ofonoHandlerVars, Live,
            OfonoInv, OfonoTypeOK, OfonoHandlerTypeOK, RefusedAreAsked, AnnouncedAreFiled,
            ProvidersOwn, UsedAreFiled, AnnouncingIsFresh, Exists, Task
<1>1. ASSUME NEW k \in Key, NEW s, NewCall(k, s) PROVE RefusedAreAsked'
  <2>2. UNCHANGED << voiceCallAt, voiceCalls, verdict >>  BY <1>1 DEF NewCall
  <2>3. voiceCallAt[k] = NoCall  BY <1>1 DEF NewCall, Idle
  <2>4. QED  BY <1>1, <2>2, <2>3 DEF NewCall
<1>2. ASSUME NEW k \in Key, NEW s \in OfonoState, CallStateChanged(k, s) PROVE RefusedAreAsked'
  BY <1>2, OnlyCallsChange DEF CallStateChanged
<1>3. ASSUME NEW k \in Key, CallRemoved(k) PROVE RefusedAreAsked'
  <2>1. PICK dead : Drops(dead, k)  BY <1>3, CallRemovedDrops
  <2>2. QED  BY <1>3, <2>1 DEF CallRemoved, Drops, Destroy
<1>4. ASSUME NEW m \in Modem, OnModemAdded(m) PROVE RefusedAreAsked'
  BY <1>4, NewProviderHasNoCalls DEF OnModemAdded
<1>5. ASSUME NEW m \in Modem, NEW p \in Path, CloseCall(m, p) PROVE RefusedAreAsked'
  <2>1. PICK k, dead : k \in Key /\ k[1] = m /\ voiceCallAt[k] # NoCall /\ Drops(dead, k)
    BY <1>5, CloseCallDrops
  <2>2. QED  BY <1>5, <2>1 DEF CloseCall, Drops, Destroy
<1>6. ASSUME NEW m \in Modem,
             \/ ModemAppears(m) \/ InterfaceBack(m) \/ InterfaceLost(m)
             \/ DeleteOfonoManager(m) \/ ModemRemoved(m) \/ ProviderDeleted(m)
      PROVE  RefusedAreAsked'
  <2>1. CASE ModemAppears(m) \/ InterfaceBack(m)
    BY <2>1 DEF ModemAppears, InterfaceBack
  <2>2. CASE InterfaceLost(m)
    BY <2>2 DEF InterfaceLost, Vanish
  <2>3. CASE DeleteOfonoManager(m)
    BY <2>3 DEF DeleteOfonoManager
  <2>4. CASE ModemRemoved(m)
    BY <2>4 DEF ModemRemoved, Vanish
  <2>5. CASE ProviderDeleted(m)
    BY <2>5 DEF ProviderDeleted, Destroy
  <2>6. QED  BY <1>6, <2>1, <2>2, <2>3, <2>4, <2>5
<1>7. ASSUME NEW h \in Handler, HandlerStep(h) PROVE RefusedAreAsked'
  <2>1. ASSUME NEW emergency \in BOOLEAN, BecomesValid(h, emergency) PROVE RefusedAreAsked'
    BY <2>1 DEF BecomesValid
  <2>2. CASE OnVoiceCallHandlerValidChanged(h)
    <3>1. UNCHANGED << phase, key, net >>  BY <2>2 DEF OnVoiceCallHandlerValidChanged
    <3>2. QED  BY <2>2, <3>1, Announcement DEF Announces
  <2>3. CASE DurationTick(h) \/ Hangup(h)
    BY <2>3 DEF DurationTick, TimerEvent, Hangup
  <2>4. ASSUME NEW a \in VoiceCallFilterAction, FilterCall(h, a) PROVE RefusedAreAsked'
    BY <2>4 DEF FilterCall, RunFilter
  <2>5. QED  BY <1>7, <2>1, <2>2, <2>3, <2>4 DEF HandlerStep
<1>8. CASE Restart
  BY <1>8 DEF Restart
<1>9. CASE \/ \E on \in BOOLEAN : SetCallFiltering(on)
           \/ DeviceLockStateChanged \/ UNCHANGED vars
  BY <1>9 DEF SetCallFiltering, DeviceLockStateChanged, vars
<1>10. QED
  BY <1>1, <1>2, <1>3, <1>4, <1>5, <1>6, <1>7, <1>8, <1>9
  DEF Next, CallStep, ModemStep, HangupServed, OfonoState

\* The daemon starts without calls.
LEMMA InitOfonoInv == Init => OfonoInv
<1> SUFFICES ASSUME Init PROVE OfonoInv
  OBVIOUS
<1> USE DEF Init, OfonoHandlerInit
<1>1. Live = {} /\ voiceCalls = {} /\ \A x, what : what # "idle" => task # Task(what, x)
  BY DEF Live, M!ManagerInit, Idle, Task
<1>2. ProvidersOwn  BY <1>1 DEF ProvidersOwn, M!ManagerInit
<1>3. InterfacesAreServed  BY <1>1 DEF InterfacesAreServed
<1>4. OnlyLiveHaveState  BY <1>1 DEF OnlyLiveHaveState
<1>5. AnnouncedAreFiled /\ WaitingAreFiled /\ UsedAreFiled
  BY <1>1 DEF AnnouncedAreFiled, WaitingAreFiled, UsedAreFiled
<1>6. AnnouncingIsFresh  BY <1>1 DEF AnnouncingIsFresh
<1>7. RefusedAreAsked  BY DEF RefusedAreAsked
<1>8. QED  BY <1>2, <1>3, <1>4, <1>5, <1>6, <1>7, TypeInit DEF OfonoInv

\* OfonoInv is inductive.
LEMMA OfonoInvariance == Spec => []OfonoInv
<1>1. OfonoInv /\ [Next]_vars => OfonoInv'
  BY TypeStep, ProvidersOwnStep, InterfacesAreServedStep, OnlyLiveHaveStateStep,
     AnnouncedAreFiledStep, WaitingAreFiledStep, UsedAreFiledStep, AnnouncingIsFreshStep,
     RefusedAreAskedStep
  DEF OfonoInv
<1>2. QED  BY InitOfonoInv, <1>1, PTL DEF Spec

\* The hashes of the providers hold live handlers, each under its own key, and the
\* handlers not yet valid are none that clients could reach: onCallAdded, onCallRemoved
\* and onVoiceCallHandlerValidChanged keep them in step however paths are reused.
THEOREM HashesAlwaysHoldLiveHandlers == Spec => []HashesHoldLiveHandlers
<1>1. OfonoInv => HashesHoldLiveHandlers
  BY DEF OfonoInv, AnnouncedAreFiled, WaitingAreFiled, UsedAreFiled, HashesHoldLiveHandlers,
     Reachable
<1>2. QED  BY OfonoInvariance, <1>1, PTL

\* Two handlers that clients can reach never stand for the same call.
THEOREM OneHandlerPerCallAlways == Spec => []OneHandlerPerCall
<1>1. OfonoInv => OneHandlerPerCall
  BY DEF OfonoInv, UsedAreFiled, OneHandlerPerCall, Reachable
<1>2. QED  BY OfonoInvariance, <1>1, PTL

\* filter(REJECT) and the refusal under a device lock have the call hung up, and
\* the request is not forgotten before the call ends.
THEOREM RefusedCallsAreAlwaysHungUp == Spec => []RefusedCallsAreHungUp
<1>1. OfonoInv => RefusedCallsAreHungUp
  BY DEF OfonoInv, RefusedAreAsked, RefusedCallsAreHungUp
<1>2. QED  BY OfonoInvariance, <1>1, PTL

\* An announced handler never loses the ofonoManager it points to: a lost interface
\* removes the announced calls before it deletes the ofonoManager.
THEOREM AnnouncedAlwaysKeepManager == Spec => AnnouncedKeepManager
<1> DEFINE Kept == \A h \in Reachable \ staleManager : h \notin staleManager' \/ h \notin Reachable'
<1> USE DEF netVars, providerVars, managerVars, counterVars, handlerRest, ofonoHandlerVars
<1>1. ASSUME OfonoInv, [Next]_vars PROVE Kept
  <2>1. ASSUME NEW m \in Modem, DeleteOfonoManager(m) PROVE Kept
    <3>1. \A k \in Key : k[1] = m => voiceCallAt[k] = NoCall
      BY <2>1, HasCalls DEF DeleteOfonoManager
    <3>2. \A h \in Reachable : key[h][1] # m
      BY <1>1, <3>1, HandlerAssumption
      DEF Reachable, Live, OfonoInv, UsedAreFiled, ProvidersOwn
    <3>3. QED  BY <2>1, <3>2 DEF DeleteOfonoManager, Reachable
  <2>2. ASSUME NEW m \in Modem, ModemStep(m) PROVE Kept
    BY <2>1, <2>2
    DEF ModemStep, ModemAppears, OnModemAdded, OnCallAdded, CreateHandlers, InterfaceBack, InterfaceLost, CloseCall,
        OnCallRemoved, Destroy, ModemRemoved, ProviderDeleted
  <2>3. ASSUME NEW k \in Key, CallStep(k) PROVE Kept
    BY <2>3
    DEF CallStep, NewCall, OnCallAdded, CreateHandlers, CallStateChanged, HangupServed, CallRemoved,
        OnCallRemoved, Destroy
  <2>4. ASSUME NEW h \in Handler, HandlerStep(h) PROVE Kept
    BY <2>4
    DEF HandlerStep, BecomesValid, OnValidChanged, OnVoiceCallHandlerValidChanged, DurationTick,
        TimerEvent, FilterCall, Hangup
  <2>5. CASE Restart
    BY <2>5 DEF Restart, Destroy
  <2>6. CASE \/ \E on \in BOOLEAN : SetCallFiltering(on)
             \/ DeviceLockStateChanged \/ UNCHANGED vars
    BY <2>6 DEF SetCallFiltering, DeviceLockStateChanged, vars
  <2>7. QED  BY <1>1, <2>2, <2>3, <2>4, <2>5, <2>6 DEF Next
<1>2. QED  BY OfonoInvariance, <1>1, PTL DEF Spec, AnnouncedKeepManager

-----------------------------------------------------------------------------
(* Verdicts *)

HandlerState == OfonoState \cup { "unknown" }
Verdict      == VoiceCallFilterAction \cup { "none" }

\* What status() makes of the state and the verdict.
LEMMA StatusMeans ==
    ASSUME NEW s \in HandlerState, NEW a \in Verdict
    PROVE  /\ StatusFrom(s, a) \in { "IGNORED", "REJECTED" } <=>
                s \in { "incoming", "disconnected" } /\ a \in { "IGNORE", "REJECT" }
           /\ StatusFrom(s, a) = "NULL" <=> s = "unknown" \/ (s = "incoming" /\ a = "none")
           /\ StatusFrom(s, a) = "INCOMING" <=> s \in { "incoming", "disconnected" } /\ a = "CONTINUE"
           /\ StatusFrom(s, a) \in VoiceCallStatus
           /\ s = "incoming" /\ a # "none" => StatusFrom(s, a) = FilteredStatus(a)
<1>1. /\ s \in { "incoming", "waiting", "dialing", "alerting", "active", "held",
                 "disconnected", "unknown" }
      /\ a \in { "CONTINUE", "IGNORE", "REJECT", "none" }
  BY DEF HandlerState, Verdict, OfonoState, VoiceCallFilterAction
<1>2. CASE s \in { "incoming", "disconnected" } /\ a # "none"
  <2>1. StatusFrom(s, a) = FilteredStatus(a)  BY <1>2 DEF StatusFrom
  <2>2. QED  BY <1>1, <1>2, <2>1 DEF FilteredStatus, VoiceCallStatus
<1>3. CASE s \in { "incoming", "disconnected" } /\ a = "none"
  <2>1. StatusFrom(s, a) = IF s = "incoming" THEN "NULL" ELSE "DISCONNECTED"
    BY <1>3 DEF StatusFrom
  <2>2. QED  BY <1>1, <1>3, <2>1 DEF VoiceCallStatus
<1>4. CASE s \notin { "incoming", "disconnected" }
  <2>1. /\ s = "waiting"  => StatusFrom(s, a) = "WAITING"
        /\ s = "dialing"  => StatusFrom(s, a) = "DIALING"
        /\ s = "alerting" => StatusFrom(s, a) = "ALERTING"
        /\ s = "active"   => StatusFrom(s, a) = "ACTIVE"
        /\ s = "held"     => StatusFrom(s, a) = "HELD"
        /\ s = "unknown"  => StatusFrom(s, a) = "NULL"
    BY <1>4 DEF StatusFrom
  <2>2. QED  BY <1>1, <1>4, <2>1 DEF VoiceCallStatus
<1>5. QED  BY <1>2, <1>3, <1>4

\* A handler's state and verdict are known ones.
LEMMA HandlerStateType ==
    OfonoTypeOK => \A h \in Handler : state[h] \in HandlerState /\ verdict[h] \in Verdict
BY DEF OfonoTypeOK, OfonoHandlerTypeOK, HandlerState, Verdict

\* A verdict of the filter is never taken back and the call never rings afterwards: only
\* the state of the call changes, or the handler is deleted.
THEOREM VerdictIsAlwaysFinal == Spec => VerdictIsFinal
<1> DEFINE Final == \A h \in Live : StatusOf(h) \in { "IGNORED", "REJECTED" }
                      => StatusOf(h)' \notin { "INCOMING", "NULL" } \/ h \notin Live'
           \* The handler keeps its verdict, and learns no state in which it has none.
           Kept(h) == /\ verdict'[h] = verdict[h]
                      /\ state'[h] = "unknown" => state[h] = "unknown"
<1> USE DEF netVars, providerVars, managerVars, counterVars, handlerRest, ofonoHandlerVars, Live
<1>1. ASSUME OfonoInv, OfonoInv', [Next]_vars PROVE Final
  <2> SUFFICES ASSUME NEW h \in Handler, phase[h] = "live", phase'[h] = "live",
                      StatusOf(h) \in { "IGNORED", "REJECTED" }
               PROVE  StatusOf(h)' \notin { "INCOMING", "NULL" }
    OBVIOUS
  <2> USE <1>1 DEF OfonoInv
  <2>1. /\ state[h] \in HandlerState /\ verdict[h] \in Verdict
        /\ state'[h] \in HandlerState /\ verdict'[h] \in Verdict
    <3>1. OfonoTypeOK' => \A g \in Handler : state'[g] \in HandlerState /\ verdict'[g] \in Verdict
      BY DEF OfonoTypeOK, OfonoHandlerTypeOK, HandlerState, Verdict
    <3>2. QED  BY <3>1, HandlerStateType
  <2>2. state[h] # "unknown" /\ verdict[h] \in { "IGNORE", "REJECT" }
    BY <2>1, StatusMeans DEF StatusOf
  <2>3. Kept(h)
    <3>1. ASSUME NEW hs, Destroy(hs) PROVE Kept(h)
      BY <2>1, <3>1 DEF Destroy
    <3>2. ASSUME NEW k \in Key, NEW s \in OfonoState, CallStateChanged(k, s) PROVE Kept(h)
      BY <2>1, <3>2, OnlyCallsChange DEF CallStateChanged
    <3>3. ASSUME NEW k \in Key, CallStep(k) PROVE Kept(h)
      BY <2>1, <3>1, <3>2, <3>3
      DEF CallStep, NewCall, HangupServed, CallRemoved, OnCallRemoved, OfonoState
    <3>4. ASSUME NEW m \in Modem, ModemStep(m) PROVE Kept(h)
      BY <2>1, <3>1, <3>4
      DEF ModemStep, ModemAppears, OnModemAdded, InterfaceBack, InterfaceLost, CloseCall, OnCallRemoved,
          DeleteOfonoManager, ModemRemoved, ProviderDeleted
    <3>5. ASSUME NEW g \in Handler, NEW emergency \in BOOLEAN, BecomesValid(g, emergency) PROVE Kept(h)
      <4>1. net[key[g]] \in OfonoState
        BY <3>5 DEF BecomesValid, OfonoTypeOK, ProvidersOwn, Live
      <4>2. QED  BY <2>1, <3>5, <4>1 DEF BecomesValid, OnValidChanged, OfonoState
    <3>6. ASSUME NEW hs, NEW a, RunFilter(hs, a), \A g \in hs : StatusOf(g) = "NULL", UNCHANGED state
          PROVE  Kept(h)
      BY <2>1, <3>6 DEF RunFilter
    <3>7. ASSUME NEW g \in Handler, OnVoiceCallHandlerValidChanged(g) PROVE Kept(h)
      <4>1. \A f \in M!ReleasedUnfiltered({ g }) : StatusOf(f) = "NULL"
        BY DEF M!ReleasedUnfiltered, M!Admitted
      <4>2. \/ RunFilter(M!ReleasedUnfiltered({ g }), "CONTINUE")
            \/ UNCHANGED verdict
        BY <3>7 DEF OnVoiceCallHandlerValidChanged
      <4>3. UNCHANGED state  BY <3>7 DEF OnVoiceCallHandlerValidChanged
      <4>4. QED  BY <3>6, <4>1, <4>2, <4>3
    <3>8. ASSUME NEW g \in Handler, HandlerStep(g) PROVE Kept(h)
      BY <2>1, <3>5, <3>6, <3>7, <3>8
      DEF HandlerStep, DurationTick, TimerEvent, FilterCall, Hangup
    <3>9. CASE Restart
      BY <3>1, <3>9 DEF Restart
    <3>10. CASE \/ \E on \in BOOLEAN : SetCallFiltering(on)
                \/ DeviceLockStateChanged \/ UNCHANGED vars
      BY <3>10 DEF SetCallFiltering, DeviceLockStateChanged, vars
    <3>11. QED  BY <1>1, <3>3, <3>4, <3>8, <3>9, <3>10 DEF Next
  <2>4. state'[h] # "unknown" /\ verdict'[h] \in { "IGNORE", "REJECT" }  BY <2>2, <2>3
  <2>5. QED  BY <2>1, <2>4, StatusMeans DEF StatusOf
<1>2. QED  BY OfonoInvariance, <1>1, PTL DEF Spec, VerdictIsFinal

-----------------------------------------------------------------------------
(* The refinement: every step is one the manager expects of a provider, or *)
(* one that it does not see.                                               *)

Statuses == [h \in Handler |-> StatusOf(h)]
Calls    == [m \in Modem |-> CallsOf(m)]
Gone     == { h \in Handler : phase[h] = "gone" }

\* A step that leaves all this alone is a stuttering step of the manager's specification.
LEMMA Unseen ==
    ASSUME UNCHANGED << managerVars, counterVars, managerLockout, voiceCallAt, state, verdict,
                        isIncoming, isEmergency, duration >>,
           UNCHANGED Gone
    PROVE  UNCHANGED M!vars
BY DEF M!vars, M!managerVars, M!counterVars, M!handlerVars, managerVars, counterVars, Gone,
   CallsOf,
       StatusOf

\* The handlers of a provider's list are those filed under its keys.
LEMMA CallsAre ==
    ASSUME OfonoInv, NEW m \in Modem
    PROVE  CallsOf(m) = { h \in Live : key[h][1] = m /\ voiceCallAt[key[h]] = h }
<1> USE HandlerAssumption DEF OfonoInv, OfonoTypeOK, Live
<1>1. ASSUME NEW h \in CallsOf(m) PROVE h \in Live /\ key[h][1] = m /\ voiceCallAt[key[h]] = h
  <2>1. PICK p \in Path : h = voiceCallAt[<< m, p >>] /\ h # NoCall  BY <1>1 DEF CallsOf
  <2>2. QED  BY <2>1, KeysOfModem DEF AnnouncedAreFiled
<1>2. ASSUME NEW h \in Live, key[h][1] = m, voiceCallAt[key[h]] = h PROVE h \in CallsOf(m)
  <2>1. PICK p \in Path : key[h] = << m, p >>  BY <1>2 DEF ProvidersOwn, Key
  <2>2. QED  BY <1>2, <2>1 DEF CallsOf
<1>3. QED  BY <1>1, <1>2

\* The refinement's calls are exactly what the hash voiceCalls holds.
LEMMA AnnouncedAre ==
    ASSUME OfonoInv
    PROVE  /\ M!Announced = { h \in Live : voiceCallAt[key[h]] = h }
           /\ M!Unannounced = { h \in Handler : phase[h] # "gone" /\ h \notin M!Announced }
<1>1. M!Announced = UNION { CallsOf(m) : m \in Modem }  BY DEF M!Announced
<1>2. \A h \in Live : key[h][1] \in Modem  BY DEF OfonoInv, ProvidersOwn, Key
<1>3. M!Announced = { h \in Live : voiceCallAt[key[h]] = h }  BY <1>1, <1>2, CallsAre
<1>4. QED  BY <1>3 DEF M!Unannounced

\* Deleting handlers is the manager's Destroy.
LEMMA DestroyRefines ==
    ASSUME OfonoInv, NEW hs \in SUBSET Handler, Destroy(hs)
    PROVE  M!Destroy(hs)
<1>1. { h \in Handler : phase'[h] = "gone" } = Gone \cup hs
  BY DEF Destroy, Gone
<1>2. \A h \in Handler : StatusFrom(state'[h], verdict'[h])
                           = IF h \in hs THEN "NULL" ELSE StatusFrom(state[h], verdict[h])
  BY DEF Destroy, StatusFrom
<1>3. QED  BY <1>1, <1>2 DEF M!Destroy, Gone, StatusOf

\* A table of calls by key, read modem by modem.
LEMMA CallsByModem ==
    ASSUME NEW table \in [Key -> Handler \cup { NoCall }], NEW m \in Modem
    PROVE  { table[<< m, p >>] : p \in Path } \ { NoCall }
              = { h \in Handler : \E k \in Key : k[1] = m /\ table[k] = h }
<1> USE HandlerAssumption
<1>1. ASSUME NEW h \in Handler, NEW k \in Key, k[1] = m, table[k] = h
      PROVE  h \in { table[<< m, p >>] : p \in Path }
  <2>1. PICK p \in Path : k = << m, p >>  BY <1>1 DEF Key
  <2>2. QED  BY <1>1, <2>1
<1>2. \A p \in Path : << m, p >> \in Key /\ << m, p >>[1] = m  BY KeysOfModem
<1>3. QED  BY <1>1, <1>2

\* Filing a handler adds it to its modem's calls.
LEMMA CallFiled ==
    ASSUME OfonoTypeOK, NEW k \in Key, NEW h \in Handler, voiceCallAt[k] = NoCall,
           voiceCallAt' = [voiceCallAt EXCEPT ![k] = h]
    PROVE  Calls' = [Calls EXCEPT ![k[1]] = @ \cup { h }]
<1>1. /\ voiceCallAt \in [Key -> Handler \cup { NoCall }]
      /\ voiceCallAt' \in [Key -> Handler \cup { NoCall }]
  BY DEF OfonoTypeOK
<1>2. k[1] \in Modem  BY DEF Key
<1>3. ASSUME NEW m \in Modem
      PROVE  CallsOf(m)' = IF m = k[1] THEN CallsOf(m) \cup { h } ELSE CallsOf(m)
  <2>1. /\ CallsOf(m) = { g \in Handler : \E j \in Key : j[1] = m /\ voiceCallAt[j] = g }
        /\ CallsOf(m)' = { g \in Handler : \E j \in Key : j[1] = m /\ voiceCallAt'[j] = g }
    BY <1>1, CallsByModem DEF CallsOf
  <2>2. QED  BY <1>1, <2>1, HandlerAssumption
<1>4. QED  BY <1>2, <1>3 DEF Calls

\* Taking one out removes it from them.
LEMMA CallUnfiled ==
    ASSUME OfonoTypeOK, NEW k \in Key, NEW h \in Handler, voiceCallAt[k] = h,
           \A j \in Key \ { k } : voiceCallAt[j] # h,
           voiceCallAt' = [voiceCallAt EXCEPT ![k] = NoCall]
    PROVE  Calls' = [Calls EXCEPT ![k[1]] = @ \ { h }]
<1>1. /\ voiceCallAt \in [Key -> Handler \cup { NoCall }]
      /\ voiceCallAt' \in [Key -> Handler \cup { NoCall }]
  BY DEF OfonoTypeOK
<1>2. k[1] \in Modem  BY DEF Key
<1>3. ASSUME NEW m \in Modem
      PROVE  CallsOf(m)' = IF m = k[1] THEN CallsOf(m) \ { h } ELSE CallsOf(m)
  <2>1. /\ CallsOf(m) = { g \in Handler : \E j \in Key : j[1] = m /\ voiceCallAt[j] = g }
        /\ CallsOf(m)' = { g \in Handler : \E j \in Key : j[1] = m /\ voiceCallAt'[j] = g }
    BY <1>1, CallsByModem DEF CallsOf
  <2>2. QED  BY <1>1, <2>1, HandlerAssumption
<1>4. QED  BY <1>2, <1>3 DEF Calls

\* A dropped call is retracted from the manager; a handler that was never announced is
\* merely discarded.
LEMMA DropRefines ==
    ASSUME OfonoInv, NEW k \in Key, OnCallRemoved(k), UNCHANGED managerLockout
    PROVE  M!Next \/ UNCHANGED M!vars
<1>1. CASE voiceCallAt[k] = NoCall /\ invalidAt[k] = NoCall
  <2>1. Destroy({ NoCall }) /\ UNCHANGED << voiceCallAt, managerVars, counterVars >>
    BY <1>1 DEF OnCallRemoved
  <2>2. UNCHANGED << state, verdict, isIncoming, isEmergency, duration, Gone >>
    BY <2>1, HandlerAssumption DEF Destroy, Gone, OfonoInv, OfonoTypeOK, OfonoHandlerTypeOK
  <2>3. QED  BY <2>1, <2>2, Unseen
<1>2. CASE voiceCallAt[k] = NoCall /\ invalidAt[k] # NoCall
  <2>1. PICK h \in Handler : h = invalidAt[k]  BY <1>2 DEF OfonoInv, OfonoTypeOK
  <2>2. h \in M!Unannounced
    BY <1>2, <2>1, AnnouncedAre DEF OfonoInv, WaitingAreFiled, Live
  <2>3. Destroy({ h }) /\ UNCHANGED << voiceCallAt, managerVars, counterVars >>
    BY <1>2, <2>1 DEF OnCallRemoved
  <2>4. M!Destroy({ h })  BY <2>3, DestroyRefines
  <2>5. M!HandlerDiscarded(h)
    BY <2>2, <2>3, <2>4
    DEF M!HandlerDiscarded, M!managerVars, M!counterVars, managerVars, counterVars, CallsOf, Destroy
  <2>6. M!HandlerStep(h)  BY <2>5 DEF M!HandlerStep
  <2>7. QED  BY <2>6 DEF M!Next
<1>3. CASE voiceCallAt[k] # NoCall
  <2>1. PICK h \in Handler : h = voiceCallAt[k]  BY <1>3 DEF OfonoInv, OfonoTypeOK
  <2>2. /\ k[1] \in Modem /\ h \in Live /\ key[h] = k
        /\ \A j \in Key \ { k } : voiceCallAt[j] # h
    BY <1>3, <2>1, HandlerAssumption DEF OfonoInv, AnnouncedAreFiled, Key
  <2>3. h \in CallsOf(k[1])  BY <2>1, <2>2, CallsAre
  <2>4. /\ voiceCallAt' = [voiceCallAt EXCEPT ![k] = NoCall]
        /\ Destroy({ h })
        /\ IF k[1] \in providers
           THEN M!OnVoiceCallRemoved(h)
           ELSE UNCHANGED << voiceCalls, activeVoiceCall, counterVars >>
        /\ UNCHANGED << providers, isCallFiltering >>
    BY <1>3, <2>1 DEF OnCallRemoved
  <2>5. M!Destroy({ h })  BY <2>4, DestroyRefines
  <2>6. Calls' = [Calls EXCEPT ![k[1]] = @ \ { h }]
    BY <2>1, <2>2, <2>4, CallUnfiled DEF OfonoInv
  <2>7. M!ProviderRemovesCall(k[1], h)
    BY <2>2, <2>3, <2>4, <2>5, <2>6
    DEF M!ProviderRemovesCall, M!counterVars, counterVars, Destroy, Calls
  <2>8. M!ProviderStep(k[1])  BY <2>7 DEF M!ProviderStep
  <2>9. QED  BY <2>2, <2>8 DEF M!Next
<1>4. QED  BY <1>1, <1>2, <1>3

\* An announcement is an abstract one.
LEMMA AnnouncementRefines ==
    ASSUME OfonoInv, NEW h \in Handler, OnVoiceCallHandlerValidChanged(h)
    PROVE  M!Next \/ UNCHANGED M!vars
<1>1. /\ h \in Live /\ key[h] \in Key /\ voiceCallAt[key[h]] # h
      /\ isIncoming[h] => state[h] = "incoming"
  BY DEF OnVoiceCallHandlerValidChanged, OfonoInv, AnnouncingIsFresh, Task, ProvidersOwn
<1>2. PICK k \in Key : k = key[h]  BY <1>1
<1>3. k[1] \in Modem  BY DEF Key
<1>4. UNCHANGED << providers, isCallFiltering, counterVars, managerLockout, phase, state, isIncoming,
                   isEmergency, duration >>
  BY DEF OnVoiceCallHandlerValidChanged, handlerRest
<1>5. UNCHANGED Gone  BY <1>4 DEF Gone
<1>6. CASE voiceCallAt[k] # NoCall
  <2>1. UNCHANGED << voiceCallAt, voiceCalls, activeVoiceCall, verdict >>
    BY <1>2, <1>6 DEF OnVoiceCallHandlerValidChanged
  <2>2. QED  BY <1>4, <1>5, <2>1, Unseen DEF managerVars
<1>7. CASE voiceCallAt[k] = NoCall
  <2>1. /\ voiceCallAt' = [voiceCallAt EXCEPT ![k] = h]
        /\ IF k[1] \in providers
           THEN M!OnVoiceCallAdded({ h }) /\ RunFilter(M!ReleasedUnfiltered({ h }), "CONTINUE")
           ELSE UNCHANGED << voiceCalls, activeVoiceCall, verdict >>
    BY <1>2, <1>7 DEF OnVoiceCallHandlerValidChanged
  <2>2. h \in M!Unannounced  BY <1>1, AnnouncedAre DEF Live
  <2>3. Calls' = [Calls EXCEPT ![k[1]] = @ \cup { h }]
    BY <1>7, <2>1, CallFiled DEF OfonoInv
  <2>4. CASE k[1] \in providers
    <3>1. PICK released \in SUBSET Handler : released = M!ReleasedUnfiltered({ h })
      BY DEF M!ReleasedUnfiltered, M!Admitted
    <3>2. \A g \in released : g = h /\ isIncoming[h]
      BY <3>1 DEF M!ReleasedUnfiltered, M!Admitted
    <3>3. ASSUME NEW g \in released PROVE StatusFrom(state'[g], verdict'[g]) = "INCOMING"
      <4>1. state'[g] = "incoming"  BY <1>1, <1>4, <3>2
      <4>2. verdict'[g] = "CONTINUE"  BY <2>1, <2>4, <3>1 DEF RunFilter
      <4>3. QED  BY <4>1, <4>2 DEF StatusFrom, FilteredStatus
    <3>4. \A g \in Handler \ released : state'[g] = state[g] /\ verdict'[g] = verdict[g]
      BY <1>4, <2>1, <2>4, <3>1 DEF RunFilter, OfonoInv, OfonoTypeOK, OfonoHandlerTypeOK
    <3>5. M!Release(released)  BY <3>3, <3>4 DEF M!Release, StatusOf
    <3>6. M!ProviderAddsCall(k[1], h)
      BY <1>4, <1>5, <2>1, <2>2, <2>3, <2>4, <3>1, <3>5
      DEF M!ProviderAddsCall, M!counterVars, counterVars, Calls, Gone
    <3>7. QED  BY <1>3, <3>6 DEF M!Next, M!ProviderStep
  <2>5. CASE k[1] \notin providers
    <3>1. UNCHANGED Statuses  BY <1>4, <2>1, <2>5 DEF Statuses, StatusOf
    <3>2. M!ProviderAddsCall(k[1], h)
      BY <1>4, <1>5, <2>1, <2>2, <2>3, <2>5, <3>1
      DEF M!ProviderAddsCall, M!counterVars, counterVars, Calls, Gone, Statuses
    <3>3. QED  BY <1>3, <3>2 DEF M!Next, M!ProviderStep
  <2>6. QED  BY <2>4, <2>5
<1>8. QED  BY <1>6, <1>7

\* A provider that has just been created is appended without calls.
LEMMA ModemAddedRefines ==
    ASSUME OfonoInv, NEW m \in Modem, OnModemAdded(m)
    PROVE  M!Next
<1>1. CallsOf(m) = {}  BY NewProviderHasNoCalls
<1>2. PICK born : Bears(born, Present(m))  BY ModemAddedBears
<1>3. UNCHANGED Gone  BY <1>2 DEF Bears, Unborn, Gone
<1>4. UNCHANGED << voiceCallAt, isCallFiltering, counterVars, managerLockout, state, isIncoming,
                   isEmergency, verdict, duration >>
  BY DEF OnModemAdded, ofonoHandlerVars
<1>5. UNCHANGED << Calls, Statuses >>  BY <1>4 DEF Calls, CallsOf, Statuses, StatusOf
<1>6. m \notin providers /\ providers' = providers \cup { m }
  BY DEF OnModemAdded, OfonoInv, ProvidersOwn
<1>7. M!OnVoiceCallAdded({})  BY <1>1 DEF OnModemAdded
<1>8. M!Release(M!ReleasedUnfiltered({}))
  BY <1>5 DEF M!Release, M!ReleasedUnfiltered, M!Admitted, Statuses
<1>9. M!AppendProvider(m)
  BY <1>1, <1>3, <1>4, <1>5, <1>6, <1>7, <1>8
     DEF M!AppendProvider, M!counterVars, counterVars, Gone, Calls
<1>10. QED  BY <1>9 DEF M!Next, M!ProviderStep

\* M!Destroy, spelled out for sets that depend on the state.
Deleted(hs) ==
    /\ Gone' = Gone \cup hs
    /\ Statuses' = [h \in Handler |-> IF h \in hs THEN "NULL" ELSE Statuses[h]]

\* The deletion of a provider takes all its handlers along, announced or not.
LEMMA ProviderDeletedRefines ==
    ASSUME OfonoInv, NEW m \in Modem, ProviderDeleted(m)
    PROVE  M!Next
<1>1. m \notin providers
  BY DEF ProviderDeleted, OfonoInv, ProvidersOwn, InterfacesAreServed, Task
<1>2. PICK own \in SUBSET Handler : own = { h \in Live : key[h][1] = m }  BY DEF Live
<1>3. M!Destroy(own)  BY <1>2, DestroyRefines DEF ProviderDeleted
<1>4. CallsOf(m) \subseteq own  BY <1>2, CallsAre
<1>5. own \ CallsOf(m) \in SUBSET M!Unannounced
  BY <1>2, CallsAre, AnnouncedAre DEF Live
<1>6. ASSUME NEW n \in Modem PROVE CallsOf(n)' = IF n = m THEN {} ELSE CallsOf(n)
  <2>1. voiceCallAt' = [k \in Key |-> IF k[1] = m THEN NoCall ELSE voiceCallAt[k]]
    BY DEF ProviderDeleted
  <2>2. \A p \in Path : voiceCallAt'[<< n, p >>] = IF n = m THEN NoCall ELSE voiceCallAt[<< n, p >>]
    BY <2>1, KeysOfModem
  <2>3. QED  BY <2>2 DEF CallsOf
<1>7. Calls' = [Calls EXCEPT ![m] = {}]  BY <1>6 DEF Calls
<1>8. UNCHANGED << managerVars, counterVars, managerLockout, isIncoming, isEmergency, duration >>
  BY DEF ProviderDeleted, Destroy
<1>9. PICK unready : unready = own \ CallsOf(m)  OBVIOUS
<1>10. Calls[m] \cup unready = own /\ unready \in SUBSET M!Unannounced
  BY <1>4, <1>5, <1>9 DEF Calls
<1>11. \E u \in SUBSET M!Unannounced : Deleted(Calls[m] \cup u)
  <2>1. Deleted(own)  BY <1>3 DEF M!Destroy, Deleted, Gone, Statuses
  <2>2. Deleted(Calls[m] \cup unready)  BY <1>10, <2>1 DEF Deleted
  <2>3. QED  BY <1>10, <2>2
<1>12. M!ProviderDestroyed(m)
  BY <1>1, <1>7, <1>8, <1>11
  DEF M!ProviderDestroyed, M!Destroy, Deleted, Gone, Statuses, M!managerVars, M!counterVars, managerVars, counterVars, Calls
<1>13. QED  BY <1>12 DEF M!Next, M!ProviderStep

\* A crash of the daemon is an abstract crash.
LEMMA RestartRefines ==
    ASSUME OfonoInv, Restart
    PROVE  M!Next
<1>1. PICK live \in SUBSET Handler : live = Live  BY DEF Live
<1>2. Destroy(live)  BY <1>1 DEF Restart, Destroy
<1>3. M!Destroy(live)  BY <1>2, DestroyRefines
<1>4. M!Announced \subseteq live /\ live \ M!Announced \in SUBSET M!Unannounced
  BY <1>1, AnnouncedAre DEF Live
<1>5. PICK unready \in SUBSET M!Unannounced : M!Announced \cup unready = live  BY <1>4
<1>6. \E u \in SUBSET M!Unannounced : Deleted(M!Announced \cup u)
  <2>1. Deleted(live)  BY <1>3 DEF M!Destroy, Deleted, Gone, Statuses
  <2>2. Deleted(M!Announced \cup unready)  BY <1>5, <2>1 DEF Deleted
  <2>3. QED  BY <2>2
<1>7. Calls' = [m \in Modem |-> {}]
  <2>1. \A m \in Modem : CallsOf(m)' = {}  BY KeysOfModem DEF Restart, CallsOf
  <2>2. QED  BY <2>1 DEF Calls
<1>8. M!Restart
  BY <1>2, <1>6, <1>7 DEF Restart, M!Restart, M!Destroy, Deleted, Gone, Statuses,
     M!counterVars, counterVars, Destroy, Calls
<1>9. QED  BY <1>8 DEF M!Next

\* What comes and goes with modems and interfaces is a registration, a removal or
\* nothing.
LEMMA ModemStepRefines ==
    ASSUME OfonoInv, NEW m \in Modem, ModemStep(m)
    PROVE  M!Next \/ UNCHANGED M!vars
<1>1. CASE ModemAppears(m) \/ InterfaceBack(m) \/ InterfaceLost(m) \/ DeleteOfonoManager(m)
  <2>1. UNCHANGED << managerVars, counterVars, managerLockout, voiceCallAt, state, verdict,
                     isIncoming, isEmergency, duration, phase >>
    BY <1>1 DEF ModemAppears, InterfaceBack, InterfaceLost, DeleteOfonoManager, providerVars,
       ofonoHandlerVars
  <2>2. QED  BY <2>1, Unseen DEF Gone
<1>2. CASE OnModemAdded(m)
  BY <1>2, ModemAddedRefines
<1>3. ASSUME NEW p \in Path, CloseCall(m, p) PROVE M!Next \/ UNCHANGED M!vars
  <2>1. PICK k \in Key : k = << m, p >>  BY KeysOfModem
  <2>2. OnCallRemoved(k) /\ UNCHANGED managerLockout  BY <1>3, <2>1 DEF CloseCall
  <2>3. QED  BY <2>2, DropRefines
<1>4. CASE ModemRemoved(m)
  <2>1. /\ UNCHANGED << voiceCalls, activeVoiceCall, isCallFiltering, counterVars, managerLockout,
                        voiceCallAt, ofonoHandlerVars >>
        /\ providers' = providers \ { m }
    BY <1>4 DEF ModemRemoved
  <2>2. UNCHANGED << Calls, Gone, Statuses, isIncoming, isEmergency, duration >>
    BY <2>1 DEF Calls, CallsOf, Gone, Statuses, StatusOf, ofonoHandlerVars
  <2>3. CASE m \in providers
    <3>1. M!RemoveProvider(m)
      BY <2>1, <2>2, <2>3
      DEF M!RemoveProvider, M!counterVars, M!handlerVars, counterVars, Calls, Gone, Statuses
    <3>2. QED  BY <3>1 DEF M!Next, M!ProviderStep
  <2>4. CASE m \notin providers
    <3>1. UNCHANGED providers  BY <2>1, <2>4
    <3>2. QED  BY <2>1, <2>2, <3>1, Unseen DEF managerVars, ofonoHandlerVars
  <2>5. QED  BY <2>3, <2>4
<1>5. CASE ProviderDeleted(m)
  BY <1>5, ProviderDeletedRefines
<1>6. QED  BY <1>1, <1>2, <1>3, <1>4, <1>5 DEF ModemStep

\* What oFono does to a call is an abstract removal, status change or nothing.
LEMMA CallStepRefines ==
    ASSUME OfonoInv, NEW k \in Key, CallStep(k)
    PROVE  M!Next \/ UNCHANGED M!vars
<1>1. ASSUME NEW s \in OfonoState, NewCall(k, s) PROVE UNCHANGED M!vars
  <2>1. PICK born : Bears(born, { j \in { k } : k[1] \in ofonoManager })  BY <1>1, NewCallBears
  <2>2. UNCHANGED Gone  BY <2>1 DEF Bears, Unborn, Gone
  <2>3. UNCHANGED << managerVars, counterVars, managerLockout, voiceCallAt, state, verdict,
                     isIncoming, isEmergency, duration >>
    BY <1>1 DEF NewCall, ofonoHandlerVars
  <2>4. QED  BY <2>2, <2>3, Unseen
<1>2. ASSUME NEW s \in OfonoState, CallStateChanged(k, s) PROVE M!Next \/ UNCHANGED M!vars
  <2>1. /\ state' = [g \in Handler |-> IF g = voiceCallAt[k] THEN s ELSE state[g]]
        /\ UNCHANGED << managerVars, counterVars, managerLockout, voiceCallAt, phase, verdict,
                        isIncoming, isEmergency, duration >>
    BY <1>2 DEF CallStateChanged, providerVars
  <2>2. UNCHANGED << Calls, Gone >>  BY <2>1 DEF Calls, CallsOf, Gone
  <2>3. CASE voiceCallAt[k] = NoCall
    <3>1. UNCHANGED state
      BY <2>1, <2>3, HandlerAssumption DEF OfonoInv, OfonoTypeOK, OfonoHandlerTypeOK
    <3>2. QED  BY <2>1, <2>2, <3>1, Unseen
  <2>4. CASE voiceCallAt[k] # NoCall
    <3>1. PICK h \in Handler : h = voiceCallAt[k]  BY <2>4 DEF OfonoInv, OfonoTypeOK
    <3>2. h \in M!Announced  BY <2>4, <3>1, AnnouncedAre DEF OfonoInv, AnnouncedAreFiled
    <3>3. PICK status : status = StatusFrom(s, verdict[h])  OBVIOUS
    <3>4. status \in VoiceCallStatus
      BY <3>3, HandlerStateType, StatusMeans DEF HandlerState, OfonoInv
    <3>5. Statuses' = [Statuses EXCEPT ![h] = status]
      BY <2>1, <3>1, <3>3 DEF Statuses, StatusOf
    <3>6. CASE status # StatusOf(h)
      <4>1. M!StatusChanged(h, status)
        BY <2>1, <2>2, <3>2, <3>5, <3>6
        DEF M!StatusChanged, M!managerVars, M!counterVars, managerVars, counterVars, Calls, Gone, Statuses
      <4>2. M!HandlerStep(h)  BY <3>4, <4>1 DEF M!HandlerStep
      <4>3. QED  BY <4>2 DEF M!Next
    <3>7. CASE status = StatusOf(h)
      <4>1. UNCHANGED Statuses  BY <3>5, <3>7 DEF Statuses
      <4>2. UNCHANGED M!vars
        BY <2>1, <2>2, <4>1
        DEF M!vars, M!managerVars, M!counterVars, M!handlerVars, managerVars, counterVars, Calls, Gone,
            Statuses
      <4>3. QED  BY <4>2
    <3>8. QED  BY <3>6, <3>7
  <2>5. QED  BY <2>3, <2>4
<1>3. CASE HangupServed(k)
  BY <1>2, <1>3 DEF HangupServed, OfonoState
<1>4. CASE CallRemoved(k)
  <2>1. CASE k[1] \in ofonoManager
    BY <1>4, <2>1, DropRefines DEF CallRemoved
  <2>2. CASE k[1] \notin ofonoManager
    <3>1. UNCHANGED << managerVars, counterVars, managerLockout, voiceCallAt, ofonoHandlerVars >>
      BY <1>4, <2>2 DEF CallRemoved
    <3>2. QED  BY <3>1, Unseen DEF ofonoHandlerVars, Gone
  <2>3. QED  BY <2>1, <2>2
<1>5. QED  BY <1>1, <1>2, <1>3, <1>4 DEF CallStep

\* Properties that arrive prepare a handler without the manager noticing.
LEMMA BecomesValidRefines ==
    ASSUME OfonoInv, OfonoTypeOK', NEW h \in Handler, NEW emergency \in BOOLEAN,
           BecomesValid(h, emergency)
    PROVE  M!Next
<1> USE DEF BecomesValid, OnValidChanged
<1>1. PICK k \in Key : k = key[h]  BY DEF OfonoInv, OfonoTypeOK, ProvidersOwn
<1>2. h \in M!Unannounced
  BY AnnouncedAre, HandlerAssumption
     DEF OfonoInv, OfonoTypeOK, AnnouncedAreFiled, ProvidersOwn, Live
<1>3. net[k] \in OfonoState  BY <1>1 DEF OfonoInv, OfonoTypeOK
<1>4. PICK s : s = StatusFrom(net[k], verdict[h])  OBVIOUS
<1>5. s \in VoiceCallStatus
  BY <1>3, <1>4, HandlerStateType, StatusMeans DEF HandlerState, OfonoInv
<1>6. /\ state' = [state EXCEPT ![h] = net[k]]
      /\ isIncoming' = [isIncoming EXCEPT ![h] = (net[k] = "incoming")]
      /\ isEmergency' = [isEmergency EXCEPT ![h] = emergency]
      /\ UNCHANGED << managerVars, counterVars, managerLockout, voiceCallAt, phase, verdict, duration >>
  BY <1>1 DEF providerVars
<1>7. Statuses' = [Statuses EXCEPT ![h] = s]
  BY <1>4, <1>6 DEF Statuses, StatusOf, OfonoInv, OfonoTypeOK, OfonoHandlerTypeOK
<1>8. UNCHANGED << Calls, Gone >>  BY <1>6 DEF Calls, CallsOf, Gone
<1>9. PICK incoming \in BOOLEAN : incoming = (net[k] = "incoming")  OBVIOUS
<1>10. M!HandlerPrepared(h, incoming, emergency, s)
  BY <1>2, <1>6, <1>7, <1>8, <1>9
  DEF M!HandlerPrepared, M!managerVars, M!counterVars, managerVars, counterVars, Calls, Gone, Statuses
<1>11. M!HandlerStep(h)  BY <1>5, <1>10 DEF M!HandlerStep
<1>12. QED  BY <1>11 DEF M!Next

\* Every step of a handler is one the manager may see.
LEMMA HandlerStepRefines ==
    ASSUME OfonoInv, OfonoTypeOK', NEW h \in Handler, HandlerStep(h)
    PROVE  M!Next \/ UNCHANGED M!vars
<1>1. ASSUME NEW emergency \in BOOLEAN, BecomesValid(h, emergency) PROVE M!Next
  BY <1>1, BecomesValidRefines
<1>2. CASE OnVoiceCallHandlerValidChanged(h)
  BY <1>2, AnnouncementRefines
<1>3. CASE DurationTick(h)
  <2>1. /\ h \in Live /\ voiceCallAt[key[h]] = h /\ IsOngoing(StatusOf(h))
        /\ duration[h] < MaxDuration
        /\ duration' = [duration EXCEPT ![h] = @ + 1]
        /\ UNCHANGED << managerVars, counterVars, managerLockout, voiceCallAt, phase, state, verdict,
                        isIncoming, isEmergency >>
    BY <1>3 DEF DurationTick, TimerEvent, providerVars
  <2>2. PICK seconds : seconds = duration[h] + 1  OBVIOUS
  <2>3. seconds \in 1 .. MaxDuration
    BY <2>1, <2>2, HandlerAssumption DEF OfonoInv, OfonoTypeOK, OfonoHandlerTypeOK
  <2>4. h \in M!Announced  BY <2>1, AnnouncedAre
  <2>5. UNCHANGED << Calls, Gone, Statuses >>
    BY <2>1 DEF Calls, CallsOf, Gone, Statuses, StatusOf
  <2>6. duration' = [duration EXCEPT ![h] = seconds]  BY <2>1, <2>2
  <2>7. M!DurationChanged(h, seconds)
    BY <2>1, <2>4, <2>5, <2>6
    DEF M!DurationChanged, M!managerVars, M!counterVars, managerVars, counterVars, Calls, Gone, Statuses,
        IsOngoing, M!IsOngoing
  <2>8. M!HandlerStep(h)  BY <2>3, <2>7 DEF M!HandlerStep
  <2>9. QED  BY <2>8 DEF M!Next
<1>4. ASSUME NEW a \in VoiceCallFilterAction, FilterCall(h, a) PROVE M!Next
  <2>1. /\ h \in voiceCalls \cap Live /\ StatusOf(h) = "NULL"
        /\ verdict' = [g \in Handler |-> IF g \in { h } THEN a ELSE verdict[g]]
        /\ UNCHANGED << managerVars, counterVars, managerLockout, voiceCallAt, phase, state,
                        isIncoming, isEmergency, duration >>
    BY <1>4 DEF FilterCall, Reachable, RunFilter, providerVars, handlerRest
  <2>2. voiceCallAt[key[h]] = h /\ key[h] \in Key
    BY <2>1 DEF OfonoInv, UsedAreFiled, ProvidersOwn
  <2>3. h \in M!Announced  BY <2>1, <2>2, AnnouncedAre
  <2>4. state[h] # "unknown"
    BY <2>2, HandlerAssumption DEF OfonoInv, AnnouncedAreFiled
  <2>5. state[h] = "incoming"
    BY <2>1, <2>4, HandlerStateType, StatusMeans DEF StatusOf, OfonoInv
  <2>6. StatusFrom("incoming", a) = FilteredStatus(a)
    BY DEF StatusFrom, VoiceCallFilterAction
  <2>7. Statuses' = [Statuses EXCEPT ![h] = FilteredStatus(a)]
    BY <2>1, <2>5, <2>6 DEF Statuses, StatusOf
  <2>8. UNCHANGED << Calls, Gone >>  BY <2>1 DEF Calls, CallsOf, Gone
  <2>9. M!Filter(h, a)
    BY <2>1, <2>3, <2>7, <2>8
    DEF M!Filter, M!FilteredStatus, FilteredStatus, M!managerVars, M!counterVars, managerVars,
        counterVars, Calls, Gone, Statuses
  <2>10. M!HandlerStep(h)
    BY <2>9 DEF M!HandlerStep, M!VoiceCallFilterAction, VoiceCallFilterAction
  <2>11. QED  BY <2>10 DEF M!Next
<1>5. CASE Hangup(h)
  <2>1. UNCHANGED << managerVars, counterVars, managerLockout, voiceCallAt, ofonoHandlerVars >>
    BY <1>5 DEF Hangup, providerVars
  <2>2. QED  BY <2>1, Unseen DEF ofonoHandlerVars, Gone
<1>6. QED  BY <1>1, <1>2, <1>3, <1>4, <1>5 DEF HandlerStep

\* Filters and the device lock are the manager's own.
LEMMA OthersRefine ==
    ASSUME OfonoInv,
           \/ \E on \in BOOLEAN : SetCallFiltering(on)
           \/ DeviceLockStateChanged \/ UNCHANGED vars
    PROVE  M!Next \/ UNCHANGED M!vars
<1>1. UNCHANGED << Calls, Gone, Statuses, isIncoming, isEmergency, duration >>
  BY DEF SetCallFiltering, DeviceLockStateChanged, vars, ofonoHandlerVars, providerVars,
     Calls, CallsOf,
         Gone, Statuses, StatusOf
<1>2. ASSUME NEW on \in BOOLEAN, SetCallFiltering(on) PROVE M!Next
  <2>1. M!SetCallFiltering(on)
    BY <1>1, <1>2
    DEF SetCallFiltering, M!SetCallFiltering, M!counterVars, M!handlerVars, counterVars, Calls, Gone, Statuses
  <2>2. QED  BY <2>1 DEF M!Next
<1>3. CASE DeviceLockStateChanged
  <2>1. M!DeviceLockStateChanged
    BY <1>1, <1>3
    DEF DeviceLockStateChanged, M!DeviceLockStateChanged, M!managerVars, M!counterVars, M!handlerVars,
        managerVars, counterVars, Calls, Gone, Statuses
  <2>2. QED  BY <2>1 DEF M!Next
<1>4. CASE UNCHANGED vars
  BY <1>4, Unseen DEF vars, providerVars, ofonoHandlerVars, Gone
<1>5. QED  BY <1>2, <1>3, <1>4

\* The initial states are initial states of the manager.
LEMMA InitRefines == Init => M!Init
<1> SUFFICES ASSUME Init PROVE M!Init
  OBVIOUS
<1>1. M!ManagerInit /\ received = 0 /\ dialled = 0 /\ managerLockout = FALSE
  BY DEF Init
<1>2. Gone = {} /\ \A m \in Modem : CallsOf(m) = {}
  BY KeysOfModem DEF Init, OfonoHandlerInit, Gone, CallsOf
<1>3. \A h \in Handler : StatusOf(h) = "NULL"
  BY DEF Init, OfonoHandlerInit, StatusOf, StatusFrom
<1>4. /\ isIncoming = [h \in Handler |-> FALSE] /\ isEmergency = [h \in Handler |-> FALSE]
      /\ duration = [h \in Handler |-> 0]
  BY DEF Init, OfonoHandlerInit
<1>5. QED  BY <1>1, <1>2, <1>3, <1>4 DEF M!Init, Gone

\* The oFono provider is a provider as the manager expects one: all that it and its
\* handlers do, late properties, lost interfaces and restarts included, is what
\* VoiceCallManager allows any provider to do.
THEOREM OfonoImplementsManager == Spec => ImplementsManager
<1>1. OfonoInv /\ OfonoInv' /\ [Next]_vars => [M!Next]_(M!vars)
  BY CallStepRefines, ModemStepRefines, HandlerStepRefines, OthersRefine, RestartRefines
  DEF Next, OfonoInv
<1>2. QED  BY InitRefines, OfonoInvariance, <1>1, PTL DEF Spec, ImplementsManager, M!Spec
=============================================================================
