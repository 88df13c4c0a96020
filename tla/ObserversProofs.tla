--------------------------- MODULE ObserversProofs ---------------------------
(***************************************************************************)
(* What the plugins guarantee for any providers and any finite set of      *)
(* handlers, however often calls are announced again: the manager does     *)
(* nothing it would not do without them, the ringtone plays for a call     *)
(* that rings, the calls are counted back to zero, /calls/active is the    *)
(* active call, no call that was dealt with is recorded as missed, and,    *)
(* without a device lock, the display shows the calls there are.           *)
(***************************************************************************)
EXTENDS Observers, VoiceCallManagerProofs, FiniteSetTheorems

allVars == << vars, observerVars >>

ObserverTypes ==
    /\ untold \subseteq Handler
    /\ announced \in [Handler -> Nat]
    /\ event \in [Handler -> Event]

\* The plugins are connected to calls that some provider lists.
ConnectedOwned ==
    /\ \A h \in Handler : announced[h] > 0 => h \in Announced
    /\ \A h \in untold : announced[h] > 0

\* The call NGF looks after rings, and without one there is no ringtone.
CurrentRings ==
    /\ currentCall # NoCall =>
         currentCall \in Handler /\ announced[currentCall] > 0 /\ status[currentCall] = "INCOMING"
    /\ ringing => currentCall # NoCall

\* The event of a settled call says so, unless the call was announced anew; missed
\* calls are over.
Recorded ==
    /\ settled \subseteq Handler
    /\ \A h \in settled :
         /\ announced[h] > 0
         /\ announced[h] = 1 =>
              ~event[h].inbound \/ event[h].status # "Received" \/ event[h].stored
    /\ missed \subseteq gone

ObserversInv ==
    /\ IInv
    /\ LiveOwned /\ TableOwned
    /\ ObserverTypes /\ ConnectedOwned
    /\ CurrentRings
    /\ ActivePathIsActive
    /\ Recorded

-----------------------------------------------------------------------------
(* The manager behind the plugins *)

\* Whatever the plugins do, the manager takes one of its own steps or none.
LEMMA ManagerStep == ASSUME ObserversNext PROVE [Next]_vars
<1>1. ASSUME NEW p \in Provider, ObservedProviderStep(p) PROVE Next
  BY <1>1 DEF ObservedProviderStep, ProviderAppended, ProviderRemoved, CallsDestroyed, CallAdded,
              CallRemoved, Next, ProviderStep
<1>2. ASSUME NEW h \in Handler, ObservedHandlerStep(h) PROVE Next
  <2>1. "NULL" \in Status /\ FALSE \in BOOLEAN  BY StatusAssumption
  <2>2. HandlerStep(h)  BY <1>2, <2>1 DEF ObservedHandlerStep, HandlerStep
  <2>3. QED  BY <2>2 DEF Next
<1>3. ASSUME NEW h \in Handler, Hear(h) PROVE [Next]_vars
  <2>1. CASE UNCHANGED vars  BY <2>1
  <2>2. CASE FilterPluginJudges(h)
    BY <2>2 DEF FilterPluginJudges, Next, HandlerStep
  <2>3. QED  BY <1>3, <2>1, <2>2 DEF Hear
<1>4. QED
  BY <1>1, <1>2, <1>3 DEF ObserversNext, DaemonRestarted, StoreTimer, PlayRingtone, Next

LEMMA IInvStep == ASSUME IInv, [ObserversNext]_allVars PROVE IInv'
<1>1. [Next]_vars
  <2>1. CASE UNCHANGED allVars  BY <2>1 DEF allVars
  <2>2. QED  BY <2>1, ManagerStep
<1>2. QED
  BY <1>1, TypeStep, ActiveIsKnownStep, OneOwnerStep, RegisteredCallsKnownStep DEF IInv

\* The plugins take no part in what happens to the calls: with them the manager is
\* still VoiceCallManager.
THEOREM ObserversLeaveManagerAlone == ObserversSpec => Spec
<1>1. ObserversInit => Init  BY DEF ObserversInit
<1>2. [ObserversNext]_allVars => [Next]_vars
  BY ManagerStep DEF allVars
<1>3. QED  BY <1>1, <1>2, PTL DEF ObserversSpec, Spec, allVars

-----------------------------------------------------------------------------
(* The plugins, conjunct by conjunct *)

\* NewVoiceCall and StatusStored keep an event an event.
LEMMA EventType ==
    ASSUME NEW e \in Event, NEW s
    PROVE  StatusStored(e, s) \in Event /\ StoreCall(e) \in Event /\ NoEvent \in Event
BY DEF StatusStored, StoreCall, NoEvent, Event, IncomingStatus

LEMMA ObserverTypesStep ==
    ASSUME ObserversInv, [ObserversNext]_allVars
    PROVE  ObserverTypes'
<1> USE DEF historyVars, mceVars, ngfVars, observerVars, ObserverTypes
<1>a. ObserverTypes /\ TypeOK  BY DEF ObserversInv, IInv
<1>b. NoEvent \in Event  BY DEF NoEvent, Event, IncomingStatus
<1>1. ASSUME NEW hs \in SUBSET Handler, Announce(hs) PROVE ObserverTypes'
  <2>1. announced' \in [Handler -> Nat]  BY <1>1, <1>a DEF Announce
  <2>2. event' \in [Handler -> Event]
    BY <1>1, <1>a DEF Announce, NewVoiceCall, Event, IncomingStatus, TypeOK
  <2>3. QED  BY <1>1, <2>1, <2>2 DEF Announce
<1>2. ASSUME NEW p \in Provider, NEW h \in Handler, CallAdded(p, h) PROVE ObserverTypes'
  BY <1>2, <1>1 DEF CallAdded, Admitted
<1>3. ASSUME NEW p \in Provider, ProviderAppended(p) PROVE ObserverTypes'
  <2>1. Admitted(calls[p]) \subseteq Handler  BY <1>a DEF Admitted, TypeOK
  <2>2. QED  BY <1>3, <1>1, <2>1 DEF ProviderAppended
<1>4. ASSUME NEW hs, Disconnected(hs) PROVE untold' = untold /\ announced' \in [Handler -> Nat]
  BY <1>4, <1>a DEF Disconnected
<1>5. ASSUME NEW p \in Provider, NEW h \in Handler, CallRemoved(p, h) PROVE ObserverTypes'
  BY <1>5, <1>4, <1>a, <1>b DEF CallRemoved, VoiceCallEnded
<1>6. ASSUME NEW p \in Provider, CallsDestroyed(p) PROVE ObserverTypes'
  BY <1>6, <1>4, <1>a DEF CallsDestroyed
<1>7. ASSUME NEW h \in Handler, NEW s, StatusSeen(h, s) PROVE event' \in [Handler -> Event]
  BY <1>7, <1>a, EventType DEF StatusSeen
<1>8. ASSUME NEW h \in Handler, StatusSignalled(h) PROVE ObserverTypes'
  <2>1. CASE h \in Connected  BY <1>7, <1>8, <1>a, <2>1 DEF StatusSignalled
  <2>2. CASE h \notin Connected  BY <1>8, <1>a, <2>2 DEF StatusSignalled
  <2>3. QED  BY <2>1, <2>2
<1>9. ASSUME NEW h \in Handler, Hear(h) PROVE ObserverTypes'
  <2>1. event' \in [Handler -> Event]
    BY <1>7, <1>9, <1>a DEF Hear, FilterPluginJudges
  <2>2. QED  BY <1>9, <1>a, <2>1 DEF Hear
<1>10. CASE DaemonRestarted
  BY <1>10, <1>b DEF DaemonRestarted
<1>11. CASE StoreTimer
  BY <1>11, <1>a, <1>b, EventType DEF StoreTimer
<1>12. CASE PlayRingtone
  BY <1>12, <1>a DEF PlayRingtone
<1>13. CASE UNCHANGED observerVars
  BY <1>13, <1>a
<1>14. QED
  BY <1>2, <1>3, <1>5, <1>6, <1>8, <1>9, <1>10, <1>11, <1>12, <1>13
     DEF ObserversNext, ObservedProviderStep, ObservedHandlerStep, ProviderRemoved, allVars

LEMMA ConnectedOwnedStep ==
    ASSUME ObserversInv, [ObserversNext]_allVars
    PROVE  ConnectedOwned'
<1> USE DEF managerVars, counterVars, handlerVars, historyVars, mceVars, ngfVars, observerVars,
            ConnectedOwned, Announced, ObserverTypes, TypeOK
<1>a. ObserverTypes /\ TypeOK /\ ConnectedOwned /\ LiveOwned /\ OneOwner  BY DEF ObserversInv, IInv
<1>1. ASSUME NEW p \in Provider, NEW h \in Handler, CallAdded(p, h) PROVE ConnectedOwned'
  BY <1>1, <1>a DEF CallAdded, ProviderAddsCall, Announce, Admitted
<1>2. ASSUME NEW p \in Provider, ProviderAppended(p) PROVE ConnectedOwned'
  BY <1>2, <1>a DEF ProviderAppended, AppendProvider, Announce, Admitted
<1>3. ASSUME NEW p \in Provider, NEW h \in Handler, CallRemoved(p, h), untold = {}
      PROVE  ConnectedOwned'
  BY <1>3, <1>a DEF CallRemoved, ProviderRemovesCall, Disconnected
<1>4. ASSUME NEW p \in Provider, CallsDestroyed(p), untold = {} PROVE ConnectedOwned'
  BY <1>4, <1>a DEF CallsDestroyed, ProviderDestroyed, Destroy, Disconnected, LiveOwned, OneOwner
<1>5. ASSUME NEW p \in Provider, ProviderRemoved(p) PROVE ConnectedOwned'
  BY <1>5, <1>a DEF ProviderRemoved, RemoveProvider
<1>6. ASSUME NEW h \in Handler, ObservedHandlerStep(h) PROVE ConnectedOwned'
  BY <1>6, <1>a
     DEF ObservedHandlerStep, HandlerPrepared, HandlerDiscarded, StatusChanged, Filter, StatusSignalled
<1>7. ASSUME NEW h \in Handler, Hear(h) PROVE ConnectedOwned'
  BY <1>7, <1>a DEF Hear, FilterPluginJudges, Filter, vars
<1>8. CASE DaemonRestarted
  BY <1>8 DEF DaemonRestarted
<1>9. CASE StoreTimer \/ PlayRingtone \/ UNCHANGED allVars
           \/ ((\E on \in BOOLEAN : SetCallFiltering(on)) /\ UNCHANGED observerVars)
  BY <1>9, <1>a DEF StoreTimer, PlayRingtone, SetCallFiltering, allVars, vars
<1>10. QED
  BY <1>1, <1>2, <1>3, <1>4, <1>5, <1>6, <1>7, <1>8, <1>9 DEF ObserversNext, ObservedProviderStep

LEMMA CurrentRingsStep ==
    ASSUME ObserversInv, [ObserversNext]_allVars
    PROVE  CurrentRings'
<1> USE DEF managerVars, counterVars, handlerVars, historyVars, mceVars, ngfVars, observerVars,
            CurrentRings, ConnectedOwned, Announced, ObserverTypes, TypeOK
<1>a. /\ ObserverTypes /\ TypeOK /\ ConnectedOwned /\ LiveOwned /\ OneOwner /\ CurrentRings
      /\ NoCall \notin Handler
  BY NoCallAssumption DEF ObserversInv, IInv
<1>1. ASSUME NEW p \in Provider, NEW h \in Handler, CallAdded(p, h) PROVE CurrentRings'
  BY <1>1, <1>a DEF CallAdded, ProviderAddsCall, Announce, Admitted, Release, ReleasedUnfiltered
<1>2. ASSUME NEW p \in Provider, ProviderAppended(p) PROVE CurrentRings'
  BY <1>2, <1>a DEF ProviderAppended, AppendProvider, Announce, Release, ReleasedUnfiltered
<1>3. ASSUME NEW p \in Provider, NEW h \in Handler, CallRemoved(p, h) PROVE CurrentRings'
  BY <1>3, <1>a
     DEF CallRemoved, ProviderRemovesCall, Destroy, Disconnected, OnVoiceCallsDestroyed, StopRingtone
<1>4. ASSUME NEW p \in Provider, CallsDestroyed(p) PROVE CurrentRings'
  <2>1. PICK unready \in SUBSET Unannounced : Destroy(calls[p] \cup unready)
    BY <1>4 DEF CallsDestroyed, ProviderDestroyed
  <2>2. currentCall # NoCall /\ currentCall \notin gone' \ gone =>
          currentCall \notin calls[p] \cup unready
    BY <1>a, <2>1 DEF Destroy, LiveOwned, Unannounced
  <2>3. QED
    BY <1>4, <1>a, <2>1, <2>2
       DEF CallsDestroyed, Destroy, Disconnected, OnVoiceCallsDestroyed, StopRingtone
<1>5. ASSUME NEW p \in Provider, ProviderRemoved(p) PROVE CurrentRings'
  BY <1>5, <1>a DEF ProviderRemoved, RemoveProvider
<1>6. ASSUME NEW h \in Handler, announced[h] > 0, announced' = announced,
             status' \in [Handler -> Status], \A g \in Handler \ { h } : status'[g] = status[g],
             Rung(h, status'[h])
      PROVE  CurrentRings'
  <2>1. CASE currentCall = h
    BY <1>6, <1>a, <2>1 DEF Rung, StopRingtone
  <2>2. CASE currentCall # h /\ currentCall # NoCall
    BY <1>6, <1>a, <2>2 DEF Rung
  <2>3. CASE currentCall = NoCall
    BY <1>6, <1>a, <2>3 DEF Rung
  <2>4. QED  BY <2>1, <2>2, <2>3
<1>7. ASSUME NEW h \in Handler, ObservedHandlerStep(h) PROVE CurrentRings'
  <2>1. CASE (\E i \in BOOLEAN : HandlerPrepared(h, i, FALSE, "NULL")) /\ UNCHANGED observerVars
    BY <1>a, <2>1 DEF HandlerPrepared, Unannounced
  <2>2. CASE HandlerDiscarded(h) /\ UNCHANGED observerVars
    BY <1>a, <2>2 DEF HandlerDiscarded, Destroy, Unannounced
  <2>3. CASE /\ (\E s \in Status : StatusChanged(h, s)) \/ \E a \in VoiceCallFilterAction : Filter(h, a)
             /\ StatusSignalled(h)
    <3>1. /\ status' \in [Handler -> Status]
          /\ \A g \in Handler \ { h } : status'[g] = status[g]
          /\ announced' = announced
      BY <1>a, <2>3, FilteredStatusType DEF StatusChanged, Filter, StatusSignalled
    <3>2. CASE h \in Connected
      BY <1>6, <2>3, <3>1, <3>2 DEF StatusSignalled, Connected
    <3>3. CASE h \notin Connected
      BY <1>a, <2>3, <3>1, <3>3 DEF StatusSignalled, Connected
    <3>4. QED  BY <3>2, <3>3
  <2>4. QED  BY <1>7, <2>1, <2>2, <2>3 DEF ObservedHandlerStep
<1>8. ASSUME NEW h \in Handler, Hear(h) PROVE CurrentRings'
  <2>1. /\ status' \in [Handler -> Status]
        /\ \A g \in Handler \ { h } : status'[g] = status[g]
        /\ announced' = announced /\ announced[h] > 0
    BY <1>8, <1>a, FilteredStatusType DEF Hear, FilterPluginJudges, Filter, vars
  <2>2. CASE status'[h] = "NULL"
    <3>1. status'[h] = status[h]
      BY <1>8, <1>a, <2>2 DEF Hear, FilterPluginJudges, Filter, FilteredStatus, vars,
                              VoiceCallFilterAction
    <3>2. QED  BY <1>8, <1>a, <2>1, <2>2, <3>1 DEF Hear
  <2>3. CASE status'[h] # "NULL"
    BY <1>6, <1>8, <2>1, <2>3 DEF Hear
  <2>4. QED  BY <2>2, <2>3
<1>9. CASE DaemonRestarted
  BY <1>9 DEF DaemonRestarted, StopRingtone
<1>10. CASE StoreTimer \/ PlayRingtone \/ UNCHANGED allVars
           \/ ((\E on \in BOOLEAN : SetCallFiltering(on)) /\ UNCHANGED observerVars)
  BY <1>10, <1>a DEF StoreTimer, PlayRingtone, SetCallFiltering, allVars, vars
<1>11. QED
  BY <1>1, <1>2, <1>3, <1>4, <1>5, <1>7, <1>8, <1>9, <1>10 DEF ObserversNext, ObservedProviderStep

LEMMA ActivePathStep ==
    ASSUME ObserversInv, [ObserversNext]_allVars
    PROVE  ActivePathIsActive'
<1> USE DEF managerVars, counterVars, handlerVars, historyVars, mceVars, ngfVars, observerVars,
            ActivePathIsActive, TypeOK, Destroy
<1>a. /\ TypeOK /\ LiveOwned /\ TableOwned /\ ActiveIsKnown /\ ActivePathIsActive
      /\ NoCall \notin Handler
  BY NoCallAssumption DEF ObserversInv, IInv
<1>b. activeVoiceCall \notin Unannounced
  BY <1>a DEF ActiveIsKnown, TableOwned, Unannounced
<1>1. ASSUME NEW hs \in SUBSET Handler, hs \cap gone = {}, OnVoiceCallAdded(hs), gone' = gone,
             ActivePathFollows
      PROVE  ActivePathIsActive'
  <2>1. Admitted(hs) \subseteq hs  BY DEF Admitted
  <2>2. CASE activeVoiceCall' = activeVoiceCall
    BY <1>a, <1>1, <2>2 DEF ActivePathFollows
  <2>3. CASE activeVoiceCall' # activeVoiceCall
    <3>1. activeVoiceCall = NoCall /\ activeVoiceCall' \in hs
      BY <1>1, <2>1, <2>3 DEF OnVoiceCallAdded
    <3>2. activePath = NoCall /\ activeVoiceCall' # NoCall
      BY <1>a, <3>1
    <3>3. QED  BY <1>a, <1>1, <2>3, <3>1, <3>2 DEF ActivePathFollows
  <2>4. QED  BY <2>2, <2>3
<1>2. ASSUME ActivePathFollows, gone \subseteq gone', gone' \subseteq Handler,
             activeVoiceCall' \in { activeVoiceCall, NoCall }
      PROVE  ActivePathIsActive'
  BY <1>a, <1>2 DEF ActivePathFollows
<1>3. ASSUME NEW p \in Provider, NEW h \in Handler, CallAdded(p, h) PROVE ActivePathIsActive'
  <2>1. h \notin gone /\ gone' = gone /\ ActivePathFollows
    BY <1>3 DEF CallAdded, ProviderAddsCall, Unannounced, Announce
  <2>2. CASE p \in providers
    BY <1>1, <1>3, <2>1, <2>2 DEF CallAdded, ProviderAddsCall
  <2>3. CASE p \notin providers
    BY <1>2, <1>3, <1>a, <2>1, <2>3 DEF CallAdded, ProviderAddsCall
  <2>4. QED  BY <2>2, <2>3
<1>4. ASSUME NEW p \in Provider, ProviderAppended(p) PROVE ActivePathIsActive'
  <2>1. calls[p] \subseteq Handler /\ calls[p] \cap gone = {}
    BY <1>a DEF LiveOwned
  <2>2. QED  BY <1>1, <1>4, <2>1 DEF ProviderAppended, AppendProvider, Announce
<1>5. ASSUME NEW p \in Provider, NEW h \in Handler, CallRemoved(p, h) PROVE ActivePathIsActive'
  <2>1. activeVoiceCall' \in { activeVoiceCall, NoCall }
    BY <1>5 DEF CallRemoved, ProviderRemovesCall, OnVoiceCallRemoved, ForgetActive
  <2>2. QED  BY <1>2, <1>5, <1>a, <2>1 DEF CallRemoved, ProviderRemovesCall, Disconnected
<1>6. ASSUME NEW p \in Provider, CallsDestroyed(p) PROVE ActivePathIsActive'
  BY <1>2, <1>6, <1>a DEF CallsDestroyed, ProviderDestroyed, Disconnected, Unannounced
<1>7. ASSUME NEW p \in Provider, ProviderRemoved(p) PROVE ActivePathIsActive'
  BY <1>7, <1>a DEF ProviderRemoved, RemoveProvider
<1>8. ASSUME NEW h \in Handler, ObservedHandlerStep(h) PROVE ActivePathIsActive'
  BY <1>8, <1>a, <1>b
     DEF ObservedHandlerStep, HandlerPrepared, HandlerDiscarded, StatusChanged, Filter, StatusSignalled
<1>9. ASSUME NEW h \in Handler, Hear(h) PROVE ActivePathIsActive'
  BY <1>9, <1>a DEF Hear, FilterPluginJudges, Filter, vars
<1>10. CASE DaemonRestarted
  BY <1>10, <1>a DEF DaemonRestarted, Restart
<1>11. CASE StoreTimer \/ PlayRingtone \/ UNCHANGED allVars
           \/ ((\E on \in BOOLEAN : SetCallFiltering(on)) /\ UNCHANGED observerVars)
  BY <1>11, <1>a DEF StoreTimer, PlayRingtone, SetCallFiltering, allVars, vars
<1>12. QED
  BY <1>3, <1>4, <1>5, <1>6, <1>7, <1>8, <1>9, <1>10, <1>11 DEF ObserversNext, ObservedProviderStep

\* The event of a call that was dealt with.
Judged(e) == ~e.inbound \/ e.status # "Received" \/ e.stored

\* No later status undoes what one has settled.
LEMMA StatusSettles ==
    ASSUME NEW e \in Event, NEW s
    PROVE  /\ Judged(e) => Judged(StatusStored(e, s))
           /\ s \in { "ACTIVE", "IGNORED", "REJECTED" } => Judged(StatusStored(e, s))
           /\ Judged(e) => Judged(StoreCall(e))
           /\ Judged(NoEvent)
BY DEF Judged, StatusStored, StoreCall, NoEvent, Event, IncomingStatus

LEMMA RecordedStep ==
    ASSUME ObserversInv, [ObserversNext]_allVars
    PROVE  Recorded'
<1> USE DEF managerVars, counterVars, handlerVars, historyVars, mceVars, ngfVars, observerVars,
            Recorded, TypeOK, ObserverTypes, ConnectedOwned, Destroy
<1>a. /\ TypeOK /\ LiveOwned /\ ObserverTypes /\ ConnectedOwned /\ Recorded
      /\ \A h \in settled : announced[h] = 1 => Judged(event[h])
      /\ NoEvent \in Event
  BY DEF ObserversInv, IInv, Judged, NoEvent, Event, IncomingStatus
<1>b. (\A h \in settled : announced[h] = 1 => Judged(event[h]))'
        => (\A h \in settled : announced[h] = 1 =>
              ~event[h].inbound \/ event[h].status # "Received" \/ event[h].stored)'
  BY DEF Judged
<1>1. ASSUME NEW hs \in SUBSET Handler, Announce(hs), gone' = gone PROVE Recorded'
  BY <1>1, <1>a, <1>b DEF Announce, NewVoiceCall
<1>2. ASSUME NEW p \in Provider, NEW h \in Handler, CallAdded(p, h) PROVE Recorded'
  BY <1>1, <1>2 DEF CallAdded, ProviderAddsCall, Admitted
<1>3. ASSUME NEW p \in Provider, ProviderAppended(p) PROVE Recorded'
  <2>1. Admitted(calls[p]) \subseteq Handler  BY <1>a DEF Admitted
  <2>2. QED  BY <1>1, <1>3, <2>1 DEF ProviderAppended, AppendProvider
<1>4. ASSUME NEW p \in Provider, NEW h \in Handler, CallRemoved(p, h) PROVE Recorded'
  BY <1>4, <1>a, <1>b, StatusSettles
     DEF CallRemoved, ProviderRemovesCall, Disconnected, VoiceCallEnded
<1>5. ASSUME NEW p \in Provider, CallsDestroyed(p) PROVE Recorded'
  BY <1>5, <1>a, <1>b DEF CallsDestroyed, ProviderDestroyed, Disconnected
<1>6. ASSUME NEW h \in Handler, NEW s, StatusSeen(h, s), announced[h] > 0, announced' = announced,
             gone' = gone
      PROVE  Recorded'
  BY <1>6, <1>a, <1>b, StatusSettles DEF StatusSeen
<1>7. ASSUME NEW h \in Handler, ObservedHandlerStep(h) PROVE Recorded'
  <2>1. CASE UNCHANGED observerVars /\ gone \subseteq gone'
    BY <1>a, <1>b, <2>1
  <2>2. CASE StatusSignalled(h) /\ gone' = gone
    BY <1>6, <1>a, <1>b, <2>2 DEF StatusSignalled, Connected
  <2>3. QED
    BY <1>7, <2>1, <2>2
       DEF ObservedHandlerStep, HandlerPrepared, HandlerDiscarded, StatusChanged, Filter
<1>8. ASSUME NEW h \in Handler, Hear(h) PROVE Recorded'
  <2>1. announced' = announced /\ announced[h] > 0 /\ gone' = gone
    BY <1>8, <1>a DEF Hear, FilterPluginJudges, Filter, vars
  <2>2. CASE FilterPluginJudges(h)
    BY <1>6, <2>1, <2>2 DEF FilterPluginJudges
  <2>3. CASE UNCHANGED << historyVars, settled >>
    BY <1>a, <1>b, <2>1, <2>3
  <2>4. QED  BY <1>8, <2>2, <2>3 DEF Hear
<1>9. CASE DaemonRestarted
  BY <1>9, <1>a DEF DaemonRestarted, Restart
<1>10. CASE StoreTimer
  BY <1>10, <1>a, <1>b, StatusSettles DEF StoreTimer, vars
<1>11. CASE PlayRingtone \/ UNCHANGED allVars
            \/ ((\E on \in BOOLEAN : SetCallFiltering(on)) /\ UNCHANGED observerVars)
            \/ (\E p \in Provider : ProviderRemoved(p))
  BY <1>11, <1>a DEF PlayRingtone, SetCallFiltering, ProviderRemoved, RemoveProvider, allVars, vars
<1>12. QED
  BY <1>2, <1>3, <1>4, <1>5, <1>7, <1>8, <1>9, <1>10, <1>11 DEF ObserversNext, ObservedProviderStep

-----------------------------------------------------------------------------
(* Counting *)

\* One pair for each time that NGF is, or is about to be, connected to one of hs.
Connections(hs, times) == UNION { { h } \X (1 .. times[h]) : h \in hs }

\* The calls NGF counts, and the ones it has yet to hear of.
Counted ==
    /\ announced \in [Handler -> 0 .. MaxAnnounced]
    /\ activeCallCount \in Int
    /\ activeCallCount + Cardinality(untold) = Cardinality(Connections(Handler, announced))

LEMMA ConnectionsAre ==
    ASSUME NEW hs \in SUBSET Handler, NEW times \in [Handler -> Nat]
    PROVE  Connections(hs, times) =
             { c \in Handler \X Nat : c[1] \in hs /\ 1 <= c[2] /\ c[2] <= times[c[1]] }
BY DEF Connections

\* There are finitely many, for a call is announced boundedly often.
LEMMA ConnectionsFinite ==
    ASSUME NEW hs \in SUBSET Handler, NEW times \in [Handler -> 0 .. MaxAnnounced]
    PROVE  IsFiniteSet(Connections(hs, times)) /\ Cardinality(Connections(hs, times)) \in Nat
<1>1. MaxAnnounced \in Int /\ 1 \in Int  BY ObserversAssumption
<1>2. IsFiniteSet(Handler) /\ IsFiniteSet(1 .. MaxAnnounced)
  BY <1>1, ObserversAssumption, FS_Interval
<1>3. IsFiniteSet(Handler \X (1 .. MaxAnnounced))  BY <1>2, FS_Product
<1>4. times \in [Handler -> Nat]  BY ObserversAssumption
<1>5. Connections(hs, times) \in SUBSET (Handler \X (1 .. MaxAnnounced))
  <2>1. ASSUME NEW c \in Connections(hs, times) PROVE c \in Handler \X (1 .. MaxAnnounced)
    BY <1>4, <2>1, ConnectionsAre, ObserversAssumption
  <2>2. QED  BY <2>1
<1>6. IsFiniteSet(Connections(hs, times))  BY <1>3, <1>5, FS_Subset
<1>7. QED  BY <1>6, FS_CardinalityType

\* As many pairs as calls, if each call has one.
LEMMA OnePairEach ==
    ASSUME NEW hs \in SUBSET Handler, NEW n \in [Handler -> Nat]
    PROVE  /\ IsFiniteSet(hs) /\ Cardinality(hs) \in Nat
           /\ IsFiniteSet({ << h, n[h] >> : h \in hs })
           /\ Cardinality({ << h, n[h] >> : h \in hs }) = Cardinality(hs)
<1> DEFINE pairs == { << h, n[h] >> : h \in hs }
           pair  == [h \in hs |-> << h, n[h] >>]
<1>1. IsFiniteSet(hs)  BY ObserversAssumption, FS_Subset
<1>2. pair \in Injection(hs, pairs)  BY DEF Injection, IsInjective
<1>3. pair \in Surjection(hs, pairs)  BY DEF Surjection
<1>4. ExistsBijection(hs, pairs)  BY <1>2, <1>3 DEF ExistsBijection, Bijection
<1>5. QED  BY <1>1, <1>4, FS_Bijection, FS_CardinalityType

\* The announcement of hs makes one more connection to each of them.
LEMMA CountedAnnounce ==
    ASSUME Counted, untold = {}, NEW hs \in SUBSET Handler, Announce(hs),
           \A h \in hs : announced[h] < MaxAnnounced
    PROVE  Counted'
<1> DEFINE C == Connections(Handler, announced)
<1>1. announced \in [Handler -> 0 .. MaxAnnounced] /\ announced \in [Handler -> Nat]
  BY ObserversAssumption DEF Counted
<1>2. announced' \in [Handler -> 0 .. MaxAnnounced] /\ announced' \in [Handler -> Nat]
  BY <1>1, ObserversAssumption DEF Announce
<1>3. PICK next \in [Handler -> Nat] : \A h \in Handler : next[h] = announced[h] + 1
  <2>1. [h \in Handler |-> announced[h] + 1] \in [Handler -> Nat]  BY <1>1
  <2>2. QED  BY <2>1
<1> DEFINE N == { << h, next[h] >> : h \in hs }
<1>4. C = { c \in Handler \X Nat : 1 <= c[2] /\ c[2] <= announced[c[1]] }
  BY <1>1, ConnectionsAre
<1>5. IsFiniteSet(C) /\ Cardinality(C) \in Nat
  BY <1>1, ConnectionsFinite
<1>6. Connections(Handler, announced') = C \cup N /\ C \cap N = {}
  <2>1. Connections(Handler, announced') =
          { c \in Handler \X Nat : 1 <= c[2] /\ c[2] <= announced'[c[1]] }
    BY <1>2, ConnectionsAre
  <2>2. \A h \in Handler : announced'[h] = IF h \in hs THEN next[h] ELSE announced[h]
    BY <1>3 DEF Announce
  <2>3. \A h \in Handler, n \in Nat : << h, n >> \in N <=> h \in hs /\ n = next[h]
    OBVIOUS
  <2>4. N \subseteq Handler \X Nat  BY <1>3
  <2> HIDE DEF C, N
  <2>5. ASSUME NEW h \in Handler, NEW n \in Nat
        PROVE  /\ << h, n >> \in Connections(Handler, announced') <=> << h, n >> \in C \cup N
               /\ << h, n >> \notin C \cap N
    <3>1. announced[h] \in Nat /\ next[h] = announced[h] + 1  BY <1>1, <1>3
    <3>2. << h, n >> \in C <=> 1 <= n /\ n <= announced[h]  BY <1>4
    <3>3. << h, n >> \in Connections(Handler, announced') <=> 1 <= n /\ n <= announced'[h]
      BY <2>1
    <3>4. QED  BY <2>2, <2>3, <3>1, <3>2, <3>3
  <2>6. QED  BY <1>4, <2>1, <2>4, <2>5
<1>7. Cardinality(Connections(Handler, announced')) = Cardinality(C) + Cardinality(hs)
  <2>1. IsFiniteSet(N) /\ Cardinality(N) = Cardinality(hs) /\ Cardinality(hs) \in Nat
    BY OnePairEach
  <2> HIDE DEF C, N
  <2>2. Cardinality(C \cup N) = Cardinality(C) + Cardinality(N) - Cardinality(C \cap N)
    BY <1>5, <2>1, FS_Union
  <2>3. Cardinality(C \cap N) = 0  BY <1>6, FS_EmptySet
  <2>4. QED  BY <1>5, <1>6, <2>1, <2>2, <2>3
<1>8. activeCallCount' = activeCallCount /\ untold' = hs  BY DEF Announce, ngfVars
<1>9. activeCallCount \in Int /\ activeCallCount = Cardinality(C)
  BY <1>5, FS_EmptySet DEF Counted
<1>10. QED  BY <1>2, <1>5, <1>7, <1>8, <1>9 DEF Counted

\* Handlers that are destroyed take all their connections with them.
LEMMA CountedDisconnect ==
    ASSUME Counted, untold = {}, NEW hs \in SUBSET Handler, Disconnected(hs)
    PROVE  Counted'
<1> DEFINE C == Connections(Handler, announced)
           D == Connections(hs, announced)
<1>1. announced \in [Handler -> 0 .. MaxAnnounced] /\ announced \in [Handler -> Nat]
  BY ObserversAssumption DEF Counted
<1>2. announced' \in [Handler -> 0 .. MaxAnnounced] /\ announced' \in [Handler -> Nat]
  BY <1>1, ObserversAssumption DEF Disconnected
<1>3. /\ C = { c \in Handler \X Nat : 1 <= c[2] /\ c[2] <= announced[c[1]] }
      /\ D = { c \in Handler \X Nat : c[1] \in hs /\ 1 <= c[2] /\ c[2] <= announced[c[1]] }
      /\ Connections(Handler, announced') =
           { c \in Handler \X Nat : 1 <= c[2] /\ c[2] <= announced'[c[1]] }
  BY <1>1, <1>2, ConnectionsAre
<1>4. \A h \in Handler : announced'[h] = IF h \in hs THEN 0 ELSE announced[h]
  BY DEF Disconnected
<1>5. /\ IsFiniteSet(C) /\ Cardinality(C) \in Nat
      /\ IsFiniteSet(D) /\ Cardinality(D) \in Nat
  BY <1>1, ConnectionsFinite
<1>6. activeCallCount' = activeCallCount - Cardinality(D) /\ untold' = {}
  BY DEF Disconnected, OnVoiceCallsDestroyed, CountDestroyed, Connections
<1> HIDE DEF C, D
<1>7. Connections(Handler, announced') = C \ D /\ C \cap D = D
  BY <1>1, <1>3, <1>4
<1>8. Cardinality(Connections(Handler, announced')) = Cardinality(C) - Cardinality(D)
  BY <1>5, <1>7, FS_Difference
<1>9. activeCallCount \in Int /\ activeCallCount = Cardinality(C)
  BY <1>5, FS_EmptySet DEF Counted, C
<1>10. QED  BY <1>2, <1>5, <1>6, <1>8, <1>9, FS_EmptySet DEF Counted

LEMMA CountedStep ==
    ASSUME ObserversInv, Counted, [ObserversNext]_allVars
    PROVE  Counted'
<1> USE DEF historyVars, mceVars, ngfVars, observerVars
<1>a. /\ TypeOK /\ LiveOwned /\ ObserverTypes /\ ConnectedOwned /\ gone \subseteq Handler
  BY DEF ObserversInv, IInv, TypeOK
<1>1. ASSUME NEW p \in Provider, ObservedProviderStep(p), untold = {} PROVE Counted'
  <2>1. ASSUME NEW h \in Handler, CallAdded(p, h) PROVE Counted'
    <3>1. announced[h] < MaxAnnounced
      <4>1. announced[h] \in Nat /\ ~(announced[h] > 0)
        BY <1>a, <2>1 DEF CallAdded, ProviderAddsCall, Unannounced, ConnectedOwned, ObserverTypes
      <4>2. QED  BY <4>1, ObserversAssumption
    <3>2. QED  BY <1>1, <2>1, <3>1, CountedAnnounce DEF CallAdded, Admitted
  <2>2. CASE ProviderAppended(p)
    <3>1. Admitted(calls[p]) \in SUBSET Handler  BY <1>a DEF Admitted, TypeOK
    <3>2. QED  BY <1>1, <2>2, <3>1, CountedAnnounce DEF ProviderAppended
  <2>3. ASSUME NEW h \in Handler, CallRemoved(p, h) PROVE Counted'
    BY <1>1, <2>3, CountedDisconnect DEF CallRemoved
  <2>4. CASE CallsDestroyed(p)
    <3>1. gone' \ gone \in SUBSET Handler
      BY <1>a, <2>4 DEF CallsDestroyed, ProviderDestroyed, Destroy, TypeOK, Unannounced
    <3>2. QED  BY <1>1, <2>4, <3>1, CountedDisconnect DEF CallsDestroyed
  <2>5. CASE ProviderRemoved(p)
    BY <2>5 DEF ProviderRemoved, Counted
  <2>6. QED  BY <1>1, <2>1, <2>2, <2>3, <2>4, <2>5 DEF ObservedProviderStep
<1>2. ASSUME NEW h \in Handler, ObservedHandlerStep(h) PROVE Counted'
  BY <1>2 DEF ObservedHandlerStep, StatusSignalled, Counted
<1>3. ASSUME NEW h \in Handler, Hear(h) PROVE Counted'
  <2>1. /\ h \in untold /\ untold' = untold \ { h }
        /\ activeCallCount' = activeCallCount + 1 /\ announced' = announced
    BY <1>3 DEF Hear, CountAdded
  <2>2. IsFiniteSet(untold) /\ Cardinality(untold) \in Nat
    BY <1>a, ObserversAssumption, FS_Subset, FS_CardinalityType DEF ObserverTypes
  <2>3. Cardinality(untold') = Cardinality(untold) - 1
    BY <2>1, <2>2, FS_RemoveElement
  <2>4. Cardinality(Connections(Handler, announced)) \in Nat
    BY ConnectionsFinite DEF Counted
  <2>5. QED  BY <2>1, <2>2, <2>3, <2>4 DEF Counted
<1>4. CASE DaemonRestarted
  <2>1. /\ announced' = [h \in Handler |-> 0] /\ untold' = {} /\ activeCallCount' = 0
    BY <1>4 DEF DaemonRestarted
  <2>2. announced' \in [Handler -> Nat] /\ announced' \in [Handler -> 0 .. MaxAnnounced]
    BY <2>1, ObserversAssumption
  <2>3. Connections(Handler, announced') = {}
    BY <2>2, <2>1, ConnectionsAre
  <2>4. Cardinality(untold') = 0 /\ Cardinality(Connections(Handler, announced')) = 0
    BY <2>1, <2>3, FS_EmptySet
  <2>5. QED  BY <2>1, <2>2, <2>4 DEF Counted
<1>5. CASE StoreTimer \/ PlayRingtone \/ UNCHANGED observerVars
  BY <1>5 DEF StoreTimer, PlayRingtone, Counted
<1>6. QED  BY <1>1, <1>2, <1>3, <1>4, <1>5 DEF ObserversNext, allVars

-----------------------------------------------------------------------------
(* The theorems *)

\* The daemon starts without calls.
LEMMA InitObserversInv == ObserversInit => ObserversInv
<1> SUFFICES ASSUME ObserversInit PROVE ObserversInv
  OBVIOUS
<1>1. IInv  BY InitIInv DEF ObserversInit
<1>2. LiveOwned /\ TableOwned
  BY DEF ObserversInit, Init, ManagerInit, LiveOwned, TableOwned
<1>3. ObserverTypes /\ ConnectedOwned /\ CurrentRings /\ Recorded
  BY DEF ObserversInit, Init, ObserverTypes, ConnectedOwned, CurrentRings, Recorded, NoEvent, Event,
         IncomingStatus
<1>4. ActivePathIsActive  BY DEF ObserversInit, Init, ManagerInit, ActivePathIsActive
<1>5. QED  BY <1>1, <1>2, <1>3, <1>4 DEF ObserversInv

LEMMA ObserversInvariance == ObserversSpec => []ObserversInv
<1>1. ASSUME ObserversInv, [ObserversNext]_allVars PROVE ObserversInv'
  <2>1. LiveOwned' /\ TableOwned'
    BY <1>1, ManagerStep, LiveOwnedStep, TableOwnedStep DEF ObserversInv, allVars
  <2>2. QED
    BY <1>1, <2>1, IInvStep, ObserverTypesStep, ConnectedOwnedStep, CurrentRingsStep, ActivePathStep,
       RecordedStep DEF ObserversInv
<1>2. QED  BY InitObserversInv, <1>1, PTL DEF ObserversSpec, allVars

\* NGF's ringtone only ever plays for a live call that rings.
THEOREM RingsOnlyForIncoming == ObserversSpec => []RingsForIncoming
<1>1. ObserversInv => RingsForIncoming
  BY DEF ObserversInv, CurrentRings, RingsForIncoming, Connected
<1>2. QED  BY ObserversInvariance, <1>1, PTL

\* The D-Bus service has /calls/active on the active call, whatever happened to others.
THEOREM ActivePathIsAlwaysActive == ObserversSpec => []ActivePathIsActive
<1>1. ObserversInv => ActivePathIsActive  BY DEF ObserversInv
<1>2. QED  BY ObserversInvariance, <1>1, PTL

\* CommHistory never records a call as missed that was answered or judged.
THEOREM SettledIsNeverMissed == ObserversSpec => SettledNotMissed
<1> DEFINE Kept == \A h \in settled : announced[h] = 1 => h \notin missed'
<1>1. ASSUME ObserversInv, [ObserversNext]_allVars PROVE missed' = missed \/ Kept
  <2> USE DEF historyVars, mceVars, ngfVars, observerVars
  <2>1. ASSUME NEW p \in Provider, NEW h \in Handler, CallRemoved(p, h)
        PROVE  missed' = missed \/ Kept
    <3>1. \A g \in settled : g \notin missed
      BY <1>1 DEF ObserversInv, Recorded, ConnectedOwned, LiveOwned, Announced
    <3>2. \A g \in settled : announced[g] = 1 =>
            ~event[g].inbound \/ event[g].status # "Received" \/ event[g].stored
      BY <1>1 DEF ObserversInv, Recorded
    <3>3. QED  BY <2>1, <3>1, <3>2 DEF CallRemoved, VoiceCallEnded
  <2>2. ASSUME NEW h \in Handler, ObservedHandlerStep(h) \/ Hear(h) PROVE missed' = missed
    BY <2>2 DEF ObservedHandlerStep, StatusSignalled, StatusSeen, Hear, FilterPluginJudges
  <2>3. ASSUME NEW p \in Provider, NEW h \in Handler,
               \/ ProviderAppended(p) \/ ProviderRemoved(p) \/ CallsDestroyed(p) \/ CallAdded(p, h)
        PROVE  missed' = missed
    BY <2>3 DEF ProviderAppended, ProviderRemoved, CallsDestroyed, CallAdded, Announce, NewVoiceCall
  <2>4. ASSUME NEW p \in Provider, ObservedProviderStep(p) PROVE missed' = missed \/ Kept
    BY <2>1, <2>3, <2>4 DEF ObservedProviderStep, ProviderAppended, ProviderRemoved, CallsDestroyed,
                            Announce, NewVoiceCall
  <2>5. CASE DaemonRestarted \/ StoreTimer \/ PlayRingtone \/ UNCHANGED allVars
    BY <2>5 DEF DaemonRestarted, StoreTimer, PlayRingtone, allVars
  <2>6. CASE UNCHANGED observerVars
    BY <2>6
  <2>7. QED  BY <1>1, <2>2, <2>4, <2>5, <2>6 DEF ObserversNext
<1>2. ObserversInv /\ [ObserversNext]_allVars => [Kept]_missed
  BY <1>1
<1>3. QED  BY ObserversInvariance, <1>2, PTL DEF ObserversSpec, SettledNotMissed, allVars

LEMMA CountedInvariance == ObserversSpec => [](ObserversInv /\ Counted)
<1>1. ObserversInit => Counted
  <2> SUFFICES ASSUME ObserversInit PROVE Counted
    OBVIOUS
  <2>1. announced = [h \in Handler |-> 0] /\ untold = {} /\ activeCallCount = 0
    BY DEF ObserversInit
  <2>2. announced \in [Handler -> Nat] /\ announced \in [Handler -> 0 .. MaxAnnounced]
    BY <2>1, ObserversAssumption
  <2>3. Connections(Handler, announced) = {}  BY <2>1, <2>2, ConnectionsAre
  <2>4. QED  BY <2>1, <2>2, <2>3, FS_EmptySet DEF Counted
<1>2. ObserversInv /\ Counted /\ [ObserversNext]_allVars => Counted'
  BY CountedStep
<1>3. QED  BY ObserversInvariance, <1>1, <1>2, PTL DEF ObserversSpec, allVars

\* NGF counts down to zero: it has no calls left when it is connected to none, however
\* often they were announced.
THEOREM CountAlwaysReturnsToZero == ObserversSpec => []CountReturnsToZero
<1>1. ObserversInv /\ Counted => CountReturnsToZero
  <2> SUFFICES ASSUME ObserversInv, Counted, Connected = {} PROVE activeCallCount = 0
    BY DEF CountReturnsToZero
  <2>1. announced \in [Handler -> Nat] /\ \A h \in Handler : announced[h] = 0
    BY DEF ObserversInv, ObserverTypes, Connected
  <2>2. Connections(Handler, announced) = {}  BY <2>1, ConnectionsAre
  <2>3. untold = {}
    BY <2>1 DEF ObserversInv, ObserverTypes, ConnectedOwned
  <2>4. QED  BY <2>2, <2>3, FS_EmptySet DEF Counted
<1>2. QED  BY CountedInvariance, <1>1, PTL

\* What is left of the types: NGF and MCE are only told of calls the manager has.
ShownTypes ==
    /\ untold \subseteq voiceCalls
    /\ dictionary \subseteq Handler /\ watched \subseteq Handler
    /\ display \in { "none", "active", "ringing" }
    /\ ringing \in BOOLEAN

LEMMA ShownTypesStep ==
    ASSUME ObserversInv, TypeOK', ShownTypes, [ObserversNext]_allVars
    PROVE  ShownTypes'
<1> USE DEF managerVars, historyVars, mceVars, ngfVars, observerVars, ShownTypes
<1>1. /\ TypeOK /\ CurrentCalls' \subseteq Handler
  BY DEF ObserversInv, IInv, CurrentCalls, TypeOK
<1>2. ASSUME OnVoiceCallsChanged \/ UNCHANGED mceVars
      PROVE  /\ dictionary' \subseteq Handler /\ watched' \subseteq Handler
             /\ display' \in { "none", "active", "ringing" }
  BY <1>1, <1>2 DEF OnVoiceCallsChanged, DictionaryFollows, Shown
<1>3. ASSUME NEW h, NEW s, Rung(h, s) PROVE ringing' \in BOOLEAN
  BY <1>3 DEF Rung, StopRingtone
<1>4. ASSUME NEW p \in Provider, ObservedProviderStep(p), untold = {} PROVE ShownTypes'
  <2>1. ASSUME NEW h \in Handler, CallAdded(p, h) PROVE ShownTypes'
    BY <2>1 DEF CallAdded, Announce, ProviderAddsCall, OnVoiceCallAdded
  <2>2. CASE ProviderAppended(p)
    BY <2>2 DEF ProviderAppended, Announce, AppendProvider, OnVoiceCallAdded
  <2>3. ASSUME NEW h \in Handler, CallRemoved(p, h) PROVE ShownTypes'
    BY <1>2, <1>4, <2>3 DEF CallRemoved, Disconnected, OnVoiceCallsDestroyed, StopRingtone
  <2>4. CASE CallsDestroyed(p) \/ ProviderRemoved(p)
    BY <1>4, <2>4
       DEF CallsDestroyed, ProviderRemoved, Disconnected, OnVoiceCallsDestroyed, StopRingtone
  <2>5. QED  BY <1>4, <2>1, <2>2, <2>3, <2>4 DEF ObservedProviderStep
<1>5. ASSUME NEW h \in Handler, ObservedHandlerStep(h), untold = {} PROVE ShownTypes'
  <2>1. CASE UNCHANGED observerVars
    BY <1>5, <2>1
  <2>2. CASE StatusSignalled(h)
    BY <1>2, <1>3, <1>5, <2>2 DEF StatusSignalled
  <2>3. QED  BY <1>5, <2>1, <2>2 DEF ObservedHandlerStep
<1>6. ASSUME NEW h \in Handler, Hear(h) PROVE ShownTypes'
  <2>1. UNCHANGED voiceCalls
    BY <1>6 DEF Hear, FilterPluginJudges, Filter, vars
  <2>2. QED  BY <1>2, <1>3, <1>6, <2>1 DEF Hear
<1>7. CASE DaemonRestarted
  BY <1>7 DEF DaemonRestarted, StopRingtone
<1>8. CASE StoreTimer \/ PlayRingtone \/ UNCHANGED allVars
           \/ ((\E on \in BOOLEAN : SetCallFiltering(on)) /\ UNCHANGED observerVars)
  BY <1>8 DEF StoreTimer, PlayRingtone, SetCallFiltering, allVars, vars
<1>9. QED  BY <1>4, <1>5, <1>6, <1>7, <1>8 DEF ObserversNext

\* The plugins' variables keep their types; above all no call is counted below zero.
THEOREM ObserversTypeCorrect == ObserversSpec => []ObserversTypeOK
<1>1. ObserversInit => ShownTypes
  BY DEF ObserversInit, Init, ManagerInit, ShownTypes
<1>2. ObserversInv /\ ObserversInv' /\ ShownTypes /\ [ObserversNext]_allVars => ShownTypes'
  BY ShownTypesStep DEF ObserversInv, IInv
<1>3. ObserversInv /\ Counted /\ ShownTypes => ObserversTypeOK
  <2> SUFFICES ASSUME ObserversInv, Counted, ShownTypes PROVE ObserversTypeOK
    OBVIOUS
  <2>1. activeCallCount \in Nat
    <3> DEFINE C    == Connections(Handler, announced)
               once == { << h, [g \in Handler |-> 1][h] >> : h \in untold }
    <3>1. announced \in [Handler -> Nat] /\ untold \subseteq Handler
      BY DEF ObserversInv, ObserverTypes
    <3>2. IsFiniteSet(C) /\ Cardinality(C) \in Nat
      BY ConnectionsFinite DEF Counted
    <3>3. IsFiniteSet(once) /\ Cardinality(once) = Cardinality(untold) /\ Cardinality(untold) \in Nat
      <4>1. [g \in Handler |-> 1] \in [Handler -> Nat]  OBVIOUS
      <4>2. QED  BY <3>1, <4>1, OnePairEach
    <3>4. once \in SUBSET C
      <4>1. \A h \in untold : announced[h] > 0
        BY DEF ObserversInv, ConnectedOwned
      <4>2. C = { c \in Handler \X Nat : 1 <= c[2] /\ c[2] <= announced[c[1]] }
        BY <3>1, ConnectionsAre
      <4>3. QED  BY <3>1, <4>1, <4>2
    <3> HIDE DEF C, once
    <3>5. Cardinality(once) <= Cardinality(C)
      BY <3>2, <3>4, FS_Subset
    <3>6. activeCallCount \in Int /\ activeCallCount + Cardinality(untold) = Cardinality(C)
      BY DEF Counted, C
    <3>7. QED  BY <3>2, <3>3, <3>5, <3>6
  <2>2. activePath \in Handler \cup { NoCall }
    BY DEF ObserversInv, IInv, TypeOK, ActivePathIsActive
  <2>3. QED
    BY <2>1, <2>2
       DEF ObserversInv, IInv, TypeOK, Counted, ShownTypes, ObserverTypes, CurrentRings, Recorded,
           ObserversTypeOK
<1>4. QED  BY ObserversInvariance, CountedInvariance, <1>1, <1>2, <1>3, PTL DEF ObserversSpec, allVars

-----------------------------------------------------------------------------
(* The display *)

\* MCE watches and has in its dictionary all the calls there are, and shows them, unless
\* some are yet to be announced or calls that it still knows left with their provider.
Displayed ==
    untold = {} /\ dictionary \subseteq CurrentCalls =>
        /\ CurrentCalls \subseteq dictionary
        /\ CurrentCalls \subseteq watched
        /\ display = Shown(CurrentCalls)

\* What is displayed depends on the calls there are and their statuses alone.
LEMMA StillDisplayed ==
    ASSUME Displayed, untold = {}, UNCHANGED mceVars, CurrentCalls' = CurrentCalls,
           \A h \in CurrentCalls : status'[h] = status[h]
    PROVE  Displayed'
<1>1. Shown(CurrentCalls)' = Shown(CurrentCalls)
  BY DEF Shown
<1>2. QED  BY <1>1 DEF Displayed, mceVars

\* onVoiceCallsChanged brings it up to date, whatever it was before.
LEMMA DisplayUpdated ==
    ASSUME ObserversInv', OnVoiceCallsChanged
    PROVE  Displayed'
<1>1. CurrentCalls' \cap gone' = {}
  BY DEF ObserversInv, IInv, TypeOK, LiveOwned, CurrentCalls
<1>2. dictionary' = CurrentCalls' /\ display' = Shown(CurrentCalls)'
  BY DEF OnVoiceCallsChanged, DictionaryFollows
<1>3. CurrentCalls' \subseteq watched'
  BY <1>1 DEF OnVoiceCallsChanged, DictionaryFollows
<1>4. QED  BY <1>2, <1>3 DEF Displayed

\* Calls of a provider that is not registered are no calls that there are.
LEMMA OthersCalls ==
    ASSUME IInv, NEW p \in Provider, p \notin providers, NEW h \in calls[p]
    PROVE  h \notin CurrentCalls
BY DEF IInv, TypeOK, OneOwner, CurrentCalls

LEMMA DisplayedStep ==
    ASSUME ~WithDeviceLock, ObserversInv, ObserversInv', Displayed, [ObserversNext]_allVars
    PROVE  Displayed'
<1> USE DEF managerVars, counterVars, handlerVars, historyVars, mceVars, ngfVars, observerVars
<1>1. /\ IInv /\ TypeOK /\ OneOwner /\ RegisteredCallsKnown
      /\ \A hs : Admitted(hs) = hs
  BY DEF ObserversInv, IInv, Admitted, LockedOut
<1>2. ASSUME untold' # {} PROVE Displayed'
  BY <1>2 DEF Displayed
<1>3. ASSUME OnVoiceCallsChanged PROVE Displayed'
  BY <1>3, DisplayUpdated
<1>4. CurrentCalls \subseteq Announced
  BY <1>1 DEF CurrentCalls, Announced, TypeOK
<1>5. ASSUME untold = {}, NEW p \in Provider, ObservedProviderStep(p) PROVE Displayed'
  <2>1. CASE ProviderAppended(p)
    <3>1. CASE calls[p] = {}
      <4>1. CurrentCalls' = CurrentCalls
        BY <2>1, <3>1 DEF ProviderAppended, AppendProvider, CurrentCalls
      <4>2. status' = status
        <5>1. ReleasedUnfiltered(calls[p]) = {}  BY <3>1 DEF ReleasedUnfiltered, Admitted
        <5>2. QED  BY <1>1, <2>1, <5>1 DEF ProviderAppended, AppendProvider, Release, TypeOK
      <4>3. QED  BY <1>5, <2>1, <4>1, <4>2, StillDisplayed DEF ProviderAppended, Announce
    <3>2. CASE calls[p] # {}
      BY <1>1, <1>2, <2>1, <3>2 DEF ProviderAppended, Announce
    <3>3. QED  BY <3>1, <3>2
  <2>2. CASE ProviderRemoved(p)
    <3>1. /\ providers' = providers \ { p } /\ p \in providers /\ calls' = calls
          /\ status' = status /\ UNCHANGED mceVars /\ untold' = {}
      BY <1>5, <2>2 DEF ProviderRemoved, RemoveProvider
    <3>2. CurrentCalls' = UNION { calls[q] : q \in providers \ { p } }
      BY <3>1 DEF CurrentCalls
    <3>3. CASE calls[p] = {}
      <4>1. CurrentCalls' = CurrentCalls  BY <3>1, <3>2, <3>3 DEF CurrentCalls
      <4>2. QED  BY <1>5, <3>1, <4>1, StillDisplayed
    <3>4. CASE calls[p] # {}
      <4>1. PICK h : h \in calls[p]  BY <3>4
      <4>2. h \in CurrentCalls /\ h \notin CurrentCalls'
        BY <1>1, <3>1, <3>2, <4>1 DEF CurrentCalls, TypeOK, OneOwner
      <4>3. CurrentCalls' \subseteq CurrentCalls  BY <3>2 DEF CurrentCalls
      <4>4. ~(dictionary' \subseteq CurrentCalls')
        BY <1>5, <3>1, <4>2, <4>3 DEF Displayed
      <4>5. QED  BY <4>4 DEF Displayed
    <3>5. QED  BY <3>3, <3>4
  <2>3. CASE CallsDestroyed(p)
    <3>1. /\ p \notin providers /\ UNCHANGED mceVars /\ providers' = providers
          /\ calls' = [calls EXCEPT ![p] = {}]
      BY <2>3 DEF CallsDestroyed, ProviderDestroyed
    <3>2. CurrentCalls' = CurrentCalls
      BY <1>1, <3>1 DEF CurrentCalls, TypeOK
    <3>3. ASSUME NEW h \in CurrentCalls PROVE status'[h] = status[h]
      <4>1. PICK unready \in SUBSET Unannounced : Destroy(calls[p] \cup unready)
        BY <2>3 DEF CallsDestroyed, ProviderDestroyed
      <4>2. h \in Handler /\ h \notin unready
        BY <1>1, <1>4 DEF Unannounced, Announced, TypeOK
      <4>3. h \notin calls[p]  BY <1>1, <3>1, OthersCalls
      <4>4. QED  BY <4>1, <4>2, <4>3 DEF Destroy
    <3>4. QED  BY <1>5, <3>1, <3>2, <3>3, StillDisplayed
  <2>4. ASSUME NEW h \in Handler, CallAdded(p, h) PROVE Displayed'
    <3>1. CASE p \in providers
      BY <1>1, <1>2, <2>4, <3>1 DEF CallAdded, Announce
    <3>2. CASE p \notin providers
      <4>1. CurrentCalls' = CurrentCalls /\ status' = status /\ UNCHANGED mceVars
        BY <1>1, <2>4, <3>2 DEF CallAdded, ProviderAddsCall, Announce, CurrentCalls, TypeOK
      <4>2. QED  BY <1>5, <4>1, StillDisplayed
    <3>3. QED  BY <3>1, <3>2
  <2>5. ASSUME NEW h \in Handler, CallRemoved(p, h) PROVE Displayed'
    <3>1. CASE p \in providers
      <4>1. h \in voiceCalls
        BY <1>1, <2>5, <3>1 DEF CallRemoved, ProviderRemovesCall, RegisteredCallsKnown
      <4>2. QED  BY <1>3, <2>5, <3>1, <4>1 DEF CallRemoved
    <3>2. CASE p \notin providers
      <4>1. CurrentCalls' = CurrentCalls /\ UNCHANGED mceVars
        BY <1>1, <2>5, <3>2 DEF CallRemoved, ProviderRemovesCall, CurrentCalls, TypeOK
      <4>2. \A g \in CurrentCalls : status'[g] = status[g]
        BY <1>1, <1>4, <2>5, <3>2, OthersCalls
        DEF CallRemoved, ProviderRemovesCall, Destroy, TypeOK, Announced
      <4>3. QED  BY <1>5, <4>1, <4>2, StillDisplayed
    <3>3. QED  BY <3>1, <3>2
  <2>6. QED  BY <1>5, <2>1, <2>2, <2>3, <2>4, <2>5 DEF ObservedProviderStep
<1>6. ASSUME untold = {}, NEW h \in Handler, ObservedHandlerStep(h) PROVE Displayed'
  <2>1. ASSUME CurrentCalls' = CurrentCalls, StatusSignalled(h),
               \A g \in Handler : g # h => status'[g] = status[g]
        PROVE  Displayed'
    <3>1. CASE h \in watched
      BY <1>3, <2>1, <3>1 DEF StatusSignalled
    <3>2. CASE h \notin watched
      <4>1. UNCHANGED mceVars /\ untold' = {}
        BY <1>6, <2>1, <3>2 DEF StatusSignalled
      <4>2. CASE h \notin CurrentCalls
        <5>1. \A g \in CurrentCalls : status'[g] = status[g]
          BY <1>1, <1>4, <2>1, <4>2 DEF Announced, TypeOK
        <5>2. QED  BY <1>6, <2>1, <4>1, <5>1, StillDisplayed
      <4>3. CASE h \in CurrentCalls
        BY <1>6, <2>1, <3>2, <4>1, <4>3 DEF Displayed
      <4>4. QED  BY <4>2, <4>3
    <3>3. QED  BY <3>1, <3>2
  <2>2. ASSUME NEW s \in Status, StatusChanged(h, s), StatusSignalled(h) PROVE Displayed'
    BY <1>1, <2>1, <2>2 DEF StatusChanged, CurrentCalls, TypeOK
  <2>3. ASSUME NEW a \in VoiceCallFilterAction, Filter(h, a), StatusSignalled(h) PROVE Displayed'
    BY <1>1, <2>1, <2>3 DEF Filter, CurrentCalls, TypeOK
  <2>4. ASSUME NEW incoming \in BOOLEAN, HandlerPrepared(h, incoming, FALSE, "NULL"),
               UNCHANGED observerVars
        PROVE  Displayed'
    <3>1. CurrentCalls' = CurrentCalls /\ \A g \in CurrentCalls : status'[g] = status[g]
      BY <1>1, <1>4, <2>4 DEF HandlerPrepared, CurrentCalls, Unannounced, TypeOK
    <3>2. QED  BY <1>6, <2>4, <3>1, StillDisplayed
  <2>5. ASSUME HandlerDiscarded(h), UNCHANGED observerVars PROVE Displayed'
    <3>1. CurrentCalls' = CurrentCalls  BY <2>5 DEF HandlerDiscarded, CurrentCalls
    <3>2. Announced \subseteq Handler  BY <1>1 DEF Announced, TypeOK
    <3>3. \A g \in CurrentCalls : status'[g] = status[g]
      BY <1>4, <2>5, <3>2 DEF HandlerDiscarded, Destroy, Unannounced
    <3>4. QED  BY <1>6, <2>5, <3>1, <3>3, StillDisplayed
  <2>6. QED  BY <1>6, <2>2, <2>3, <2>4, <2>5 DEF ObservedHandlerStep
<1>7. ASSUME NEW h \in Handler, Hear(h) PROVE Displayed'
  BY <1>3, <1>7 DEF Hear
<1>8. CASE DaemonRestarted
  <2>1. /\ CurrentCalls' = {} /\ dictionary' = {} /\ watched' = {} /\ display' = "none"
    BY <1>8 DEF DaemonRestarted, Restart, CurrentCalls
  <2>2. Shown(CurrentCalls)' = "none"  BY <2>1 DEF Shown
  <2>3. QED  BY <2>1, <2>2 DEF Displayed
<1>9. ASSUME UNCHANGED << providers, calls, status, untold, mceVars >> PROVE Displayed'
  <2>1. CurrentCalls' = CurrentCalls /\ Shown(CurrentCalls)' = Shown(CurrentCalls)
    BY <1>9 DEF CurrentCalls, Shown
  <2>2. QED  BY <1>9, <2>1 DEF Displayed
<1>10. CASE (\E on \in BOOLEAN : SetCallFiltering(on)) /\ UNCHANGED observerVars
  BY <1>9, <1>10 DEF SetCallFiltering
<1>11. CASE StoreTimer \/ PlayRingtone \/ UNCHANGED allVars
  BY <1>9, <1>11 DEF StoreTimer, PlayRingtone, allVars, vars
<1>12. QED  BY <1>5, <1>6, <1>7, <1>8, <1>10, <1>11 DEF ObserversNext

\* Without a device lock, whose refused calls MCE is never told of, the display is what
\* the calls there are call for whenever an event is over, unless MCE still has a call that
\* left with its provider.
THEOREM DisplayIsAlwaysCurrent ==
    ASSUME ~WithDeviceLock PROVE ObserversSpec => []DisplayIsCurrent
<1>1. ObserversInit => Displayed
  <2> SUFFICES ASSUME ObserversInit PROVE Displayed
    OBVIOUS
  <2>1. CurrentCalls = {} /\ display = "none"
    BY DEF ObserversInit, Init, ManagerInit, CurrentCalls
  <2>2. Shown(CurrentCalls) = "none"  BY <2>1 DEF Shown
  <2>3. QED  BY <2>1, <2>2 DEF Displayed
<1>2. ObserversInv /\ ObserversInv' /\ Displayed /\ [ObserversNext]_allVars => Displayed'
  BY DisplayedStep
<1>3. Displayed => DisplayIsCurrent
  BY DEF Displayed, DisplayIsCurrent
<1>4. QED  BY ObserversInvariance, <1>1, <1>2, <1>3, PTL DEF ObserversSpec, allVars
=============================================================================
