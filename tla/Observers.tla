------------------------------- MODULE Observers -------------------------------
(***************************************************************************)
(* The manager's plugins that watch calls: the D-Bus service, CommHistory, *)
(* the call filter, MCE (the display) and NGF (the ringtone).  Their slots *)
(* run within the manager's and the handlers' signals, so each action is   *)
(* one of VoiceCallManager's with what the plugins do about it.            *)
(*                                                                         *)
(* Slots run in the order the plugins were loaded, by name: the verdict of *)
(* the filter comes after CommHistory has taken the call in and before NGF *)
(* and MCE look at it.  An announcement is cut in two there: `untold' are  *)
(* the calls that the filter, NGF and MCE have yet to hear of.             *)
(***************************************************************************)
EXTENDS VoiceCallManager, FiniteSets

CONSTANTS
    WithFilterPlugin,   \* the filter plugin is installed
    MaxAnnounced        \* bound: how often one call may be announced

ASSUME ObserversAssumption == IsFiniteSet(Handler) /\ MaxAnnounced \in Nat \ { 0 }

VARIABLES
    untold,
    announced,          \* how often each live call was announced, and so connected to
    \* --- VoiceCallManagerDBusService
    activePath,         \* the handler registered at /calls/active, or NoCall
    \* --- CommHistoryPlugin
    event,              \* m_calls: the event kept for each call, or NoEvent
    missed,             \* calls that the history has as not answered
    \* --- McePlugin
    dictionary,         \* d->calls
    watched,            \* the calls whose statusChanged it is connected to
    display,            \* the call state last sent to MCE
    \* --- NgfRingtonePlugin
    currentCall, activeCallCount,
    ringing,            \* ringtoneEventId is not 0
    \* --- for the properties
    settled             \* live calls seen ACTIVE, IGNORED or REJECTED, once announced

historyVars  == << event, missed >>
mceVars      == << dictionary, watched, display >>
ngfVars      == << currentCall, activeCallCount, ringing >>
observerVars == << untold, announced, activePath, historyVars, mceVars, ngfVars, settled >>

\* Statuses of an event before the call's end.
IncomingStatus == { "Received", "Ignored", "Rejected" }

Event == [ inbound : BOOLEAN, status : IncomingStatus, stored : BOOLEAN ]

\* No event that is kept looks like this: outgoing ones are always stored.
NoEvent == [ inbound |-> FALSE, status |-> "Received", stored |-> FALSE ]

ObserversTypeOK ==
    /\ TypeOK
    /\ untold \subseteq voiceCalls
    /\ announced \in [Handler -> 0 .. MaxAnnounced]
    /\ activePath \in Handler \cup { NoCall }
    /\ event \in [Handler -> Event]
    /\ missed \subseteq Handler
    /\ dictionary \subseteq Handler /\ watched \subseteq Handler
    /\ display \in { "none", "active", "ringing" }
    /\ currentCall \in Handler \cup { NoCall }
    /\ activeCallCount \in Nat
    /\ ringing \in BOOLEAN
    /\ settled \subseteq Handler

ObserversInit ==
    /\ Init
    /\ untold = {}
    /\ announced = [h \in Handler |-> 0]
    /\ activePath = NoCall
    /\ event = [h \in Handler |-> NoEvent] /\ missed = {}
    /\ dictionary = {} /\ watched = {} /\ display = "none"
    /\ currentCall = NoCall /\ activeCallCount = 0 /\ ringing = FALSE
    /\ settled = {}

Connected == { h \in Handler : announced[h] > 0 }

-----------------------------------------------------------------------------
(* CommHistoryPlugin *)

StoreCall(e) == [e EXCEPT !.stored = TRUE]

\* newVoiceCall: outgoing calls are stored at once; the event an earlier
\* announcement left is replaced.
NewVoiceCall(hs) ==
    /\ event' = [h \in Handler |->
          IF h \in hs
          THEN [ inbound |-> isIncoming[h], status |-> "Received", stored |-> ~isIncoming[h] ]
          ELSE event[h]]
    /\ UNCHANGED missed

\* onVoiceCallStatusChanged
StatusStored(e, s) ==
    CASE s = "ACTIVE"   -> StoreCall(e)
      [] s = "IGNORED"  -> [e EXCEPT !.status = "Ignored"]
      [] s = "REJECTED" -> [e EXCEPT !.status = "Rejected"]
      [] OTHER          -> e

\* voiceCallEnded: an incoming call nobody answered or judged was missed.
VoiceCallEnded(h) ==
    LET e == event[h]
    IN /\ event' = [event EXCEPT ![h] = NoEvent]
       /\ missed' = IF e.inbound /\ e.status = "Received" /\ ~e.stored
                    THEN missed \cup { h } ELSE missed

-----------------------------------------------------------------------------
(* McePlugin *)

CurrentCalls == UNION { calls[p] : p \in providers }

Shown(hs) ==
    CASE \E h \in hs : status[h] = "INCOMING" -> "ringing"
      [] /\ \A h \in hs : status[h] # "INCOMING"
         /\ \E h \in hs : status[h] \in { "DIALING", "ALERTING", "ACTIVE", "HELD", "WAITING" }
                                              -> "active"
      [] OTHER                                -> "none"

DictionaryFollows ==
    /\ dictionary' = CurrentCalls'
    /\ watched' = (IF CurrentCalls' = {} THEN watched
                   ELSE (watched \ dictionary) \cup CurrentCalls') \ gone'

\* Mutant: the display is not told when the last call has gone.
OnVoiceCallsChanged_NotLast ==
    /\ DictionaryFollows
    /\ display' = IF CurrentCalls' = {} THEN display ELSE Shown(CurrentCalls)'

\* onVoiceCallsChanged, on the calls as they are by now.
OnVoiceCallsChanged ==
    /\ DictionaryFollows
    /\ display' = Shown(CurrentCalls)'

-----------------------------------------------------------------------------
(* NgfRingtonePlugin *)

StopRingtone == currentCall' = NoCall /\ ringing' = FALSE

\* Mutant: a call that stops ringing is forgotten, but its ringtone plays on.
Rung_PlaysOn(h, s) ==
    CASE s # "INCOMING" /\ currentCall = h -> currentCall' = NoCall /\ UNCHANGED ringing
      [] s = "INCOMING" /\ currentCall = NoCall -> currentCall' = h /\ UNCHANGED ringing
      [] OTHER -> UNCHANGED << currentCall, ringing >>

\* onVoiceCallStatusChanged
Rung(h, s) ==
    CASE s # "INCOMING" /\ currentCall = h -> StopRingtone
      [] s = "INCOMING" /\ currentCall = NoCall -> currentCall' = h /\ UNCHANGED ringing
      [] OTHER -> UNCHANGED << currentCall, ringing >>

CountAdded(h) == h \in Handler /\ activeCallCount' = activeCallCount + 1

\* Mutant: the count goes down by one however often the call was announced.
CountDestroyed_Once(hs) == activeCallCount' = activeCallCount - Cardinality(hs \cap Connected)

CountDestroyed(hs) ==
    activeCallCount' = activeCallCount
        - Cardinality(UNION { { h } \X (1 .. announced[h]) : h \in hs })

\* onVoiceCallDestroyed, once for every time the call was connected to.
OnVoiceCallsDestroyed(hs) ==
    /\ CountDestroyed(hs)
    /\ IF currentCall \in hs THEN StopRingtone ELSE UNCHANGED << currentCall, ringing >>

\* onPlayRingtoneRequested
PlayRingtone ==
    /\ untold = {}
    /\ ~ringing /\ currentCall # NoCall
    /\ ringing' = TRUE
    /\ UNCHANGED << vars, untold, announced, activePath, historyVars, mceVars, currentCall,
                    activeCallCount, settled >>

-----------------------------------------------------------------------------
(* VoiceCallManagerDBusService *)

\* onActiveVoiceCallChanged; registering fails if the path is taken, and the bus
\* forgets an object that is destroyed.
ActivePathFollows ==
    LET left == IF activePath \in gone' THEN NoCall ELSE activePath
    IN activePath' = IF activeVoiceCall' = activeVoiceCall THEN left
                     ELSE IF activeVoiceCall' = NoCall THEN NoCall
                     ELSE IF left = NoCall THEN activeVoiceCall' ELSE left

-----------------------------------------------------------------------------
(* The manager's actions with what the plugins do *)

\* The calls hs are announced: the D-Bus service and CommHistory hear of them.
Announce(hs) ==
    /\ untold' = hs
    /\ announced' = [h \in Handler |-> IF h \in hs THEN announced[h] + 1 ELSE announced[h]]
    /\ NewVoiceCall(hs)
    /\ ActivePathFollows
    /\ UNCHANGED << mceVars, ngfVars, settled >>

\* CommHistory's part of a status change, which the properties look back on.
StatusSeen(h, s) ==
    /\ event' = [event EXCEPT ![h] = StatusStored(@, s)]
    /\ settled' = settled \cup (IF s \in { "ACTIVE", "IGNORED", "REJECTED" } THEN { h } ELSE {})
    /\ UNCHANGED missed

\* Mutant: the filter plugin is loaded before CommHistory, which connects too late.
FilterPluginJudges_First(h) ==
    /\ \E a \in VoiceCallFilterAction : Filter(h, a)
    /\ settled' = settled \cup (IF status'[h] \in { "IGNORED", "REJECTED" } THEN { h } ELSE {})
    /\ UNCHANGED historyVars

\* FilterPlugin::onVoiceCallAdded: any verdict, for the lists are any.
FilterPluginJudges(h) ==
    \E a \in VoiceCallFilterAction : Filter(h, a) /\ StatusSeen(h, FilteredStatus(a))

\* The rest of h's announcement: the filter plugin judges it, NGF takes it in, and
\* voiceCallsChanged lets MCE see it.
Hear(h) ==
    /\ h \in untold
    /\ untold' = untold \ { h }
    /\ IF WithFilterPlugin /\ isIncoming[h] /\ status[h] = "NULL"
       THEN FilterPluginJudges(h)
       ELSE UNCHANGED << vars, historyVars, settled >>
    /\ CountAdded(h)
    /\ IF status'[h] = "NULL" THEN UNCHANGED << currentCall, ringing >> ELSE Rung(h, status'[h])
    /\ OnVoiceCallsChanged
    /\ UNCHANGED << announced, activePath >>

\* A handler's statusChanged reaches the plugins connected to it.
StatusSignalled(h) ==
    /\ IF h \in Connected
       THEN StatusSeen(h, status'[h]) /\ Rung(h, status'[h])
       ELSE UNCHANGED << historyVars, settled, currentCall, ringing >>
    /\ IF h \in watched THEN OnVoiceCallsChanged ELSE UNCHANGED mceVars
    /\ UNCHANGED << untold, announced, activePath, activeCallCount >>

\* Handlers are destroyed and the connections to them end.
Disconnected(hs) ==
    /\ announced' = [h \in Handler |-> IF h \in hs THEN 0 ELSE announced[h]]
    /\ OnVoiceCallsDestroyed(hs)
    /\ ActivePathFollows
    /\ settled' = settled \ hs
    /\ UNCHANGED untold

CallAdded(p, h) ==
    /\ ProviderAddsCall(p, h)
    /\ Announce(IF p \in providers THEN Admitted({ h }) ELSE {})

ProviderAppended(p) ==
    /\ \A h \in Admitted(calls[p]) : announced[h] < MaxAnnounced
    /\ AppendProvider(p)
    /\ Announce(Admitted(calls[p]))

CallRemoved(p, h) ==
    /\ ProviderRemovesCall(p, h)
    /\ Disconnected({ h })
    /\ IF p \in providers /\ h \in voiceCalls
       THEN VoiceCallEnded(h) /\ OnVoiceCallsChanged
       ELSE UNCHANGED << historyVars, mceVars >>

\* Nobody is told that calls left with their provider.
ProviderRemoved(p) == RemoveProvider(p) /\ UNCHANGED observerVars

CallsDestroyed(p) ==
    /\ ProviderDestroyed(p)
    /\ Disconnected(gone' \ gone)
    /\ UNCHANGED << historyVars, mceVars >>

\* CommHistory's timer, which runs while it keeps events: they are all stored, so
\* that little is lost should the daemon die.
StoreTimer ==
    /\ untold = {}
    /\ event' = [h \in Handler |->
          IF event[h] = NoEvent THEN NoEvent ELSE StoreCall(event[h])]
    /\ UNCHANGED << vars, untold, announced, activePath, missed, mceVars, ngfVars, settled >>

\* Only the history survives.
DaemonRestarted ==
    /\ Restart
    /\ untold' = {}
    /\ announced' = [h \in Handler |-> 0]
    /\ activePath' = NoCall
    /\ event' = [h \in Handler |-> NoEvent]
    /\ dictionary' = {} /\ watched' = {} /\ display' = "none"
    /\ StopRingtone /\ activeCallCount' = 0
    /\ UNCHANGED missed
    /\ settled' = {}

ObservedProviderStep(p) ==
    \/ ProviderAppended(p)
    \/ ProviderRemoved(p)
    \/ CallsDestroyed(p)
    \/ \E h \in Handler : CallAdded(p, h)
    \/ \E h \in Handler : CallRemoved(p, h)

\* Nothing is known of a handler before it is announced but its direction; what it
\* becomes while its provider is not registered is announced when it is.
ObservedHandlerStep(h) ==
    \/ /\ \E incoming \in BOOLEAN : HandlerPrepared(h, incoming, FALSE, "NULL")
       /\ UNCHANGED observerVars
    \/ HandlerDiscarded(h) /\ UNCHANGED observerVars
    \/ (\E s \in Status : StatusChanged(h, s)) /\ StatusSignalled(h)
    \/ (\E a \in VoiceCallFilterAction : Filter(h, a)) /\ StatusSignalled(h)

ObserversNext ==
    \/ /\ untold = {}
       /\ \/ \E p \in Provider : ObservedProviderStep(p)
          \/ \E h \in Handler : ObservedHandlerStep(h)
          \/ (\E on \in BOOLEAN : SetCallFiltering(on)) /\ UNCHANGED observerVars
          \/ DaemonRestarted
    \/ \E h \in Handler : Hear(h)
    \/ StoreTimer
    \/ PlayRingtone

ObserversSpec == ObserversInit /\ [][ObserversNext]_<< vars, observerVars >>

-----------------------------------------------------------------------------
(* Properties *)

\* The ringtone only plays for a live call that is still ringing, whichever other
\* calls ring, are answered or vanish with their provider meanwhile.
RingsForIncoming ==
    ringing => currentCall \in Connected /\ status[currentCall] = "INCOMING"

\* The number of calls, by which NGF picks the short ringtone, returns to zero
\* with the last call, however often calls were announced again.
CountReturnsToZero == Connected = {} => activeCallCount = 0

\* A call that was answered, ignored or rejected after it was announced, be it within
\* the announcement, is never recorded as missed, unless it was announced anew.
SettledNotMissed ==
    [][ \A h \in settled : announced[h] = 1 => h \notin missed' ]_missed

\* Between events the display shows the calls there are, or MCE still knows a call
\* that left with its provider.
DisplayIsCurrent ==
    untold = {} => display = Shown(CurrentCalls) \/ ~(dictionary \subseteq CurrentCalls)

\* /calls/active is the active call for as long as that lives, and otherwise free.
ActivePathIsActive ==
    activePath = IF activeVoiceCall \in gone THEN NoCall ELSE activeVoiceCall

=============================================================================
