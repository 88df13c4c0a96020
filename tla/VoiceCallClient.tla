---------------------------- MODULE VoiceCallClient ----------------------------
(***************************************************************************)
(* A QML client of the daemon (plugins/declarative): VoiceCallManager,     *)
(* VoiceCallModel, VoiceCallProviderModel and a VoiceCallHandler per call, *)
(* which mirror the daemon's state in another process, together with the   *)
(* D-Bus adapters they talk to.                                            *)
(*                                                                         *)
(* Most signals carry no value: the client reads the property, blocking,   *)
(* when it gets to the signal, and so sees the daemon as it is then.  What *)
(* the daemon sends to one client, answers included, arrives in order;     *)
(* `bus' is what is under way.  A call's properties are sent with their    *)
(* signals and mirrored alike; its status stands for all of them.          *)
(***************************************************************************)
EXTENDS VoiceCallManager, SequencesExt

CONSTANT MaxLag     \* bound: the daemon goes on with at most so many messages under way

VARIABLES
    \* --- VoiceCallManagerPrivate of the client
    client,         \* "absent", "waiting" for the daemon, "reading" its state or "ready"
    shownActive,    \* activeVoiceCall
    shownProviders, \* VoiceCallProviderModel's providers
    \* --- VoiceCallModelPrivate and the VoiceCallHandlers
    handlers,       \* the calls in the model, each with its VoiceCallHandler
    phase,          \* how far each handler's initialisation has come
    mirror,         \* each handler's status
    \* --- D-Bus
    bus,            \* messages on their way to the client
    requests,       \* getProperties calls the daemon has not answered
    \* --- for the properties
    untold          \* what has changed without a signal since the last signal of it

mirrorVars == << handlers, phase, mirror, requests >>
clientVars == << client, shownActive, shownProviders, mirrorVars, bus, untold >>

Topic == { "voiceCalls", "activeVoiceCall", "providers" }

Phase == { "absent", "new", "asked", "known", "failed" }

Message ==
    [ type   : Topic \cup { "status", "properties", "error", "unheard" },
      call   : Handler \cup { NoCall },
      status : Status ]

\* Type invariant.  What is under way concerns handlers the client still has: no
\* answer reaches the handler of a call that was withdrawn and announced again.
ClientTypeOK ==
    /\ TypeOK
    /\ client \in { "absent", "waiting", "reading", "ready" }
    /\ shownActive \in Handler \cup { NoCall }
    /\ shownProviders \subseteq Provider
    /\ handlers = { h \in Handler : phase[h] # "absent" }
    /\ phase \in [Handler -> Phase]
    /\ mirror \in [Handler -> Status]
    /\ bus \in Seq(Message)
    /\ \A i \in DOMAIN bus : bus[i].call \in handlers \cup { NoCall }
    /\ requests = { h \in Handler : phase[h] = "asked" /\ \A i \in DOMAIN bus :
                        ~(bus[i].call = h /\ bus[i].type \in { "properties", "error" }) }
    /\ untold \subseteq Topic

ClientInit ==
    /\ Init
    /\ client = "absent"
    /\ shownActive = NoCall /\ shownProviders = {}
    /\ handlers = {}
    /\ phase = [h \in Handler |-> "absent"]
    /\ mirror = [h \in Handler |-> "NULL"]
    /\ bus = << >> /\ requests = {}
    /\ untold = {}

-----------------------------------------------------------------------------
(* The D-Bus adapters *)

\* What the property voiceCalls lists.
CurrentCalls == UNION { calls[p] : p \in providers }

\* What a client can learn by reading the properties; an active call that
\* voiceCalls does not list is none to it.
Readable ==
    [ voiceCalls      |-> CurrentCalls,
      activeVoiceCall |-> IF activeVoiceCall \in CurrentCalls THEN activeVoiceCall ELSE NoCall,
      providers       |-> providers ]

\* The calls with an object of their own on the bus.
Exported == voiceCalls \ gone

Changed(topic) == [ type |-> topic, call |-> NoCall, status |-> "NULL" ]

CallMessage(type, h, s) == [ type |-> type, call |-> h, status |-> s ]

\* A message to a handler that the client does not have any more.
Unheard == Changed("unheard")

\* Mutant: a handler connects to its call when it has the properties.
Subscribed_Late(h) == phase[h] \in { "known", "failed" }

Subscribed(h) == phase[h] \in { "asked", "known", "failed" }

\* VoiceCallHandlerDBusAdapter::onStatusChanged, for one that listens.
StatusSignal(h) ==
    IF h \in Exported /\ Subscribed(h) THEN << CallMessage("status", h, status'[h]) >> ELSE << >>

\* A step of the daemon sends msgs, in this order.
DaemonSends(msgs) ==
    LET sent == { msgs[i].type : i \in DOMAIN msgs }
        silently == { t \in Topic : Readable'[t] # Readable[t] } \ sent
    IN /\ Len(bus) <= MaxLag
       /\ IF client \in { "reading", "ready" }
          THEN bus' = bus \o msgs /\ untold' = (untold \ sent) \cup silently
          ELSE UNCHANGED << bus, untold >>
       /\ UNCHANGED << client, shownActive, shownProviders, mirrorVars >>

\* Mutant: the active call is announced before the list of calls.
AnnouncementOf_ActiveFirst(h, first) ==
    (IF first THEN << Changed("activeVoiceCall") >> ELSE << >>)
        \o (IF h \in ReleasedUnfiltered({ h }) THEN StatusSignal(h) ELSE << >>)
        \o << Changed("voiceCalls") >>

\* What onVoiceCallAdded emits for h, which becomes active if it is the first.
AnnouncementOf(h, first) ==
    (IF h \in ReleasedUnfiltered({ h }) THEN StatusSignal(h) ELSE << >>)
        \o << Changed("voiceCalls") >>
        \o (IF first THEN << Changed("activeVoiceCall") >> ELSE << >>)

Announcements(order) ==
    LET vacant == activeVoiceCall = NoCall
    IN FlattenSeq([ i \in DOMAIN order |-> AnnouncementOf(order[i], vacant /\ i = 1) ])

\* The calls hs are announced, in an order in which the new active call is first.
Announce(opening, hs) ==
    \E order \in SetToSeqs(hs) :
        /\ hs # {} /\ activeVoiceCall = NoCall => activeVoiceCall' = order[1]
        /\ DaemonSends(opening \o Announcements(order))

CallAdded(p, h) ==
    /\ ProviderAddsCall(p, h)
    /\ Announce(<< >>, IF p \in providers THEN Admitted({ h }) ELSE {})

CallRemoved(p, h) ==
    /\ ProviderRemovesCall(p, h)
    /\ DaemonSends(IF p \notin providers \/ h \notin voiceCalls THEN << >>
                   ELSE << Changed("voiceCalls") >>
                        \o IF activeVoiceCall' = activeVoiceCall THEN << >>
                           ELSE << Changed("activeVoiceCall") >>)

ProviderAppended(p) ==
    /\ AppendProvider(p)
    /\ Announce(<< Changed("providers") >>, Admitted(calls[p]))

\* Clients hear that the provider has gone, but not that its calls have.
ProviderRemoved(p) == RemoveProvider(p) /\ DaemonSends(<< Changed("providers") >>)

\* Handlers are deleted; their objects leave the bus without a word.
CallsDestroyed(p) == ProviderDestroyed(p) /\ DaemonSends(<< >>)

CallPrepared(h) ==
    /\ \E incoming, emergency \in BOOLEAN : HandlerPrepared(h, incoming, emergency, "NULL")
    /\ DaemonSends(<< >>)

CallChanged(h) == (\E s \in Status : StatusChanged(h, s)) /\ DaemonSends(StatusSignal(h))

\* The D-Bus method filter, or a plugin's verdict.
CallFiltered(h) ==
    (\E a \in VoiceCallFilterAction : Filter(h, a)) /\ DaemonSends(StatusSignal(h))

\* The new daemon has nothing to announce at first.
DaemonRestarted == Restart /\ DaemonSends(<< >>)

\* What the daemon does without a word to its clients: handlers that never become a
\* call, the filters, the counters and the device lock.
Unsignalled ==
    /\ \/ \E h \in Handler : HandlerDiscarded(h)
       \/ \E on \in BOOLEAN : SetCallFiltering(on)
       \/ ResetCallDurationCounters
       \/ DeviceLockStateChanged
    /\ DaemonSends(<< >>)

\* getProperties; a call that has no object on the bus is an error.
GetProperties(h) ==
    /\ h \in requests
    /\ requests' = requests \ { h }
    /\ bus' = Append(bus, IF h \in Exported THEN CallMessage("properties", h, status[h])
                          ELSE CallMessage("error", h, "NULL"))
    /\ UNCHANGED << vars, client, shownActive, shownProviders, handlers, phase, mirror, untold >>

-----------------------------------------------------------------------------
(* The client's VoiceCallManager, its models and handlers *)

\* The constructors: the provider model reads what there is, if the daemon is up.
ClientStarts ==
    /\ client = "absent"
    /\ client' = "waiting"
    /\ shownProviders' \in { {}, providers }
    /\ UNCHANGED << vars, shownActive, mirrorVars, bus, untold >>

\* initialize, once the daemon is up: signals are connected, and the active call is
\* looked up among the calls of the model, which has none yet.
Initialize ==
    /\ client = "waiting"
    /\ client' = "reading"
    /\ shownActive' = NoCall
    /\ untold' = { t \in Topic : CASE t = "voiceCalls" -> FALSE
                                   [] t = "activeVoiceCall" -> Readable[t] # NoCall
                                   [] t = "providers" -> Readable[t] # shownProviders }
    /\ UNCHANGED << vars, shownProviders, mirrorVars, bus >>

\* Mutant: calls that have gone stay in the model.
Withdrawn_Never == {}

\* The handlers that are dropped from the model, and so deleted.
Withdrawn == handlers \ CurrentCalls

\* A handler owns the watchers of its calls.
Awaited == requests \ Withdrawn

\* VoiceCallModel::onVoiceCallsChanged, with rest still to come.
ReadVoiceCalls(rest) ==
    LET kept == handlers \ Withdrawn
    IN /\ handlers' = kept \cup CurrentCalls
       /\ phase' = [h \in Handler |-> IF h \in kept THEN phase[h]
                                      ELSE IF h \in CurrentCalls THEN "new" ELSE "absent"]
       /\ mirror' = [h \in Handler |-> IF h \in kept THEN mirror[h] ELSE "NULL"]
       /\ requests' = Awaited
       /\ bus' = [i \in DOMAIN rest |-> IF rest[i].call \in Withdrawn THEN Unheard ELSE rest[i]]

\* The end of initialize: the calls there are.
FirstRead ==
    /\ client = "reading"
    /\ client' = "ready"
    /\ ReadVoiceCalls(bus)
    /\ UNCHANGED << vars, shownActive, shownProviders, untold >>

\* VoiceCallHandler::initialize, on the event loop's next turn.
HandlerInitialize(h) ==
    /\ client = "ready"
    /\ phase[h] = "new"
    /\ phase' = [phase EXCEPT ![h] = "asked"]
    /\ requests' = requests \cup { h }
    /\ UNCHANGED << vars, client, shownActive, shownProviders, handlers, mirror, bus, untold >>

Received(type) == client = "ready" /\ bus # << >> /\ Head(bus).type = type

OnVoiceCallsChanged ==
    /\ Received("voiceCalls")
    /\ ReadVoiceCalls(Tail(bus))
    /\ UNCHANGED << vars, client, shownActive, shownProviders, untold >>

\* The property activeVoiceCall; asking a destroyed handler for its id is undefined.
ActiveIds == IF activeVoiceCall \in gone THEN { activeVoiceCall, NoCall } ELSE { activeVoiceCall }

OnActiveVoiceCallChanged ==
    /\ Received("activeVoiceCall")
    /\ \E id \in ActiveIds : shownActive' = IF id \in handlers THEN id ELSE NoCall
    /\ bus' = Tail(bus)
    /\ UNCHANGED << vars, client, shownProviders, mirrorVars, untold >>

\* Mutant: the old providers are not cleared.
ProvidersRead_Added == shownProviders \cup providers

ProvidersRead == providers

OnProvidersChanged ==
    /\ Received("providers")
    /\ shownProviders' = ProvidersRead
    /\ bus' = Tail(bus)
    /\ UNCHANGED << vars, client, shownActive, mirrorVars, untold >>

NobodyListens ==
    /\ Received("unheard")
    /\ bus' = Tail(bus)
    /\ UNCHANGED << vars, client, shownActive, shownProviders, mirrorVars, untold >>

OnStatusChanged ==
    /\ Received("status")
    /\ mirror' = [mirror EXCEPT ![Head(bus).call] = Head(bus).status]
    /\ bus' = Tail(bus)
    /\ UNCHANGED << vars, client, shownActive, shownProviders, handlers, phase, requests, untold >>

\* onGetPropertiesFinished; an error is only logged, and nobody asks again.
OnGetPropertiesFinished ==
    /\ \/ /\ Received("properties")
          /\ phase' = [phase EXCEPT ![Head(bus).call] = "known"]
          /\ mirror' = [mirror EXCEPT ![Head(bus).call] = Head(bus).status]
       \/ /\ Received("error")
          /\ phase' = [phase EXCEPT ![Head(bus).call] = "failed"]
          /\ UNCHANGED mirror
    /\ bus' = Tail(bus)
    /\ UNCHANGED << vars, client, shownActive, shownProviders, handlers, requests, untold >>

-----------------------------------------------------------------------------
DaemonStep ==
    \/ \E p \in Provider :
          \/ ProviderAppended(p) \/ ProviderRemoved(p) \/ CallsDestroyed(p)
          \/ \E h \in Handler : CallAdded(p, h) \/ CallRemoved(p, h)
    \/ \E h \in Handler : CallPrepared(h) \/ CallChanged(h) \/ CallFiltered(h)
    \/ \E h \in Handler : GetProperties(h)
    \/ DaemonRestarted
    \/ Unsignalled

ClientStep ==
    \/ ClientStarts \/ Initialize \/ FirstRead
    \/ \E h \in Handler : HandlerInitialize(h)
    \/ OnVoiceCallsChanged \/ OnActiveVoiceCallChanged \/ OnProvidersChanged
    \/ OnStatusChanged \/ OnGetPropertiesFinished \/ NobodyListens

ClientNext == DaemonStep \/ ClientStep

ClientSpec == ClientInit /\ [][ClientNext]_<< vars, clientVars >>

-----------------------------------------------------------------------------
(* Properties *)

\* Nothing of this topic is under way or was changed without a signal.
Settled(topic) ==
    /\ client = "ready"
    /\ topic \notin untold
    /\ \A i \in DOMAIN bus : bus[i].type # topic

\* Signals say that something changed, not what: a client that has worked off its
\* signals lists exactly the calls there are, however late it came to them.
ModelFollows == Settled("voiceCalls") => handlers = CurrentCalls

\* The active call is looked up in a model of calls that another signal brings up to
\* date, and that signal is never the later one: the active call is always found.
ActiveFollows == Settled("activeVoiceCall") => shownActive = Readable.activeVoiceCall

\* The client dials with the providers there are.
ProvidersFollow == Settled("providers") => shownProviders = providers

\* A handler connects, then asks for the properties, while the call goes on: with
\* nothing under way its status is the call's, and no living call is left unknown.
MirrorFollows ==
    \A h \in handlers \cap Exported :
        phase[h] # "new" /\ h \notin requests /\ (\A i \in DOMAIN bus : bus[i].call # h)
            => \/ phase[h] = "known" /\ mirror[h] = status[h]
               \/ phase[h] = "failed" /\ WithDeviceLock /\ ~isEmergency[h]
=============================================================================
