-------------------------- MODULE TelepathyProvider --------------------------
(***************************************************************************)
(* The Telepathy side of voicecalld as one system: the plugin that is      *)
(* Telepathy's handler for calls, one TelepathyProvider per account, their *)
(* channel handlers, and the manager they announce the calls to            *)
(* (VoiceCallManager, instantiated as M).                                  *)
(*                                                                         *)
(* Telepathy is external.  An account goes on- and offline while its       *)
(* channels live on, so a provider is appended to and removed from the     *)
(* manager again and again with the same handlers.  What is asked of a     *)
(* channel finishes later, well or not, and its signals come when they     *)
(* please.  There is no device lock in this configuration, and the one     *)
(* pending channel request of a provider (dial, createConference) is left  *)
(* out: a requested channel is dispatched like any other.                  *)
(***************************************************************************)
EXTENDS ChannelHandler

VARIABLES
    directory,       \* TelepathyProviderPlugin's providers, by account
    task,            \* what the event loop is bound to do next
    providers, voiceCalls, activeVoiceCall, isCallFiltering, received, dialled

managerVars  == << providers, voiceCalls, activeVoiceCall, isCallFiltering >>
counterVars  == << received, dialled >>
telepathyVars == << directory, task >>
vars == << handlerVars, telepathyVars, managerVars, counterVars >>

\* d->voiceCalls of an account's provider; its other live handlers are in
\* d->invalidVoiceCalls, waiting for their channel to become ready.
CallsOf(a) == { h \in Live \cap ready : account[h] = a }

M == INSTANCE VoiceCallManager WITH
        Provider       <- Account,
        Status         <- VoiceCallStatus,
        WithDeviceLock <- FALSE,
        managerLockout <- FALSE,
        isEmergency    <- [h \in Handler |-> FALSE],
        calls          <- [a \in Account |-> CallsOf(a)],
        gone           <- { h \in Handler : phase[h] = "gone" }

Idle == [do |-> "idle", on |-> NoCall]

TypeOK ==
    /\ HandlerTypeOK
    /\ directory \subseteq Account
    /\ task \in [do : { "announcing", "deleting" }, on : Handler]
                \cup [do : { "deregistering" }, on : Account] \cup { Idle }
    /\ M!TypeOK

Init ==
    /\ HandlerInit
    /\ directory = {}
    /\ task = Idle
    /\ M!ManagerInit
    /\ received = 0 /\ dialled = 0

\* Mutant: a provider is connected to the manager whether registered or not.
Registered_Always(h) == account[h] \in Account

Registered(h) == account[h] \in providers

\* conferenceHandler(): Telepathy has at most one conference at a time, and one
\* whose channel is invalid is no longer a conference.
Conference(a) == { c \in CallsOf(a) \cap valid : kind[c] = "conference" }

-----------------------------------------------------------------------------
(* Changes of status, and the end of a handler *)

\* Mutant: voiceCallRemoved is not emitted.
Retract_Silent(h) ==
    /\ phase' = [phase EXCEPT ![h] = "gone"]
    /\ status' = [status EXCEPT ![h] = "NULL"]
    /\ elapsed' = [elapsed EXCEPT ![h] = 0]
    /\ task' = [do |-> "deleting", on |-> h]
    /\ UNCHANGED << managerVars, counterVars >>

\* onHandlerInvalidated: off the provider's list and, if the provider is registered,
\* off the manager's table; the deferred deletion is the event loop's next task.
Retract(h) ==
    /\ phase' = [phase EXCEPT ![h] = "gone"]
    /\ status' = [status EXCEPT ![h] = "NULL"]
    /\ elapsed' = [elapsed EXCEPT ![h] = 0]
    /\ IF h \in ready /\ Registered(h)
       THEN M!OnVoiceCallRemoved(h)
       ELSE UNCHANGED << voiceCalls, activeVoiceCall, counterVars >>
    /\ task' = [do |-> "deleting", on |-> h]
    /\ UNCHANGED << providers, isCallFiltering >>

Keep(h, s) ==
    /\ Report(h, s)
    /\ UNCHANGED << phase, task, managerVars, counterVars >>

\* A call of a disconnected conference goes as soon as it is disconnected, too.
GoesWithConference(h, s) ==
    /\ s = "DISCONNECTED" /\ status[h] # s
    /\ parent[h] \in Live \cap ready /\ status[parent[h]] = "DISCONNECTED"

\* setStatus, with all it sets off.
SetStatus(h, s) ==
    LET new == NewStatus(h, s)
    IN IF GoesWithConference(h, new) THEN Retract(h) ELSE Keep(h, new)

\* What is asked of a handler that is gone has nobody to answer to.
Requests(accept, hangup) ==
    /\ accepting' = accept \cap Live'
    /\ hangingUp' = hangup \cap Live'

\* What no event after the channel's readiness changes.
fixedVars == << account, kind, requested, ready, isIncoming, directory >>

-----------------------------------------------------------------------------
(* Channels come and become ready *)

\* An account has one conference at a time, be it kept for its calls only.
MayCreateConference(a) ==
    ~\E c \in Live : account[c] = a /\ kind[c] = "conference"

\* handleChannels and createHandler, for an account that has a provider.
CreateHandler(a, h, k, isRequested) ==
    /\ task = Idle
    /\ a \in directory /\ phase[h] = "unborn"
    /\ k = "conference" => isRequested /\ MayCreateConference(a)
    /\ phase' = [phase EXCEPT ![h] = "live"]
    /\ account' = [account EXCEPT ![h] = a]
    /\ kind' = [kind EXCEPT ![h] = k]
    /\ requested' = IF isRequested THEN requested \cup { h } ELSE requested
    /\ valid' = valid \cup { h }
    /\ UNCHANGED << ready, callVars, requestVars, familyVars, telepathyVars, managerVars,
                    counterVars >>

\* on...ChannelReady without an error.  The calls a new conference starts with are
\* merged before it is on the provider's list, which comes to nothing.
BecomesReady(h) ==
    /\ task = Idle
    /\ h \in (Live \cap valid) \ ready
    /\ status' = [status EXCEPT ![h] = InitialStatus(h)]
    /\ isIncoming' = [isIncoming EXCEPT ![h] = h \notin requested]
    /\ task' = [do |-> "announcing", on |-> h]
    /\ UNCHANGED << channelVars, elapsed, duration, requestVars, familyVars, directory,
                    managerVars, counterVars >>

\* The slot of ready(), in the same event.
Announce(h) ==
    /\ task = [do |-> "announcing", on |-> h]
    /\ ready' = ready \cup { h }
    /\ IF Registered(h)
       THEN M!OnVoiceCallAdded({ h }) /\ M!Release(M!ReleasedUnfiltered({ h }))
       ELSE UNCHANGED << voiceCalls, activeVoiceCall, status >>
    /\ task' = Idle
    /\ UNCHANGED << phase, account, kind, requested, valid, isIncoming, elapsed, duration,
                    requestVars, familyVars, directory, providers, isCallFiltering, counterVars >>

-----------------------------------------------------------------------------
(* Channels change and go *)

\* A signal of the channel, as long as the event loop has nothing else to do.
Signal(h) == task = Idle /\ h \in Live \cap ready \cap valid

OnCallStateChanged(h, s) ==
    /\ Signal(h) /\ kind[h] = "call"
    /\ s \in CallStateStatus
    /\ SetStatus(h, s)
    /\ UNCHANGED << fixedVars, valid, duration, requestVars, familyVars >>

\* CallStateEnded: the handler goes without waiting for its channel.
OnCallStateEnded(h) ==
    /\ Signal(h) /\ kind[h] = "call"
    /\ Retract(h)
    /\ Requests(accepting, hangingUp)
    /\ UNCHANGED << fixedVars, valid, duration, familyVars >>

\* The slots for the stream states, the members and the two hold states.  A conference
\* asked for its hold state (updateConferenceHoldState) answers with such a change.
OnStreamedMediaChannelChanged(h, s) ==
    /\ Signal(h) /\ IsStream(h)
    /\ s \in StreamStateStatus \cup MembersStatus(h) \cup RemoteHoldStatus(h) \cup LocalHoldStatus(h)
    /\ SetStatus(h, s)
    /\ Requests(accepting, hangingUp)
    /\ UNCHANGED << fixedVars, valid, duration, familyVars >>

\* Mutant: the handler of a conference goes with its channel.
WaitsForChildren_Never(h) == h \notin Handler

WaitsForChildren(h) == IsStream(h) /\ status[h] = "DISCONNECTED" /\ children[h] # {}

Orphaned(h) == [g \in Handler |-> IF g \in children[h] THEN NoCall ELSE parent[g]]

\* on...ChannelInvalidated
OnChannelInvalidated(h) ==
    /\ task = Idle
    /\ h \in Live \cap valid
    /\ valid' = valid \ { h }
    /\ IF WaitsForChildren(h)
       THEN parent' = parent /\ Keep(h, status[h])
       ELSE parent' = Orphaned(h) /\ Retract(h)
    /\ Requests(accepting, hangingUp)
    /\ UNCHANGED << fixedVars, duration, children >>

\* Mutant: a conference is not told of a call that is deleted.
ToldOfDeletion_Never(c) == c \in {}

\* The conference that the destructor of a call finds by its parentHandlerId.
ToldOfDeletion(c) == c \in Live \cap ready

\* Mutant: a kept conference is not invalidated with its last call.
LastOneOut_Never(c, h) == c \notin Handler /\ h \in Handler

\* removeChildCall invalidates the conference whose channel is no longer valid.
LastOneOut(c, h) == c \notin valid /\ children[c] \subseteq { h }

\* The deferred deletion: the destructor takes a call out of its conference,
\* and a conference lets go of its calls.
Deleted(h) ==
    LET c == parent[h]
        told == ToldOfDeletion(c)
    IN /\ task = [do |-> "deleting", on |-> h]
       /\ children' = [g \in Handler |-> IF g = h THEN {}
                                         ELSE IF told /\ g = c THEN children[g] \ { h }
                                         ELSE children[g]]
       /\ parent' = [Orphaned(h) EXCEPT ![h] = NoCall]
       /\ IF told /\ LastOneOut(c, h)
          THEN Retract(c)
          ELSE task' = Idle /\ UNCHANGED << phase, status, elapsed, managerVars, counterVars >>
       /\ Requests(accepting, hangingUp)
       /\ UNCHANGED << fixedVars, valid, duration >>

-----------------------------------------------------------------------------
(* Conferences *)

\* onChannelMerged: the call is known to the conference's provider.
OnChannelMerged(c, h) ==
    /\ task = Idle
    /\ h \in CallsOf(account[h]) /\ kind[h] = "stream"
    /\ c \in Conference(account[h]) /\ h \notin children[c]
    /\ children' = [children EXCEPT ![c] = @ \cup { h }]
    /\ parent' = [parent EXCEPT ![h] = c]
    /\ UNCHANGED << channelVars, callVars, requestVars, telepathyVars, managerVars, counterVars >>

\* onChannelRemoved, for a call that was removed or split off; its conference is valid,
\* so that it is never the last one out.
OnChannelRemoved(c, h) ==
    /\ task = Idle
    /\ h \in CallsOf(account[h]) /\ kind[h] = "stream"
    /\ c \in Conference(account[h])
    /\ children' = [children EXCEPT ![c] = @ \ { h }]
    /\ parent' = [parent EXCEPT ![h] = NoCall]
    /\ UNCHANGED << channelVars, callVars, requestVars, telepathyVars, managerVars, counterVars >>

-----------------------------------------------------------------------------
(* What clients ask of a call, and what the channel answers *)

\* /calls/<id> on D-Bus.
Reachable == voiceCalls \cap Live

\* answer: active before the channel has accepted.
Answer(h) ==
    /\ task = Idle /\ h \in Reachable
    /\ Keep(h, "ACTIVE")
    /\ Requests(accepting \cup { h }, hangingUp)
    /\ UNCHANGED << fixedVars, valid, duration, familyVars >>

\* hangup; a StreamChannelHandler has at most one such request under way.
Hangup(h) ==
    /\ task = Idle /\ h \in Reachable
    /\ UNCHANGED << channelVars, callVars, familyVars, telepathyVars, managerVars, counterVars >>
    /\ Requests(accepting, hangingUp \cup { h })

\* filter
FilterCall(h, action) ==
    /\ task = Idle /\ h \in Reachable
    /\ status[h] = "NULL"
    /\ Keep(h, FilteredStatus(action))
    /\ Requests(accepting, IF action = "REJECT" THEN hangingUp \cup { h } ELSE hangingUp)
    /\ UNCHANGED << fixedVars, valid, duration, familyVars >>

\* on...AcceptCallFinished: a call that could not be accepted is given up, a cellular
\* one by hanging up.
AcceptFinished(h, ok) ==
    /\ task = Idle /\ h \in accepting
    /\ CASE ok                 -> SetStatus(h, "ACTIVE")
         [] ~ok /\ IsStream(h)  -> Keep(h, status[h])
         [] ~ok /\ ~IsStream(h) -> Retract(h)
    /\ Requests(accepting \ { h }, IF ok THEN hangingUp ELSE hangingUp \cup { h })
    /\ UNCHANGED << fixedVars, valid, duration, familyVars >>

\* Mutant: an error is the end of the request only.
HangupFailed_Ignored(h) == Keep(h, status[h]) /\ Requests(accepting, hangingUp \ { h })

\* A cellular call tries again, and again.
HangupFailed(h) ==
    /\ IF IsStream(h) THEN Keep(h, status[h]) ELSE Retract(h)
    /\ Requests(accepting, hangingUp)

\* on...HangupCallFinished
HangupFinished(h, ok) ==
    /\ task = Idle /\ h \in hangingUp
    /\ IF ok
       THEN SetStatus(h, "DISCONNECTED") /\ Requests(accepting, hangingUp \ { h })
       ELSE HangupFailed(h)
    /\ UNCHANGED << fixedVars, valid, duration, familyVars >>

\* timerEvent
TimerEvent(h) ==
    /\ task = Idle /\ h \in Live \cap ready
    /\ IsOngoing(status[h])
    /\ elapsed[h] < MaxDuration
    /\ elapsed' = [elapsed EXCEPT ![h] = @ + 1]
    /\ duration' = [duration EXCEPT ![h] = elapsed[h] + 1]
    /\ UNCHANGED << channelVars, status, isIncoming, requestVars, familyVars, telepathyVars,
                    managerVars, counterVars >>

-----------------------------------------------------------------------------
(* Accounts *)

\* onNewAccount, registerAccountProvider
AccountAdded(a) ==
    /\ task = Idle /\ a \notin directory
    /\ directory' = directory \cup { a }
    /\ UNCHANGED << handlerVars, task, managerVars, counterVars >>

\* onAccountAvailabilityChanged: appendProvider announces every call the provider has.
AccountAvailable(a) ==
    /\ task = Idle /\ a \in directory \ providers
    /\ providers' = providers \cup { a }
    /\ M!OnVoiceCallAdded(CallsOf(a))
    /\ M!Release(M!ReleasedUnfiltered(CallsOf(a)))
    /\ UNCHANGED << channelVars, isIncoming, elapsed, duration, requestVars, familyVars,
                    telepathyVars, isCallFiltering, counterVars >>

\* ... and removeProvider retracts none.
AccountUnavailable(a) ==
    /\ task = Idle /\ a \in providers
    /\ providers' = providers \ { a }
    /\ UNCHANGED << handlerVars, telepathyVars, voiceCalls, activeVoiceCall, isCallFiltering,
                    counterVars >>

\* onAccountInvalidated, deregisterAccountProvider
AccountInvalidated(a) ==
    /\ task = Idle /\ a \in directory
    /\ providers' = providers \ { a }
    /\ directory' = directory \ { a }
    /\ task' = [do |-> "deregistering", on |-> a]
    /\ UNCHANGED << handlerVars, voiceCalls, activeVoiceCall, isCallFiltering, counterVars >>

\* Handlers are deleted with the object that owns them.
Destroy(hs) ==
    /\ phase' = [h \in Handler |-> IF h \in hs THEN "gone" ELSE phase[h]]
    /\ status' = [h \in Handler |-> IF h \in hs THEN "NULL" ELSE status[h]]
    /\ elapsed' = [h \in Handler |-> IF h \in hs THEN 0 ELSE elapsed[h]]
    /\ parent' = [h \in Handler |-> IF h \in hs THEN NoCall ELSE parent[h]]
    /\ children' = [h \in Handler |-> IF h \in hs THEN {} ELSE children[h]]
    /\ valid' = valid \ hs
    /\ Requests(accepting, hangingUp)
    /\ UNCHANGED << account, kind, requested, ready, isIncoming, duration, counterVars >>

\* The deferred deletion of the provider.  A call of a conference looks for it on the
\* list of a provider that has been destroyed; the daemon may die of it (Restart).
ProviderDeleted(a) ==
    /\ task = [do |-> "deregistering", on |-> a]
    /\ Destroy({ h \in Live : account[h] = a })
    /\ task' = Idle
    /\ UNCHANGED << directory, managerVars >>

-----------------------------------------------------------------------------
(* The daemon *)

SetCallFiltering(on) ==
    /\ task = Idle
    /\ isCallFiltering' = on
    /\ UNCHANGED << handlerVars, telepathyVars, providers, voiceCalls, activeVoiceCall,
                    counterVars >>

Restart ==
    /\ Destroy({ h \in Handler : phase[h] # "unborn" })
    /\ providers' = {} /\ voiceCalls' = {}
    /\ activeVoiceCall' = NoCall /\ isCallFiltering' = FALSE
    /\ directory' = {} /\ task' = Idle

ChannelStep(h) ==
    \/ \E a \in Account, k \in Kind, isRequested \in BOOLEAN : CreateHandler(a, h, k, isRequested)
    \/ BecomesReady(h)
    \/ Announce(h)
    \/ \E s \in VoiceCallStatus : OnCallStateChanged(h, s)
    \/ OnCallStateEnded(h)
    \/ \E s \in VoiceCallStatus : OnStreamedMediaChannelChanged(h, s)
    \/ OnChannelInvalidated(h)
    \/ \E c \in Handler : OnChannelMerged(c, h)
    \/ \E c \in Handler : OnChannelRemoved(c, h)
    \/ Deleted(h)

RequestStep(h) ==
    \/ Answer(h)
    \/ Hangup(h)
    \/ \E action \in VoiceCallFilterAction : FilterCall(h, action)
    \/ \E ok \in BOOLEAN : AcceptFinished(h, ok)
    \/ \E ok \in BOOLEAN : HangupFinished(h, ok)
    \/ TimerEvent(h)

AccountStep(a) ==
    \/ AccountAdded(a)
    \/ AccountAvailable(a)
    \/ AccountUnavailable(a)
    \/ AccountInvalidated(a)
    \/ ProviderDeleted(a)

Next ==
    \/ \E h \in Handler : ChannelStep(h) \/ RequestStep(h)
    \/ \E a \in Account : AccountStep(a)
    \/ \E on \in BOOLEAN : SetCallFiltering(on)
    \/ Restart

Spec == Init /\ [][Next]_vars

\* The event loop gets round to what it has been told to do, and Telepathy answers
\* every hangup in the end, if only with a timeout.
Fairness ==
    /\ \A h \in Handler : WF_vars(Announce(h)) /\ WF_vars(Deleted(h))
    /\ \A a \in Account : WF_vars(ProviderDeleted(a))
    /\ \A h \in Handler : WF_vars(\E ok \in BOOLEAN : HangupFinished(h, ok))

LiveSpec == Spec /\ Fairness

-----------------------------------------------------------------------------
(* Properties *)

\* What this side of the daemon does to the manager is no more than any provider may
\* do: accounts that come and go with live calls included, its manager keeps every
\* promise that is checked and proved of VoiceCallManager.
ImplementsManager == M!Spec

\* Calls and conferences agree on who belongs to whom, and neither points to a handler
\* that has been deleted, however merges, splits, hang-ups and lost channels interleave.
FamilyAgrees ==
    /\ \A h \in Handler : parent[h] # NoCall =>
            parent[h] \in Live /\ h \in children[parent[h]]
    /\ \A c \in Live : \A h \in children[c] :
            parent[h] = c /\ (h \in Live \/ task = [do |-> "deleting", on |-> h])

\* A conference that clients see disconnected goes from their sight only after the last
\* of its calls; only the loss of the account or of the daemon takes them all at once.
ConferenceGoesLast ==
    [][ \A c \in Live : status[c] = "DISCONNECTED" /\ phase'[c] = "gone"
            => children'[c] = {} ]_vars

\* "Keep the conference handler alive in the disconnected state until all children have
\* been split or destroyed" (streamchannelhandler.cpp:499): one that is kept has a call
\* left, or one whose destructor is about to run; nothing else would ever end it.
KeptForItsChildren ==
    \A c \in (Live \cap ready) \ valid :
        \E h \in children[c] : h \in Live \/ task = [do |-> "deleting", on |-> h]

\* "Incoming calls are kept in the NULL state, waiting to be filtered"
\* (voicecallmanager.cpp:360), as long as a filter has asked for it.
IncomingIsKeptForFilter ==
    [][ \A h \in ready' \ ready :
            isIncoming[h] /\ Registered(h) /\ isCallFiltering => status'[h] = "NULL" ]_vars

\* A hang-up comes to an end: the call is disconnected or gone, whatever the channel
\* answers and however late (a cellular call may be refused for ever).
HangupEnds ==
    \A h \in Handler : h \in hangingUp ~> h \notin Live \/ status[h] = "DISCONNECTED"
=============================================================================
