---------------------------- MODULE ChannelHandler ----------------------------
(***************************************************************************)
(* CallChannelHandler and StreamChannelHandler (plugins/providers/         *)
(* telepathy): the object voicecalld keeps for one Telepathy channel.  A   *)
(* Call channel (SIP) has a CallChannelHandler; a StreamedMedia channel    *)
(* (cellular calls) has a StreamChannelHandler, and is either one call or  *)
(* a conference of several.                                                *)
(*                                                                         *)
(* This module holds the handlers' state and how their status moves; the   *)
(* provider module decides when, and what becomes of an invalidated one.   *)
(* The emergency, forwarded and remote-held flags are reported to clients; *)
(* without a device lock nothing in the daemon depends on them, and they   *)
(* are left out.                                                           *)
(***************************************************************************)
EXTENDS VoiceCallStatus, Naturals

CONSTANTS
    Account,       \* Telepathy accounts; each has one provider
    Handler,       \* handler objects, one per channel ever dispatched
    NoCall,        \* the NULL handler pointer, and the empty handler id
    Kind,          \* the kinds of channel of this instance
    MaxDuration    \* bound: seconds one call may last

AllKinds == { "call", "stream", "conference" }

ASSUME KindAssumption == Kind \subseteq AllKinds
ASSUME HandlerAssumption == NoCall \notin Handler /\ MaxDuration \in Nat

VARIABLES
    phase,         \* of each handler: unborn, live, or gone (off its provider's lists)
    account, kind,
    requested,     \* the call was dialled from here
    valid,         \* handlers whose channel has not been invalidated
    ready,         \* handlers whose channel became ready
    status, isIncoming,
    elapsed,       \* seconds since connectedAt, as long as the duration timer runs
    duration,
    accepting,     \* handlers waiting for the channel to accept the call
    hangingUp,     \* handlers waiting for the channel to hang up
    parent,        \* parentHandlerId
    children       \* childCalls

channelVars == << phase, account, kind, requested, valid, ready >>
callVars    == << status, isIncoming, elapsed, duration >>
requestVars == << accepting, hangingUp >>
familyVars  == << parent, children >>
handlerVars == << channelVars, callVars, requestVars, familyVars >>

HandlerTypeOK ==
    /\ phase \in [Handler -> { "unborn", "live", "gone" }]
    /\ account \in [Handler -> Account \cup { NoCall }]
    /\ kind \in [Handler -> Kind \cup { "none" }]
    /\ requested \subseteq Handler /\ valid \subseteq Handler /\ ready \subseteq Handler
    /\ status \in [Handler -> VoiceCallStatus]
    /\ isIncoming \in [Handler -> BOOLEAN]
    /\ elapsed \in [Handler -> 0 .. MaxDuration]
    /\ duration \in [Handler -> 0 .. MaxDuration]
    /\ accepting \subseteq Handler /\ hangingUp \subseteq Handler
    /\ parent \in [Handler -> Handler \cup { NoCall }]
    /\ children \in [Handler -> SUBSET Handler]

HandlerInit ==
    /\ phase = [h \in Handler |-> "unborn"]
    /\ account = [h \in Handler |-> NoCall]
    /\ kind = [h \in Handler |-> "none"]
    /\ requested = {} /\ valid = {} /\ ready = {}
    /\ status = [h \in Handler |-> "NULL"]
    /\ isIncoming = [h \in Handler |-> FALSE]
    /\ elapsed = [h \in Handler |-> 0]
    /\ duration = [h \in Handler |-> 0]
    /\ accepting = {} /\ hangingUp = {}
    /\ parent = [h \in Handler |-> NoCall]
    /\ children = [h \in Handler |-> {}]

Live == { h \in Handler : phase[h] = "live" }

IsStream(h) == kind[h] \in { "stream", "conference" }

-----------------------------------------------------------------------------
(* How the status moves *)

\* setStatus(s): a StreamChannelHandler keeps the filter's verdict when it is
\* disconnected, a CallChannelHandler does not.
NewStatus(h, s) ==
    IF IsStream(h) /\ s = "DISCONNECTED" /\ status[h] \in { "REJECTED", "IGNORED" }
    THEN status[h]
    ELSE s

\* onStatusChanged: the timer starts anew whenever the call becomes ongoing.
Elapsed(h, s) == IF IsOngoing(s) /\ IsOngoing(status[h]) THEN elapsed[h] ELSE 0

Report(h, s) ==
    /\ status' = [status EXCEPT ![h] = s]
    /\ elapsed' = [elapsed EXCEPT ![h] = Elapsed(h, s)]

\* Mutant: an incoming call rings as soon as its channel is ready.
InitialStatus_Ringing(h) == IF h \in requested THEN "DIALING" ELSE "INCOMING"

\* The status a channel that has just become ready gives its handler.
InitialStatus(h) ==
    CASE kind[h] = "call" -> IF h \in requested THEN "ALERTING" ELSE "INCOMING"
      [] kind[h] = "conference" -> "ACTIVE"
      [] kind[h] = "stream" -> IF h \in requested THEN "DIALING" ELSE "NULL"

\* onCallChannelCallStateChanged, for the states that do not end the call.
CallStateStatus == { "NULL", "DIALING", "ALERTING", "ACTIVE" }

\* What a StreamedMedia channel's streams, members and hold states make of a status.
StreamStateStatus   == { "DISCONNECTED", "ALERTING" }
MembersStatus(h)    == { "DISCONNECTED", IF status[h] = "HELD" THEN "HELD" ELSE "ACTIVE" }
RemoteHoldStatus(h) == IF status[h] = "HELD" THEN { "ACTIVE" } ELSE { "HELD" }
LocalHoldStatus(h) ==
    CASE status[h] = "HELD"   -> { "ACTIVE" }
      [] status[h] = "ACTIVE" -> { "HELD" }
      [] OTHER                -> {}
=============================================================================
