--------------------------- MODULE TelepathyProofs ---------------------------
(***************************************************************************)
(* What the Telepathy provider guarantees for any accounts, channels,      *)
(* kinds of channel and durations: calls and conferences agree on who      *)
(* belongs to whom, a conference is kept for its calls and goes after      *)
(* them, and the provider implements VoiceCallManager.                     *)
(***************************************************************************)
EXTENDS TelepathyProvider, TLAPS

Task(what, on) == [do |-> what, on |-> on]

\* A registered provider is one of the plugin's, and a live handler has a provider,
\* if only one that is about to be deleted.
ProvidersOwn ==
    /\ providers \subseteq directory
    /\ \A h \in Live : account[h] \in directory \/ task = Task("deregistering", account[h])
    /\ \A a \in Account : task = Task("deregistering", a) => a \notin directory

\* Only a handler whose channel became ready is used by anybody.
OnlyReadyAreUsed ==
    /\ ready \cup voiceCalls \subseteq { h \in Handler : phase[h] # "unborn" }
    /\ voiceCalls \cap Live \subseteq ready
    /\ accepting \cup hangingUp \subseteq Live \cap ready
    /\ \A h \in Handler : phase[h] = "gone" => status[h] = "NULL"

\* What a live handler is: one conference per account at most, and one made here.
KindsAre ==
    /\ \A h \in Handler : phase[h] = "unborn" => kind[h] = "none"
    /\ \A h \in Live : kind[h] \in Kind /\ (kind[h] = "conference" => h \in requested)
    /\ \A c, d \in Live :
            kind[c] = "conference" /\ kind[d] = "conference" /\ account[c] = account[d] => c = d

\* A handler is announced right after its channel became ready, and deleted right
\* after it has gone.
TasksAre ==
    /\ \A h \in Handler : task = Task("announcing", h) =>
            /\ h \in (Live \cap valid) \ ready
            /\ isIncoming[h] => kind[h] = "call" \/ status[h] = "NULL"
    /\ \A h \in Handler : task = Task("deleting", h) => phase[h] = "gone"

\* Only a conference has children, all of them calls of its account; one that is gone
\* and about to be deleted is their parent no more.
ChildrenAre ==
    \A c \in Handler : \A h \in children[c] :
        /\ kind[h] = "stream" /\ kind[c] = "conference" /\ account[h] = account[c]
        /\ c \in ready
        /\ c \in Live \/ (task = Task("deleting", c) /\ parent[h] = NoCall)

TelepathyInv ==
    /\ TypeOK
    /\ ProvidersOwn
    /\ OnlyReadyAreUsed
    /\ KindsAre
    /\ TasksAre
    /\ ChildrenAre
    /\ FamilyAgrees
    /\ KeptForItsChildren

-----------------------------------------------------------------------------
(* What the events of a channel do *)

\* The variables start with their types.
LEMMA TypeInit == Init => TypeOK
<1> SUFFICES ASSUME Init PROVE TypeOK
  OBVIOUS
<1>1. HandlerTypeOK
  BY HandlerAssumption DEF Init, HandlerInit, HandlerTypeOK, VoiceCallStatus
<1>2. \A a \in Account : CallsOf(a) = {}
  BY DEF Init, HandlerInit, CallsOf
<1>3. M!TypeOK
  BY <1>1, <1>2 DEF Init, HandlerInit, HandlerTypeOK, M!ManagerInit, M!TypeOK
<1>4. QED
  BY <1>1, <1>3 DEF Init, TypeOK

\* A handler has at most a new status, and a conference that has lost its channel
\* stays if it has children.
Stays(h) ==
    /\ task = Idle /\ h \in Live \cap ready
    /\ \E s \in VoiceCallStatus : status' = [status EXCEPT ![h] = s]
    /\ elapsed' \in [Handler -> 0 .. MaxDuration]
    /\ valid' = valid \/ (valid' = valid \ { h } /\ children[h] # {})
    /\ accepting' \subseteq accepting \cup { h }
    /\ hangingUp' \subseteq hangingUp \cup { h }
    /\ UNCHANGED << fixedVars, phase, duration, familyVars, task, managerVars, counterVars >>

\* A handler goes; its children, if it has any, no longer point to it.
Goes(h) ==
    /\ task = Idle /\ h \in Live /\ Retract(h)
    /\ valid' \in { valid, valid \ { h } }
    /\ parent' = Orphaned(h) /\ children' = children
    /\ status[h] = "DISCONNECTED" => children[h] = {}
    /\ accepting' \subseteq accepting \ { h }
    /\ hangingUp' \subseteq hangingUp \ { h }
    /\ UNCHANGED << fixedVars, duration >>

\* A call without children orphans nobody.
LEMMA ChildlessOrphans ==
    ASSUME TypeOK, NEW h \in Handler, children[h] = {}
    PROVE  Orphaned(h) = parent
BY DEF Orphaned, TypeOK, HandlerTypeOK

\* A handler that is not ready, and one with a parent, has no children; nor has a SIP call.
LEMMA Childless ==
    ASSUME TelepathyInv, NEW h \in Handler,
           kind[h] # "conference" \/ h \notin ready \/ parent[h] \in Live
    PROVE  children[h] = {}
<1>1. CASE kind[h] # "conference" \/ h \notin ready
  BY <1>1 DEF TelepathyInv, ChildrenAre
<1>2. CASE parent[h] \in Live
  <2>1. parent[h] # NoCall  BY <1>2, HandlerAssumption DEF Live
  <2>2. h \in children[parent[h]]  BY <2>1 DEF TelepathyInv, FamilyAgrees
  <2>3. kind[h] = "stream"  BY <1>2, <2>2 DEF TelepathyInv, ChildrenAre, Live
  <2>4. QED  BY <2>3 DEF TelepathyInv, ChildrenAre
<1>3. QED  BY <1>1, <1>2

\* The status of a handler may be any that Telepathy can give it.
LEMMA StatusTypes ==
    /\ CallStateStatus \subseteq VoiceCallStatus
    /\ \A h \in Handler :
          StreamStateStatus \cup MembersStatus(h) \cup RemoteHoldStatus(h) \cup LocalHoldStatus(h)
            \subseteq VoiceCallStatus
    /\ \A a \in VoiceCallFilterAction : FilteredStatus(a) \in VoiceCallStatus
BY DEF CallStateStatus, VoiceCallStatus, StreamStateStatus, MembersStatus, RemoteHoldStatus,
       LocalHoldStatus, VoiceCallFilterAction, FilteredStatus

\* A report changes the status and keeps the timer in its range.
LEMMA Reports ==
    ASSUME TypeOK, NEW h \in Handler, NEW s \in VoiceCallStatus, Keep(h, s)
    PROVE  /\ status' = [status EXCEPT ![h] = s]
           /\ elapsed' \in [Handler -> 0 .. MaxDuration]
           /\ UNCHANGED << phase, task, managerVars, counterVars >>
BY HandlerAssumption DEF Keep, Report, Elapsed, TypeOK, HandlerTypeOK

\* Only what is asked of a live handler waits for an answer.
LEMMA RequestsOfLive ==
    ASSUME NEW a, NEW b, Requests(a, b)
    PROVE  accepting' = a \cap Live' /\ hangingUp' = b \cap Live'
BY DEF Requests

\* A handler that goes waits for no answer.
LEMMA NoneWaits ==
    ASSUME NEW h \in Handler, NEW a, NEW b, TypeOK, Retract(h), Requests(a, b)
    PROVE  accepting' \subseteq a \ { h } /\ hangingUp' \subseteq b \ { h }
<1>1. h \notin Live'  BY DEF Retract, Live, TypeOK, HandlerTypeOK
<1>2. QED  BY <1>1 DEF Requests

\* setStatus, with whatever else the slot does, leaves the handler there or ends it.
LEMMA StatusSet ==
    ASSUME TelepathyInv, NEW h \in Live \cap ready, NEW s \in VoiceCallStatus,
           task = Idle, SetStatus(h, s),
           NEW a \in SUBSET (accepting \cup { h }), NEW b \in SUBSET (hangingUp \cup { h }), Requests(a, b),
           UNCHANGED << fixedVars, valid, duration, familyVars >>
    PROVE  Stays(h) \/ Goes(h)
<1>1. h \in Handler /\ TypeOK  BY DEF Live, TelepathyInv
<1>2. PICK new : new = NewStatus(h, s)  OBVIOUS
<1>3. new \in VoiceCallStatus  BY <1>1, <1>2 DEF NewStatus, TypeOK, HandlerTypeOK
<1>4. CASE GoesWithConference(h, new)
  <2>1. Retract(h)  BY <1>2, <1>4 DEF SetStatus
  <2>2. children[h] = {}  BY <1>1, <1>4, Childless DEF GoesWithConference
  <2>3. parent' = Orphaned(h)  BY <1>1, <2>2, ChildlessOrphans DEF familyVars
  <2>4. QED  BY <1>1, <2>1, <2>2, <2>3, NoneWaits DEF Goes, familyVars
<1>5. CASE ~GoesWithConference(h, new)
  <2>1. Keep(h, new)  BY <1>2, <1>5 DEF SetStatus
  <2>2. /\ status' = [status EXCEPT ![h] = new]
        /\ elapsed' \in [Handler -> 0 .. MaxDuration]
        /\ UNCHANGED << phase, task, managerVars, counterVars >>
    BY <1>1, <1>3, <2>1, Reports
  <2>3. accepting' \subseteq accepting \cup { h } /\ hangingUp' \subseteq hangingUp \cup { h }
    BY DEF Requests
  <2>4. QED  BY <1>3, <2>2, <2>3 DEF Stays
<1>6. QED  BY <1>4, <1>5

\* One that only reports stays.
LEMMA Kept ==
    ASSUME TelepathyInv, NEW h \in Live \cap ready, NEW s \in VoiceCallStatus,
           task = Idle, Keep(h, s),
           valid' = valid \/ (valid' = valid \ { h } /\ children[h] # {}),
           accepting' \subseteq accepting \cup { h }, hangingUp' \subseteq hangingUp \cup { h },
           UNCHANGED << fixedVars, duration, familyVars >>
    PROVE  Stays(h)
<1>1. h \in Handler /\ TypeOK  BY DEF Live, TelepathyInv
<1>2. /\ status' = [status EXCEPT ![h] = s]
      /\ elapsed' \in [Handler -> 0 .. MaxDuration]
      /\ UNCHANGED << phase, task, managerVars, counterVars >>
  BY <1>1, Reports
<1>3. QED  BY <1>2 DEF Stays

\* One that only goes had no children.
LEMMA Gone ==
    ASSUME TelepathyInv, NEW h \in Live, children[h] = {}, task = Idle, Retract(h),
           NEW a \in SUBSET accepting, NEW b \in SUBSET (hangingUp \cup { h }), Requests(a, b),
           UNCHANGED << fixedVars, valid, duration, familyVars >>
    PROVE  Goes(h)
<1>1. h \in Handler /\ TypeOK  BY DEF Live, TelepathyInv
<1>2. parent' = Orphaned(h)  BY <1>1, ChildlessOrphans DEF familyVars
<1>3. accepting' \subseteq accepting \ { h } /\ hangingUp' \subseteq hangingUp \ { h }
  BY <1>1, NoneWaits
<1>4. QED  BY <1>1, <1>2, <1>3 DEF Goes, familyVars

LEMMA ChannelEvents ==
    ASSUME TelepathyInv, NEW h \in Handler,
           \/ \E s \in VoiceCallStatus : OnCallStateChanged(h, s)
           \/ OnCallStateEnded(h)
           \/ \E s \in VoiceCallStatus : OnStreamedMediaChannelChanged(h, s)
           \/ OnChannelInvalidated(h)
    PROVE  Stays(h) \/ Goes(h)
<1>1. TypeOK /\ status[h] \in VoiceCallStatus  BY DEF TelepathyInv, TypeOK, HandlerTypeOK
<1>2. ASSUME NEW s \in VoiceCallStatus, OnCallStateChanged(h, s) PROVE Stays(h)
  <2>1. task = Idle /\ h \in Live \cap ready /\ s # "DISCONNECTED"
    BY <1>2 DEF OnCallStateChanged, Signal, CallStateStatus
  <2>2. Keep(h, s)
    BY <1>2, <2>1 DEF OnCallStateChanged, SetStatus, NewStatus, GoesWithConference
  <2>3. UNCHANGED << fixedVars, valid, duration, requestVars, familyVars >>
    BY <1>2 DEF OnCallStateChanged
  <2>4. QED  BY <2>1, <2>2, <2>3, Kept DEF requestVars
<1>3. CASE OnCallStateEnded(h)
  <2>1. children[h] = {}  BY <1>3, Childless DEF OnCallStateEnded
  <2>2. QED  BY <1>3, <2>1, Gone DEF OnCallStateEnded, Signal
<1>4. ASSUME NEW s \in VoiceCallStatus, OnStreamedMediaChannelChanged(h, s)
      PROVE  Stays(h) \/ Goes(h)
  BY <1>4, StatusSet DEF OnStreamedMediaChannelChanged, Signal
<1>5. CASE OnChannelInvalidated(h)
  <2>1. /\ task = Idle /\ h \in Live /\ valid' = valid \ { h }
        /\ UNCHANGED << fixedVars, duration, children >>
        /\ Requests(accepting, hangingUp)
    BY <1>5 DEF OnChannelInvalidated
  <2>2. CASE WaitsForChildren(h)
    <3>1. parent' = parent /\ Keep(h, status[h])  BY <1>5, <2>2 DEF OnChannelInvalidated
    <3>2. children[h] # {} /\ h \in ready  BY <2>2, Childless DEF WaitsForChildren
    <3>3. QED  BY <1>1, <2>1, <3>1, <3>2, Kept DEF Requests, familyVars
  <2>3. CASE ~WaitsForChildren(h)
    <3>1. parent' = Orphaned(h) /\ Retract(h)  BY <1>5, <2>3 DEF OnChannelInvalidated
    <3>2. status[h] = "DISCONNECTED" => children[h] = {}
      BY <2>3, Childless DEF WaitsForChildren, IsStream
    <3>3. accepting' \subseteq accepting \ { h } /\ hangingUp' \subseteq hangingUp \ { h }
      BY <1>1, <2>1, <3>1, NoneWaits
    <3>4. QED  BY <2>1, <3>1, <3>2, <3>3 DEF Goes
  <2>4. QED  BY <2>2, <2>3
<1>6. QED  BY <1>2, <1>3, <1>4, <1>5

LEMMA RequestEvents ==
    ASSUME TelepathyInv, NEW h \in Handler,
           \/ Answer(h)
           \/ Hangup(h)
           \/ \E action \in VoiceCallFilterAction : FilterCall(h, action)
           \/ \E ok \in BOOLEAN : AcceptFinished(h, ok)
           \/ \E ok \in BOOLEAN : HangupFinished(h, ok)
    PROVE  Stays(h) \/ Goes(h)
<1> USE DEF requestVars
<1>1. TypeOK /\ status[h] \in VoiceCallStatus  BY DEF TelepathyInv, TypeOK, HandlerTypeOK
<1>2. Reachable \subseteq Live \cap ready /\ accepting \cup hangingUp \subseteq Live \cap ready
  BY DEF TelepathyInv, OnlyReadyAreUsed, Reachable
<1>3. "ACTIVE" \in VoiceCallStatus /\ "DISCONNECTED" \in VoiceCallStatus  BY DEF VoiceCallStatus
<1>4. CASE Answer(h)
  BY <1>2, <1>3, <1>4, Kept DEF Answer, Requests
<1>5. CASE Hangup(h)
  <2>1. /\ task = Idle /\ h \in Live \cap ready
        /\ UNCHANGED << fixedVars, valid, phase, status, elapsed, duration, familyVars, task, managerVars,
                        counterVars >>
        /\ accepting' \subseteq accepting \cup { h } /\ hangingUp' \subseteq hangingUp \cup { h }
    BY <1>2, <1>5 DEF Hangup, Requests, channelVars, callVars, telepathyVars, fixedVars
  <2>2. status' = [status EXCEPT ![h] = status[h]]
    BY <1>1, <2>1 DEF TypeOK, HandlerTypeOK
  <2>3. elapsed' \in [Handler -> 0 .. MaxDuration]  BY <1>1, <2>1 DEF TypeOK, HandlerTypeOK
  <2>4. \E s \in VoiceCallStatus : status' = [status EXCEPT ![h] = s]  BY <1>1, <2>2
  <2>5. valid' = valid  BY <2>1
  <2>6. UNCHANGED << fixedVars, phase, duration, familyVars, task, managerVars, counterVars >>
    BY <2>1
  <2>7. QED  BY <2>1, <2>3, <2>4, <2>5, <2>6 DEF Stays
<1>6. ASSUME NEW action \in VoiceCallFilterAction, FilterCall(h, action) PROVE Stays(h)
  <2>1. PICK s \in VoiceCallStatus : s = FilteredStatus(action)  BY StatusTypes
  <2>2. hangingUp' \subseteq hangingUp \cup { h } /\ accepting' \subseteq accepting \cup { h }
    BY <1>6 DEF FilterCall, Requests
  <2>3. task = Idle /\ h \in Reachable /\ Keep(h, s) /\ UNCHANGED << fixedVars, valid, duration, familyVars >>
    BY <1>6, <2>1 DEF FilterCall
  <2>4. QED  BY <1>2, <2>2, <2>3, Kept
<1>7. ASSUME NEW ok \in BOOLEAN, AcceptFinished(h, ok) PROVE Stays(h) \/ Goes(h)
  <2> DEFINE b == IF ok THEN hangingUp ELSE hangingUp \cup { h }
  <2>1. /\ task = Idle /\ h \in Live \cap ready
        /\ UNCHANGED << fixedVars, valid, duration, familyVars >>
        /\ Requests(accepting \ { h }, b)
    BY <1>2, <1>7 DEF AcceptFinished
  <2>2. accepting \ { h } \in SUBSET accepting /\ accepting \ { h } \in SUBSET (accepting \cup { h })
        /\ b \in SUBSET (hangingUp \cup { h })
    OBVIOUS
  <2> HIDE DEF b
  <2>3. CASE ok
    <3>1. SetStatus(h, "ACTIVE")  BY <1>7, <2>3 DEF AcceptFinished
    <3>2. QED  BY <1>3, <2>1, <2>2, <3>1, StatusSet
  <2>4. CASE ~ok /\ IsStream(h)
    <3>1. Keep(h, status[h])  BY <1>7, <2>4 DEF AcceptFinished
    <3>2. QED  BY <1>1, <2>1, <2>2, <3>1, Kept DEF Requests
  <2>5. CASE ~ok /\ ~IsStream(h)
    <3>1. Retract(h)  BY <1>7, <2>5 DEF AcceptFinished
    <3>2. children[h] = {}  BY <2>5, Childless DEF IsStream
    <3>3. QED  BY <2>1, <2>2, <3>1, <3>2, Gone
  <2>6. QED  BY <2>3, <2>4, <2>5
<1>8. ASSUME NEW ok \in BOOLEAN, HangupFinished(h, ok) PROVE Stays(h) \/ Goes(h)
  <2>1. /\ task = Idle /\ h \in Live \cap ready
        /\ UNCHANGED << fixedVars, valid, duration, familyVars >>
    BY <1>2, <1>8 DEF HangupFinished
  <2>2. CASE ok
    BY <1>3, <1>8, <2>1, <2>2, StatusSet DEF HangupFinished
  <2>3. CASE ~ok /\ IsStream(h)
    <3>1. Keep(h, status[h]) /\ Requests(accepting, hangingUp)
      BY <1>8, <2>3 DEF HangupFinished, HangupFailed
    <3>2. QED  BY <1>1, <2>1, <3>1, Kept DEF Requests
  <2>4. CASE ~ok /\ ~IsStream(h)
    <3>1. Retract(h) /\ Requests(accepting, hangingUp)
      BY <1>8, <2>4 DEF HangupFinished, HangupFailed
    <3>2. children[h] = {}  BY <2>4, Childless DEF IsStream
    <3>3. QED  BY <2>1, <3>1, <3>2, Gone
  <2>5. QED  BY <2>2, <2>3, <2>4
<1>9. QED  BY <1>4, <1>5, <1>6, <1>7, <1>8

-----------------------------------------------------------------------------
(* The invariant holds through every event of a channel *)

\* An idle event loop is not in the middle of any slot, and no two slots are the same.
LEMMA TasksDiffer ==
    /\ \A x : Idle # Task("announcing", x) /\ Idle # Task("deleting", x) /\ Idle # Task("deregistering", x)
    /\ \A x, y : /\ Task("deleting", x) # Task("announcing", y)
                 /\ Task("deleting", x) # Task("deregistering", y)
                 /\ Task("announcing", x) # Task("deregistering", y)
    /\ \A x, y : Task("deleting", x) = Task("deleting", y) => x = y
    /\ \A x, y : Task("announcing", x) = Task("announcing", y) => x = y
    /\ \A x, y : Task("deregistering", x) = Task("deregistering", y) => x = y
BY DEF Idle, Task

\* A task is one for a handler or for an account.
LEMMA TaskTypes ==
    /\ \A h \in Handler : /\ Task("announcing", h) \in [do : { "announcing", "deleting" }, on : Handler]
                          /\ Task("deleting", h) \in [do : { "announcing", "deleting" }, on : Handler]
    /\ \A a \in Account : Task("deregistering", a) \in [do : { "deregistering" }, on : Account]
BY DEF Task

\* What the manager makes of a retraction.
LEMMA Retracted ==
    ASSUME TypeOK, NEW h \in Handler, Retract(h)
    PROVE  /\ phase' = [phase EXCEPT ![h] = "gone"] /\ status' = [status EXCEPT ![h] = "NULL"]
           /\ elapsed' = [elapsed EXCEPT ![h] = 0] /\ task' = Task("deleting", h)
           /\ UNCHANGED << providers, isCallFiltering >>
           /\ voiceCalls' \subseteq voiceCalls /\ activeVoiceCall' \in { activeVoiceCall, NoCall }
           /\ received' \in Nat /\ dialled' \in Nat
<1>1. /\ phase' = [phase EXCEPT ![h] = "gone"] /\ status' = [status EXCEPT ![h] = "NULL"]
      /\ elapsed' = [elapsed EXCEPT ![h] = 0] /\ task' = Task("deleting", h)
      /\ UNCHANGED << providers, isCallFiltering >>
  BY DEF Retract, Task
<1>2. received \in Nat /\ dialled \in Nat /\ duration[h] \in Nat
  BY DEF TypeOK, M!TypeOK
<1>3. CASE h \in ready /\ Registered(h)
  <2>1. M!OnVoiceCallRemoved(h)  BY <1>3 DEF Retract
  <2>2. QED  BY <1>1, <1>2, <2>1
    DEF M!OnVoiceCallRemoved, M!ForgetActive, M!CountCall, M!counterVars
<1>4. CASE ~(h \in ready /\ Registered(h))
  BY <1>1, <1>2, <1>4 DEF Retract, counterVars
<1>5. QED  BY <1>3, <1>4

\* The type invariant says some things twice.
LEMMA TypeNext ==
    ASSUME HandlerTypeOK',
           (directory \subseteq Account)',
           (task \in [do : { "announcing", "deleting" }, on : Handler]
                       \cup [do : { "deregistering" }, on : Account] \cup { Idle })',
           (providers \subseteq Account)', (voiceCalls \subseteq Handler)',
           (activeVoiceCall \in Handler \cup { NoCall })', (isCallFiltering \in BOOLEAN)',
           (received \in Nat)', (dialled \in Nat)'
    PROVE  TypeOK'
<1>1. /\ [a \in Account |-> CallsOf(a)]' \in [Account -> SUBSET Handler]
      /\ { h \in Handler : phase'[h] = "gone" } \subseteq Handler
      /\ [h \in Handler |-> FALSE] \in [Handler -> BOOLEAN]
      /\ duration' \in [Handler -> Nat]
      /\ FALSE \in BOOLEAN
      /\ status' \in [Handler -> VoiceCallStatus] /\ isIncoming' \in [Handler -> BOOLEAN]
  BY HandlerAssumption DEF CallsOf, HandlerTypeOK, Live
<1>2. M!TypeOK'
  BY <1>1, Zenon DEF M!TypeOK
<1>3. QED  BY <1>2 DEF TypeOK

\* What the type invariant says beyond the handlers.
LEMMA OwnTypes ==
    ASSUME TypeOK
    PROVE  /\ HandlerTypeOK /\ directory \subseteq Account
           /\ task \in [do : { "announcing", "deleting" }, on : Handler]
                       \cup [do : { "deregistering" }, on : Account] \cup { Idle }
           /\ providers \subseteq Account /\ voiceCalls \subseteq Handler
           /\ activeVoiceCall \in Handler \cup { NoCall } /\ isCallFiltering \in BOOLEAN
           /\ received \in Nat /\ dialled \in Nat
BY Zenon DEF TypeOK, M!TypeOK

LEMMA StaysKeepsInv ==
    ASSUME TelepathyInv, NEW h \in Handler, Stays(h)
    PROVE  TelepathyInv'
<1> USE TasksDiffer DEF TelepathyInv
<1>1. /\ task = Idle /\ h \in Live \cap ready
      /\ status' \in [Handler -> VoiceCallStatus] /\ elapsed' \in [Handler -> 0 .. MaxDuration]
      /\ \A g \in Handler \ { h } : status'[g] = status[g]
      /\ valid' \subseteq valid /\ valid \ { h } \subseteq valid'
      /\ h \in valid' \/ h \notin valid \/ children[h] # {}
      /\ accepting' \subseteq accepting \cup { h } /\ hangingUp' \subseteq hangingUp \cup { h }
  <2>1. PICK s \in VoiceCallStatus : status' = [status EXCEPT ![h] = s]  BY DEF Stays
  <2>2. /\ status' \in [Handler -> VoiceCallStatus]
        /\ \A g \in Handler \ { h } : status'[g] = status[g]
    BY <2>1 DEF TypeOK, HandlerTypeOK
  <2>3. QED  BY <2>2 DEF Stays
<1>2. /\ UNCHANGED << account, kind, requested, ready, isIncoming, directory, phase, duration, parent,
                      children, task >>
      /\ UNCHANGED << providers, voiceCalls, activeVoiceCall, isCallFiltering, received, dialled >>
  BY DEF Stays, fixedVars, familyVars, managerVars, counterVars
<1>3. Live' = Live  BY <1>2 DEF Live
<1>4. TypeOK'
  <2>1. HandlerTypeOK'  BY <1>1, <1>2 DEF TypeOK, HandlerTypeOK
  <2>2. QED  BY <1>2, <2>1, OwnTypes, TypeNext
<1>5. ProvidersOwn' /\ KindsAre'
  BY <1>2, <1>3 DEF ProvidersOwn, KindsAre
<1>6. OnlyReadyAreUsed'
  BY <1>1, <1>2, <1>3 DEF OnlyReadyAreUsed, Live
<1>7. TasksAre' /\ ChildrenAre' /\ FamilyAgrees'
  BY <1>1, <1>2, <1>3 DEF TasksAre, ChildrenAre, FamilyAgrees
<1>8. KeptForItsChildren'
  <2>1. \A g \in children[h] : g \in Live
    BY <1>1 DEF FamilyAgrees, Task
  <2>2. QED  BY <1>1, <1>2, <1>3, <2>1 DEF KeptForItsChildren
<1>9. QED  BY <1>4, <1>5, <1>6, <1>7, <1>8

LEMMA GoesKeepsInv ==
    ASSUME TelepathyInv, NEW h \in Handler, Goes(h)
    PROVE  TelepathyInv'
<1> USE TasksDiffer DEF TelepathyInv
<1>1. /\ task = Idle /\ h \in Live
      /\ valid' \subseteq valid /\ valid \ { h } \subseteq valid'
      /\ parent' = Orphaned(h)
      /\ accepting' \subseteq accepting \ { h } /\ hangingUp' \subseteq hangingUp \ { h }
      /\ UNCHANGED << account, kind, requested, ready, isIncoming, directory, duration, children >>
  BY DEF Goes, fixedVars
<1>2. /\ phase' = [phase EXCEPT ![h] = "gone"] /\ status' = [status EXCEPT ![h] = "NULL"]
      /\ elapsed' = [elapsed EXCEPT ![h] = 0] /\ task' = Task("deleting", h)
      /\ UNCHANGED << providers, isCallFiltering >>
      /\ voiceCalls' \subseteq voiceCalls /\ activeVoiceCall' \in { activeVoiceCall, NoCall }
      /\ received' \in Nat /\ dialled' \in Nat
  BY Retracted DEF Goes
<1>3. Live' = Live \ { h } /\ \A g \in Handler : phase[g] = "unborn" <=> phase'[g] = "unborn"
  BY <1>1, <1>2 DEF Live, TypeOK, HandlerTypeOK
<1>4. TypeOK'
  <2>1. HandlerTypeOK'
    BY <1>1, <1>2, HandlerAssumption DEF TypeOK, HandlerTypeOK, Orphaned, VoiceCallStatus
  <2>2. task' \in [do : { "announcing", "deleting" }, on : Handler]
    BY <1>2, TaskTypes
  <2>3. QED  BY <1>1, <1>2, <2>1, <2>2, OwnTypes, TypeNext
<1>5. ProvidersOwn' /\ KindsAre'
  BY <1>1, <1>2, <1>3 DEF ProvidersOwn, KindsAre, TypeOK, HandlerTypeOK
<1>6. OnlyReadyAreUsed'
  BY <1>1, <1>2, <1>3 DEF OnlyReadyAreUsed, Live, TypeOK, HandlerTypeOK
<1>7. TasksAre'
  BY <1>1, <1>2, <1>3 DEF TasksAre, TypeOK, HandlerTypeOK
<1>8. ChildrenAre'
  BY <1>1, <1>2, <1>3 DEF ChildrenAre, Orphaned, TypeOK, HandlerTypeOK
<1>9. FamilyAgrees'
  <2>1. \A g \in Handler : parent'[g] = IF g \in children[h] THEN NoCall ELSE parent[g]
    BY <1>1 DEF Orphaned
  <2>2. ASSUME NEW g \in Handler, parent'[g] # NoCall
        PROVE  parent'[g] \in Live' /\ g \in children'[parent'[g]]
    BY <1>1, <1>3, <2>1, <2>2 DEF FamilyAgrees
  <2>3. ASSUME NEW c \in Live', NEW g \in children'[c]
        PROVE  parent'[g] = c /\ (g \in Live' \/ task' = Task("deleting", g))
    <3>1. c \in Live /\ c # h /\ g \in children[c]  BY <1>1, <1>3, <2>3
    <3>2. parent[g] = c /\ g \in Live /\ g \in Handler
      BY <1>1, <3>1 DEF FamilyAgrees, Task, TypeOK, HandlerTypeOK, Live
    <3>3. g \notin children[h]  BY <1>1, <3>1, <3>2 DEF FamilyAgrees
    <3>4. QED  BY <1>2, <1>3, <2>1, <3>2, <3>3
  <2>4. QED  BY <2>2, <2>3 DEF FamilyAgrees, Task
<1>10. KeptForItsChildren'
  <2>1. SUFFICES ASSUME NEW c \in (Live' \cap ready') \ valid'
                 PROVE  \E g \in children'[c] : g \in Live' \/ task' = Task("deleting", g)
    BY DEF KeptForItsChildren, Task
  <2>2. c \in (Live \cap ready) \ valid  BY <1>1, <1>3, <2>1
  <2>3. PICK g \in children[c] : g \in Live  BY <1>1, <2>2 DEF KeptForItsChildren, Task
  <2>4. QED  BY <1>1, <1>2, <1>3, <2>3
<1>11. QED  BY <1>4, <1>5, <1>6, <1>7, <1>8, <1>9, <1>10

\* Nobody is born into a family.
LEMMA UnbornHaveNoFamily ==
    ASSUME TelepathyInv, NEW h \in Handler, phase[h] = "unborn"
    PROVE  /\ children[h] = {} /\ parent[h] = NoCall
           /\ \A c \in Handler : h \notin children[c]
<1> USE TasksDiffer DEF TelepathyInv
<1>1. h \notin ready /\ h \notin Live /\ task # Task("deleting", h)
  BY DEF OnlyReadyAreUsed, Live, TasksAre
<1>2. children[h] = {}  BY <1>1 DEF ChildrenAre
<1>3. \A c \in Handler : h \notin children[c]
  BY DEF KindsAre, ChildrenAre
<1>4. parent[h] = NoCall  BY <1>3 DEF FamilyAgrees, Live
<1>5. QED  BY <1>2, <1>3, <1>4

LEMMA CreateHandlerKeepsInv ==
    ASSUME TelepathyInv, NEW h \in Handler, NEW a \in Account, NEW k \in Kind, NEW r \in BOOLEAN,
           CreateHandler(a, h, k, r)
    PROVE  TelepathyInv'
<1> USE TasksDiffer DEF TelepathyInv
<1>1. /\ task = Idle /\ a \in directory /\ phase[h] = "unborn"
      /\ k = "conference" => r /\ MayCreateConference(a)
      /\ phase' = [phase EXCEPT ![h] = "live"] /\ account' = [account EXCEPT ![h] = a]
      /\ kind' = [kind EXCEPT ![h] = k]
      /\ requested' = IF r THEN requested \cup { h } ELSE requested
      /\ valid' = valid \cup { h }
      /\ UNCHANGED << ready, status, isIncoming, elapsed, duration, accepting, hangingUp, parent, children >>
      /\ UNCHANGED << directory, task, providers, voiceCalls, activeVoiceCall, isCallFiltering,
                      received, dialled >>
  BY DEF CreateHandler, callVars, requestVars, familyVars, telepathyVars, managerVars, counterVars
<1>2. Live' = Live \cup { h } /\ h \notin Live /\ h \notin ready
  BY <1>1 DEF Live, TypeOK, HandlerTypeOK, OnlyReadyAreUsed
<1>3. children[h] = {} /\ parent[h] = NoCall /\ \A c \in Handler : h \notin children[c]
  BY <1>1, UnbornHaveNoFamily
<1>4. TypeOK'
  <2>1. HandlerTypeOK'  BY <1>1 DEF TypeOK, HandlerTypeOK
  <2>2. QED  BY <1>1, <2>1, OwnTypes, TypeNext
<1>5. /\ \A g \in Handler \ { h } : account'[g] = account[g] /\ kind'[g] = kind[g] /\ phase'[g] = phase[g]
      /\ account'[h] = a /\ kind'[h] = k /\ phase'[h] = "live"
  BY <1>1 DEF TypeOK, HandlerTypeOK
<1>6. ProvidersOwn'
  BY <1>1, <1>2, <1>5 DEF ProvidersOwn, Live
<1>7. KindsAre'
  BY <1>1, <1>2, <1>5 DEF KindsAre, MayCreateConference, Live
<1>8. OnlyReadyAreUsed'
  BY <1>1, <1>2, <1>5 DEF OnlyReadyAreUsed, Live
<1>9. TasksAre'  BY <1>1 DEF TasksAre
<1>10. ChildrenAre'
  BY <1>1, <1>2, <1>3, <1>5 DEF ChildrenAre, TypeOK, HandlerTypeOK
<1>11. FamilyAgrees' /\ KeptForItsChildren'
  BY <1>1, <1>2, <1>3 DEF FamilyAgrees, KeptForItsChildren
<1>12. QED  BY <1>4, <1>6, <1>7, <1>8, <1>9, <1>10, <1>11

\* A step that is not about families, and does not come upon a deletion, leaves them be.
LEMMA FamiliesUntouched ==
    ASSUME TelepathyInv,
           UNCHANGED << phase, account, kind, parent, children, valid >>,
           \/ ready' = ready
           \/ \E h \in valid : ready' = ready \cup { h },
           \A h \in Handler : task # Task("deleting", h)
    PROVE  ChildrenAre' /\ FamilyAgrees' /\ KeptForItsChildren'
<1> USE DEF TelepathyInv
<1>1. Live' = Live  BY DEF Live
<1>2. ChildrenAre'  BY <1>1 DEF ChildrenAre
<1>3. FamilyAgrees'
  <2>1. \A c \in Live : \A g \in children[c] : g \in Handler /\ parent[g] = c /\ g \in Live
    BY DEF FamilyAgrees, Task, Live, TypeOK, HandlerTypeOK
  <2>2. QED  BY <1>1, <2>1 DEF FamilyAgrees
<1>4. KeptForItsChildren'
  BY <1>1 DEF KeptForItsChildren, Task, ChildrenAre, TypeOK, HandlerTypeOK, Live
<1>5. QED  BY <1>2, <1>3, <1>4

LEMMA BecomesReadyKeepsInv ==
    ASSUME TelepathyInv, NEW h \in Handler, BecomesReady(h)
    PROVE  TelepathyInv'
<1> USE TasksDiffer DEF TelepathyInv
<1>1. /\ task = Idle /\ h \in (Live \cap valid) \ ready
      /\ status' = [status EXCEPT ![h] = InitialStatus(h)]
      /\ isIncoming' = [isIncoming EXCEPT ![h] = h \notin requested]
      /\ task' = Task("announcing", h)
      /\ UNCHANGED << phase, account, kind, requested, valid, ready, elapsed, duration, accepting, hangingUp,
                      parent, children >>
      /\ UNCHANGED << directory, providers, voiceCalls, activeVoiceCall, isCallFiltering,
                      received, dialled >>
  BY DEF BecomesReady, Task, channelVars, requestVars, familyVars, managerVars, counterVars
<1>2. kind[h] \in AllKinds /\ (kind[h] = "conference" => h \in requested)
  BY <1>1, KindAssumption DEF KindsAre
<1>3. /\ InitialStatus(h) \in VoiceCallStatus
      /\ kind[h] = "stream" /\ h \notin requested => InitialStatus(h) = "NULL"
  BY <1>2 DEF InitialStatus, AllKinds, VoiceCallStatus
<1>4. Live' = Live  BY <1>1 DEF Live
<1>5. TypeOK'
  <2>1. HandlerTypeOK'  BY <1>1, <1>3 DEF TypeOK, HandlerTypeOK
  <2>2. task' \in [do : { "announcing", "deleting" }, on : Handler]  BY <1>1, TaskTypes
  <2>3. QED  BY <1>1, <2>1, <2>2, OwnTypes, TypeNext
<1>6. ProvidersOwn' /\ KindsAre'  BY <1>1, <1>4 DEF ProvidersOwn, KindsAre
<1>7. OnlyReadyAreUsed'
  BY <1>1, <1>4 DEF OnlyReadyAreUsed, Live, TypeOK, HandlerTypeOK
<1>8. TasksAre'
  BY <1>1, <1>2, <1>3, <1>4 DEF TasksAre, TypeOK, HandlerTypeOK, AllKinds
<1>9. ChildrenAre' /\ FamilyAgrees' /\ KeptForItsChildren'
  BY <1>1, FamiliesUntouched
<1>10. QED  BY <1>5, <1>6, <1>7, <1>8, <1>9

\* What the manager makes of calls that are announced; there is no device lock.
LEMMA Added ==
    ASSUME TypeOK, NEW hs \in SUBSET Handler,
           M!OnVoiceCallAdded(hs), M!Release(M!ReleasedUnfiltered(hs))
    PROVE  /\ voiceCalls' = voiceCalls \cup hs
           /\ activeVoiceCall' \in Handler \cup { NoCall }
           /\ status' \in [Handler -> VoiceCallStatus]
           /\ \A h \in Handler \ hs : status'[h] = status[h]
<1>1. M!Admitted(hs) = hs  BY DEF M!Admitted, M!LockedOut
<1>2. activeVoiceCall \in Handler \cup { NoCall } /\ HandlerTypeOK  BY OwnTypes
<1>3. M!ReleasedUnfiltered(hs) \subseteq hs  BY <1>1 DEF M!ReleasedUnfiltered
<1>4. QED
  BY <1>1, <1>2, <1>3 DEF M!OnVoiceCallAdded, M!Release, HandlerTypeOK, VoiceCallStatus

LEMMA AnnounceKeepsInv ==
    ASSUME TelepathyInv, NEW h \in Handler, Announce(h)
    PROVE  TelepathyInv'
<1> USE TasksDiffer DEF TelepathyInv
<1>1. /\ task = Task("announcing", h) /\ task' = Idle
      /\ ready' = ready \cup { h }
      /\ UNCHANGED << phase, account, kind, requested, valid, isIncoming, elapsed, duration, accepting,
                      hangingUp, parent, children >>
      /\ UNCHANGED << directory, providers, isCallFiltering, received, dialled >>
  BY DEF Announce, Task, requestVars, familyVars, counterVars
<1>2. h \in (Live \cap valid) \ ready  BY <1>1 DEF TasksAre
<1>3. /\ voiceCalls' \subseteq voiceCalls \cup { h }
      /\ activeVoiceCall' \in Handler \cup { NoCall }
      /\ status' \in [Handler -> VoiceCallStatus]
      /\ \A g \in Handler \ { h } : status'[g] = status[g]
  <2>1. CASE Registered(h)
    <3>1. M!OnVoiceCallAdded({ h }) /\ M!Release(M!ReleasedUnfiltered({ h }))
      BY <2>1 DEF Announce
    <3>2. QED  BY <3>1, Added
  <2>2. CASE ~Registered(h)
    <3>1. UNCHANGED << voiceCalls, activeVoiceCall, status >>  BY <2>2 DEF Announce
    <3>2. QED  BY <3>1, OwnTypes DEF HandlerTypeOK
  <2>3. QED  BY <2>1, <2>2
<1>4. Live' = Live /\ phase[h] = "live"  BY <1>1, <1>2 DEF Live
<1>5. TypeOK'
  <2>1. HandlerTypeOK'  BY <1>1, <1>3 DEF TypeOK, HandlerTypeOK
  <2>2. QED  BY <1>1, <1>3, <2>1, OwnTypes, TypeNext
<1>6. ProvidersOwn' /\ KindsAre'  BY <1>1, <1>4 DEF ProvidersOwn, KindsAre
<1>7. OnlyReadyAreUsed'
  BY <1>1, <1>3, <1>4 DEF OnlyReadyAreUsed
<1>8. TasksAre'  BY <1>1 DEF TasksAre
<1>9. ChildrenAre' /\ FamilyAgrees' /\ KeptForItsChildren'
  BY <1>1, <1>2, FamiliesUntouched
<1>10. QED  BY <1>5, <1>6, <1>7, <1>8, <1>9

LEMMA TimerKeepsInv ==
    ASSUME TelepathyInv, NEW h \in Handler, TimerEvent(h)
    PROVE  TelepathyInv'
<1> USE TasksDiffer DEF TelepathyInv
<1>1. /\ task = Idle /\ elapsed[h] < MaxDuration
      /\ elapsed' = [elapsed EXCEPT ![h] = @ + 1]
      /\ duration' = [duration EXCEPT ![h] = elapsed[h] + 1]
      /\ UNCHANGED << phase, account, kind, requested, valid, ready, status, isIncoming, accepting, hangingUp,
                      parent, children >>
      /\ UNCHANGED << directory, task, providers, voiceCalls, activeVoiceCall, isCallFiltering,
                      received, dialled >>
  BY DEF TimerEvent, channelVars, requestVars, familyVars, telepathyVars, managerVars, counterVars
<1>2. TypeOK'
  <2>1. elapsed[h] + 1 \in 0 .. MaxDuration
    BY <1>1, HandlerAssumption DEF TypeOK, HandlerTypeOK
  <2>2. HandlerTypeOK'  BY <1>1, <2>1 DEF TypeOK, HandlerTypeOK
  <2>3. QED  BY <1>1, <2>2, OwnTypes, TypeNext
<1>3. Live' = Live  BY <1>1 DEF Live
<1>4. ProvidersOwn' /\ KindsAre' /\ OnlyReadyAreUsed' /\ TasksAre'
  BY <1>1, <1>3 DEF ProvidersOwn, KindsAre, OnlyReadyAreUsed, TasksAre
<1>5. ChildrenAre' /\ FamilyAgrees' /\ KeptForItsChildren'
  BY <1>1, FamiliesUntouched
<1>6. QED  BY <1>2, <1>4, <1>5

\* Of an account's calls, none is in two conferences.
LEMMA OnlyParent ==
    ASSUME TelepathyInv, task = Idle, NEW h \in Live, NEW c \in Live, kind[c] = "conference",
           account[c] = account[h], NEW d \in Handler, h \in children[d]
    PROVE  d = c
<1>1. d \in Live /\ kind[d] = "conference" /\ account[d] = account[h]
  BY TasksDiffer DEF TelepathyInv, ChildrenAre
<1>2. QED  BY <1>1 DEF TelepathyInv, KindsAre

\* Merging and splitting keep both sides of the family in step.
LEMMA FamilyKeepsInv ==
    ASSUME TelepathyInv, NEW c \in Handler, NEW h \in Handler,
           OnChannelMerged(c, h) \/ OnChannelRemoved(c, h)
    PROVE  TelepathyInv'
<1> USE TasksDiffer DEF TelepathyInv
<1>1. /\ task = Idle /\ h \in Live \cap ready /\ kind[h] = "stream"
      /\ c \in Live \cap ready \cap valid /\ kind[c] = "conference" /\ account[c] = account[h]
  BY DEF OnChannelMerged, OnChannelRemoved, Conference, CallsOf
<1>2. /\ UNCHANGED << phase, account, kind, requested, valid, ready, status, isIncoming, elapsed, duration,
                      accepting, hangingUp >>
      /\ UNCHANGED << directory, task, providers, voiceCalls, activeVoiceCall, isCallFiltering,
                      received, dialled >>
  BY DEF OnChannelMerged, OnChannelRemoved, channelVars, callVars, requestVars, telepathyVars, managerVars,
         counterVars
<1>3. \/ /\ children' = [children EXCEPT ![c] = @ \cup { h }]
         /\ parent' = [parent EXCEPT ![h] = c]
      \/ /\ children' = [children EXCEPT ![c] = @ \ { h }]
         /\ parent' = [parent EXCEPT ![h] = NoCall]
  BY DEF OnChannelMerged, OnChannelRemoved
<1>4. Live' = Live  BY <1>2 DEF Live
<1>5. TypeOK'
  <2>1. HandlerTypeOK'  BY <1>2, <1>3 DEF TypeOK, HandlerTypeOK
  <2>2. QED  BY <1>2, <2>1, OwnTypes, TypeNext
<1>6. ProvidersOwn' /\ KindsAre' /\ OnlyReadyAreUsed' /\ TasksAre'
  BY <1>2, <1>4 DEF ProvidersOwn, KindsAre, OnlyReadyAreUsed, TasksAre
<1>7. \A d \in Handler \ { c } : children'[d] = children[d] /\ h \notin children[d]
  BY <1>1, <1>3, OnlyParent DEF TypeOK, HandlerTypeOK
<1>8. \A g \in Handler \ { h } : parent'[g] = parent[g]
  BY <1>3 DEF TypeOK, HandlerTypeOK
<1>9. \/ children'[c] = children[c] \cup { h } /\ parent'[h] = c
      \/ children'[c] = children[c] \ { h } /\ parent'[h] = NoCall
  BY <1>3 DEF TypeOK, HandlerTypeOK
<1>10. \A d \in Live : \A g \in children[d] : g \in Handler /\ parent[g] = d /\ g \in Live
  BY <1>1 DEF FamilyAgrees, Task, Live, TypeOK, HandlerTypeOK
<1>11. ChildrenAre'
  BY <1>1, <1>2, <1>4, <1>7, <1>9 DEF ChildrenAre
<1>12. FamilyAgrees'
  <2>1. \A g \in Handler : parent'[g] # NoCall => parent'[g] \in Live /\ g \in children'[parent'[g]]
    BY <1>1, <1>7, <1>8, <1>9 DEF FamilyAgrees, Live
  <2>2. \A d \in Live : \A g \in children'[d] : parent'[g] = d /\ g \in Live
    BY <1>1, <1>7, <1>8, <1>9, <1>10 DEF Live
  <2>3. QED  BY <1>2, <1>4, <2>1, <2>2 DEF FamilyAgrees
<1>13. KeptForItsChildren'
  BY <1>1, <1>2, <1>4, <1>7 DEF KeptForItsChildren, Live
<1>14. QED  BY <1>5, <1>6, <1>11, <1>12, <1>13

\* A deleted handler leaves its conference, which goes in turn if it was kept for it.
LEMMA DeletedKeepsInv ==
    ASSUME TelepathyInv, NEW h \in Handler, Deleted(h)
    PROVE  TelepathyInv'
<1> USE TasksDiffer DEF TelepathyInv
<1> DEFINE c == parent[h]
           goes == ToldOfDeletion(c) /\ LastOneOut(c, h)
<1>1. /\ task = Task("deleting", h)
      /\ UNCHANGED << account, kind, requested, ready, isIncoming, directory, valid, duration >>
      /\ accepting' \subseteq accepting /\ hangingUp' \subseteq hangingUp
      /\ accepting' \cup hangingUp' \subseteq Live'
      /\ \A g \in Handler : parent'[g] = IF g = h \/ g \in children[h] THEN NoCall ELSE parent[g]
      /\ \A g \in Handler : children'[g] = IF g = h THEN {} ELSE
                                           IF ToldOfDeletion(c) /\ g = c THEN children[g] \ { h }
                                           ELSE children[g]
  BY DEF Deleted, Task, fixedVars, Requests, Orphaned
<1>2. phase[h] = "gone" /\ h \notin Live  BY <1>1 DEF TasksAre, Live
<1>3. c # NoCall => c \in Live \cap ready /\ h \in children[c] /\ kind[c] = "conference"
  BY DEF FamilyAgrees, ChildrenAre, Live
<1>4. \A d \in Handler \ { h } : \A g \in children[d] :
        /\ d \in Live \cap ready /\ kind[g] = "stream" /\ kind[d] = "conference" /\ parent[g] = d
        /\ account[g] = account[d] /\ g \in Handler /\ (g = h \/ g \in Live)
  <2>1. SUFFICES ASSUME NEW d \in Handler \ { h }, NEW g \in children[d]
                 PROVE  /\ d \in Live \cap ready /\ kind[g] = "stream" /\ kind[d] = "conference"
                        /\ parent[g] = d /\ account[g] = account[d] /\ g \in Handler
                        /\ g = h \/ g \in Live
    OBVIOUS
  <2>2. g \in Handler  BY DEF TypeOK, HandlerTypeOK
  <2>3. /\ kind[g] = "stream" /\ kind[d] = "conference" /\ account[g] = account[d]
        /\ d \in ready /\ d \in Live
    BY <1>1 DEF ChildrenAre
  <2>4. parent[g] = d /\ (g \in Live \/ task = Task("deleting", g))
    BY <2>3 DEF FamilyAgrees, Task
  <2>5. QED  BY <1>1, <2>2, <2>3, <2>4
<1>5. ToldOfDeletion(c) <=> c # NoCall
  BY <1>3, HandlerAssumption DEF ToldOfDeletion, Live
<1>6. \A d \in Handler \ { h } : children'[d] = children[d] \ { h }
  <2>1. ASSUME NEW d \in Handler \ { h } PROVE children'[d] = children[d] \ { h }
    <3>1. CASE d = c
      <4>1. ToldOfDeletion(c)  BY <1>5, <3>1, HandlerAssumption
      <4>2. QED  BY <1>1, <3>1, <4>1
    <3>2. CASE d # c
      <4>1. h \notin children[d]  BY <1>4, <3>2
      <4>2. QED  BY <1>1, <3>2, <4>1
    <3>3. QED  BY <3>1, <3>2
  <2>2. QED  BY <2>1
<1>7. \A g \in children[h] : parent[g] = NoCall /\ g \in Handler
  BY <1>2 DEF ChildrenAre, TypeOK, HandlerTypeOK
<1>8. children'[h] = {} /\ parent'[h] = NoCall /\ \A g \in Handler \ { h } : parent'[g] = parent[g]
  BY <1>1, <1>7
<1>9. goes => c \in (Live \cap ready) \ valid /\ c \in Handler /\ c # h /\ children[c] \subseteq { h } /\ kind[c] = "conference"
  BY <1>2, <1>3, <1>5, HandlerAssumption DEF LastOneOut, Live
<1>10. IF goes
       THEN /\ phase' = [phase EXCEPT ![c] = "gone"] /\ status' = [status EXCEPT ![c] = "NULL"]
            /\ elapsed' = [elapsed EXCEPT ![c] = 0] /\ task' = Task("deleting", c)
            /\ UNCHANGED << providers, isCallFiltering >>
            /\ voiceCalls' \subseteq voiceCalls /\ activeVoiceCall' \in { activeVoiceCall, NoCall }
            /\ received' \in Nat /\ dialled' \in Nat
       ELSE task' = Idle /\ UNCHANGED << phase, status, elapsed, providers, voiceCalls, activeVoiceCall,
                                         isCallFiltering, received, dialled >>
  <2>1. CASE goes
    <3>1. Retract(c)  BY <2>1 DEF Deleted
    <3>2. QED  BY <1>9, <2>1, <3>1, Retracted
  <2>2. CASE ~goes
    BY <2>2 DEF Deleted, managerVars, counterVars
  <2>3. QED  BY <2>1, <2>2
<1>11. /\ Live' = IF goes THEN Live \ { c } ELSE Live
       /\ \A g \in Handler : phase'[g] = "unborn" <=> phase[g] = "unborn"
  BY <1>9, <1>10 DEF Live, TypeOK, HandlerTypeOK
<1>12. parent' = [Orphaned(h) EXCEPT ![h] = NoCall] /\ \A g \in Handler : children'[g] \subseteq children[g]
  BY <1>1 DEF Deleted
<1>13. children' \in [Handler -> SUBSET Handler]
  BY <1>12 DEF Deleted, TypeOK, HandlerTypeOK
<1> HIDE DEF goes, c
<1>14. TypeOK'
  <2>1. parent' \in [Handler -> Handler \cup { NoCall }]
    BY <1>12 DEF TypeOK, HandlerTypeOK, Orphaned
  <2>2. phase' \in [Handler -> { "unborn", "live", "gone" }] /\ status' \in [Handler -> VoiceCallStatus]
        /\ elapsed' \in [Handler -> 0 .. MaxDuration]
    BY <1>10, HandlerAssumption DEF TypeOK, HandlerTypeOK, VoiceCallStatus
  <2>3. HandlerTypeOK'
    BY <1>1, <1>13, <2>1, <2>2 DEF TypeOK, HandlerTypeOK
  <2>4. task' \in [do : { "announcing", "deleting" }, on : Handler] \cup { Idle }
    BY <1>9, <1>10, TaskTypes
  <2>5. QED  BY <1>1, <1>10, <2>3, <2>4, OwnTypes, TypeNext
<1>15. ProvidersOwn' /\ KindsAre'
  BY <1>1, <1>10, <1>11 DEF ProvidersOwn, KindsAre
<1>16. OnlyReadyAreUsed'
  BY <1>1, <1>9, <1>10, <1>11 DEF OnlyReadyAreUsed, Live, TypeOK, HandlerTypeOK
<1>17. TasksAre'
  BY <1>9, <1>10 DEF TasksAre, TypeOK, HandlerTypeOK
<1>18. ChildrenAre'
  BY <1>1, <1>4, <1>6, <1>8, <1>9, <1>11 DEF ChildrenAre
<1>19. FamilyAgrees'
  <2>1. \A g \in Handler : parent'[g] # NoCall => parent'[g] \in Live' /\ g \in children'[parent'[g]]
    BY <1>2, <1>6, <1>8, <1>9, <1>11 DEF FamilyAgrees, Live
  <2>2. \A d \in Live' : \A g \in children'[d] : parent'[g] = d /\ g \in Live'
    BY <1>2, <1>4, <1>6, <1>8, <1>9, <1>11 DEF Live
  <2>3. QED  BY <2>1, <2>2 DEF FamilyAgrees
<1>20. KeptForItsChildren'
  <2>1. SUFFICES ASSUME NEW d \in (Live' \cap ready') \ valid'
                 PROVE  \E g \in children'[d] : g \in Live'
    BY DEF KeptForItsChildren
  <2>2. d \in (Live \cap ready) \ valid /\ d \in Handler \ { h } /\ (goes => d # c)
    BY <1>1, <1>2, <1>11, <2>1 DEF Live
  <2>3. \E g \in children[d] : g # h
    <3>1. PICK g \in children[d] : TRUE  BY <2>2 DEF KeptForItsChildren
    <3>2. CASE g # h  BY <3>2
    <3>3. CASE g = h
      <4>1. d = c  BY <1>4, <2>2, <3>3 DEF c
      <4>2. ~LastOneOut(c, h) /\ c \notin valid
        BY <1>5, <2>2, <4>1, HandlerAssumption DEF goes, c
      <4>3. QED  BY <4>1, <4>2 DEF LastOneOut
    <3>4. QED  BY <3>2, <3>3
  <2>4. PICK g \in children[d] : g # h  BY <2>3
  <2>5. g \in Live /\ kind[g] = "stream"  BY <1>4, <2>2, <2>4
  <2>6. QED  BY <1>6, <1>9, <1>11, <2>2, <2>4, <2>5
<1>21. QED  BY <1>14, <1>15, <1>16, <1>17, <1>18, <1>19, <1>20

-----------------------------------------------------------------------------
(* ... and whatever becomes of the accounts and of the daemon *)

\* Steps that leave the handlers alone keep everything that is said of them.
LEMMA AccountsKeepInv ==
    ASSUME TelepathyInv, NEW a \in Account,
           AccountAdded(a) \/ AccountUnavailable(a) \/ AccountInvalidated(a)
    PROVE  TelepathyInv'
<1> USE TasksDiffer DEF TelepathyInv
<1>1. /\ task = Idle /\ task' \in { Idle, Task("deregistering", a) }
      /\ directory' \in SUBSET Account /\ providers' \subseteq directory'
      /\ \/ directory \subseteq directory' /\ task' = Idle
         \/ directory' = directory \ { a } /\ task' = Task("deregistering", a)
      /\ UNCHANGED << phase, account, kind, requested, valid, ready, status, isIncoming, elapsed, duration,
                      accepting, hangingUp, parent, children >>
      /\ UNCHANGED << voiceCalls, activeVoiceCall, isCallFiltering, received, dialled >>
  BY OwnTypes
     DEF AccountAdded, AccountUnavailable, AccountInvalidated, Task, handlerVars, channelVars, callVars,
         requestVars, familyVars, telepathyVars, managerVars, counterVars, ProvidersOwn
<1>2. Live' = Live  BY <1>1 DEF Live
<1>3. TypeOK'
  <2>1. HandlerTypeOK'  BY <1>1, OwnTypes DEF HandlerTypeOK
  <2>2. task' \in [do : { "deregistering" }, on : Account] \cup { Idle }  BY <1>1, TaskTypes
  <2>3. QED  BY <1>1, <2>1, <2>2, OwnTypes, TypeNext
<1>4. ProvidersOwn'
  BY <1>1, <1>2 DEF ProvidersOwn
<1>5. KindsAre' /\ OnlyReadyAreUsed' /\ TasksAre'
  BY <1>1, <1>2 DEF KindsAre, OnlyReadyAreUsed, TasksAre
<1>6. ChildrenAre' /\ FamilyAgrees' /\ KeptForItsChildren'
  BY <1>1, FamiliesUntouched
<1>7. QED  BY <1>3, <1>4, <1>5, <1>6

LEMMA AccountAvailableKeepsInv ==
    ASSUME TelepathyInv, NEW a \in Account, AccountAvailable(a)
    PROVE  TelepathyInv'
<1> USE TasksDiffer DEF TelepathyInv
<1>1. /\ task = Idle /\ a \in directory
      /\ providers' = providers \cup { a }
      /\ UNCHANGED << phase, account, kind, requested, valid, ready, isIncoming, elapsed, duration,
                      accepting, hangingUp, parent, children >>
      /\ UNCHANGED << directory, task, isCallFiltering, received, dialled >>
  BY DEF AccountAvailable, channelVars, requestVars, familyVars, telepathyVars, counterVars
<1>2. CallsOf(a) \subseteq Live \cap ready /\ CallsOf(a) \in SUBSET Handler
  BY DEF CallsOf, Live
<1>3. /\ voiceCalls' = voiceCalls \cup CallsOf(a)
      /\ activeVoiceCall' \in Handler \cup { NoCall }
      /\ status' \in [Handler -> VoiceCallStatus]
      /\ \A h \in Handler \ CallsOf(a) : status'[h] = status[h]
  BY <1>2, Added DEF AccountAvailable
<1>4. Live' = Live  BY <1>1 DEF Live
<1>5. TypeOK'
  <2>1. HandlerTypeOK'  BY <1>1, <1>3, OwnTypes DEF HandlerTypeOK
  <2>2. QED  BY <1>1, <1>2, <1>3, <2>1, OwnTypes, TypeNext
<1>6. ProvidersOwn' /\ KindsAre' /\ TasksAre'
  BY <1>1, <1>4 DEF ProvidersOwn, KindsAre, TasksAre
<1>7. OnlyReadyAreUsed'
  BY <1>1, <1>2, <1>3, <1>4 DEF OnlyReadyAreUsed, Live
<1>8. ChildrenAre' /\ FamilyAgrees' /\ KeptForItsChildren'
  BY <1>1, FamiliesUntouched
<1>9. QED  BY <1>5, <1>6, <1>7, <1>8

\* Destroyed handlers are gone, with all they asked for.
LEMMA Destroyed ==
    ASSUME TypeOK, NEW hs \in SUBSET Handler, Destroy(hs)
    PROVE  /\ HandlerTypeOK' /\ Live' = Live \ hs
           /\ \A h \in Handler : phase'[h] = IF h \in hs THEN "gone" ELSE phase[h]
           /\ \A h \in Handler : status'[h] = IF h \in hs THEN "NULL" ELSE status[h]
           /\ \A h \in Handler : parent'[h] = IF h \in hs THEN NoCall ELSE parent[h]
           /\ \A h \in Handler : children'[h] = IF h \in hs THEN {} ELSE children[h]
           /\ accepting' = accepting \cap Live' /\ hangingUp' = hangingUp \cap Live'
           /\ valid' = valid \ hs
           /\ UNCHANGED << account, kind, requested, ready, isIncoming, duration, received, dialled >>
<1>1. /\ phase' = [h \in Handler |-> IF h \in hs THEN "gone" ELSE phase[h]]
      /\ status' = [h \in Handler |-> IF h \in hs THEN "NULL" ELSE status[h]]
      /\ elapsed' = [h \in Handler |-> IF h \in hs THEN 0 ELSE elapsed[h]]
      /\ parent' = [h \in Handler |-> IF h \in hs THEN NoCall ELSE parent[h]]
      /\ children' = [h \in Handler |-> IF h \in hs THEN {} ELSE children[h]]
      /\ valid' = valid \ hs
      /\ accepting' = accepting \cap Live' /\ hangingUp' = hangingUp \cap Live'
      /\ UNCHANGED << account, kind, requested, ready, isIncoming, duration, received, dialled >>
  BY DEF Destroy, Requests, counterVars
<1>2. Live' = Live \ hs  BY <1>1 DEF Live
<1>3. HandlerTypeOK'
  BY <1>1, HandlerAssumption DEF TypeOK, HandlerTypeOK, VoiceCallStatus
<1>4. QED  BY <1>1, <1>2, <1>3

\* A provider takes its handlers along, and these are whole families.
LEMMA ProviderDeletedKeepsInv ==
    ASSUME TelepathyInv, NEW a \in Account, ProviderDeleted(a)
    PROVE  TelepathyInv'
<1> USE TasksDiffer DEF TelepathyInv
<1>1. PICK hs \in SUBSET Handler : hs = { h \in Live : account[h] = a }  BY DEF Live
<1>2. /\ task = Task("deregistering", a) /\ task' = Idle /\ Destroy(hs)
      /\ UNCHANGED << directory, providers, voiceCalls, activeVoiceCall, isCallFiltering >>
  BY <1>1 DEF ProviderDeleted, Task, managerVars
<1>3. /\ HandlerTypeOK' /\ Live' = Live \ hs
      /\ \A h \in Handler : phase'[h] = IF h \in hs THEN "gone" ELSE phase[h]
      /\ \A h \in Handler : status'[h] = IF h \in hs THEN "NULL" ELSE status[h]
      /\ \A h \in Handler : parent'[h] = IF h \in hs THEN NoCall ELSE parent[h]
      /\ \A h \in Handler : children'[h] = IF h \in hs THEN {} ELSE children[h]
      /\ accepting' = accepting \cap Live' /\ hangingUp' = hangingUp \cap Live'
      /\ valid' = valid \ hs
      /\ UNCHANGED << account, kind, requested, ready, isIncoming, duration, received, dialled >>
  BY <1>2, Destroyed
<1>4. TypeOK'
  BY <1>2, <1>3, OwnTypes, TypeNext
<1>5. ProvidersOwn'
  BY <1>1, <1>2, <1>3 DEF ProvidersOwn, Live
<1>6. KindsAre' /\ TasksAre'
  BY <1>1, <1>2, <1>3 DEF KindsAre, TasksAre, Live
<1>7. OnlyReadyAreUsed'
  BY <1>1, <1>2, <1>3 DEF OnlyReadyAreUsed, Live
<1>8. \A c \in Handler : \A h \in children[c] :
        /\ c \in Live \cap ready /\ h \in Live /\ parent[h] = c /\ account[h] = account[c]
        /\ c \in hs <=> h \in hs
  <2>1. SUFFICES ASSUME NEW c \in Handler, NEW h \in children[c]
                 PROVE  /\ c \in Live \cap ready /\ h \in Live /\ parent[h] = c /\ account[h] = account[c]
                        /\ c \in hs <=> h \in hs
    OBVIOUS
  <2>2. c \in Live \cap ready /\ account[h] = account[c]  BY <1>2 DEF ChildrenAre
  <2>3. h \in Live /\ parent[h] = c  BY <1>2, <2>2 DEF FamilyAgrees, Task
  <2>4. QED  BY <1>1, <2>2, <2>3
<1>9. ChildrenAre'
  BY <1>3, <1>8 DEF ChildrenAre
<1>10. FamilyAgrees'
  <2>1. \A g \in Handler : parent'[g] # NoCall => parent'[g] \in Live' /\ g \in children'[parent'[g]]
    BY <1>3, <1>8 DEF FamilyAgrees, Live
  <2>2. \A d \in Live' : \A g \in children'[d] : parent'[g] = d /\ g \in Live'
    BY <1>3, <1>8 DEF Live
  <2>3. QED  BY <2>1, <2>2 DEF FamilyAgrees
<1>11. KeptForItsChildren'
  <2>1. SUFFICES ASSUME NEW d \in (Live' \cap ready') \ valid'
                 PROVE  \E g \in children'[d] : g \in Live'
    BY DEF KeptForItsChildren
  <2>2. d \in (Live \cap ready) \ valid /\ d \in Handler \ hs  BY <1>3, <2>1 DEF Live
  <2>3. PICK g \in children[d] : TRUE  BY <2>2 DEF KeptForItsChildren
  <2>4. QED  BY <1>3, <1>8, <2>2, <2>3
<1>12. QED  BY <1>4, <1>5, <1>6, <1>7, <1>9, <1>10, <1>11

\* Nothing outlives the daemon.
LEMMA RestartKeepsInv ==
    ASSUME TelepathyInv, Restart
    PROVE  TelepathyInv'
<1> USE TasksDiffer DEF TelepathyInv
<1>1. PICK hs \in SUBSET Handler : hs = { h \in Handler : phase[h] # "unborn" }  OBVIOUS
<1>2. /\ task' = Idle /\ Destroy(hs)
      /\ providers' = {} /\ voiceCalls' = {} /\ activeVoiceCall' = NoCall /\ isCallFiltering' = FALSE
      /\ directory' = {}
  BY <1>1 DEF Restart
<1>3. /\ HandlerTypeOK' /\ Live' = Live \ hs
      /\ \A h \in Handler : phase'[h] = IF h \in hs THEN "gone" ELSE phase[h]
      /\ \A h \in Handler : status'[h] = IF h \in hs THEN "NULL" ELSE status[h]
      /\ \A h \in Handler : parent'[h] = IF h \in hs THEN NoCall ELSE parent[h]
      /\ \A h \in Handler : children'[h] = IF h \in hs THEN {} ELSE children[h]
      /\ accepting' = accepting \cap Live' /\ hangingUp' = hangingUp \cap Live'
      /\ UNCHANGED << kind, ready, received, dialled >>
  BY <1>2, Destroyed
<1>4. Live' = {}  BY <1>1, <1>3 DEF Live
<1>5. TypeOK'
  BY <1>2, <1>3, OwnTypes, TypeNext
<1>6. ProvidersOwn' /\ KindsAre' /\ TasksAre'
  BY <1>1, <1>2, <1>3, <1>4 DEF ProvidersOwn, KindsAre, TasksAre
<1>7. OnlyReadyAreUsed'
  BY <1>1, <1>2, <1>3, <1>4 DEF OnlyReadyAreUsed
<1>8. \A h \in Handler : parent'[h] = NoCall /\ children'[h] = {}
  BY <1>1, <1>3, UnbornHaveNoFamily
<1>9. ChildrenAre' /\ FamilyAgrees' /\ KeptForItsChildren'
  BY <1>4, <1>8 DEF ChildrenAre, FamilyAgrees, KeptForItsChildren
<1>10. QED  BY <1>5, <1>6, <1>7, <1>9

\* Filters come and go without a trace in the handlers.
LEMMA OthersKeepInv ==
    ASSUME TelepathyInv, (\E on \in BOOLEAN : SetCallFiltering(on)) \/ UNCHANGED vars
    PROVE  TelepathyInv'
<1> USE DEF TelepathyInv
<1>1. /\ isCallFiltering' \in BOOLEAN
      /\ UNCHANGED << phase, account, kind, requested, valid, ready, status, isIncoming, elapsed, duration,
                      accepting, hangingUp, parent, children >>
      /\ UNCHANGED << directory, task, providers, voiceCalls, activeVoiceCall, received, dialled >>
  BY OwnTypes
     DEF SetCallFiltering, vars, handlerVars, channelVars, callVars, requestVars, familyVars,
         telepathyVars, managerVars, counterVars
<1>2. Live' = Live  BY <1>1 DEF Live
<1>3. TypeOK'
  <2>1. HandlerTypeOK'  BY <1>1, OwnTypes DEF HandlerTypeOK
  <2>2. QED  BY <1>1, <2>1, OwnTypes, TypeNext
<1>4. ProvidersOwn' /\ KindsAre' /\ OnlyReadyAreUsed' /\ TasksAre'
  BY <1>1, <1>2 DEF ProvidersOwn, KindsAre, OnlyReadyAreUsed, TasksAre
<1>5. ChildrenAre' /\ FamilyAgrees' /\ KeptForItsChildren'
  BY <1>1, <1>2 DEF ChildrenAre, FamilyAgrees, KeptForItsChildren
<1>6. QED  BY <1>3, <1>4, <1>5

LEMMA TelepathyInit == Init => TelepathyInv
<1> SUFFICES ASSUME Init PROVE TelepathyInv
  OBVIOUS
<1>1. Live = {} /\ ready = {} /\ task = Idle /\ \A h \in Handler : children[h] = {} /\ parent[h] = NoCall
  BY DEF Init, HandlerInit, Live
<1>2. ProvidersOwn /\ OnlyReadyAreUsed /\ KindsAre /\ TasksAre
  BY <1>1, TasksDiffer
     DEF Init, HandlerInit, M!ManagerInit, ProvidersOwn, OnlyReadyAreUsed, KindsAre, TasksAre
<1>3. ChildrenAre /\ FamilyAgrees /\ KeptForItsChildren
  BY <1>1 DEF ChildrenAre, FamilyAgrees, KeptForItsChildren
<1>4. QED  BY <1>2, <1>3, TypeInit DEF TelepathyInv

LEMMA TelepathyInvariance == Spec => []TelepathyInv
<1>1. ASSUME TelepathyInv, [Next]_vars PROVE TelepathyInv'
  <2>1. ASSUME NEW h \in Handler, ChannelStep(h) PROVE TelepathyInv'
    BY <1>1, <2>1, ChannelEvents, StaysKeepsInv, GoesKeepsInv, CreateHandlerKeepsInv, BecomesReadyKeepsInv,
       AnnounceKeepsInv, FamilyKeepsInv, DeletedKeepsInv
    DEF ChannelStep
  <2>2. ASSUME NEW h \in Handler, RequestStep(h) PROVE TelepathyInv'
    BY <1>1, <2>2, RequestEvents, StaysKeepsInv, GoesKeepsInv, TimerKeepsInv DEF RequestStep
  <2>3. ASSUME NEW a \in Account, AccountStep(a) PROVE TelepathyInv'
    BY <1>1, <2>3, AccountsKeepInv, AccountAvailableKeepsInv, ProviderDeletedKeepsInv DEF AccountStep
  <2>4. QED
    BY <1>1, <2>1, <2>2, <2>3, RestartKeepsInv, OthersKeepInv DEF Next
<1>2. QED  BY TelepathyInit, <1>1, PTL DEF Spec

\* Every variable keeps its type, whatever accounts, channels and the daemon do.
THEOREM TelepathyTypeCorrect == Spec => []TypeOK
<1>1. TelepathyInv => TypeOK  BY DEF TelepathyInv
<1>2. QED  BY TelepathyInvariance, <1>1, PTL

\* childCalls and parentHandlerId of the handlers never contradict each other nor
\* point to a deleted one, however merges, splits, hang-ups and lost channels interleave.
THEOREM FamilyAlwaysAgrees == Spec => []FamilyAgrees
<1>1. TelepathyInv => FamilyAgrees  BY DEF TelepathyInv
<1>2. QED  BY TelepathyInvariance, <1>1, PTL

\* A conference whose channel is lost is never kept without a call to keep it for.
THEOREM AlwaysKeptForItsChildren == Spec => []KeptForItsChildren
<1>1. TelepathyInv => KeptForItsChildren  BY DEF TelepathyInv
<1>2. QED  BY TelepathyInvariance, <1>1, PTL

\* Only what ends a handler makes it gone.
LEMMA WhoGoes ==
    ASSUME TelepathyInv, [Next]_vars
    PROVE  \A c \in Live : status[c] = "DISCONNECTED" /\ phase'[c] = "gone" => children'[c] = {}
<1> USE DEF TelepathyInv, TypeOK, HandlerTypeOK
<1>1. SUFFICES ASSUME NEW c \in Live, status[c] = "DISCONNECTED", phase'[c] = "gone"
               PROVE  children'[c] = {}
  OBVIOUS
<1>2. c \in Handler /\ phase[c] = "live"  BY DEF Live
<1>3. ASSUME NEW h \in Handler, Stays(h) PROVE FALSE
  BY <1>1, <1>2, <1>3 DEF Stays
<1>4. ASSUME NEW h \in Handler, Goes(h) PROVE children'[c] = {}
  <2>1. h = c  BY <1>1, <1>2, <1>4, Retracted DEF Goes
  <2>2. QED  BY <1>1, <1>4, <2>1 DEF Goes
<1>5. ASSUME NEW h \in Handler, Deleted(h) PROVE children'[c] = {}
  <2>1. ToldOfDeletion(parent[h]) /\ LastOneOut(parent[h], h) /\ Retract(parent[h])
    BY <1>1, <1>2, <1>5 DEF Deleted
  <2>2. c = parent[h]
    BY <1>1, <1>2, <2>1, Retracted DEF ToldOfDeletion, Live
  <2>3. children'[c] \subseteq children[c] \ { h }
    BY <1>2, <1>5, <2>1, <2>2 DEF Deleted
  <2>4. QED  BY <2>1, <2>2, <2>3 DEF LastOneOut
<1>6. ASSUME NEW hs \in SUBSET Handler, Destroy(hs) PROVE children'[c] = {}
  BY <1>1, <1>2, <1>6, Destroyed
<1>7. ASSUME NEW h \in Handler, ChannelStep(h) PROVE children'[c] = {}
  <2>1. CASE \/ \E a \in Account, k \in Kind, r \in BOOLEAN : CreateHandler(a, h, k, r)
             \/ BecomesReady(h) \/ Announce(h)
             \/ \E d \in Handler : OnChannelMerged(d, h) \/ OnChannelRemoved(d, h)
    BY <1>1, <1>2, <2>1
    DEF CreateHandler, BecomesReady, Announce, OnChannelMerged, OnChannelRemoved, channelVars
  <2>2. QED  BY <1>3, <1>4, <1>5, <1>7, <2>1, ChannelEvents DEF ChannelStep
<1>8. ASSUME NEW h \in Handler, RequestStep(h) PROVE children'[c] = {}
  <2>1. CASE TimerEvent(h)  BY <1>1, <1>2, <2>1 DEF TimerEvent, channelVars
  <2>2. QED  BY <1>3, <1>4, <1>8, <2>1, RequestEvents DEF RequestStep
<1>9. ASSUME NEW a \in Account, AccountStep(a) PROVE children'[c] = {}
  <2>1. CASE ProviderDeleted(a)
    <3>1. { h \in Live : account[h] = a } \in SUBSET Handler  BY DEF Live
    <3>2. QED  BY <1>6, <2>1, <3>1 DEF ProviderDeleted
  <2>2. CASE ~ProviderDeleted(a)
    BY <1>1, <1>2, <1>9, <2>2
    DEF AccountStep, AccountAdded, AccountAvailable, AccountUnavailable, AccountInvalidated, handlerVars,
        channelVars
  <2>3. QED  BY <2>1, <2>2
<1>10. CASE Restart
  <2>1. { h \in Handler : phase[h] # "unborn" } \in SUBSET Handler  OBVIOUS
  <2>2. QED  BY <1>6, <1>10, <2>1 DEF Restart
<1>11. CASE (\E on \in BOOLEAN : SetCallFiltering(on)) \/ UNCHANGED vars
  BY <1>1, <1>2, <1>11 DEF SetCallFiltering, vars, handlerVars, channelVars
<1>12. QED  BY <1>7, <1>8, <1>9, <1>10, <1>11 DEF Next

\* A conference that is shown disconnected goes only without children: removeChildCall
\* and on...ChannelInvalidated between them see to it.
THEOREM ConferenceAlwaysGoesLast == Spec => ConferenceGoesLast
<1>1. TelepathyInv /\ [Next]_vars
        => \A c \in Live : status[c] = "DISCONNECTED" /\ phase'[c] = "gone" => children'[c] = {}
  BY WhoGoes
<1>2. QED  BY TelepathyInvariance, <1>1, PTL DEF Spec, ConferenceGoesLast

\* Only an announcement makes a handler ready for the manager.
LEMMA OnlyAnnouncementsReady ==
    ASSUME TelepathyInv, [Next]_vars, NEW h \in ready' \ ready
    PROVE  h \in Handler /\ Announce(h)
<1> USE DEF TelepathyInv, TypeOK, HandlerTypeOK
<1>1. ready' # ready  OBVIOUS
<1>2. ASSUME NEW g \in Handler, Stays(g) \/ Goes(g) PROVE FALSE
  BY <1>1, <1>2 DEF Stays, Goes, fixedVars
<1>3. ASSUME NEW g \in Handler, ChannelStep(g) PROVE h = g /\ Announce(g)
  <2>1. CASE \/ \E a \in Account, k \in Kind, r \in BOOLEAN : CreateHandler(a, g, k, r)
             \/ BecomesReady(g) \/ Deleted(g)
             \/ \E d \in Handler : OnChannelMerged(d, g) \/ OnChannelRemoved(d, g)
    BY <1>1, <2>1
    DEF CreateHandler, BecomesReady, Deleted, OnChannelMerged, OnChannelRemoved, channelVars, fixedVars
  <2>2. CASE Announce(g)  BY <2>2 DEF Announce
  <2>3. QED  BY <1>2, <1>3, <2>1, <2>2, ChannelEvents DEF ChannelStep
<1>4. ASSUME NEW g \in Handler, RequestStep(g) PROVE FALSE
  <2>1. CASE TimerEvent(g)  BY <1>1, <2>1 DEF TimerEvent, channelVars
  <2>2. QED  BY <1>2, <1>4, <2>1, RequestEvents DEF RequestStep
<1>5. ASSUME NEW a \in Account, AccountStep(a) PROVE FALSE
  BY <1>1, <1>5
  DEF AccountStep, AccountAdded, AccountAvailable, AccountUnavailable, AccountInvalidated, ProviderDeleted,
      Destroy, handlerVars, channelVars
<1>6. CASE Restart \/ (\E on \in BOOLEAN : SetCallFiltering(on)) \/ UNCHANGED vars
  BY <1>1, <1>6 DEF Restart, Destroy, SetCallFiltering, vars, handlerVars, channelVars
<1>7. QED  BY <1>3, <1>4, <1>5, <1>6 DEF Next

\* A cellular call that comes in while a filter is installed waits for its verdict; a
\* SIP call (CallChannelHandler) does not, for it is incoming from the start.
THEOREM IncomingIsAlwaysKeptForFilter ==
    ASSUME "call" \notin Kind
    PROVE  Spec => IncomingIsKeptForFilter
<1>1. TelepathyInv /\ [Next]_vars
        => \A h \in ready' \ ready :
              isIncoming[h] /\ Registered(h) /\ isCallFiltering => status'[h] = "NULL"
  <2>1. SUFFICES ASSUME TelepathyInv, [Next]_vars, NEW h \in ready' \ ready,
                        isIncoming[h], Registered(h), isCallFiltering
                 PROVE  status'[h] = "NULL"
    OBVIOUS
  <2>2. h \in Handler /\ Announce(h)  BY <2>1, OnlyAnnouncementsReady
  <2>3. h \in Live /\ status[h] = "NULL"
    BY <2>1, <2>2 DEF TelepathyInv, TasksAre, KindsAre, Announce, Task
  <2>4. M!ReleasedUnfiltered({ h }) = {}  BY <2>1 DEF M!ReleasedUnfiltered
  <2>5. status' = [g \in Handler |-> status[g]]  BY <2>1, <2>2, <2>4 DEF Announce, M!Release
  <2>6. QED  BY <2>2, <2>3, <2>5
<1>2. QED  BY TelepathyInvariance, <1>1, PTL DEF Spec, IncomingIsKeptForFilter

-----------------------------------------------------------------------------
(* The provider implements VoiceCallManager.  What the manager sees of it is   *)
(* each account's list of calls, which handlers are gone, and what a handler   *)
(* tells of itself.                                                            *)

Calls == [a \in Account |-> CallsOf(a)]

GoneOnes == { h \in Handler : phase[h] = "gone" }

\* A live handler has an account.
LEMMA LiveHaveAccounts ==
    ASSUME TelepathyInv, NEW h \in Live
    PROVE  h \in Handler /\ account[h] \in Account
<1>1. CASE account[h] \in directory
  BY <1>1 DEF TelepathyInv, TypeOK, Live
<1>2. CASE task = Task("deregistering", account[h])
  BY <1>2 DEF TelepathyInv, TypeOK, Live, Task, Idle
<1>3. QED  BY <1>1, <1>2 DEF TelepathyInv, ProvidersOwn

\* The manager knows of the handlers that are live and ready.
LEMMA AnnouncedAre ==
    ASSUME TelepathyInv
    PROVE  /\ M!Announced = Live \cap ready
           /\ M!Unannounced = Handler \ ((Live \cap ready) \cup GoneOnes)
           /\ \A h \in Live \cap ready : h \in Calls[account[h]]
<1>1. \A h \in Live : h \in Handler /\ account[h] \in Account  BY LiveHaveAccounts
<1>2. \A a \in Account : CallsOf(a) = { h \in Live \cap ready : account[h] = a }  BY DEF CallsOf
<1>3. M!Announced = UNION { CallsOf(a) : a \in Account }  BY DEF M!Announced
<1>4. M!Announced = Live \cap ready  BY <1>1, <1>2, <1>3
<1>5. QED  BY <1>1, <1>2, <1>4 DEF M!Unannounced, GoneOnes, Calls

\* What changes nothing of this is no step of the manager's.
LEMMA Unseen ==
    ASSUME UNCHANGED << Calls, GoneOnes, status, isIncoming, duration, providers, voiceCalls, activeVoiceCall,
                        isCallFiltering, received, dialled >>
    PROVE  UNCHANGED M!vars
BY DEF M!vars, M!managerVars, M!counterVars, M!handlerVars, Calls, GoneOnes

LEMMA ListsUnchanged ==
    ASSUME UNCHANGED << phase, account, ready >>
    PROVE  UNCHANGED << Calls, GoneOnes >>
BY DEF Calls, CallsOf, GoneOnes, Live

\* A handler that stays tells its status at most.
LEMMA StaysRefines ==
    ASSUME TelepathyInv, NEW h \in Handler, Stays(h)
    PROVE  M!Next \/ UNCHANGED M!vars
<1>1. PICK s \in VoiceCallStatus : status' = [status EXCEPT ![h] = s]  BY DEF Stays
<1>2. UNCHANGED << Calls, GoneOnes >>
  BY ListsUnchanged DEF Stays, fixedVars
<1>3. UNCHANGED << isIncoming, duration, providers, voiceCalls, activeVoiceCall,
                   isCallFiltering, received, dialled >>
  BY DEF Stays, fixedVars, managerVars, counterVars
<1>4. CASE s = status[h]
  <2>1. status' = status  BY <1>1, <1>4 DEF TelepathyInv, TypeOK, HandlerTypeOK
  <2>2. QED  BY <1>2, <1>3, <2>1, Unseen
<1>5. CASE s # status[h]
  <2>1. h \in M!Announced  BY AnnouncedAre DEF Stays
  <2>2. M!StatusChanged(h, s)
    BY <1>1, <1>2, <1>3, <1>5, <2>1 DEF M!StatusChanged, M!managerVars, M!counterVars, Calls, GoneOnes
  <2>3. QED  BY <2>2 DEF M!Next, M!HandlerStep
<1>6. QED  BY <1>4, <1>5

\* A handler that goes is retracted, or discarded if it was never announced.
LEMMA RetractRefines ==
    ASSUME TelepathyInv, NEW h \in Live, Retract(h), UNCHANGED << account, ready, isIncoming, duration >>
    PROVE  M!Next
<1>1. h \in Handler /\ account[h] \in Account /\ TypeOK  BY LiveHaveAccounts DEF TelepathyInv
<1>2. /\ phase' = [phase EXCEPT ![h] = "gone"] /\ status' = [status EXCEPT ![h] = "NULL"]
      /\ UNCHANGED << providers, isCallFiltering >>
  BY <1>1, Retracted
<1>3. Live' = Live \ { h } /\ GoneOnes' = GoneOnes \cup { h }
  BY <1>1, <1>2 DEF Live, GoneOnes, TypeOK, HandlerTypeOK
<1>4. M!Destroy({ h })
  BY <1>2, <1>3 DEF M!Destroy, GoneOnes, TelepathyInv, TypeOK, HandlerTypeOK
<1>5. CASE h \in ready
  <2>1. Calls' = [Calls EXCEPT ![account[h]] = @ \ { h }]
    BY <1>1, <1>3 DEF Calls, CallsOf
  <2>2. h \in Calls[account[h]]  BY <1>5, AnnouncedAre
  <2>3. IF account[h] \in providers
        THEN M!OnVoiceCallRemoved(h)
        ELSE UNCHANGED << voiceCalls, activeVoiceCall, received, dialled >>
    BY <1>5 DEF Retract, Registered, counterVars
  <2>4. M!ProviderRemovesCall(account[h], h)
    BY <1>2, <1>4, <2>1, <2>2, <2>3 DEF M!ProviderRemovesCall, M!counterVars, Calls, GoneOnes
  <2>5. QED  BY <1>1, <2>4 DEF M!Next, M!ProviderStep
<1>6. CASE h \notin ready
  <2>1. UNCHANGED Calls  BY <1>3, <1>6 DEF Calls, CallsOf
  <2>2. UNCHANGED << voiceCalls, activeVoiceCall, received, dialled >>
    BY <1>6 DEF Retract, counterVars
  <2>3. h \in M!Unannounced  BY <1>1, <1>6, AnnouncedAre DEF GoneOnes, Live
  <2>4. M!HandlerDiscarded(h)
    BY <1>2, <1>4, <2>1, <2>2, <2>3
    DEF M!HandlerDiscarded, M!managerVars, M!counterVars, Calls, GoneOnes
  <2>5. QED  BY <1>1, <2>4 DEF M!Next, M!HandlerStep
<1>7. QED  BY <1>5, <1>6

\* The end of an announcement's event is the manager's.
LEMMA AnnounceRefines ==
    ASSUME TelepathyInv, NEW h \in Handler, Announce(h)
    PROVE  M!Next
<1>1. h \in (Live \cap valid) \ ready  BY DEF TelepathyInv, TasksAre, Announce, Task
<1>2. account[h] \in Account  BY <1>1, LiveHaveAccounts
<1>3. ready' = ready \cup { h } /\ UNCHANGED << phase, account, isIncoming, duration, providers,
                                                isCallFiltering, received, dialled >>
  BY DEF Announce, counterVars
<1>4. Calls' = [Calls EXCEPT ![account[h]] = @ \cup { h }] /\ UNCHANGED GoneOnes
  BY <1>1, <1>2, <1>3 DEF Calls, CallsOf, GoneOnes, Live
<1>5. h \in M!Unannounced  BY <1>1, AnnouncedAre DEF GoneOnes, Live
<1>6. IF account[h] \in providers
      THEN M!OnVoiceCallAdded({ h }) /\ M!Release(M!ReleasedUnfiltered({ h }))
      ELSE UNCHANGED << voiceCalls, activeVoiceCall, status >>
  BY DEF Announce, Registered
<1>7. M!ProviderAddsCall(account[h], h)
  BY <1>3, <1>4, <1>5, <1>6 DEF M!ProviderAddsCall, M!counterVars, Calls, GoneOnes
<1>8. QED  BY <1>2, <1>7 DEF M!Next, M!ProviderStep

LEMMA ChannelStepRefines ==
    ASSUME TelepathyInv, NEW h \in Handler, ChannelStep(h)
    PROVE  M!Next \/ UNCHANGED M!vars
<1>1. ASSUME NEW a \in Account, NEW k \in Kind, NEW r \in BOOLEAN, CreateHandler(a, h, k, r)
      PROVE  UNCHANGED M!vars
  <2>1. /\ phase[h] = "unborn" /\ phase' = [phase EXCEPT ![h] = "live"] /\ account' = [account EXCEPT ![h] = a]
        /\ UNCHANGED << ready, status, isIncoming, duration, providers, voiceCalls, activeVoiceCall,
                        isCallFiltering, received, dialled >>
    BY <1>1 DEF CreateHandler, callVars, managerVars, counterVars
  <2>2. h \notin ready  BY <2>1 DEF TelepathyInv, OnlyReadyAreUsed
  <2>3. /\ Live' = Live \cup { h } /\ \A g \in Handler \ { h } : account'[g] = account[g]
        /\ UNCHANGED GoneOnes
    BY <2>1 DEF TelepathyInv, TypeOK, HandlerTypeOK, Live, GoneOnes
  <2>4. \A a1 \in Account : CallsOf(a1)' = CallsOf(a1)
    BY <2>1, <2>2, <2>3 DEF CallsOf, Live
  <2>5. UNCHANGED Calls  BY <2>4 DEF Calls
  <2>6. QED  BY <2>1, <2>3, <2>5, Unseen
<1>2. CASE BecomesReady(h)
  <2>1. /\ h \in (Live \cap valid) \ ready
        /\ status' = [status EXCEPT ![h] = InitialStatus(h)]
        /\ isIncoming' = [isIncoming EXCEPT ![h] = h \notin requested]
        /\ UNCHANGED << phase, account, ready, duration, providers, voiceCalls, activeVoiceCall,
                        isCallFiltering, received, dialled >>
    BY <1>2 DEF BecomesReady, channelVars, managerVars, counterVars
  <2>2. InitialStatus(h) \in VoiceCallStatus
    BY <2>1, KindAssumption DEF TelepathyInv, KindsAre, InitialStatus, AllKinds, VoiceCallStatus
  <2>3. PICK s \in VoiceCallStatus, incoming \in BOOLEAN : s = InitialStatus(h) /\ incoming = (h \notin requested)
    BY <2>2
  <2>4. h \in M!Unannounced  BY <2>1, AnnouncedAre DEF GoneOnes, Live
  <2>5. UNCHANGED << Calls, GoneOnes >>  BY <2>1, ListsUnchanged
  <2>6. [g \in Handler |-> FALSE] = [[g \in Handler |-> FALSE] EXCEPT ![h] = FALSE]  OBVIOUS
  <2>7. M!HandlerPrepared(h, incoming, FALSE, s)
    BY <2>1, <2>3, <2>4, <2>5, <2>6
    DEF M!HandlerPrepared, M!managerVars, M!counterVars, Calls, GoneOnes
  <2>8. QED  BY <2>7 DEF M!Next, M!HandlerStep
<1>3. ASSUME NEW c \in Handler, OnChannelMerged(c, h) \/ OnChannelRemoved(c, h)
      PROVE  UNCHANGED M!vars
  BY <1>3, ListsUnchanged, Unseen
  DEF OnChannelMerged, OnChannelRemoved, channelVars, callVars, managerVars, counterVars
<1>4. CASE Deleted(h)
  <2>1. UNCHANGED << account, ready, isIncoming, duration >>  BY <1>4 DEF Deleted, fixedVars
  <2>2. CASE ToldOfDeletion(parent[h]) /\ LastOneOut(parent[h], h)
    <3>1. parent[h] \in Live /\ Retract(parent[h])  BY <1>4, <2>2 DEF Deleted, ToldOfDeletion
    <3>2. QED  BY <2>1, <3>1, RetractRefines
  <2>3. CASE ~(ToldOfDeletion(parent[h]) /\ LastOneOut(parent[h], h))
    <3>1. UNCHANGED << phase, status, providers, voiceCalls, activeVoiceCall, isCallFiltering, received,
                       dialled >>
      BY <1>4, <2>3 DEF Deleted, managerVars, counterVars
    <3>2. QED  BY <2>1, <3>1, ListsUnchanged, Unseen
  <2>4. QED  BY <2>2, <2>3
<1>5. CASE Goes(h)
  BY <1>5, RetractRefines DEF Goes, fixedVars
<1>6. QED
  BY <1>1, <1>2, <1>3, <1>4, <1>5, AnnounceRefines, ChannelEvents, StaysRefines DEF ChannelStep

LEMMA RequestStepRefines ==
    ASSUME TelepathyInv, NEW h \in Handler, RequestStep(h)
    PROVE  M!Next \/ UNCHANGED M!vars
<1>1. CASE TimerEvent(h)
  <2>1. /\ h \in Live \cap ready /\ IsOngoing(status[h]) /\ elapsed[h] < MaxDuration
        /\ duration' = [duration EXCEPT ![h] = elapsed[h] + 1]
        /\ UNCHANGED << phase, account, ready, status, isIncoming, providers, voiceCalls, activeVoiceCall,
                        isCallFiltering, received, dialled >>
    BY <1>1 DEF TimerEvent, channelVars, managerVars, counterVars
  <2>2. PICK seconds : seconds = elapsed[h] + 1  OBVIOUS
  <2>3. seconds \in 1 .. MaxDuration
    BY <2>1, <2>2, HandlerAssumption DEF TelepathyInv, TypeOK, HandlerTypeOK
  <2>4. h \in M!Announced  BY <2>1, AnnouncedAre
  <2>5. UNCHANGED << Calls, GoneOnes >>  BY <2>1, ListsUnchanged
  <2>6. M!DurationChanged(h, seconds)
    BY <2>1, <2>2, <2>4, <2>5
    DEF M!DurationChanged, M!managerVars, M!counterVars, Calls, GoneOnes, M!IsOngoing, IsOngoing
  <2>7. QED  BY <2>3, <2>6 DEF M!Next, M!HandlerStep
<1>2. CASE Goes(h)
  BY <1>2, RetractRefines DEF Goes, fixedVars
<1>3. QED  BY <1>1, <1>2, RequestEvents, StaysRefines DEF RequestStep

LEMMA AccountStepRefines ==
    ASSUME TelepathyInv, NEW a \in Account, AccountStep(a)
    PROVE  M!Next \/ UNCHANGED M!vars
<1>1. CASE AccountAdded(a)
  BY <1>1, ListsUnchanged, Unseen
  DEF AccountAdded, handlerVars, channelVars, callVars, managerVars, counterVars
<1>2. CASE AccountAvailable(a)
  <2>1. /\ a \notin providers /\ providers' = providers \cup { a }
        /\ UNCHANGED << phase, account, ready, isIncoming, duration, isCallFiltering, received, dialled >>
    BY <1>2 DEF AccountAvailable, channelVars, counterVars
  <2>2. M!OnVoiceCallAdded(Calls[a]) /\ M!Release(M!ReleasedUnfiltered(Calls[a]))
    BY <1>2 DEF AccountAvailable, Calls
  <2>3. UNCHANGED << Calls, GoneOnes >>  BY <2>1, ListsUnchanged
  <2>4. M!AppendProvider(a)
    BY <2>1, <2>2, <2>3 DEF M!AppendProvider, M!counterVars, Calls, GoneOnes
  <2>5. QED  BY <2>4 DEF M!Next, M!ProviderStep
<1>3. CASE AccountUnavailable(a) \/ AccountInvalidated(a)
  <2>1. /\ providers' = providers \ { a }
        /\ UNCHANGED << phase, account, ready, status, isIncoming, duration, voiceCalls, activeVoiceCall,
                        isCallFiltering, received, dialled >>
    BY <1>3 DEF AccountUnavailable, AccountInvalidated, handlerVars, channelVars, callVars, counterVars
  <2>2. UNCHANGED << Calls, GoneOnes >>  BY <2>1, ListsUnchanged
  <2>3. CASE a \in providers
    <3>1. M!RemoveProvider(a)
      BY <2>1, <2>2, <2>3 DEF M!RemoveProvider, M!counterVars, M!handlerVars, Calls, GoneOnes
    <3>2. QED  BY <3>1 DEF M!Next, M!ProviderStep
  <2>4. CASE a \notin providers
    BY <2>1, <2>2, <2>4, Unseen
  <2>5. QED  BY <2>3, <2>4
<1>4. CASE ProviderDeleted(a)
  <2>1. PICK hs \in SUBSET Handler : hs = { h \in Live : account[h] = a }  BY DEF Live
  <2>2. Destroy(hs) /\ UNCHANGED << providers, voiceCalls, activeVoiceCall, isCallFiltering >>
    BY <1>4, <2>1 DEF ProviderDeleted, managerVars
  <2>3. /\ Live' = Live \ hs
        /\ \A h \in Handler : phase'[h] = IF h \in hs THEN "gone" ELSE phase[h]
        /\ UNCHANGED << account, ready, isIncoming, duration, received, dialled >>
    BY <2>2, Destroyed DEF TelepathyInv
  <2>4. a \notin providers
    BY <1>4 DEF ProviderDeleted, TelepathyInv, ProvidersOwn, Task
  <2>5. PICK unready \in SUBSET M!Unannounced : unready = hs \ ready
    BY <2>1, AnnouncedAre DEF GoneOnes, Live
  <2>6. hs = Calls[a] \cup unready  BY <2>1, <2>5 DEF Calls, CallsOf
  <2>7. Calls' = [Calls EXCEPT ![a] = {}]
    BY <2>1, <2>3 DEF Calls, CallsOf
  <2>8. GoneOnes' = GoneOnes \cup hs  BY <2>3 DEF GoneOnes
  <2>9. M!Destroy(Calls[a] \cup unready)
    BY <2>2, <2>6, <2>8 DEF M!Destroy, Destroy, GoneOnes
  <2>10. M!ProviderDestroyed(a)
    BY <2>2, <2>3, <2>4, <2>7, <2>9 DEF M!ProviderDestroyed, M!managerVars, M!counterVars, Calls, GoneOnes
  <2>11. QED  BY <2>10 DEF M!Next, M!ProviderStep
<1>5. QED  BY <1>1, <1>2, <1>3, <1>4 DEF AccountStep

LEMMA RestartRefines ==
    ASSUME TelepathyInv, Restart
    PROVE  M!Next
<1>1. PICK hs \in SUBSET Handler : hs = { h \in Handler : phase[h] # "unborn" }  OBVIOUS
<1>2. Destroy(hs)  BY <1>1 DEF Restart
<1>3. /\ Live' = Live \ hs
      /\ \A h \in Handler : phase'[h] = IF h \in hs THEN "gone" ELSE phase[h]
      /\ \A h \in Handler : status'[h] = IF h \in hs THEN "NULL" ELSE status[h]
      /\ UNCHANGED << account, ready, isIncoming, duration, received, dialled >>
  BY <1>2, Destroyed DEF TelepathyInv
<1>4. PICK unready \in SUBSET M!Unannounced : unready = Live \ ready
  BY AnnouncedAre DEF GoneOnes, Live
<1>5. M!Announced \cup unready = Live  BY <1>4, AnnouncedAre
<1>6. hs = Live \cup GoneOnes
  BY <1>1 DEF TelepathyInv, TypeOK, HandlerTypeOK, Live, GoneOnes
<1>7. status' = [h \in Handler |-> IF h \in Live THEN "NULL" ELSE status[h]]
  BY <1>2, <1>6 DEF Destroy, TelepathyInv, OnlyReadyAreUsed, GoneOnes
<1>8. GoneOnes' = GoneOnes \cup Live
  BY <1>3, <1>6 DEF GoneOnes
<1>9. M!Destroy(M!Announced \cup unready)
  BY <1>5, <1>7, <1>8 DEF M!Destroy, GoneOnes
<1>10. Calls' = [a \in Account |-> {}]
  BY <1>3, <1>6 DEF Calls, CallsOf
<1>11. M!Restart
  BY <1>3, <1>9, <1>10 DEF Restart, M!Restart, M!counterVars, Calls, GoneOnes
<1>12. QED  BY <1>11 DEF M!Next

LEMMA OthersRefine ==
    ASSUME TelepathyInv, (\E on \in BOOLEAN : SetCallFiltering(on)) \/ UNCHANGED vars
    PROVE  M!Next \/ UNCHANGED M!vars
<1>1. ASSUME NEW on \in BOOLEAN, SetCallFiltering(on) PROVE M!Next
  <2>1. UNCHANGED << phase, account, ready, status, isIncoming, duration, providers, voiceCalls,
                     activeVoiceCall, received, dialled >>
    BY <1>1 DEF SetCallFiltering, handlerVars, channelVars, callVars, counterVars
  <2>2. UNCHANGED << Calls, GoneOnes >>  BY <2>1, ListsUnchanged
  <2>3. M!SetCallFiltering(on)
    BY <1>1, <2>1, <2>2
    DEF SetCallFiltering, M!SetCallFiltering, M!counterVars, M!handlerVars, Calls, GoneOnes
  <2>4. QED  BY <2>3 DEF M!Next
<1>2. CASE UNCHANGED vars
  BY <1>2, ListsUnchanged, Unseen DEF vars, handlerVars, channelVars, callVars, managerVars, counterVars
<1>3. QED  BY <1>1, <1>2

\* The initial states are initial states of the manager.
LEMMA InitRefines == Init => M!Init
<1> SUFFICES ASSUME Init PROVE M!Init
  OBVIOUS
<1>1. GoneOnes = {} /\ \A a \in Account : CallsOf(a) = {}
  BY DEF Init, HandlerInit, GoneOnes, CallsOf
<1>2. QED  BY <1>1 DEF Init, HandlerInit, M!Init, GoneOnes

\* Accounts that come and go with live calls, conferences, late answers and lost
\* channels: all of it is what VoiceCallManager allows any provider to do.
THEOREM TelepathyImplementsManager == Spec => ImplementsManager
<1>1. TelepathyInv /\ [Next]_vars => [M!Next]_(M!vars)
  BY ChannelStepRefines, RequestStepRefines, AccountStepRefines, RestartRefines, OthersRefine DEF Next
<1>2. QED  BY InitRefines, TelepathyInvariance, <1>1, PTL DEF Spec, ImplementsManager, M!Spec
=============================================================================
