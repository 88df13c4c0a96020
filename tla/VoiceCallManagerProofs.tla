----------------------- MODULE VoiceCallManagerProofs -----------------------
(***************************************************************************)
(* What VoiceCallManager guarantees for any sets of providers and          *)
(* handlers.  RegisteredCallsKnown is not inductive: retracting a call     *)
(* from one provider would break it for another provider listing the same  *)
(* handler, so it is proved together with the fact that a handler has one  *)
(* owner.  What the counters count is proved with the fact that a listed   *)
(* handler is alive.                                                       *)
(***************************************************************************)
EXTENDS VoiceCallManager, FiniteSetTheorems, TLAPS

\* A handler belongs to one provider at most.
OneOwner == \A p, q \in Provider : p # q => calls[p] \cap calls[q] = {}

\* What a provider lists is alive; what the manager holds is listed or destroyed.
LiveOwned  == \A p \in Provider : calls[p] \cap gone = {}
TableOwned == voiceCalls \subseteq Announced \cup gone

IInv == TypeOK /\ ActiveIsKnown /\ OneOwner /\ RegisteredCallsKnown

\* FilteredStatus stays within the statuses of every instance.
LEMMA FilteredStatusType ==
    ASSUME NEW a \in VoiceCallFilterAction
    PROVE  FilteredStatus(a) \in Status
BY StatusAssumption DEF VoiceCallFilterAction, FilteredStatus

\* The bookkeeping of an announcement keeps its types.
LEMMA AddedType ==
    ASSUME TypeOK, NEW hs \in SUBSET Handler,
           OnVoiceCallAdded(hs), status' = status \/ Release(ReleasedUnfiltered(hs))
    PROVE  /\ voiceCalls' \subseteq Handler
           /\ activeVoiceCall' \in Handler \cup { NoCall }
           /\ status' \in [Handler -> Status]
<1>1. Admitted(hs) \subseteq Handler  BY DEF Admitted
<1>2. voiceCalls' \subseteq Handler  BY <1>1 DEF OnVoiceCallAdded, TypeOK
<1>3. activeVoiceCall' \in Handler \cup { NoCall }  BY <1>1 DEF OnVoiceCallAdded, TypeOK
<1>4. status' \in [Handler -> Status]  BY StatusAssumption DEF TypeOK, Release
<1>5. QED  BY <1>2, <1>3, <1>4

\* The bookkeeping of a retraction keeps its types.
LEMMA RemovedType ==
    ASSUME TypeOK, NEW h \in Handler, OnVoiceCallRemoved(h)
    PROVE  /\ voiceCalls' \subseteq Handler
           /\ activeVoiceCall' \in Handler \cup { NoCall }
           /\ received' \in Nat /\ dialled' \in Nat
<1>1. CASE h \in voiceCalls
  <2>1. voiceCalls' \subseteq Handler  BY <1>1 DEF OnVoiceCallRemoved, TypeOK
  <2>2. activeVoiceCall' \in Handler \cup { NoCall }
    BY <1>1 DEF OnVoiceCallRemoved, ForgetActive, TypeOK
  <2>3. duration[h] \in Nat  BY DEF TypeOK
  <2>4. received' \in Nat /\ dialled' \in Nat
    BY <1>1, <2>3 DEF OnVoiceCallRemoved, CountCall, TypeOK
  <2>5. QED  BY <2>1, <2>2, <2>4
<1>2. CASE h \notin voiceCalls
  BY <1>2 DEF OnVoiceCallRemoved, TypeOK, counterVars
<1>3. QED  BY <1>1, <1>2

LEMMA TypeStep == ASSUME TypeOK, [Next]_vars PROVE TypeOK'
<1> USE DEF managerVars, counterVars, handlerVars
<1>1. ASSUME NEW p \in Provider, AppendProvider(p) PROVE TypeOK'
  <2>1. calls[p] \in SUBSET Handler  BY DEF TypeOK
  <2>2. /\ voiceCalls' \subseteq Handler
        /\ activeVoiceCall' \in Handler \cup { NoCall }
        /\ status' \in [Handler -> Status]
    BY <1>1, <2>1, AddedType DEF AppendProvider
  <2>3. QED  BY <1>1, <2>2 DEF AppendProvider, TypeOK
<1>2. ASSUME NEW p \in Provider, RemoveProvider(p) PROVE TypeOK'
  BY <1>2 DEF RemoveProvider, TypeOK
<1>3. ASSUME NEW p \in Provider, ProviderDestroyed(p) PROVE TypeOK'
  BY <1>3, StatusAssumption DEF ProviderDestroyed, Destroy, TypeOK, Unannounced
<1>4. ASSUME NEW p \in Provider, NEW h \in Handler, ProviderAddsCall(p, h) PROVE TypeOK'
  <2>1. /\ voiceCalls' \subseteq Handler
        /\ activeVoiceCall' \in Handler \cup { NoCall }
        /\ status' \in [Handler -> Status]
    <3>1. CASE p \in providers
      <4>1. OnVoiceCallAdded({ h }) /\ Release(ReleasedUnfiltered({ h }))
        BY <1>4, <3>1 DEF ProviderAddsCall
      <4>2. QED  BY <4>1, AddedType
    <3>2. CASE p \notin providers
      BY <1>4, <3>2 DEF ProviderAddsCall, TypeOK
    <3>3. QED  BY <3>1, <3>2
  <2>2. calls' \in [Provider -> SUBSET Handler]
    BY <1>4 DEF ProviderAddsCall, TypeOK
  <2>3. QED  BY <1>4, <2>1, <2>2 DEF ProviderAddsCall, TypeOK
<1>5. ASSUME NEW p \in Provider, NEW h \in Handler, ProviderRemovesCall(p, h) PROVE TypeOK'
  <2>1. /\ voiceCalls' \subseteq Handler
        /\ activeVoiceCall' \in Handler \cup { NoCall }
        /\ received' \in Nat /\ dialled' \in Nat
    <3>1. CASE p \in providers
      BY <1>5, <3>1, RemovedType DEF ProviderRemovesCall
    <3>2. CASE p \notin providers
      BY <1>5, <3>2 DEF ProviderRemovesCall, TypeOK
    <3>3. QED  BY <3>1, <3>2
  <2>2. calls' \in [Provider -> SUBSET Handler]
    BY <1>5 DEF ProviderRemovesCall, TypeOK
  <2>3. QED  BY <1>5, <2>1, <2>2, StatusAssumption DEF ProviderRemovesCall, Destroy, TypeOK
<1>6. ASSUME NEW h \in Handler, HandlerStep(h) PROVE TypeOK'
  <2>1. ASSUME NEW i \in BOOLEAN, NEW e \in BOOLEAN, NEW s \in Status,
               HandlerPrepared(h, i, e, s) \/ HandlerDiscarded(h)
        PROVE  TypeOK'
    BY <2>1, StatusAssumption DEF HandlerPrepared, HandlerDiscarded, Destroy, TypeOK
  <2>2. ASSUME NEW s \in Status, StatusChanged(h, s) PROVE TypeOK'
    BY <2>2 DEF StatusChanged, TypeOK
  <2>3. ASSUME NEW s \in 1 .. MaxDuration, DurationChanged(h, s) PROVE TypeOK'
    BY <2>3 DEF DurationChanged, TypeOK
  <2>4. ASSUME NEW a \in VoiceCallFilterAction, Filter(h, a) PROVE TypeOK'
    BY <2>4, FilteredStatusType DEF Filter, TypeOK
  <2>5. QED  BY <1>6, <2>1, <2>2, <2>3, <2>4, StatusAssumption DEF HandlerStep
<1>7. ASSUME NEW on \in BOOLEAN, SetCallFiltering(on) PROVE TypeOK'
  BY <1>7 DEF SetCallFiltering, TypeOK
<1>8. CASE ResetCallDurationCounters
  BY <1>8 DEF ResetCallDurationCounters, TypeOK
<1>9. CASE DeviceLockStateChanged
  BY <1>9 DEF DeviceLockStateChanged, TypeOK
<1>10. CASE Restart
  <2>1. Announced \subseteq Handler /\ Unannounced \subseteq Handler
    BY DEF TypeOK, Announced, Unannounced
  <2>2. gone' \subseteq Handler /\ status' \in [Handler -> Status]
    BY <1>10, <2>1, StatusAssumption DEF Restart, Destroy, TypeOK
  <2>3. calls' \in [Provider -> SUBSET Handler]  BY <1>10 DEF Restart
  <2>4. QED  BY <1>10, <2>2, <2>3 DEF Restart, TypeOK
<1>11. CASE UNCHANGED vars
  BY <1>11 DEF vars, TypeOK
<1>12. QED
  BY <1>1, <1>2, <1>3, <1>4, <1>5, <1>6, <1>7, <1>8, <1>9, <1>10, <1>11 DEF Next, ProviderStep

\* Announcing calls keeps the active call in the table.
LEMMA AddedKeepsActiveKnown ==
    ASSUME ActiveIsKnown, NEW hs, OnVoiceCallAdded(hs)
    PROVE  ActiveIsKnown'
BY DEF ActiveIsKnown, OnVoiceCallAdded

\* So does retracting one, even while activeVoiceCall dangles.
LEMMA RemovedKeepsActiveKnown ==
    ASSUME ActiveIsKnown, NEW h, OnVoiceCallRemoved(h)
    PROVE  ActiveIsKnown'
BY DEF ActiveIsKnown, OnVoiceCallRemoved, ForgetActive, MustBeActive

LEMMA ActiveIsKnownStep == ASSUME TypeOK, ActiveIsKnown, [Next]_vars PROVE ActiveIsKnown'
<1> USE DEF managerVars, counterVars, handlerVars
<1>1. ASSUME NEW p \in Provider, ProviderStep(p) PROVE ActiveIsKnown'
  <2>1. CASE AppendProvider(p)
    BY <2>1, AddedKeepsActiveKnown DEF AppendProvider
  <2>2. CASE RemoveProvider(p)
    BY <2>2 DEF RemoveProvider, ActiveIsKnown
  <2>3. CASE ProviderDestroyed(p)
    BY <2>3 DEF ProviderDestroyed, ActiveIsKnown
  <2>4. ASSUME NEW h \in Handler, ProviderAddsCall(p, h) PROVE ActiveIsKnown'
    BY <2>4, AddedKeepsActiveKnown DEF ProviderAddsCall, ActiveIsKnown
  <2>5. ASSUME NEW h \in Handler, ProviderRemovesCall(p, h) PROVE ActiveIsKnown'
    BY <2>5, RemovedKeepsActiveKnown DEF ProviderRemovesCall, ActiveIsKnown
  <2>6. QED  BY <1>1, <2>1, <2>2, <2>3, <2>4, <2>5 DEF ProviderStep
<1>2. ASSUME NEW h \in Handler, HandlerStep(h) PROVE ActiveIsKnown'
  BY <1>2 DEF HandlerStep, HandlerPrepared, HandlerDiscarded, StatusChanged, DurationChanged, Filter, ActiveIsKnown
<1>3. ASSUME NEW on \in BOOLEAN, SetCallFiltering(on) PROVE ActiveIsKnown'
  BY <1>3 DEF SetCallFiltering, ActiveIsKnown
<1>4. CASE ResetCallDurationCounters \/ DeviceLockStateChanged \/ UNCHANGED vars
  BY <1>4 DEF ResetCallDurationCounters, DeviceLockStateChanged, vars, ActiveIsKnown
<1>5. CASE Restart
  BY <1>5 DEF Restart, ActiveIsKnown
<1>6. QED  BY <1>1, <1>2, <1>3, <1>4, <1>5 DEF Next

LEMMA OneOwnerStep == ASSUME TypeOK, OneOwner, [Next]_vars PROVE OneOwner'
<1> USE DEF managerVars, counterVars, handlerVars
<1>1. ASSUME NEW p \in Provider, ProviderStep(p) PROVE OneOwner'
  <2>1. CASE AppendProvider(p) \/ RemoveProvider(p)
    BY <2>1 DEF AppendProvider, RemoveProvider, OneOwner
  <2>2. CASE ProviderDestroyed(p)
    BY <2>2 DEF ProviderDestroyed, OneOwner, TypeOK
  <2>3. ASSUME NEW h \in Handler, ProviderAddsCall(p, h) PROVE OneOwner'
    <3>1. \A q \in Provider : h \notin calls[q]
      BY <2>3 DEF ProviderAddsCall, Unannounced, Announced
    <3>2. QED  BY <2>3, <3>1 DEF ProviderAddsCall, OneOwner, TypeOK
  <2>4. ASSUME NEW h \in Handler, ProviderRemovesCall(p, h) PROVE OneOwner'
    BY <2>4 DEF ProviderRemovesCall, OneOwner, TypeOK
  <2>5. QED  BY <1>1, <2>1, <2>2, <2>3, <2>4 DEF ProviderStep
<1>2. ASSUME NEW h \in Handler, HandlerStep(h) PROVE OneOwner'
  BY <1>2 DEF HandlerStep, HandlerPrepared, HandlerDiscarded, StatusChanged, DurationChanged, Filter, OneOwner
<1>3. ASSUME NEW on \in BOOLEAN, SetCallFiltering(on) PROVE OneOwner'
  BY <1>3 DEF SetCallFiltering, OneOwner
<1>4. CASE ResetCallDurationCounters \/ DeviceLockStateChanged \/ UNCHANGED vars
  BY <1>4 DEF ResetCallDurationCounters, DeviceLockStateChanged, vars, OneOwner
<1>5. CASE Restart
  BY <1>5 DEF Restart, OneOwner
<1>6. QED  BY <1>1, <1>2, <1>3, <1>4, <1>5 DEF Next

\* A call the device lock promises to let through is in the table once announced.
LEMMA AddedAreKnown ==
    ASSUME NEW hs, OnVoiceCallAdded(hs), NEW h \in hs, ~WithDeviceLock \/ isEmergency[h]
    PROVE  h \in voiceCalls'
BY DEF OnVoiceCallAdded, Admitted, LockedOut

LEMMA RegisteredCallsKnownStep ==
    ASSUME TypeOK, OneOwner, RegisteredCallsKnown, [Next]_vars
    PROVE  RegisteredCallsKnown'
<1> USE DEF managerVars, counterVars, handlerVars
<1>1. ASSUME NEW p \in Provider, AppendProvider(p) PROVE RegisteredCallsKnown'
  <2>1. voiceCalls \subseteq voiceCalls'
    BY <1>1 DEF AppendProvider, OnVoiceCallAdded
  <2>2. OnVoiceCallAdded(calls[p])  BY <1>1 DEF AppendProvider
  <2>3. SUFFICES ASSUME NEW q \in providers', NEW h \in calls'[q], (~WithDeviceLock \/ isEmergency[h])'
                 PROVE  h \in voiceCalls'
    BY DEF RegisteredCallsKnown
  <2>4. calls' = calls /\ isEmergency' = isEmergency  BY <1>1 DEF AppendProvider
  <2>5. CASE q = p
    BY <2>2, <2>3, <2>4, <2>5, AddedAreKnown
  <2>6. CASE q # p
    BY <1>1, <2>1, <2>3, <2>4, <2>6 DEF AppendProvider, RegisteredCallsKnown
  <2>7. QED  BY <2>5, <2>6
<1>2. ASSUME NEW p \in Provider, RemoveProvider(p) PROVE RegisteredCallsKnown'
  BY <1>2 DEF RemoveProvider, RegisteredCallsKnown
<1>3. ASSUME NEW p \in Provider, ProviderDestroyed(p) PROVE RegisteredCallsKnown'
  BY <1>3 DEF ProviderDestroyed, RegisteredCallsKnown, TypeOK
<1>4. ASSUME NEW p \in Provider, NEW g \in Handler, ProviderAddsCall(p, g)
      PROVE  RegisteredCallsKnown'
  <2>1. voiceCalls \subseteq voiceCalls'
    BY <1>4 DEF ProviderAddsCall, OnVoiceCallAdded
  <2>2. SUFFICES ASSUME NEW q \in providers', NEW h \in calls'[q], (~WithDeviceLock \/ isEmergency[h])'
                 PROVE  h \in voiceCalls'
    BY DEF RegisteredCallsKnown
  <2>3. providers' = providers /\ isEmergency' = isEmergency  BY <1>4 DEF ProviderAddsCall
  <2>4. CASE h \in calls[q]
    BY <2>1, <2>2, <2>3, <2>4 DEF RegisteredCallsKnown
  <2>5. CASE h \notin calls[q]
    <3>1. q = p /\ h = g
      BY <1>4, <2>2, <2>3, <2>5 DEF ProviderAddsCall, TypeOK
    <3>2. OnVoiceCallAdded({ g })
      BY <1>4, <2>2, <2>3, <3>1 DEF ProviderAddsCall
    <3>3. QED  BY <2>2, <2>3, <3>1, <3>2, AddedAreKnown
  <2>6. QED  BY <2>4, <2>5
<1>5. ASSUME NEW p \in Provider, NEW g \in Handler, ProviderRemovesCall(p, g)
      PROVE  RegisteredCallsKnown'
  <2>1. SUFFICES ASSUME NEW q \in providers', NEW h \in calls'[q], (~WithDeviceLock \/ isEmergency[h])'
                 PROVE  h \in voiceCalls'
    BY DEF RegisteredCallsKnown
  <2>2. /\ providers' = providers /\ isEmergency' = isEmergency
        /\ q \in Provider
    BY <1>5 DEF ProviderRemovesCall, TypeOK
  <2>3. h \in calls[q] /\ h # g
    BY <1>5, <2>1, <2>2 DEF ProviderRemovesCall, OneOwner, TypeOK
  <2>4. h \in voiceCalls
    BY <2>1, <2>2, <2>3 DEF RegisteredCallsKnown
  <2>5. QED  BY <1>5, <2>3, <2>4 DEF ProviderRemovesCall, OnVoiceCallRemoved
<1>6. ASSUME NEW h \in Handler, HandlerStep(h) PROVE RegisteredCallsKnown'
  <2>1. ASSUME NEW i \in BOOLEAN, NEW e \in BOOLEAN, NEW s \in Status,
               HandlerPrepared(h, i, e, s)
        PROVE  RegisteredCallsKnown'
    <3>1. \A q \in Provider : h \notin calls[q]
      BY <2>1 DEF HandlerPrepared, Unannounced, Announced
    <3>2. QED  BY <2>1, <3>1 DEF HandlerPrepared, RegisteredCallsKnown, TypeOK
  <2>2. ASSUME NEW s \in Status, StatusChanged(h, s) PROVE RegisteredCallsKnown'
    BY <2>2 DEF StatusChanged, RegisteredCallsKnown
  <2>3. ASSUME NEW s \in 1 .. MaxDuration, DurationChanged(h, s) PROVE RegisteredCallsKnown'
    BY <2>3 DEF DurationChanged, RegisteredCallsKnown
  <2>4. ASSUME NEW a \in VoiceCallFilterAction, Filter(h, a) PROVE RegisteredCallsKnown'
    BY <2>4 DEF Filter, RegisteredCallsKnown
  <2>5. CASE HandlerDiscarded(h)
    BY <2>5 DEF HandlerDiscarded, RegisteredCallsKnown
  <2>6. QED  BY <1>6, <2>1, <2>2, <2>3, <2>4, <2>5 DEF HandlerStep
<1>7. ASSUME NEW on \in BOOLEAN, SetCallFiltering(on) PROVE RegisteredCallsKnown'
  BY <1>7 DEF SetCallFiltering, RegisteredCallsKnown
<1>8. CASE ResetCallDurationCounters \/ DeviceLockStateChanged \/ UNCHANGED vars
  BY <1>8 DEF ResetCallDurationCounters, DeviceLockStateChanged, vars, RegisteredCallsKnown
<1>9. CASE Restart
  BY <1>9 DEF Restart, RegisteredCallsKnown
<1>10. QED
  BY <1>1, <1>2, <1>3, <1>4, <1>5, <1>6, <1>7, <1>8, <1>9 DEF Next, ProviderStep

-----------------------------------------------------------------------------
(* What is listed is alive *)

\* Handlers are deleted when their provider takes them off its list, never before.
LEMMA LiveOwnedStep == ASSUME IInv, LiveOwned, [Next]_vars PROVE LiveOwned'
<1> USE DEF managerVars, counterVars, handlerVars, LiveOwned, IInv, TypeOK, OneOwner, Unannounced,
            Announced, Destroy
<1>1. ASSUME NEW p \in Provider, AppendProvider(p) \/ RemoveProvider(p) PROVE LiveOwned'
  BY <1>1 DEF AppendProvider, RemoveProvider
<1>2. ASSUME NEW p \in Provider, ProviderDestroyed(p) PROVE LiveOwned'
  BY <1>2 DEF ProviderDestroyed
<1>3. ASSUME NEW p \in Provider, NEW h \in Handler, ProviderAddsCall(p, h) PROVE LiveOwned'
  BY <1>3 DEF ProviderAddsCall
<1>4. ASSUME NEW p \in Provider, NEW h \in Handler, ProviderRemovesCall(p, h) PROVE LiveOwned'
  BY <1>4 DEF ProviderRemovesCall
<1>5. ASSUME NEW h \in Handler, HandlerStep(h) PROVE LiveOwned'
  BY <1>5 DEF HandlerStep, HandlerPrepared, HandlerDiscarded, StatusChanged, DurationChanged, Filter
<1>6. ASSUME NEW on \in BOOLEAN, SetCallFiltering(on) PROVE LiveOwned'
  BY <1>6 DEF SetCallFiltering
<1>7. CASE ResetCallDurationCounters \/ DeviceLockStateChanged \/ UNCHANGED vars
  BY <1>7 DEF ResetCallDurationCounters, DeviceLockStateChanged, vars
<1>8. CASE Restart
  BY <1>8 DEF Restart
<1>9. QED
  BY <1>1, <1>2, <1>3, <1>4, <1>5, <1>6, <1>7, <1>8 DEF Next, ProviderStep

\* A call leaves the list of a registered provider and the table together.
LEMMA TableOwnedStep == ASSUME IInv, TableOwned, [Next]_vars PROVE TableOwned'
<1> USE DEF managerVars, counterVars, handlerVars, TableOwned, IInv, TypeOK, Announced, Destroy,
            OnVoiceCallAdded, Admitted
<1>1. ASSUME NEW p \in Provider, AppendProvider(p) \/ RemoveProvider(p) PROVE TableOwned'
  BY <1>1 DEF AppendProvider, RemoveProvider
<1>2. ASSUME NEW p \in Provider, ProviderDestroyed(p) PROVE TableOwned'
  BY <1>2 DEF ProviderDestroyed
<1>3. ASSUME NEW p \in Provider, NEW h \in Handler, ProviderAddsCall(p, h) PROVE TableOwned'
  BY <1>3 DEF ProviderAddsCall
<1>4. ASSUME NEW p \in Provider, NEW h \in Handler, ProviderRemovesCall(p, h) PROVE TableOwned'
  BY <1>4 DEF ProviderRemovesCall, OnVoiceCallRemoved
<1>5. ASSUME NEW h \in Handler, HandlerStep(h) PROVE TableOwned'
  BY <1>5 DEF HandlerStep, HandlerPrepared, HandlerDiscarded, StatusChanged, DurationChanged, Filter
<1>6. ASSUME NEW on \in BOOLEAN, SetCallFiltering(on) PROVE TableOwned'
  BY <1>6 DEF SetCallFiltering
<1>7. CASE ResetCallDurationCounters \/ DeviceLockStateChanged \/ UNCHANGED vars
  BY <1>7 DEF ResetCallDurationCounters, DeviceLockStateChanged, vars
<1>8. CASE Restart
  BY <1>8 DEF Restart
<1>9. QED
  BY <1>1, <1>2, <1>3, <1>4, <1>5, <1>6, <1>7, <1>8 DEF Next, ProviderStep

-----------------------------------------------------------------------------

LEMMA InitIInv == Init => IInv
<1> SUFFICES ASSUME Init PROVE IInv
  OBVIOUS
<1>1. TypeOK
  <2>1. status \in [Handler -> Status]  BY StatusAssumption DEF Init
  <2>2. calls \in [Provider -> SUBSET Handler]  BY DEF Init
  <2>3. duration \in [Handler -> Nat]  BY DEF Init
  <2>4. isIncoming \in [Handler -> BOOLEAN] /\ isEmergency \in [Handler -> BOOLEAN]
    BY DEF Init
  <2>5. QED  BY <2>1, <2>2, <2>3, <2>4 DEF Init, ManagerInit, TypeOK
<1>2. ActiveIsKnown /\ RegisteredCallsKnown
  BY DEF Init, ManagerInit, ActiveIsKnown, RegisteredCallsKnown
<1>3. OneOwner  BY DEF Init, OneOwner
<1>4. QED  BY <1>1, <1>2, <1>3 DEF IInv

LEMMA Invariance == Spec => []IInv
<1>1. IInv /\ [Next]_vars => IInv'
  BY TypeStep, ActiveIsKnownStep, OneOwnerStep, RegisteredCallsKnownStep DEF IInv
<1>2. QED  BY InitIInv, <1>1, PTL DEF Spec

\* Every variable keeps its type, whatever providers, clients and restarts do.
THEOREM TypeCorrect == Spec => []TypeOK
<1>1. IInv => TypeOK  BY DEF IInv
<1>2. QED  BY Invariance, <1>1, PTL

\* onVoiceCallAdded / onVoiceCallRemoved never leave activeVoiceCall outside the table.
THEOREM ActiveAlwaysKnown == Spec => []ActiveIsKnown
<1>1. IInv => ActiveIsKnown  BY DEF IInv
<1>2. QED  BY Invariance, <1>1, PTL

\* appendProvider's catch-up loop and the connected signals miss no call of a
\* registered provider, and the device lock no emergency call.
THEOREM RegisteredCallsAlwaysKnown == Spec => []RegisteredCallsKnown
<1>1. IInv => RegisteredCallsKnown  BY DEF IInv
<1>2. QED  BY Invariance, <1>1, PTL

\* The active role is never passed directly from one call to another.
THEOREM ActiveIsNeverStolen == Spec => ActiveNeverStolen
<1> DEFINE Kept == activeVoiceCall \notin { NoCall, activeVoiceCall' }
                     => /\ activeVoiceCall' = NoCall
                        /\ activeVoiceCall \notin voiceCalls' \/ activeVoiceCall \in gone
<1> USE DEF managerVars, counterVars, handlerVars
<1>1. ASSUME [Next]_vars PROVE Kept
  <2>1. ASSUME NEW hs, OnVoiceCallAdded(hs) PROVE Kept
    BY <2>1 DEF OnVoiceCallAdded
  <2>2. ASSUME NEW h, OnVoiceCallRemoved(h) PROVE Kept
    BY <2>2 DEF OnVoiceCallRemoved, ForgetActive, MayBeActive
  <2>3. ASSUME NEW p \in Provider, ProviderStep(p) PROVE Kept
    BY <2>1, <2>2, <2>3
    DEF ProviderStep, AppendProvider, RemoveProvider, ProviderDestroyed, ProviderAddsCall,
        ProviderRemovesCall
  <2>4. ASSUME NEW h \in Handler, HandlerStep(h) PROVE Kept
    BY <2>4 DEF HandlerStep, HandlerPrepared, HandlerDiscarded, StatusChanged, DurationChanged, Filter
  <2>5. CASE Restart
    BY <2>5 DEF Restart
  <2>6. CASE ResetCallDurationCounters \/ DeviceLockStateChanged \/ UNCHANGED vars
             \/ \E on \in BOOLEAN : SetCallFiltering(on)
    BY <2>6 DEF ResetCallDurationCounters, DeviceLockStateChanged, SetCallFiltering, vars
  <2>7. QED  BY <1>1, <2>3, <2>4, <2>5, <2>6 DEF Next
<1>2. QED  BY <1>1, PTL DEF Spec, ActiveNeverStolen
-----------------------------------------------------------------------------
(* What the counters count *)

\* A call of n seconds has n of them.
LEMMA SecondsOfOne ==
    ASSUME NEW h, NEW n \in Nat
    PROVE  IsFiniteSet({ h } \X (1 .. n)) /\ Cardinality({ h } \X (1 .. n)) = n
<1>1. IsFiniteSet({ h }) /\ Cardinality({ h }) = 1  BY FS_Singleton
<1>2. IsFiniteSet(1 .. n) /\ Cardinality(1 .. n) = n  BY FS_Interval
<1>3. /\ IsFiniteSet({ h } \X (1 .. n))
      /\ Cardinality({ h } \X (1 .. n)) = Cardinality({ h }) * Cardinality(1 .. n)
  <2> DEFINE S == { h }
             T == 1 .. n
  <2>1. IsFiniteSet(S) /\ IsFiniteSet(T)  BY <1>1, <1>2
  <2> HIDE DEF S, T
  <2>2. IsFiniteSet(S \X T) /\ Cardinality(S \X T) = Cardinality(S) * Cardinality(T)
    BY <2>1, FS_Product
  <2>3. QED  BY <2>2 DEF S, T
<1>4. Cardinality({ h } \X (1 .. n)) = 1 * n  BY <1>1, <1>2, <1>3
<1>5. QED  BY <1>3, <1>4

\* Finitely many calls have finitely many seconds.
LEMMA SecondsFinite ==
    ASSUME NEW hs, IsFiniteSet(hs), NEW seconds, \A h \in hs : seconds[h] \in Nat
    PROVE  /\ IsFiniteSet(UNION { { h } \X (1 .. seconds[h]) : h \in hs })
           /\ Cardinality(UNION { { h } \X (1 .. seconds[h]) : h \in hs }) \in Nat
<1> DEFINE of == [h \in hs |-> { h } \X (1 .. seconds[h])]
           S  == { { h } \X (1 .. seconds[h]) : h \in hs }
<1>1. IsFiniteSet(S)
  <2>1. of \in Surjection(hs, S)  BY DEF Surjection
  <2>2. QED  BY <2>1, FS_Surjection
<1>2. \A T \in S : IsFiniteSet(T)
  <2>1. ASSUME NEW h \in hs PROVE IsFiniteSet({ h } \X (1 .. seconds[h]))
    <3>1. seconds[h] \in Nat  OBVIOUS
    <3>2. QED  BY <3>1, SecondsOfOne
  <2>2. QED  BY <2>1
<1>3. IsFiniteSet(UNION S)  BY <1>1, <1>2, FS_UNION
<1>4. QED  BY <1>3, FS_CardinalityType

LEMMA EndedSecondsFinite ==
    ASSUME IsFiniteSet(Handler), NEW incoming \in BOOLEAN
    PROVE  /\ TypeOK  => /\ IsFiniteSet(EndedSeconds(incoming))
                         /\ Cardinality(EndedSeconds(incoming)) \in Nat
           /\ TypeOK' => /\ IsFiniteSet(EndedSeconds(incoming)')
                         /\ Cardinality(EndedSeconds(incoming)') \in Nat
<1>1. ASSUME TypeOK
      PROVE  /\ IsFiniteSet(EndedSeconds(incoming))
             /\ Cardinality(EndedSeconds(incoming)) \in Nat
  <2> DEFINE ended == { h \in gone : isIncoming[h] = incoming }
  <2>1. ended \subseteq Handler /\ \A h \in ended : duration[h] \in Nat  BY <1>1 DEF TypeOK
  <2>2. IsFiniteSet(ended)  BY <2>1, FS_Subset
  <2>3. QED  BY <2>1, <2>2, SecondsFinite DEF EndedSeconds, Seconds
<1>2. ASSUME TypeOK'
      PROVE  /\ IsFiniteSet(EndedSeconds(incoming)')
             /\ Cardinality(EndedSeconds(incoming)') \in Nat
  <2> DEFINE ended == { h \in gone' : isIncoming'[h] = incoming }
  <2>1. ended \subseteq Handler /\ \A h \in ended : duration'[h] \in Nat  BY <1>2 DEF TypeOK
  <2>2. IsFiniteSet(ended)  BY <2>1, FS_Subset
  <2>3. QED  BY <2>1, <2>2, SecondsFinite DEF EndedSeconds, Seconds
<1>3. QED  BY <1>1, <1>2

\* A destroyed handler keeps its direction and its duration.
LEMMA EndedStays ==
    ASSUME IInv, LiveOwned, [Next]_vars
    PROVE  /\ gone \subseteq gone'
           /\ \A h \in gone : isIncoming'[h] = isIncoming[h] /\ duration'[h] = duration[h]
<1> USE DEF managerVars, counterVars, handlerVars, Destroy
<1>1. ASSUME NEW p \in Provider, ProviderStep(p)
      PROVE  gone \subseteq gone' /\ UNCHANGED << isIncoming, duration >>
  BY <1>1 DEF ProviderStep, AppendProvider, RemoveProvider, ProviderDestroyed, ProviderAddsCall,
              ProviderRemovesCall
<1>2. ASSUME NEW h \in Handler, HandlerStep(h)
      PROVE  /\ gone \subseteq gone'
             /\ \A g \in gone : isIncoming'[g] = isIncoming[g] /\ duration'[g] = duration[g]
  <2>1. /\ isIncoming \in [Handler -> BOOLEAN] /\ duration \in [Handler -> Nat]
        /\ gone \subseteq Handler
    BY DEF IInv, TypeOK
  <2>2. ASSUME NEW i \in BOOLEAN, NEW e \in BOOLEAN, NEW s \in Status, HandlerPrepared(h, i, e, s)
        PROVE  /\ h \notin gone /\ gone' = gone /\ duration' = duration
               /\ isIncoming' = [isIncoming EXCEPT ![h] = i]
    BY <2>2 DEF HandlerPrepared, Unannounced
  <2>3. ASSUME NEW s \in 1 .. MaxDuration, DurationChanged(h, s)
        PROVE  /\ h \notin gone /\ gone' = gone /\ isIncoming' = isIncoming
               /\ duration' = [duration EXCEPT ![h] = s]
    BY <2>3 DEF DurationChanged, LiveOwned, Announced
  <2>4. ASSUME \/ HandlerDiscarded(h)
               \/ \E s \in Status : StatusChanged(h, s)
               \/ \E a \in VoiceCallFilterAction : Filter(h, a)
        PROVE  gone \subseteq gone' /\ UNCHANGED << isIncoming, duration >>
    BY <2>4 DEF HandlerDiscarded, StatusChanged, Filter
  <2>5. QED  BY <1>2, <2>1, <2>2, <2>3, <2>4 DEF HandlerStep
<1>3. CASE Restart
  BY <1>3 DEF Restart
<1>4. CASE ResetCallDurationCounters \/ DeviceLockStateChanged \/ UNCHANGED vars
           \/ \E on \in BOOLEAN : SetCallFiltering(on)
  BY <1>4 DEF ResetCallDurationCounters, DeviceLockStateChanged, SetCallFiltering, vars
<1>5. QED  BY <1>1, <1>2, <1>3, <1>4 DEF Next

\* So the ended seconds only ever become more.
LEMMA EndedSecondsGrow ==
    ASSUME IInv, LiveOwned, TypeOK', IsFiniteSet(Handler), [Next]_vars, NEW incoming \in BOOLEAN
    PROVE  /\ EndedSeconds(incoming) \subseteq EndedSeconds(incoming)'
           /\ Cardinality(EndedSeconds(incoming)) <= Cardinality(EndedSeconds(incoming)')
<1>1. EndedSeconds(incoming) \subseteq EndedSeconds(incoming)'
  BY EndedStays DEF EndedSeconds, Seconds
<1>2. IsFiniteSet(EndedSeconds(incoming)')
  BY EndedSecondsFinite
<1>3. QED  BY <1>1, <1>2, FS_Subset

\* A call that is retracted adds its seconds, and only they are added to a counter.
LEMMA RemovalIsCovered ==
    ASSUME IInv, LiveOwned, TypeOK', IsFiniteSet(Handler),
           NEW p \in Provider, NEW h \in Handler, ProviderRemovesCall(p, h),
           NEW incoming \in BOOLEAN, incoming = isIncoming[h]
    PROVE  Cardinality(EndedSeconds(incoming)) + duration[h]
             <= Cardinality(EndedSeconds(incoming)')
<1> DEFINE own    == { h } \X (1 .. duration[h])
           before == EndedSeconds(incoming)
           after  == EndedSeconds(incoming)'
<1>1. TypeOK /\ duration[h] \in Nat  BY DEF IInv, TypeOK
<1>2. IsFiniteSet(own) /\ Cardinality(own) = duration[h]  BY <1>1, SecondsOfOne
<1>3. h \notin gone  BY DEF ProviderRemovesCall, LiveOwned
<1>4. before \cap own = {}  BY <1>3 DEF EndedSeconds, Seconds
<1>5. before \cup own \subseteq after
  <2>1. gone' = gone \cup { h } /\ isIncoming' = isIncoming /\ duration' = duration
    BY DEF ProviderRemovesCall, Destroy
  <2>2. QED  BY <2>1 DEF EndedSeconds, Seconds
<1>6. IsFiniteSet(before) /\ Cardinality(before) \in Nat
  BY <1>1, EndedSecondsFinite
<1>7. IsFiniteSet(after) /\ Cardinality(after) \in Nat
  BY EndedSecondsFinite
<1> HIDE DEF own, before, after
<1>8. Cardinality(before \cup own) = Cardinality(before) + duration[h]
  <2>1. Cardinality(before \cup own)
          = Cardinality(before) + Cardinality(own) - Cardinality(before \cap own)
    BY <1>2, <1>6, FS_Union
  <2>2. Cardinality(before \cap own) = 0  BY <1>4, FS_EmptySet
  <2>3. QED  BY <1>1, <1>2, <1>6, <2>1, <2>2
<1>9. Cardinality(before \cup own) <= Cardinality(after)
  BY <1>5, <1>7, FS_Subset
<1>10. Cardinality(before) + duration[h] <= Cardinality(after)
  BY <1>8, <1>9
<1>11. QED  BY <1>10 DEF before, after

LEMMA CountedOnceStep ==
    ASSUME IInv, LiveOwned, TypeOK', IsFiniteSet(Handler), CountedOnce, [Next]_vars
    PROVE  CountedOnce'
<1> USE DEF managerVars, counterVars, handlerVars
<1>1. /\ received \in Nat /\ dialled \in Nat /\ TypeOK
      /\ TRUE \in BOOLEAN /\ FALSE \in BOOLEAN
  BY DEF IInv, TypeOK
<1> DEFINE in  == Cardinality(EndedSeconds(TRUE))
           out == Cardinality(EndedSeconds(FALSE))
<1>2. in \in Nat /\ out \in Nat /\ in' \in Nat /\ out' \in Nat
  BY <1>1, EndedSecondsFinite
<1>3. in <= in' /\ out <= out'
  BY <1>1, EndedSecondsGrow
<1>a. received <= in /\ dialled <= out  BY DEF CountedOnce
<1>b. received' <= in' /\ dialled' <= out' => CountedOnce'  BY DEF CountedOnce
<1> HIDE DEF in, out
<1>4. CASE UNCHANGED counterVars
  BY <1>1, <1>2, <1>3, <1>4, <1>a, <1>b
<1>5. CASE ResetCallDurationCounters
  BY <1>2, <1>5, <1>b DEF ResetCallDurationCounters
<1>6. ASSUME NEW p \in Provider, NEW h \in Handler, ProviderRemovesCall(p, h), CountCall(h)
      PROVE  CountedOnce'
  <2>1. duration[h] \in Nat /\ isIncoming[h] \in BOOLEAN  BY <1>1 DEF TypeOK
  <2>2. CASE isIncoming[h] = TRUE
    <3>1. in + duration[h] <= in'  BY <1>6, <2>2, RemovalIsCovered DEF in
    <3>2. received' = received + duration[h] /\ dialled' = dialled
      BY <1>6, <2>2 DEF CountCall
    <3>3. QED  BY <1>1, <1>2, <1>3, <1>a, <1>b, <2>1, <3>1, <3>2
  <2>3. CASE isIncoming[h] = FALSE
    <3>1. out + duration[h] <= out'  BY <1>6, <2>3, RemovalIsCovered DEF out
    <3>2. dialled' = dialled + duration[h] /\ received' = received
      BY <1>6, <2>3 DEF CountCall
    <3>3. QED  BY <1>1, <1>2, <1>3, <1>a, <1>b, <2>1, <3>1, <3>2
  <2>4. QED  BY <2>1, <2>2, <2>3
<1>7. ASSUME NEW p \in Provider, ProviderStep(p) PROVE CountedOnce'
  BY <1>4, <1>6, <1>7
  DEF ProviderStep, AppendProvider, RemoveProvider, ProviderDestroyed, ProviderAddsCall,
      ProviderRemovesCall, OnVoiceCallRemoved
<1>8. ASSUME NEW h \in Handler, HandlerStep(h) PROVE CountedOnce'
  BY <1>4, <1>8
  DEF HandlerStep, HandlerPrepared, HandlerDiscarded, StatusChanged, DurationChanged, Filter
<1>9. CASE DeviceLockStateChanged \/ Restart \/ UNCHANGED vars
           \/ \E on \in BOOLEAN : SetCallFiltering(on)
  BY <1>4, <1>9 DEF DeviceLockStateChanged, Restart, SetCallFiltering, vars
<1>10. QED  BY <1>5, <1>7, <1>8, <1>9 DEF Next

\* The counters kept by QSettings never claim more than the calls that have ended really
\* lasted: a call is counted once, by onVoiceCallRemoved, and by one counter, whatever
\* happens to its provider and however often the daemon is restarted.
THEOREM CallsAreCountedOnce ==
    ASSUME IsFiniteSet(Handler) PROVE Spec => []CountedOnce
<1>1. Init => LiveOwned /\ CountedOnce
  <2> SUFFICES ASSUME Init PROVE LiveOwned /\ CountedOnce
    OBVIOUS
  <2>1. LiveOwned  BY DEF Init, LiveOwned
  <2>2. EndedSeconds(TRUE) = {} /\ EndedSeconds(FALSE) = {}
    BY DEF Init, EndedSeconds, Seconds
  <2> DEFINE in  == Cardinality(EndedSeconds(TRUE))
             out == Cardinality(EndedSeconds(FALSE))
  <2>3. received <= in /\ dialled <= out => CountedOnce  BY DEF CountedOnce
  <2>4. in = 0 /\ out = 0  BY <2>2, FS_EmptySet
  <2> HIDE DEF in, out
  <2>5. QED  BY <2>1, <2>3, <2>4 DEF Init
<1>2. IInv /\ LiveOwned /\ [Next]_vars => LiveOwned'
  BY LiveOwnedStep
<1>3. IInv /\ IInv' /\ LiveOwned /\ CountedOnce /\ [Next]_vars => CountedOnce'
  BY CountedOnceStep DEF IInv
<1>4. QED  BY Invariance, <1>1, <1>2, <1>3, PTL DEF Spec
=============================================================================
