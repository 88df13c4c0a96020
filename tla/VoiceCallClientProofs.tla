----------------------- MODULE VoiceCallClientProofs -----------------------
(***************************************************************************)
(* What a client of the daemon may rely on, for any providers, calls and   *)
(* statuses, and however late it comes to its signals.                     *)
(*                                                                         *)
(* VoiceCallClient is VoiceCallManager with a client, so the manager's     *)
(* invariant holds in it too; the client's own says what the messages that *)
(* are still under way will have told the client when it gets to them.     *)
(***************************************************************************)
EXTENDS VoiceCallClient, VoiceCallManagerProofs, FiniteSetTheorems

-----------------------------------------------------------------------------
(* Sequences of messages put together *)

\* The induction that the provers can use: on a set, not on an operator.
LEMMA SetInduction ==
    ASSUME NEW P \in SUBSET Nat, 0 \in P, \A n \in P : n + 1 \in P
    PROVE  P = Nat
<1> SUFFICES ASSUME NEW m \in Nat, m \notin P PROVE FALSE
  OBVIOUS
<1> DEFINE S == P \cap (0..m)
           T == S \ { 0 }
           next == [ k \in S |-> k + 1 ]
<1>1. IsFiniteSet(0..m) /\ S \subseteq 0..m
  BY FS_Interval
<1>2. IsFiniteSet(S) /\ 0 \in S
  BY <1>1, FS_Subset
<1>3. IsFiniteSet(T) /\ Cardinality(T) < Cardinality(S)
  <2>1. Cardinality(S) \in Nat /\ Cardinality(T) = Cardinality(S) - 1 /\ IsFiniteSet(T)
    BY <1>2, FS_RemoveElement, FS_CardinalityType
  <2> QED BY <2>1
<1>4. next \in [S -> T]
  <2>1. \A k \in S : k \in Nat /\ k # m /\ k <= m /\ k + 1 \in P
    OBVIOUS
  <2>2. \A k \in S : k + 1 \in T
    BY <2>1
  <2> QED BY <2>2
<1>5. \E x, y \in S : x # y /\ next[x] = next[y]
  <2> HIDE DEF S, T, next
  <2> QED BY <1>2, <1>3, <1>4, FS_PigeonHole
<1>6. \A x \in S : x \in Nat
  OBVIOUS
<1> QED BY <1>5, <1>6

\* The functions that FlattenSeq defines by recursion exist.
LEMMA FlattenExists ==
    ASSUME NEW seqs, NEW n \in Nat
    PROVE  \E f : f = [ i \in 1 .. n |-> IF i = 1 THEN seqs[i] ELSE f[i - 1] \o seqs[i] ]
<1> DEFINE P == { m \in Nat :
                    \E f : f = [ i \in 1 .. m |-> IF i = 1 THEN seqs[i] ELSE f[i - 1] \o seqs[i] ] }
<1>1. 0 \in P
  <2> DEFINE g == [ i \in 1 .. 0 |-> seqs[i] ]
  <2>1. g = [ i \in 1 .. 0 |-> IF i = 1 THEN seqs[i] ELSE g[i - 1] \o seqs[i] ]
    OBVIOUS
  <2> QED BY <2>1
<1>2. ASSUME NEW m \in P PROVE m + 1 \in P
  <2>1. PICK f : f = [ i \in 1 .. m |-> IF i = 1 THEN seqs[i] ELSE f[i - 1] \o seqs[i] ]
    OBVIOUS
  <2> DEFINE next == IF m = 0 THEN seqs[1] ELSE f[m] \o seqs[m + 1]
             g == [ i \in 1 .. m + 1 |-> IF i = m + 1 THEN next ELSE f[i] ]
  <2>2. ASSUME NEW i \in 1 .. m + 1
        PROVE  g[i] = IF i = 1 THEN seqs[i] ELSE g[i - 1] \o seqs[i]
    <3>1. CASE i = m + 1 /\ i = 1
      BY <3>1
    <3>2. CASE i = m + 1 /\ i # 1
      <4>1. i - 1 = m /\ m \in 1 .. m + 1 /\ m # 0 /\ m # m + 1
        BY <3>2
      <4>2. g[m] = f[m]
        BY <4>1
      <4>3. g[i] = f[m] \o seqs[m + 1]
        BY <3>2, <4>1
      <4> QED BY <3>2, <4>1, <4>2, <4>3
    <3>3. CASE i # m + 1
      <4>1. i \in 1 .. m /\ g[i] = f[i]
        BY <3>3
      <4>2. f[i] = IF i = 1 THEN seqs[i] ELSE f[i - 1] \o seqs[i]
        BY <2>1, <4>1
      <4>3. i # 1 => g[i - 1] = f[i - 1]
        BY <4>1
      <4> HIDE DEF g
      <4> QED BY <4>1, <4>2, <4>3
    <3> QED BY <3>1, <3>2, <3>3
  <2>3. g = [ i \in 1 .. m + 1 |-> IF i = 1 THEN seqs[i] ELSE g[i - 1] \o seqs[i] ]
    <3>1. g = [ i \in 1 .. m + 1 |-> g[i] ]
      OBVIOUS
    <3> HIDE DEF g
    <3> QED BY <2>2, <3>1
  <2>4. m + 1 \in Nat
    OBVIOUS
  <2> HIDE DEF g
  <2> QED BY <2>3, <2>4
<1>3. P = Nat
  <2> HIDE DEF P
  <2>1. P \in SUBSET Nat
    BY DEF P
  <2> QED BY <1>1, <1>2, <2>1, SetInduction
<1> QED BY <1>3

\* So FlattenSeq appends one sequence after the other.
LEMMA Flattened ==
    ASSUME NEW S, NEW seqs \in Seq(S), seqs # << >>
    PROVE  \E f : /\ FlattenSeq(seqs) = f[Len(seqs)]
                  /\ f[1] = seqs[1]
                  /\ \A i \in 2 .. Len(seqs) : f[i] = f[i - 1] \o seqs[i]
<1> DEFINE n == Len(seqs)
           IsFlatten(f) == f = [ i \in 1 .. n |-> IF i = 1 THEN seqs[i] ELSE f[i - 1] \o seqs[i] ]
           f == CHOOSE f : IsFlatten(f)
<1>1. n \in Nat \ { 0 }
  OBVIOUS
<1>2. IsFlatten(f)
  <2>1. \E g : IsFlatten(g)
    BY <1>1, FlattenExists
  <2> HIDE DEF IsFlatten
  <2> QED BY <2>1
<1>3. FlattenSeq(seqs) = f[n]
  BY <1>1 DEF FlattenSeq
<1>4. \A i \in 1 .. n : f[i] = IF i = 1 THEN seqs[i] ELSE f[i - 1] \o seqs[i]
  <2> HIDE DEF n, f
  <2> QED BY <1>2
<1> HIDE DEF f
<1>5. f[1] = seqs[1]
  BY <1>1, <1>4
<1>6. ASSUME NEW i \in 2 .. n PROVE f[i] = f[i - 1] \o seqs[i]
  <2>1. i \in 1 .. n /\ i # 1
    BY <1>1
  <2> HIDE DEF n
  <2> QED BY <1>4, <2>1
<1> QED BY <1>3, <1>5, <1>6

\* What holds of the parts and of what is put together from such holds of the whole.
LEMMA FlattenClosed ==
    ASSUME NEW G, \A a, b \in G : a \o b \in G, NEW seqs \in Seq(G), seqs # << >>
    PROVE  FlattenSeq(seqs) \in G
<1>1. PICK f : /\ FlattenSeq(seqs) = f[Len(seqs)]
               /\ f[1] = seqs[1]
               /\ \A i \in 2 .. Len(seqs) : f[i] = f[i - 1] \o seqs[i]
  BY Flattened
<1> DEFINE P == { n \in Nat : n \in 1 .. Len(seqs) => f[n] \in G }
<1>2. Len(seqs) \in Nat \ { 0 } /\ \A i \in 1 .. Len(seqs) : seqs[i] \in G
  OBVIOUS
<1>3. ASSUME NEW n \in P PROVE n + 1 \in P
  <2>1. CASE n = 0
    BY <1>1, <1>2, <2>1
  <2>2. CASE n # 0 /\ n + 1 \in 1 .. Len(seqs)
    <3>1. n \in 1 .. Len(seqs) /\ n + 1 \in 2 .. Len(seqs) /\ (n + 1) - 1 = n
      BY <1>2, <2>2
    <3>2. f[n + 1] = f[n] \o seqs[n + 1]
      BY <1>1, <3>1
    <3>3. f[n] \in G /\ seqs[n + 1] \in G
      BY <1>2, <3>1
    <3>4. f[n] \o seqs[n + 1] \in G
      BY <3>3, Zenon
    <3>5. f[n + 1] \in G
      BY <3>2, <3>4, Zenon
    <3> QED BY <3>5
  <2>3. CASE n + 1 \notin 1 .. Len(seqs)
    BY <2>3
  <2> QED BY <2>1, <2>2, <2>3
<1>4. 0 \in P
  OBVIOUS
<1>5. P = Nat
  <2>1. P \in SUBSET Nat
    OBVIOUS
  <2> HIDE DEF P
  <2> QED BY <1>3, <1>4, <2>1, SetInduction
<1> QED BY <1>1, <1>2, <1>5

Occurs(m, s) == \E i \in DOMAIN s : s[i] = m

LEMMA OccursConcat ==
    ASSUME NEW S, NEW s \in Seq(S), NEW t \in Seq(S), NEW m
    PROVE  Occurs(m, s \o t) <=> Occurs(m, s) \/ Occurs(m, t)
<1>1. ASSUME NEW i \in DOMAIN s PROVE i \in DOMAIN (s \o t) /\ (s \o t)[i] = s[i]
  OBVIOUS
<1>2. ASSUME NEW i \in DOMAIN t
      PROVE  Len(s) + i \in DOMAIN (s \o t) /\ (s \o t)[Len(s) + i] = t[i]
  OBVIOUS
<1>3. ASSUME NEW i \in DOMAIN (s \o t)
      PROVE  \/ i \in DOMAIN s /\ (s \o t)[i] = s[i]
             \/ i - Len(s) \in DOMAIN t /\ (s \o t)[i] = t[i - Len(s)]
  OBVIOUS
<1> QED BY <1>1, <1>2, <1>3 DEF Occurs

\* What occurs in a part occurs in the whole.
LEMMA FlattenKeeps ==
    ASSUME NEW S, NEW seqs \in Seq(Seq(S)), NEW k \in DOMAIN seqs, NEW m, Occurs(m, seqs[k])
    PROVE  Occurs(m, FlattenSeq(seqs))
<1>0. Len(seqs) \in Nat \ { 0 } /\ seqs # << >> /\ k \in 1 .. Len(seqs)
      /\ \A i \in 1 .. Len(seqs) : seqs[i] \in Seq(S)
  OBVIOUS
<1>1. PICK f : /\ FlattenSeq(seqs) = f[Len(seqs)]
               /\ f[1] = seqs[1]
               /\ \A i \in 2 .. Len(seqs) : f[i] = f[i - 1] \o seqs[i]
  BY <1>0, Flattened
<1> DEFINE P == { n \in Nat : n \in 1 .. Len(seqs) => f[n] \in Seq(S) /\ (n >= k => Occurs(m, f[n])) }
<1>3. ASSUME NEW n \in P PROVE n + 1 \in P
  <2>1. CASE n = 0
    BY <1>1, <1>0, <2>1
  <2>2. CASE n # 0 /\ n + 1 \in 1 .. Len(seqs)
    <3>1. n \in 1 .. Len(seqs) /\ n + 1 \in 2 .. Len(seqs) /\ (n + 1) - 1 = n
      BY <1>0, <2>2
    <3>2. f[n + 1] = f[n] \o seqs[n + 1]
      BY <1>1, <3>1
    <3>3. f[n] \in Seq(S) /\ seqs[n + 1] \in Seq(S)
      BY <1>0, <3>1
    <3>4. f[n + 1] \in Seq(S)
      BY <3>2, <3>3
    <3>5. ASSUME n + 1 >= k PROVE Occurs(m, f[n + 1])
      <4>1. n >= k \/ n + 1 = k
        BY <1>0, <3>5
      <4>2. Occurs(m, f[n]) \/ Occurs(m, seqs[n + 1])
        BY <4>1, <3>1
      <4> QED BY <3>2, <3>3, <4>2, OccursConcat
    <3> QED BY <3>4, <3>5
  <2>3. CASE n + 1 \notin 1 .. Len(seqs)
    BY <2>3
  <2> QED BY <2>1, <2>2, <2>3
<1>4. 0 \in P
  OBVIOUS
<1>5. P = Nat
  <2>1. P \in SUBSET Nat
    OBVIOUS
  <2> HIDE DEF P
  <2> QED BY <1>3, <1>4, <2>1, SetInduction
<1>6. Len(seqs) \in P /\ Len(seqs) \in 1 .. Len(seqs) /\ Len(seqs) >= k
  BY <1>0, <1>5
<1> QED BY <1>1, <1>6

\* An enumeration of a finite set leaves nothing out.
LEMMA EnumerationComplete ==
    ASSUME NEW S, IsFiniteSet(S), NEW order \in SetToSeqs(S)
    PROVE  /\ order \in Seq(S)
           /\ \A x \in S : \E i \in DOMAIN order : order[i] = x
<1> DEFINE D == 1 .. Cardinality(S)
<1>1. Cardinality(S) \in Nat /\ order \in [D -> S]
  BY FS_CardinalityType DEF SetToSeqs
<1>2. order \in Seq(S)
  BY <1>1
<1>3. ASSUME NEW x \in S, \A i \in D : order[i] # x PROVE FALSE
  <2>1. order \in [D -> S \ { x }]
    BY <1>1, <1>3
  <2>2. IsFiniteSet(D) /\ Cardinality(D) = Cardinality(S)
    BY <1>1, FS_Interval
  <2>3. IsFiniteSet(S \ { x }) /\ Cardinality(S \ { x }) < Cardinality(D)
    <3>1. Cardinality(S \ { x }) = Cardinality(S) - 1 /\ IsFiniteSet(S \ { x })
      BY <1>3, FS_RemoveElement
    <3> QED BY <1>1, <2>2, <3>1
  <2>4. \E i, j \in D : i # j /\ order[i] = order[j]
    <3> HIDE DEF D
    <3> QED BY <2>1, <2>2, <2>3, FS_PigeonHole
  <2> QED BY <2>4 DEF SetToSeqs
<1> QED BY <1>1, <1>2, <1>3

-----------------------------------------------------------------------------
(* The invariant: of the daemon ... *)

\* A destroyed handler is in no provider's list.
GoneUnlisted == gone \cap Announced = {}

\* A call leaves the table by being retracted, which destroys it.
TableListed == voiceCalls \subseteq Announced \cup gone

CallsFinite == \A p \in Provider : IsFiniteSet(calls[p])

\* The calls that a device lock may refuse.
Refusable == { h \in Handler : WithDeviceLock /\ ~isEmergency[h] }

(* ... and of what its client knows. *)

AboutCall == { "status", "properties", "error" }

\* Nothing is sent before the client listens, and the model is empty until it is read.
Asleep ==
    /\ client \in { "absent", "waiting" } => bus = << >>
    /\ client # "ready" => handlers = {}

\* Messages about a call are for a handler that has connected to it.
Addressed ==
    \A i \in DOMAIN bus :
        IF bus[i].type \in AboutCall
        THEN bus[i].call \in Handler /\ Subscribed(bus[i].call)
        ELSE bus[i].call = NoCall

UnderWay(t) == \E i \in DOMAIN bus : bus[i].type = t

Shown(t) == CASE t = "voiceCalls"      -> handlers
              [] t = "activeVoiceCall" -> shownActive
              [] t = "providers"       -> shownProviders

\* A topic that was read when the client was ready, or when it was only connected.
Followed(t) ==
    t \notin untold /\ ~UnderWay(t) /\ (client = "ready" \/ (client = "reading" /\ t # "voiceCalls"))
        => Shown(t) = Readable[t]

LastActive(i) ==
    /\ bus[i].type = "activeVoiceCall"
    /\ \A j \in DOMAIN bus : j > i => bus[j].type # "activeVoiceCall"

\* The active call will be in the model when the client gets to message i.
Findable(i) ==
    /\ activeVoiceCall \in CurrentCalls
    /\ \/ activeVoiceCall \in handlers
       \/ \E j \in DOMAIN bus : j < i /\ bus[j].type = "voiceCalls"

\* The last announcement of an active call finds it in the model: the call is there
\* already, or the model is to be read before.
ActiveFound ==
    client \in { "reading", "ready" } /\ "activeVoiceCall" \notin untold
        => \A i \in DOMAIN bus :
              LastActive(i) => activeVoiceCall = NoCall \/ Findable(i)

\* A call in the model has been announced, and is only kept from the table by the lock.
Reachable == handlers \subseteq (Announced \cup gone) \cap (voiceCalls \cup gone \cup Refusable)

\* Message i tells the status of h.
Tells(i, h) == bus[i].call = h /\ bus[i].type \in { "status", "properties" }

\* The status of a call is told only of a call that was in the table.
ToldOfExported ==
    \A h \in Handler :
        phase[h] = "known" \/ (\E i \in DOMAIN bus : Tells(i, h)) => h \in voiceCalls \cup gone

\* The last that is told of a living call is true.
LatestNews ==
    \A h \in Exported : \A i \in DOMAIN bus :
        Tells(i, h) /\ (\A j \in DOMAIN bus : Tells(j, h) => j <= i) => bus[i].status = status[h]

\* With nothing to come, so is what the client knows.
MirrorCurrent ==
    \A h \in Exported :
        phase[h] = "known" /\ (\A i \in DOMAIN bus : ~Tells(i, h)) => mirror[h] = status[h]

\* Only a call that has gone or that the lock refused fails.
FailedRefused ==
    \A h \in Handler :
        phase[h] = "failed" \/ (\E i \in DOMAIN bus : bus[i].call = h /\ bus[i].type = "error")
            => h \in gone \cup Refusable

DaemonInv == IInv /\ GoneUnlisted /\ TableListed /\ CallsFinite

ClientInv ==
    /\ DaemonInv
    /\ ClientTypeOK /\ Asleep /\ Addressed
    /\ \A t \in Topic : Followed(t)
    /\ ActiveFound
    /\ Reachable /\ ToldOfExported /\ LatestNews /\ MirrorCurrent /\ FailedRefused

-----------------------------------------------------------------------------
(* The daemon *)

\* Whatever happens, a step of the daemon is a step of VoiceCallManager and one of
\* the client leaves the daemon alone.
LEMMA StepOfManager == ASSUME [ClientNext]_<< vars, clientVars >> PROVE [Next]_vars
<1>1. ASSUME NEW p \in Provider,
             \/ ProviderAppended(p) \/ ProviderRemoved(p) \/ CallsDestroyed(p)
             \/ \E h \in Handler : CallAdded(p, h) \/ CallRemoved(p, h)
      PROVE  Next
  BY <1>1 DEF ProviderAppended, ProviderRemoved, CallsDestroyed, CallAdded, CallRemoved, Next, ProviderStep
<1>2. ASSUME NEW h \in Handler, CallPrepared(h) PROVE Next
  <2>1. "NULL" \in Status
    BY StatusAssumption
  <2> QED BY <1>2, <2>1 DEF CallPrepared, Next, HandlerStep
<1>3. ASSUME NEW h \in Handler, CallChanged(h) \/ CallFiltered(h) PROVE Next
  BY <1>3 DEF CallChanged, CallFiltered, Next, HandlerStep
<1>4. ASSUME DaemonRestarted \/ Unsignalled PROVE Next
  BY <1>4 DEF DaemonRestarted, Unsignalled, Next, HandlerStep
<1>5. ASSUME ClientStep \/ (\E h \in Handler : GetProperties(h)) \/ UNCHANGED << vars, clientVars >>
      PROVE  UNCHANGED vars
  BY <1>5 DEF ClientStep, GetProperties, ClientStarts, Initialize, FirstRead, HandlerInitialize,
      OnVoiceCallsChanged, OnActiveVoiceCallChanged, OnProvidersChanged, OnStatusChanged,
      OnGetPropertiesFinished, NobodyListens
<1> QED BY <1>1, <1>2, <1>3, <1>4, <1>5 DEF ClientNext, DaemonStep

\* What an announcement adds to the table.
LEMMA AddedTable ==
    ASSUME NEW hs \in SUBSET Handler, OnVoiceCallAdded(hs)
    PROVE  /\ voiceCalls \subseteq voiceCalls' /\ voiceCalls' \subseteq voiceCalls \cup hs
           /\ activeVoiceCall' \in { activeVoiceCall } \cup hs
BY DEF OnVoiceCallAdded, Admitted

\* What a retraction takes from it.
LEMMA RemovedTable ==
    ASSUME NEW h \in Handler, OnVoiceCallRemoved(h)
    PROVE  /\ voiceCalls' = voiceCalls \ { h }
           /\ activeVoiceCall' \in { activeVoiceCall, NoCall }
BY DEF OnVoiceCallRemoved, ForgetActive

\* The lists of a daemon step: which calls they lose, and what becomes of these.
Lists ==
    /\ Announced \cup gone \subseteq Announced' \cup gone' /\ gone \subseteq gone'
    /\ voiceCalls \cup gone \subseteq voiceCalls' \cup gone'
    /\ \A h \in Announced \cup gone : isEmergency'[h] = isEmergency[h]
    /\ activeVoiceCall' \in { activeVoiceCall, NoCall } \cup CurrentCalls'
    /\ GoneUnlisted' /\ TableListed' /\ CallsFinite'

LEMMA DaemonLists == ASSUME DaemonInv, [Next]_vars PROVE Lists
<1> USE DEF managerVars, counterVars, handlerVars
<1>0. TypeOK /\ GoneUnlisted /\ TableListed /\ CallsFinite
  BY DEF DaemonInv, IInv
<1>1. ASSUME NEW p \in Provider, AppendProvider(p) PROVE Lists
  <2>1. calls[p] \in SUBSET Handler /\ calls[p] \subseteq Announced
    BY <1>0 DEF TypeOK, Announced
  <2>2. /\ voiceCalls \subseteq voiceCalls' /\ voiceCalls' \subseteq voiceCalls \cup calls[p]
        /\ activeVoiceCall' \in { activeVoiceCall } \cup calls[p]
    BY <1>1, <2>1, AddedTable DEF AppendProvider
  <2>3. /\ calls' = calls /\ gone' = gone /\ isEmergency' = isEmergency
        /\ providers' = providers \cup { p } /\ Announced' = Announced
    BY <1>1 DEF AppendProvider, Announced
  <2>4. calls[p] \subseteq CurrentCalls'
    BY <2>3 DEF CurrentCalls
  <2> QED BY <1>0, <2>1, <2>2, <2>3, <2>4 DEF Lists, GoneUnlisted, TableListed, CallsFinite
<1>2. ASSUME NEW p \in Provider, RemoveProvider(p) PROVE Lists
  <2>1. /\ calls' = calls /\ gone' = gone /\ isEmergency' = isEmergency /\ Announced' = Announced
        /\ voiceCalls' = voiceCalls /\ activeVoiceCall' = activeVoiceCall
    BY <1>2 DEF RemoveProvider, Announced
  <2> QED BY <1>0, <2>1 DEF Lists, GoneUnlisted, TableListed, CallsFinite
<1>3. ASSUME NEW p \in Provider, ProviderDestroyed(p) PROVE Lists
  <2>1. PICK unready \in SUBSET Unannounced : gone' = gone \cup calls[p] \cup unready
    BY <1>3 DEF ProviderDestroyed, Destroy
  <2>2. /\ calls' = [calls EXCEPT ![p] = {}] /\ isEmergency' = isEmergency
        /\ voiceCalls' = voiceCalls /\ activeVoiceCall' = activeVoiceCall
    BY <1>3 DEF ProviderDestroyed
  <2>3. Announced \subseteq Announced' \cup calls[p] /\ Announced' \subseteq Announced
    BY <1>0, <2>2 DEF Announced, TypeOK
  <2>4. Announced' \cap calls[p] = {}
    <3>1. OneOwner
      BY DEF DaemonInv, IInv
    <3> QED BY <1>0, <2>2, <3>1 DEF Announced, TypeOK, OneOwner
  <2>5. CallsFinite'
    BY <1>0, <2>2, FS_EmptySet DEF CallsFinite, TypeOK
  <2> QED BY <1>0, <2>1, <2>2, <2>3, <2>4, <2>5
          DEF Lists, GoneUnlisted, TableListed, Unannounced
<1>4. ASSUME NEW p \in Provider, NEW h \in Handler, ProviderAddsCall(p, h) PROVE Lists
  <2>1. /\ calls' = [calls EXCEPT ![p] = @ \cup { h }] /\ isEmergency' = isEmergency
        /\ gone' = gone /\ h \in Unannounced /\ providers' = providers
    BY <1>4 DEF ProviderAddsCall
  <2>2. Announced' = Announced \cup { h }
    BY <1>0, <2>1 DEF Announced, TypeOK
  <2>3. /\ voiceCalls \subseteq voiceCalls' /\ voiceCalls' \subseteq voiceCalls \cup { h }
        /\ p \in providers => activeVoiceCall' \in { activeVoiceCall } \cup { h }
        /\ p \notin providers => activeVoiceCall' = activeVoiceCall
    <3>1. CASE p \in providers
      <4>1. OnVoiceCallAdded({ h })
        BY <1>4, <3>1 DEF ProviderAddsCall
      <4> QED BY <3>1, <4>1, AddedTable
    <3>2. CASE p \notin providers
      BY <1>4, <3>2 DEF ProviderAddsCall
    <3> QED BY <3>1, <3>2
  <2>4. p \in providers => h \in CurrentCalls'
    BY <1>0, <2>1 DEF CurrentCalls, TypeOK
  <2>5. CallsFinite'
    BY <1>0, <2>1, FS_AddElement DEF CallsFinite, TypeOK
  <2> QED BY <1>0, <2>1, <2>2, <2>3, <2>4, <2>5
          DEF Lists, GoneUnlisted, TableListed, Unannounced
<1>5. ASSUME NEW p \in Provider, NEW h \in Handler, ProviderRemovesCall(p, h) PROVE Lists
  <2>1. /\ calls' = [calls EXCEPT ![p] = @ \ { h }] /\ isEmergency' = isEmergency
        /\ gone' = gone \cup { h } /\ h \in calls[p]
    BY <1>5 DEF ProviderRemovesCall, Destroy
  <2>2. Announced' = Announced \ { h }
    <3>1. OneOwner
      BY DEF DaemonInv, IInv
    <3>2. \A q \in Provider : q # p => calls'[q] = calls[q] /\ h \notin calls[q]
      BY <1>0, <2>1, <3>1 DEF OneOwner, TypeOK
    <3>3. calls'[p] = calls[p] \ { h }
      BY <1>0, <2>1 DEF TypeOK
    <3> QED BY <3>2, <3>3 DEF Announced
  <2>3. /\ voiceCalls' \in { voiceCalls, voiceCalls \ { h } }
        /\ activeVoiceCall' \in { activeVoiceCall, NoCall }
    <3>1. CASE p \in providers
      <4>1. OnVoiceCallRemoved(h)
        BY <1>5, <3>1 DEF ProviderRemovesCall
      <4> QED BY <4>1, RemovedTable
    <3>2. CASE p \notin providers
      BY <1>5, <3>2 DEF ProviderRemovesCall
    <3> QED BY <3>1, <3>2
  <2>4. CallsFinite'
    BY <1>0, <2>1, FS_RemoveElement DEF CallsFinite, TypeOK
  <2> QED BY <1>0, <2>1, <2>2, <2>3, <2>4 DEF Lists, GoneUnlisted, TableListed
<1>6. ASSUME NEW h \in Handler, HandlerStep(h) PROVE Lists
  <2>1. ASSUME NEW i \in BOOLEAN, NEW e \in BOOLEAN, NEW s \in Status, HandlerPrepared(h, i, e, s)
        PROVE  Lists
    <3>1. /\ calls' = calls /\ gone' = gone /\ Announced' = Announced /\ h \notin Announced \cup gone
          /\ voiceCalls' = voiceCalls /\ activeVoiceCall' = activeVoiceCall
          /\ isEmergency' = [isEmergency EXCEPT ![h] = e]
      BY <2>1 DEF HandlerPrepared, Announced, Unannounced
    <3>2. \A g \in Announced \cup gone : isEmergency'[g] = isEmergency[g]
      BY <1>0, <3>1 DEF TypeOK, Announced
    <3> QED BY <1>0, <3>1, <3>2 DEF Lists, GoneUnlisted, TableListed, CallsFinite
  <2>2. CASE HandlerDiscarded(h)
    <3>1. /\ calls' = calls /\ gone' = gone \cup { h } /\ Announced' = Announced
          /\ h \notin Announced \cup gone /\ isEmergency' = isEmergency
          /\ voiceCalls' = voiceCalls /\ activeVoiceCall' = activeVoiceCall
      BY <2>2 DEF HandlerDiscarded, Destroy, Announced, Unannounced
    <3> QED BY <1>0, <3>1 DEF Lists, GoneUnlisted, TableListed, CallsFinite
  <2>3. ASSUME \/ \E s \in Status : StatusChanged(h, s)
               \/ \E seconds \in 1 .. MaxDuration : DurationChanged(h, seconds)
               \/ \E a \in VoiceCallFilterAction : Filter(h, a)
        PROVE  Lists
    <3>1. /\ calls' = calls /\ gone' = gone /\ isEmergency' = isEmergency /\ Announced' = Announced
          /\ voiceCalls' = voiceCalls /\ activeVoiceCall' = activeVoiceCall
      BY <2>3 DEF StatusChanged, DurationChanged, Filter, Announced
    <3> QED BY <1>0, <3>1 DEF Lists, GoneUnlisted, TableListed, CallsFinite
  <2> QED BY <1>6, <2>1, <2>2, <2>3 DEF HandlerStep
<1>7. ASSUME \/ \E on \in BOOLEAN : SetCallFiltering(on)
             \/ ResetCallDurationCounters \/ DeviceLockStateChanged \/ UNCHANGED vars
      PROVE  Lists
  <2>1. /\ calls' = calls /\ gone' = gone /\ isEmergency' = isEmergency /\ Announced' = Announced
        /\ voiceCalls' = voiceCalls /\ activeVoiceCall' = activeVoiceCall
    BY <1>7 DEF SetCallFiltering, ResetCallDurationCounters, DeviceLockStateChanged, vars, Announced
  <2> QED BY <1>0, <2>1 DEF Lists, GoneUnlisted, TableListed, CallsFinite
<1>8. CASE Restart
  <2>1. PICK unready \in SUBSET Unannounced : gone' = gone \cup Announced \cup unready
    BY <1>8 DEF Restart, Destroy
  <2>2. /\ calls' = [q \in Provider |-> {}] /\ isEmergency' = isEmergency
        /\ voiceCalls' = {} /\ activeVoiceCall' = NoCall
    BY <1>8 DEF Restart
  <2>3. Announced' = {}
    BY <2>2 DEF Announced
  <2>4. CallsFinite'
    BY <2>2, FS_EmptySet DEF CallsFinite
  <2> QED BY <1>0, <2>1, <2>2, <2>3, <2>4 DEF Lists, GoneUnlisted, TableListed
<1> QED BY <1>1, <1>2, <1>3, <1>4, <1>5, <1>6, <1>7, <1>8 DEF Next, ProviderStep

LEMMA DaemonInvStep == ASSUME DaemonInv, [Next]_vars PROVE DaemonInv'
<1>1. IInv'
  BY TypeStep, ActiveIsKnownStep, OneOwnerStep, RegisteredCallsKnownStep DEF IInv, DaemonInv
<1> QED BY <1>1, DaemonLists DEF DaemonInv, Lists

-----------------------------------------------------------------------------
(* What a step of the daemon sends *)

Sendable(m) ==
    \/ m = Changed("voiceCalls") \/ m = Changed("providers")
    \/ m = Changed("activeVoiceCall") /\ activeVoiceCall' \in { NoCall } \cup CurrentCalls'
    \/ \E h \in Exported : Subscribed(h) /\ m = CallMessage("status", h, status'[h])

\* The list of calls is announced before the active one.
Batches ==
    { s \in Seq(Message) :
        /\ \A i \in DOMAIN s : Sendable(s[i])
        /\ \A i \in DOMAIN s : s[i] = Changed("activeVoiceCall")
                => \E j \in DOMAIN s : j < i /\ s[j] = Changed("voiceCalls") }

\* A change of a call's status is told to a handler that listens.
StatusTold(msgs) ==
    \A h \in Exported : h \in Exported' /\ Subscribed(h) /\ status'[h] # status[h]
        => Occurs(CallMessage("status", h, status'[h]), msgs)

LEMMA SendableIsMessage ==
    ASSUME TypeOK, TypeOK', NEW m, Sendable(m)
    PROVE  m \in Message
<1>1. "NULL" \in Status
  BY StatusAssumption
<1>2. ASSUME NEW h \in Exported, m = CallMessage("status", h, status'[h]) PROVE m \in Message
  <2>1. h \in Handler /\ status'[h] \in Status
    BY <1>2 DEF TypeOK, Exported
  <2> QED BY <1>2, <2>1 DEF CallMessage, Message
<1>3. ASSUME NEW t \in Topic, m = Changed(t) PROVE m \in Message
  BY <1>1, <1>3 DEF Changed, Message
<1> QED BY <1>2, <1>3 DEF Sendable, Topic

LEMMA EmptyBatch == << >> \in Batches
BY DEF Batches

LEMMA OneMessageBatch ==
    ASSUME TypeOK, TypeOK', NEW m, Sendable(m), m # Changed("activeVoiceCall")
    PROVE  << m >> \in Batches
<1>1. << m >> \in Seq(Message) /\ DOMAIN << m >> = { 1 } /\ << m >>[1] = m
  BY SendableIsMessage
<1> QED BY <1>1 DEF Batches

LEMMA BatchesConcat ==
    ASSUME NEW s \in Batches, NEW t \in Batches
    PROVE  s \o t \in Batches
<1>1. /\ s \in Seq(Message) /\ t \in Seq(Message)
      /\ \A i \in DOMAIN s : Sendable(s[i])
      /\ \A i \in DOMAIN t : Sendable(t[i])
      /\ \A i \in DOMAIN s : s[i] = Changed("activeVoiceCall")
            => \E j \in DOMAIN s : j < i /\ s[j] = Changed("voiceCalls")
      /\ \A i \in DOMAIN t : t[i] = Changed("activeVoiceCall")
            => \E j \in DOMAIN t : j < i /\ t[j] = Changed("voiceCalls")
  BY DEF Batches
<1>2. s \o t \in Seq(Message)
  BY <1>1
<1>3. ASSUME NEW i \in DOMAIN s PROVE i \in DOMAIN (s \o t) /\ (s \o t)[i] = s[i]
  BY <1>1
<1>4. ASSUME NEW i \in DOMAIN t
      PROVE  Len(s) + i \in DOMAIN (s \o t) /\ (s \o t)[Len(s) + i] = t[i]
  BY <1>1
<1>5. ASSUME NEW i \in DOMAIN (s \o t)
      PROVE  \/ i \in DOMAIN s
             \/ i - Len(s) \in DOMAIN t /\ i = Len(s) + (i - Len(s))
  BY <1>1
<1>6. ASSUME NEW i \in DOMAIN (s \o t)
      PROVE  /\ Sendable((s \o t)[i])
             /\ (s \o t)[i] = Changed("activeVoiceCall")
                    => \E j \in DOMAIN (s \o t) : j < i /\ (s \o t)[j] = Changed("voiceCalls")
  <2>1. CASE i \in DOMAIN s
    BY <1>1, <1>3, <2>1
  <2>2. ASSUME NEW k \in DOMAIN t, i = Len(s) + k
        PROVE  /\ Sendable((s \o t)[i])
               /\ (s \o t)[i] = Changed("activeVoiceCall")
                      => \E j \in DOMAIN (s \o t) : j < i /\ (s \o t)[j] = Changed("voiceCalls")
    <3>1. (s \o t)[i] = t[k]
      BY <1>4, <2>2
    <3>2. ASSUME t[k] = Changed("activeVoiceCall")
          PROVE  \E j \in DOMAIN (s \o t) : j < i /\ (s \o t)[j] = Changed("voiceCalls")
      <4>1. PICK j \in DOMAIN t : j < k /\ t[j] = Changed("voiceCalls")
        BY <1>1, <3>2
      <4>2. Len(s) + j < i
        BY <1>1, <2>2, <4>1
      <4> QED BY <1>4, <4>1, <4>2
    <3>3. Sendable(t[k])
      BY <1>1
    <3> QED BY <3>1, <3>2, <3>3, Zenon
  <2> QED BY <1>5, <2>1, <2>2
<1> QED BY <1>2, <1>6 DEF Batches

LEMMA ActiveAnnouncedLast ==
    ASSUME TypeOK, TypeOK', activeVoiceCall' \in { NoCall } \cup CurrentCalls',
           NEW s \in Batches, Occurs(Changed("voiceCalls"), s)
    PROVE  s \o << Changed("activeVoiceCall") >> \in Batches
<1> DEFINE m == Changed("activeVoiceCall")
           t == s \o << m >>
<1>1. /\ s \in Seq(Message)
      /\ \A i \in DOMAIN s : Sendable(s[i])
      /\ \A i \in DOMAIN s : s[i] = m => \E j \in DOMAIN s : j < i /\ s[j] = Changed("voiceCalls")
  BY DEF Batches
<1>2. Sendable(m) /\ m \in Message
  BY SendableIsMessage DEF Sendable
<1> HIDE DEF m
<1>3. /\ t \in Seq(Message) /\ Len(s) \in Nat
      /\ DOMAIN t = 1 .. Len(s) + 1 /\ DOMAIN s = 1 .. Len(s) /\ t[Len(s) + 1] = m
      /\ \A i \in DOMAIN s : t[i] = s[i]
  BY <1>1, <1>2
<1>4. PICK k \in DOMAIN s : s[k] = Changed("voiceCalls")
  BY DEF Occurs
<1> HIDE DEF t
<1>5. ASSUME NEW i \in DOMAIN t
      PROVE  Sendable(t[i]) /\ (t[i] = m => \E j \in DOMAIN t : j < i /\ t[j] = Changed("voiceCalls"))
  <2>1. CASE i \in DOMAIN s
    BY <1>1, <1>3, <2>1
  <2>2. CASE i = Len(s) + 1
    <3>1. k \in DOMAIN t /\ k < i /\ t[k] = Changed("voiceCalls")
      BY <1>3, <1>4, <2>2
    <3> QED BY <1>2, <1>3, <2>2, <3>1
  <2> QED BY <1>3, <2>1, <2>2
<1>6. t \in Batches
  BY <1>3, <1>5 DEF Batches, m
<1> QED BY <1>6 DEF t, m

LEMMA StatusSignalBatch ==
    ASSUME TypeOK, TypeOK', NEW h \in Handler
    PROVE  /\ StatusSignal(h) \in Batches
           /\ h \in Exported /\ Subscribed(h)
                => Occurs(CallMessage("status", h, status'[h]), StatusSignal(h))
<1>1. CASE h \in Exported /\ Subscribed(h)
  <2> DEFINE m == CallMessage("status", h, status'[h])
  <2>1. StatusSignal(h) = << m >> /\ Sendable(m)
    BY <1>1 DEF StatusSignal, Sendable
  <2>2. m # Changed("activeVoiceCall")
    BY DEF CallMessage, Changed
  <2>3. Occurs(m, << m >>)
    BY DEF Occurs
  <2> HIDE DEF m
  <2>4. << m >> \in Batches
    BY <2>1, <2>2, OneMessageBatch
  <2> QED BY <2>1, <2>3, <2>4 DEF m
<1>2. CASE ~(h \in Exported /\ Subscribed(h))
  <2>1. StatusSignal(h) = << >>
    BY <1>2 DEF StatusSignal
  <2> QED BY <1>2, <2>1, EmptyBatch
<1> QED BY <1>1, <1>2

LEMMA AnnouncementBatch ==
    ASSUME TypeOK, TypeOK', NEW h \in Handler, NEW first \in BOOLEAN,
           first => activeVoiceCall' \in CurrentCalls'
    PROVE  /\ AnnouncementOf(h, first) \in Batches
           /\ h \in ReleasedUnfiltered({ h }) /\ h \in Exported /\ Subscribed(h)
                => Occurs(CallMessage("status", h, status'[h]), AnnouncementOf(h, first))
<1> DEFINE m == CallMessage("status", h, status'[h])
           signal == IF h \in ReleasedUnfiltered({ h }) THEN StatusSignal(h) ELSE << >>
           listed == << Changed("voiceCalls") >>
           active == IF first THEN << Changed("activeVoiceCall") >> ELSE << >>
<1>1. signal \in Batches /\ (h \in ReleasedUnfiltered({ h }) /\ h \in Exported /\ Subscribed(h)
                                => Occurs(m, signal))
  BY StatusSignalBatch, EmptyBatch
<1>2. listed \in Batches /\ Occurs(Changed("voiceCalls"), listed)
  <2>1. Sendable(Changed("voiceCalls")) /\ Changed("voiceCalls") # Changed("activeVoiceCall")
    BY DEF Sendable, Changed
  <2>2. listed \in Batches
    BY <2>1, OneMessageBatch
  <2> QED BY <2>2 DEF Occurs
<1>3. AnnouncementOf(h, first) = (signal \o listed) \o active
  BY DEF AnnouncementOf
<1>4. ASSUME NEW s \in Batches PROVE s \in Seq(Message)
  BY DEF Batches
<1> HIDE DEF m, signal, listed
<1>5. /\ signal \o listed \in Batches /\ Occurs(Changed("voiceCalls"), signal \o listed)
      /\ Occurs(m, signal) => Occurs(m, signal \o listed)
  BY <1>1, <1>2, <1>4, BatchesConcat, OccursConcat
<1>6. CASE first
  <2>1. (signal \o listed) \o << Changed("activeVoiceCall") >> \in Batches
    BY <1>5, <1>6, ActiveAnnouncedLast
  <2>2. Changed("activeVoiceCall") \in Message
    BY <1>6, SendableIsMessage DEF Sendable
  <2>3. << Changed("activeVoiceCall") >> \in Seq(Message)
    BY <2>2
  <2>4. Occurs(m, signal) => Occurs(m, (signal \o listed) \o << Changed("activeVoiceCall") >>)
    BY <1>4, <1>5, <2>3, OccursConcat
  <2> QED BY <1>1, <1>3, <1>6, <2>1, <2>4 DEF m
<1>7. CASE ~first
  <2>1. (signal \o listed) \o << >> = signal \o listed
    BY <1>4, <1>5
  <2> QED BY <1>1, <1>3, <1>5, <1>7, <2>1 DEF m
<1> QED BY <1>6, <1>7

\* The calls of one provider are announced one after the other.
LEMMA AnnounceBatch ==
    ASSUME TypeOK, TypeOK', NEW hs \in SUBSET Handler, IsFiniteSet(hs), hs \subseteq CurrentCalls',
           \A h \in Handler : status'[h] # status[h] => h \in hs /\ h \in ReleasedUnfiltered({ h }),
           NEW opening \in Batches, Announce(opening, hs)
    PROVE  \E msgs \in Batches : DaemonSends(msgs) /\ StatusTold(msgs)
<1>1. PICK order \in SetToSeqs(hs) :
          /\ hs # {} /\ activeVoiceCall = NoCall => activeVoiceCall' = order[1]
          /\ DaemonSends(opening \o Announcements(order))
  BY DEF Announce
<1>2. order \in Seq(hs) /\ \A h \in hs : \E i \in DOMAIN order : order[i] = h
  BY EnumerationComplete
<1> DEFINE vacant == activeVoiceCall = NoCall
           first(i) == vacant /\ i = 1
           parts == [ i \in DOMAIN order |-> AnnouncementOf(order[i], first(i)) ]
           rest == Announcements(order)
<1>3. rest = FlattenSeq(parts)
  BY DEF Announcements
<1>4. ASSUME NEW i \in DOMAIN order
      PROVE  /\ parts[i] \in Batches
             /\ order[i] \in ReleasedUnfiltered({ order[i] }) /\ order[i] \in Exported /\ Subscribed(order[i])
                  => Occurs(CallMessage("status", order[i], status'[order[i]]), parts[i])
  <2>1. order[i] \in hs /\ first(i) \in BOOLEAN
    BY <1>2
  <2>2. first(i) => activeVoiceCall' \in CurrentCalls'
    BY <1>1, <2>1
  <2> HIDE DEF first
  <2>3. parts[i] = AnnouncementOf(order[i], first(i))
    OBVIOUS
  <2> QED BY <2>1, <2>2, <2>3, AnnouncementBatch
<1>5. /\ parts \in Seq(Batches) /\ DOMAIN parts = DOMAIN order
      /\ Batches \subseteq Seq(Message)
  <2>0. DOMAIN order = 1 .. Len(order) /\ Len(order) \in Nat
    BY <1>2
  <2>1. parts = [ i \in 1 .. Len(order) |-> parts[i] ]
    BY <2>0
  <2> HIDE DEF parts
  <2>2. \A i \in 1 .. Len(order) : parts[i] \in Batches
    BY <1>4, <2>0
  <2> QED BY <2>0, <2>1, <2>2 DEF Batches
<1> HIDE DEF parts, rest
<1>6. rest \in Batches
  <2>1. CASE parts = << >>
    BY <1>3, <2>1, EmptyBatch DEF FlattenSeq
  <2>2. CASE parts # << >>
    <3>1. \A s, t \in Batches : s \o t \in Batches
      BY BatchesConcat
    <3> QED BY <1>3, <1>5, <2>2, <3>1, FlattenClosed
  <2> QED BY <2>1, <2>2
<1>7. StatusTold(rest)
  <2> SUFFICES ASSUME NEW h \in Exported, h \in Exported', Subscribed(h), status'[h] # status[h]
               PROVE  Occurs(CallMessage("status", h, status'[h]), rest)
    BY DEF StatusTold
  <2>1. h \in Handler
    BY DEF Exported, TypeOK
  <2>2. h \in hs /\ h \in ReleasedUnfiltered({ h })
    BY <2>1
  <2>3. PICK i \in DOMAIN order : order[i] = h
    BY <1>2, <2>2
  <2>4. Occurs(CallMessage("status", h, status'[h]), parts[i])
    BY <1>4, <2>2, <2>3
  <2>5. parts \in Seq(Seq(Message)) /\ i \in DOMAIN parts
    BY <1>5
  <2> QED BY <1>3, <2>4, <2>5, FlattenKeeps
<1>8. opening \o rest \in Batches
  BY <1>6, BatchesConcat
<1>9. StatusTold(opening \o rest)
  BY <1>5, <1>6, <1>7, OccursConcat DEF StatusTold
<1> QED BY <1>1, <1>8, <1>9 DEF rest

\* Everything the daemon does but answering.
Unasked ==
    \/ \E p \in Provider :
          \/ ProviderAppended(p) \/ ProviderRemoved(p) \/ CallsDestroyed(p)
          \/ \E h \in Handler : CallAdded(p, h) \/ CallRemoved(p, h)
    \/ \E h \in Handler : CallPrepared(h) \/ CallChanged(h) \/ CallFiltered(h)
    \/ DaemonRestarted
    \/ Unsignalled

LEMMA ReleasedOfOne ==
    ASSUME NEW hs, NEW h
    PROVE  h \in ReleasedUnfiltered(hs) <=> h \in hs /\ h \in ReleasedUnfiltered({ h })
BY DEF ReleasedUnfiltered, Admitted

LEMMA UnaskedBatch ==
    ASSUME DaemonInv, Unasked, TypeOK'
    PROVE  \E msgs \in Batches : DaemonSends(msgs) /\ StatusTold(msgs)
<1> USE DEF managerVars, counterVars, handlerVars
<1>0. TypeOK /\ TableListed /\ CallsFinite
  BY DEF DaemonInv, IInv
<1>1. Changed("providers") # Changed("activeVoiceCall") /\ Changed("voiceCalls") # Changed("activeVoiceCall")
  BY DEF Changed
<1>2. << Changed("providers") >> \in Batches /\ << Changed("voiceCalls") >> \in Batches
  <2>1. Sendable(Changed("providers")) /\ Sendable(Changed("voiceCalls"))
    BY DEF Sendable
  <2> QED BY <1>0, <1>1, <2>1, OneMessageBatch
<1>3. ASSUME \A h \in Exported : h \in Exported' => status'[h] = status[h]
      PROVE  \A msgs : StatusTold(msgs)
  BY <1>3 DEF StatusTold
<1>4. Exported \subseteq Handler /\ Exported \subseteq Announced
  BY <1>0 DEF Exported, TypeOK, TableListed
<1>5. ASSUME NEW p \in Provider, ProviderAppended(p)
      PROVE  \E msgs \in Batches : DaemonSends(msgs) /\ StatusTold(msgs)
  <2> DEFINE hs == Admitted(calls[p])
  <2>1. hs \subseteq calls[p] /\ hs \in SUBSET Handler /\ IsFiniteSet(hs)
    <3>1. hs \subseteq calls[p]
      BY DEF Admitted
    <3>2. calls[p] \in SUBSET Handler /\ IsFiniteSet(calls[p])
      BY <1>0 DEF TypeOK, CallsFinite
    <3> HIDE DEF hs
    <3> QED BY <3>1, <3>2, FS_Subset
  <2>2. calls' = calls /\ providers' = providers \cup { p } /\ Release(ReleasedUnfiltered(calls[p]))
    BY <1>5 DEF ProviderAppended, AppendProvider
  <2>3. hs \subseteq CurrentCalls'
    BY <2>1, <2>2 DEF CurrentCalls
  <2>4. \A h \in Handler : status'[h] # status[h] => h \in ReleasedUnfiltered(calls[p])
    BY <2>2 DEF Release
  <2>5. \A h \in ReleasedUnfiltered(calls[p]) : h \in hs /\ h \in ReleasedUnfiltered({ h })
    BY ReleasedOfOne DEF ReleasedUnfiltered
  <2>6. Announce(<< Changed("providers") >>, hs)
    BY <1>5 DEF ProviderAppended
  <2> HIDE DEF hs
  <2> QED BY <1>0, <1>2, <2>1, <2>3, <2>4, <2>5, <2>6, AnnounceBatch
<1>6. ASSUME NEW p \in Provider, NEW h \in Handler, CallAdded(p, h)
      PROVE  \E msgs \in Batches : DaemonSends(msgs) /\ StatusTold(msgs)
  <2> DEFINE hs == IF p \in providers THEN Admitted({ h }) ELSE {}
  <2>1. hs \subseteq { h } /\ hs \in SUBSET Handler /\ IsFiniteSet(hs)
    <3>1. hs \subseteq { h }
      BY DEF Admitted
    <3> HIDE DEF hs
    <3> QED BY <3>1, FS_Singleton, FS_Subset
  <2>2. calls' = [calls EXCEPT ![p] = @ \cup { h }] /\ providers' = providers
    BY <1>6 DEF CallAdded, ProviderAddsCall
  <2>3. hs \subseteq CurrentCalls'
    <3>1. h \in calls'[p]
      BY <1>0, <2>2 DEF TypeOK
    <3>2. hs # {} => p \in providers'
      BY <2>2
    <3> HIDE DEF hs
    <3> QED BY <2>1, <3>1, <3>2 DEF CurrentCalls
  <2>4. \A g \in Handler : status'[g] # status[g] => p \in providers /\ g \in ReleasedUnfiltered({ h })
    BY <1>6 DEF CallAdded, ProviderAddsCall, Release
  <2>5. \A g \in ReleasedUnfiltered({ h }) : g \in Admitted({ h }) /\ g \in ReleasedUnfiltered({ g })
    BY DEF ReleasedUnfiltered, Admitted
  <2>6. Announce(<< >>, hs)
    BY <1>6 DEF CallAdded
  <2>7. \A g \in Handler : status'[g] # status[g] => g \in hs /\ g \in ReleasedUnfiltered({ g })
    BY <2>4, <2>5
  <2> HIDE DEF hs
  <2> QED BY <1>0, EmptyBatch, <2>1, <2>3, <2>6, <2>7, AnnounceBatch
<1>7. ASSUME NEW p \in Provider, NEW h \in Handler, CallRemoved(p, h)
      PROVE  \E msgs \in Batches : DaemonSends(msgs) /\ StatusTold(msgs)
  <2>1. gone' = gone \cup { h } /\ \A g \in Handler : status'[g] # status[g] => g = h
    BY <1>7 DEF CallRemoved, ProviderRemovesCall, Destroy
  <2>2. \A g \in Exported : g \in Exported' => status'[g] = status[g]
    BY <1>4, <2>1 DEF Exported
  <2> DEFINE listed == << Changed("voiceCalls") >>
             active == << Changed("activeVoiceCall") >>
  <2>3. CASE p \notin providers \/ h \notin voiceCalls
    <3>1. DaemonSends(<< >>)
      BY <1>7, <2>3 DEF CallRemoved
    <3> QED BY <1>3, <2>2, <3>1, EmptyBatch
  <2>4. CASE ~(p \notin providers \/ h \notin voiceCalls) /\ activeVoiceCall' = activeVoiceCall
    <3>1. DaemonSends(listed \o << >>)
      BY <1>7, <2>4 DEF CallRemoved
    <3>2. listed \o << >> \in Batches
      BY <1>2, EmptyBatch, BatchesConcat
    <3> QED BY <1>3, <2>2, <3>1, <3>2
  <2>5. CASE ~(p \notin providers \/ h \notin voiceCalls) /\ activeVoiceCall' # activeVoiceCall
    <3>1. DaemonSends(listed \o active)
      BY <1>7, <2>5 DEF CallRemoved
    <3>2. OnVoiceCallRemoved(h)
      BY <1>7, <2>5 DEF CallRemoved, ProviderRemovesCall
    <3>3. activeVoiceCall' = NoCall
      BY <2>5, <3>2, RemovedTable
    <3>4. Occurs(Changed("voiceCalls"), listed)
      BY DEF Occurs
    <3>5. listed \o active \in Batches
      BY <1>0, <1>2, <3>3, <3>4, ActiveAnnouncedLast
    <3> QED BY <1>3, <2>2, <3>1, <3>5
  <2> QED BY <2>3, <2>4, <2>5
<1>8. ASSUME NEW h \in Handler, CallChanged(h) \/ CallFiltered(h)
      PROVE  \E msgs \in Batches : DaemonSends(msgs) /\ StatusTold(msgs)
  <2>1. DaemonSends(StatusSignal(h))
    BY <1>8 DEF CallChanged, CallFiltered
  <2>2. \A g \in Handler : status'[g] # status[g] => g = h
    BY <1>0, <1>8 DEF CallChanged, CallFiltered, StatusChanged, Filter, TypeOK
  <2>3. /\ StatusSignal(h) \in Batches
        /\ h \in Exported /\ Subscribed(h)
                => Occurs(CallMessage("status", h, status'[h]), StatusSignal(h))
    BY <1>0, StatusSignalBatch
  <2>4. StatusTold(StatusSignal(h))
    BY <1>4, <2>2, <2>3 DEF StatusTold
  <2> QED BY <2>1, <2>3, <2>4
<1>9. ASSUME \/ \E p \in Provider : ProviderRemoved(p) \/ CallsDestroyed(p)
             \/ \E h \in Handler : CallPrepared(h)
             \/ DaemonRestarted \/ Unsignalled
      PROVE  \E msgs \in Batches : DaemonSends(msgs) /\ StatusTold(msgs)
  <2>1. \E msgs \in Batches : DaemonSends(msgs)
    BY <1>2, <1>9, EmptyBatch DEF ProviderRemoved, CallsDestroyed, CallPrepared, DaemonRestarted, Unsignalled
  <2>2. \A h \in Exported : h \in Exported' => status'[h] = status[h]
    <3>1. ASSUME NEW p \in Provider, ProviderRemoved(p) \/ CallsDestroyed(p)
          PROVE  \A h \in Exported : h \in Exported' => status'[h] = status[h]
      BY <1>4, <3>1 DEF ProviderRemoved, CallsDestroyed, RemoveProvider, ProviderDestroyed, Destroy, Exported
    <3>2. ASSUME NEW h \in Handler, CallPrepared(h)
          PROVE  \A g \in Exported : g \in Exported' => status'[g] = status[g]
      BY <1>0, <1>4, <3>2 DEF CallPrepared, HandlerPrepared, Unannounced, TypeOK
    <3>3. ASSUME DaemonRestarted
          PROVE  \A h \in Exported : h \in Exported' => status'[h] = status[h]
      BY <1>4, <3>3 DEF DaemonRestarted, Restart, Exported
    <3>4. ASSUME Unsignalled
          PROVE  \A h \in Exported : h \in Exported' => status'[h] = status[h]
      BY <1>4, <3>4 DEF Unsignalled, HandlerDiscarded, Destroy, SetCallFiltering,
          ResetCallDurationCounters, DeviceLockStateChanged, Exported
    <3> QED BY <1>9, <3>1, <3>2, <3>3, <3>4
  <2> QED BY <1>3, <2>1, <2>2
<1> QED BY <1>5, <1>6, <1>7, <1>8, <1>9 DEF Unasked

-----------------------------------------------------------------------------
(* The invariant, when the daemon sends *)

LEMMA SendableKinds ==
    ASSUME TypeOK, NEW m, Sendable(m)
    PROVE  \/ m.type \in Topic /\ m.call = NoCall /\ m = Changed(m.type)
           \/ /\ m.type = "status" /\ m.call \in Exported /\ m.call \in Handler
              /\ Subscribed(m.call) /\ m.status = status'[m.call]
<1>1. ASSUME NEW t \in Topic, m = Changed(t) PROVE m.type = t /\ m.call = NoCall
  BY <1>1 DEF Changed
<1>2. ASSUME NEW h \in Exported, Subscribed(h), m = CallMessage("status", h, status'[h])
      PROVE  /\ m.type = "status" /\ m.call = h /\ m.status = status'[h] /\ h \in Handler
  BY <1>2 DEF CallMessage, Exported, TypeOK
<1>3. "voiceCalls" \in Topic /\ "providers" \in Topic /\ "activeVoiceCall" \in Topic
  BY DEF Topic
<1> QED BY <1>1, <1>2, <1>3 DEF Sendable

\* Messages that are added come after the others.
Extended(msgs) ==
    /\ bus' \in Seq(Message) /\ Len(bus) \in Nat
    /\ \A i \in DOMAIN bus : i \in DOMAIN bus' /\ bus'[i] = bus[i] /\ i \in Nat /\ i <= Len(bus)
    /\ \A k \in DOMAIN msgs : Len(bus) + k \in DOMAIN bus' /\ bus'[Len(bus) + k] = msgs[k]
                                /\ k \in Nat /\ k > 0
    /\ \A i \in DOMAIN bus' : i \in DOMAIN bus \/ \E k \in DOMAIN msgs : i = Len(bus) + k

LEMMA ExtendedByConcat ==
    ASSUME bus \in Seq(Message), NEW msgs \in Seq(Message), bus' = bus \o msgs
    PROVE  Extended(msgs)
<1>1. bus' \in Seq(Message) /\ Len(bus) \in Nat /\ DOMAIN bus = 1 .. Len(bus)
      /\ DOMAIN bus' = 1 .. Len(bus) + Len(msgs)
      /\ DOMAIN msgs = 1 .. Len(msgs) /\ Len(msgs) \in Nat
  OBVIOUS
<1>2. \A i \in 1 .. Len(bus) : bus'[i] = bus[i]
  OBVIOUS
<1>3. \A k \in 1 .. Len(msgs) : bus'[Len(bus) + k] = msgs[k]
  OBVIOUS
<1>4. ASSUME NEW i \in DOMAIN bus', i \notin DOMAIN bus
      PROVE  \E k \in DOMAIN msgs : i = Len(bus) + k
  <2>1. i - Len(bus) \in DOMAIN msgs /\ i = Len(bus) + (i - Len(bus))
    BY <1>1, <1>4
  <2> QED BY <2>1
<1> QED BY <1>1, <1>2, <1>3, <1>4 DEF Extended

\* What is left to say, and was told before, has not changed.
LEMMA TopicKept ==
    ASSUME client \in { "reading", "ready" }, NEW msgs, DaemonSends(msgs), Extended(msgs),
           NEW t \in Topic, t \notin untold', ~UnderWay(t)'
    PROVE  t \notin untold /\ ~UnderWay(t) /\ Readable'[t] = Readable[t]
           /\ \A k \in DOMAIN msgs : msgs[k].type # t
<1>1. \A k \in DOMAIN msgs : msgs[k].type # t
  BY DEF UnderWay, Extended
<1>2. ~UnderWay(t)
  BY DEF UnderWay, Extended
<1>3. t \notin { msgs[i].type : i \in DOMAIN msgs }
  BY <1>1
<1>4. t \notin untold /\ Readable'[t] = Readable[t]
  BY <1>3 DEF DaemonSends
<1> QED BY <1>1, <1>2, <1>4

LEMMA TopicSettled ==
    ASSUME client \in { "reading", "ready" }, NEW msgs, DaemonSends(msgs),
           NEW t \in Topic, t \notin untold', \A k \in DOMAIN msgs : msgs[k].type # t
    PROVE  t \notin untold /\ Readable'[t] = Readable[t]
<1>1. t \notin { msgs[i].type : i \in DOMAIN msgs }
  OBVIOUS
<1> QED BY <1>1 DEF DaemonSends

\* While the client does not listen there is nothing to go wrong.
LEMMA UnheardStep ==
    ASSUME ClientInv, DaemonInv', client \notin { "reading", "ready" }, NEW msgs, DaemonSends(msgs)
    PROVE  ClientInv'
<1>1. /\ ClientTypeOK /\ Asleep
      /\ UNCHANGED << client, shownActive, shownProviders, handlers, phase, mirror, requests, bus, untold >>
  BY DEF ClientInv, DaemonSends, mirrorVars
<1>2. bus = << >> /\ handlers = {} /\ client # "ready"
  BY <1>1 DEF ClientTypeOK, Asleep
<1>3. \A h \in Handler : phase[h] = "absent"
  BY <1>1, <1>2 DEF ClientTypeOK, Phase
<1>4. bus' = << >> /\ handlers' = {} /\ phase' = phase /\ client' = client /\ DOMAIN bus' = {}
  BY <1>1, <1>2
<1>5. ClientTypeOK'
  BY <1>1, <1>4 DEF ClientTypeOK, DaemonInv, IInv
<1>6. Asleep' /\ Addressed' /\ ActiveFound' /\ Reachable' /\ \A t \in Topic : Followed(t)'
  BY <1>1, <1>4 DEF Asleep, Addressed, ActiveFound, Reachable, Followed
<1>7. ToldOfExported' /\ LatestNews' /\ MirrorCurrent' /\ FailedRefused'
  <2>1. Exported' \subseteq Handler
    BY DEF Exported, DaemonInv, IInv, TypeOK
  <2> QED BY <1>3, <1>4, <2>1 DEF ToldOfExported, LatestNews, MirrorCurrent, FailedRefused
<1> QED BY <1>5, <1>6, <1>7 DEF ClientInv

LEMMA HeardStep ==
    ASSUME ClientInv, DaemonInv', Lists, client \in { "reading", "ready" },
           NEW msgs \in Batches, DaemonSends(msgs), StatusTold(msgs)
    PROVE  ClientInv'
<1>1. /\ client' = client /\ shownActive' = shownActive /\ shownProviders' = shownProviders
      /\ handlers' = handlers /\ phase' = phase /\ mirror' = mirror /\ requests' = requests
      /\ bus' = bus \o msgs
      /\ untold' \subseteq Topic
  BY DEF DaemonSends, mirrorVars, ClientInv, ClientTypeOK
<1>2. /\ ClientTypeOK /\ Asleep /\ Addressed /\ ActiveFound /\ Reachable /\ ToldOfExported
      /\ LatestNews /\ MirrorCurrent /\ FailedRefused
      /\ TypeOK /\ TypeOK' /\ NoCall \notin Handler
  BY NoCallAssumption DEF ClientInv, DaemonInv, IInv
<1>3. msgs \in Seq(Message) /\ bus \in Seq(Message)
  BY <1>2 DEF Batches, ClientTypeOK
<1>4. Extended(msgs)
  BY <1>1, <1>3, ExtendedByConcat
<1>5. ASSUME NEW k \in DOMAIN msgs
      PROVE  \/ msgs[k].type \in Topic /\ msgs[k].call = NoCall /\ msgs[k] = Changed(msgs[k].type)
             \/ /\ msgs[k].type = "status" /\ msgs[k].call \in Exported /\ msgs[k].call \in Handler
                /\ Subscribed(msgs[k].call) /\ msgs[k].status = status'[msgs[k].call]
  BY <1>2, SendableKinds DEF Batches
<1>6. "voiceCalls" \in Topic /\ "activeVoiceCall" \in Topic /\ "status" \notin Topic
      /\ "properties" \notin Topic /\ "error" \notin Topic /\ "unheard" \notin Topic
  BY DEF Topic
<1>7. \A h \in Handler : Subscribed(h) => phase[h] # "absent" /\ h \in handlers
  BY <1>2 DEF Subscribed, ClientTypeOK
<1>8. ClientTypeOK'
  <2>1. \A i \in DOMAIN bus' : bus'[i].call \in handlers' \cup { NoCall }
    <3>1. \A i \in DOMAIN bus : bus[i].call \in handlers \cup { NoCall }
      BY <1>2 DEF ClientTypeOK
    <3>2. \A k \in DOMAIN msgs : msgs[k].call \in handlers \cup { NoCall }
      BY <1>5, <1>7
    <3> QED BY <1>1, <1>4, <3>1, <3>2 DEF Extended
  <2>2. ASSUME NEW h \in Handler
        PROVE  (\A i \in DOMAIN bus' : ~(bus'[i].call = h /\ bus'[i].type \in { "properties", "error" }))
               <=> (\A i \in DOMAIN bus : ~(bus[i].call = h /\ bus[i].type \in { "properties", "error" }))
    <3>1. \A k \in DOMAIN msgs : msgs[k].type \notin { "properties", "error" }
      BY <1>5, <1>6
    <3> QED BY <1>4, <3>1 DEF Extended
  <2>3. requests = { h \in Handler : phase[h] = "asked" /\ \A i \in DOMAIN bus :
                        ~(bus[i].call = h /\ bus[i].type \in { "properties", "error" }) }
    BY <1>2 DEF ClientTypeOK
  <2>4. requests' = { h \in Handler : phase'[h] = "asked" /\ \A i \in DOMAIN bus' :
                        ~(bus'[i].call = h /\ bus'[i].type \in { "properties", "error" }) }
    BY <1>1, <2>2, <2>3
  <2>5. bus' \in Seq(Message)
    BY <1>4 DEF Extended
  <2> QED BY <1>1, <1>2, <2>1, <2>4, <2>5 DEF ClientTypeOK
<1>9. Asleep'
  BY <1>1, <1>2 DEF Asleep
<1>10. Addressed'
  <2>1. \A k \in DOMAIN msgs : IF msgs[k].type \in AboutCall
                               THEN msgs[k].call \in Handler /\ Subscribed(msgs[k].call)
                               ELSE msgs[k].call = NoCall
    BY <1>5, <1>6 DEF AboutCall
  <2>2. \A h : Subscribed(h)' <=> Subscribed(h)
    BY <1>1 DEF Subscribed
  <2>3. \A i \in DOMAIN bus : IF bus[i].type \in AboutCall
                              THEN bus[i].call \in Handler /\ Subscribed(bus[i].call)
                              ELSE bus[i].call = NoCall
    BY <1>2 DEF Addressed
  <2>4. ASSUME NEW i \in DOMAIN bus'
        PROVE  IF bus'[i].type \in AboutCall
               THEN bus'[i].call \in Handler /\ Subscribed(bus'[i].call)
               ELSE bus'[i].call = NoCall
    BY <1>4, <2>1, <2>3 DEF Extended
  <2> QED BY <2>2, <2>4 DEF Addressed
<1>11. ASSUME NEW t \in Topic PROVE Followed(t)'
  <2>1. Followed(t)
    BY DEF ClientInv
  <2>2. Shown(t)' = Shown(t)
    BY <1>1 DEF Shown
  <2>3. ASSUME t \notin untold', ~UnderWay(t)'
        PROVE  t \notin untold /\ ~UnderWay(t) /\ Readable'[t] = Readable[t]
    BY <1>4, <2>3, TopicKept
  <2> QED BY <1>1, <2>1, <2>2, <2>3 DEF Followed
<1>12. ActiveFound'
  <2> SUFFICES ASSUME "activeVoiceCall" \notin untold', NEW i \in DOMAIN bus', LastActive(i)',
                      activeVoiceCall' # NoCall
               PROVE  Findable(i)'
    BY DEF ActiveFound
  <2>1. CASE \E k \in DOMAIN msgs : msgs[k].type = "activeVoiceCall"
    <3>1. PICK n \in DOMAIN msgs : msgs[n].type = "activeVoiceCall"
      BY <2>1
    <3>2. Len(bus) + n \in DOMAIN bus' /\ bus'[Len(bus) + n].type = "activeVoiceCall"
      BY <1>4, <3>1 DEF Extended
    <3>3. ~(Len(bus) + n > i)
      BY <3>2 DEF LastActive
    <3>4. i \notin DOMAIN bus
      BY <1>4, <3>3 DEF Extended
    <3>5. PICK k \in DOMAIN msgs : i = Len(bus) + k
      BY <1>4, <3>4 DEF Extended
    <3>6. msgs[k].type = "activeVoiceCall"
      BY <1>4, <3>5 DEF Extended, LastActive
    <3>7. msgs[k] = Changed("activeVoiceCall")
      BY <1>5, <1>6, <3>6
    <3>8. PICK j \in DOMAIN msgs : j < k /\ msgs[j] = Changed("voiceCalls")
      BY <3>7 DEF Batches
    <3>9. Len(bus) + j \in DOMAIN bus' /\ bus'[Len(bus) + j].type = "voiceCalls"
          /\ Len(bus) + j < i
      BY <1>4, <3>5, <3>8 DEF Extended, Changed
    <3>10. activeVoiceCall' \in CurrentCalls'
      <4>1. Sendable(Changed("activeVoiceCall"))
        BY <3>7 DEF Batches
      <4>2. \A t \in { "voiceCalls", "providers" } : Changed("activeVoiceCall") # Changed(t)
        BY DEF Changed
      <4>3. \A h, s : Changed("activeVoiceCall") # CallMessage("status", h, s)
        BY DEF Changed, CallMessage
      <4>4. activeVoiceCall' \in { NoCall } \cup CurrentCalls'
        BY <4>1, <4>2, <4>3 DEF Sendable
      <4> QED BY <4>4
    <3> QED BY <3>9, <3>10 DEF Findable
  <2>2. CASE \A k \in DOMAIN msgs : msgs[k].type # "activeVoiceCall"
    <3>1. "activeVoiceCall" \notin untold /\ Readable'["activeVoiceCall"] = Readable["activeVoiceCall"]
      BY <1>6, <2>2, TopicSettled
    <3>2. i \in DOMAIN bus /\ bus'[i] = bus[i]
      BY <1>4, <2>2 DEF Extended, LastActive
    <3>3. LastActive(i)
      BY <1>4, <3>2 DEF Extended, LastActive
    <3>4. activeVoiceCall = NoCall \/ Findable(i)
      BY <1>2, <3>1, <3>2, <3>3 DEF ActiveFound
    <3>5. /\ Readable["activeVoiceCall"]
               = (IF activeVoiceCall \in CurrentCalls THEN activeVoiceCall ELSE NoCall)
          /\ Readable'["activeVoiceCall"]
               = (IF activeVoiceCall' \in CurrentCalls' THEN activeVoiceCall' ELSE NoCall)
      BY DEF Readable
    <3>6. activeVoiceCall' \in { activeVoiceCall } \cup CurrentCalls'
      BY DEF Lists
    <3>7. NoCall \notin CurrentCalls /\ NoCall \notin CurrentCalls'
      BY <1>2 DEF CurrentCalls, TypeOK
    <3>8. activeVoiceCall' = activeVoiceCall /\ activeVoiceCall' \in CurrentCalls' /\ Findable(i)
      BY <3>1, <3>4, <3>5, <3>6, <3>7 DEF Findable
    <3>9. ASSUME NEW j \in DOMAIN bus, j < i, bus[j].type = "voiceCalls"
          PROVE  j \in DOMAIN bus' /\ bus'[j].type = "voiceCalls"
      BY <1>4, <3>9 DEF Extended
    <3> QED BY <1>1, <3>8, <3>9 DEF Findable
  <2> QED BY <2>1, <2>2
<1>13. \A h \in handlers : h \in Refusable => h \in Refusable'
  BY <1>2 DEF Reachable, Refusable, Lists
<1>14. Reachable'
  BY <1>1, <1>2, <1>13 DEF Reachable, Lists
<1>15. ASSUME NEW h, NEW i \in DOMAIN bus', Tells(i, h)'
       PROVE  \/ i \in DOMAIN bus /\ Tells(i, h) /\ bus'[i] = bus[i]
              \/ /\ i \notin DOMAIN bus
                 /\ h \in Exported /\ bus'[i].status = status'[h]
  <2>1. CASE i \in DOMAIN bus
    BY <1>4, <1>15, <2>1 DEF Extended, Tells
  <2>2. CASE i \notin DOMAIN bus
    <3>1. PICK k \in DOMAIN msgs : i = Len(bus) + k
      BY <1>4, <2>2 DEF Extended
    <3>2. bus'[i] = msgs[k] /\ msgs[k].type \in { "status", "properties" } /\ msgs[k].call = h
      BY <1>4, <1>15, <3>1 DEF Extended, Tells
    <3>3. msgs[k].call \in Exported /\ msgs[k].status = status'[msgs[k].call]
      BY <1>5, <1>6, <3>2
    <3> QED BY <2>2, <3>2, <3>3
  <2> QED BY <2>1, <2>2
<1>16. Exported = voiceCalls \ gone /\ Exported' = voiceCalls' \ gone' /\ Exported' \subseteq Handler
  BY <1>2 DEF Exported, TypeOK
<1>17. ToldOfExported'
  BY <1>1, <1>2, <1>15, <1>16 DEF ToldOfExported, Lists
\* The status of a call that nothing is told of has not changed.
<1>18. ASSUME NEW h \in Exported', h \in voiceCalls \cup gone, Subscribed(h),
              \A k \in DOMAIN msgs : ~(msgs[k].call = h /\ msgs[k].type \in { "status", "properties" })
       PROVE  status'[h] = status[h] /\ h \in Exported
  <2>1. h \in Exported
    BY <1>16, <1>18 DEF Lists
  <2>2. ~Occurs(CallMessage("status", h, status'[h]), msgs)
    BY <1>18 DEF Occurs, CallMessage
  <2> QED BY <1>18, <2>1, <2>2 DEF StatusTold
<1>19. \A h : \A i \in DOMAIN bus : Tells(i, h) => i \in DOMAIN bus' /\ Tells(i, h)'
  BY <1>4 DEF Extended, Tells
<1>20. ASSUME NEW h, NEW k \in DOMAIN msgs,
              msgs[k].call = h /\ msgs[k].type \in { "status", "properties" }
       PROVE  \E i \in DOMAIN bus' : i > Len(bus) /\ Tells(i, h)'
  <2>1. PICK i \in DOMAIN bus' : i > Len(bus) /\ bus'[i] = msgs[k]
    <3>1. Len(bus) + k \in DOMAIN bus' /\ bus'[Len(bus) + k] = msgs[k] /\ Len(bus) + k > Len(bus)
      BY <1>4 DEF Extended
    <3> QED BY <3>1
  <2>2. Tells(i, h)'
    BY <1>20, <2>1 DEF Tells
  <2> QED BY <2>1, <2>2
<1>21. LatestNews'
  <2> SUFFICES ASSUME NEW h \in Exported', NEW i \in DOMAIN bus', Tells(i, h)',
                      \A j \in DOMAIN bus' : Tells(j, h)' => j <= i
               PROVE  bus'[i].status = status'[h]
    BY DEF LatestNews
  <2>1. CASE i \notin DOMAIN bus
    BY <1>15, <2>1
  <2>2. CASE i \in DOMAIN bus
    <3>1. Tells(i, h) /\ bus'[i] = bus[i] /\ i <= Len(bus)
      BY <1>4, <1>15, <2>2 DEF Extended
    <3>2. ASSUME NEW k \in DOMAIN msgs, msgs[k].call = h /\ msgs[k].type \in { "status", "properties" }
          PROVE  FALSE
      <4>1. PICK j \in DOMAIN bus' : j > Len(bus) /\ Tells(j, h)'
        BY <1>20, <3>2
      <4>2. j <= i
        BY <4>1
      <4>3. i \in Nat /\ Len(bus) \in Nat /\ j \in Nat
        BY <1>4, <2>2, <4>1 DEF Extended
      <4> QED BY <3>1, <4>1, <4>2, <4>3
    <3>3. h \in Handler /\ h \in voiceCalls \cup gone
      BY <1>2, <1>16, <2>2, <3>1 DEF ToldOfExported
    <3>4. Subscribed(h)
      BY <1>2, <2>2, <3>1 DEF Addressed, AboutCall, Tells
    <3>5. status'[h] = status[h] /\ h \in Exported
      BY <1>18, <3>2, <3>3, <3>4
    <3>6. \A j \in DOMAIN bus : Tells(j, h) => j <= i
      BY <1>19
    <3> QED BY <1>2, <2>2, <3>1, <3>5, <3>6 DEF LatestNews
  <2> QED BY <2>1, <2>2
<1>22. MirrorCurrent'
  <2> SUFFICES ASSUME NEW h \in Exported', phase'[h] = "known", \A i \in DOMAIN bus' : ~Tells(i, h)'
               PROVE  mirror'[h] = status'[h]
    BY DEF MirrorCurrent
  <2>1. phase[h] = "known" /\ Subscribed(h) /\ h \in Handler
    BY <1>1, <1>16 DEF Subscribed
  <2>2. h \in voiceCalls \cup gone
    BY <1>2, <2>1 DEF ToldOfExported
  <2>3. ASSUME NEW k \in DOMAIN msgs, msgs[k].call = h /\ msgs[k].type \in { "status", "properties" }
        PROVE  FALSE
    BY <1>20, <2>3
  <2>4. status'[h] = status[h] /\ h \in Exported
    BY <1>18, <2>1, <2>2, <2>3
  <2>5. \A i \in DOMAIN bus : ~Tells(i, h)
    BY <1>19
  <2> QED BY <1>1, <1>2, <2>1, <2>4, <2>5 DEF MirrorCurrent
<1>23. FailedRefused'
  <2> SUFFICES ASSUME NEW h \in Handler,
                      phase'[h] = "failed"
                        \/ (\E i \in DOMAIN bus' : bus'[i].call = h /\ bus'[i].type = "error")
               PROVE  h \in gone' \cup Refusable'
    BY DEF FailedRefused
  <2>1. \A k \in DOMAIN msgs : msgs[k].type # "error"
    BY <1>5, <1>6
  <2>2. phase[h] = "failed" \/ (\E i \in DOMAIN bus : bus[i].call = h /\ bus[i].type = "error")
    BY <1>1, <1>4, <2>1 DEF Extended
  <2>3. h \in gone \cup Refusable
    BY <1>2, <2>2 DEF FailedRefused
  <2>4. h \in handlers
    <3>1. CASE phase[h] = "failed"
      BY <1>7, <3>1 DEF Subscribed
    <3>2. ASSUME NEW i \in DOMAIN bus, bus[i].call = h, bus[i].type = "error" PROVE h \in handlers
      BY <1>2, <1>7, <3>2 DEF Addressed, AboutCall
    <3> QED BY <2>2, <3>1, <3>2
  <2> QED BY <1>13, <2>3, <2>4 DEF Lists
<1> QED BY <1>8, <1>9, <1>10, <1>11, <1>12, <1>14, <1>17, <1>21, <1>22, <1>23 DEF ClientInv

-----------------------------------------------------------------------------
(* The invariant, when the client goes on *)

LEMMA DaemonAlone ==
    ASSUME UNCHANGED vars
    PROVE  /\ CurrentCalls' = CurrentCalls /\ Exported' = Exported /\ Announced' = Announced
           /\ Readable' = Readable /\ Refusable' = Refusable /\ status' = status /\ gone' = gone
           /\ voiceCalls' = voiceCalls /\ activeVoiceCall' = activeVoiceCall /\ providers' = providers
<1>1. /\ providers' = providers /\ voiceCalls' = voiceCalls /\ activeVoiceCall' = activeVoiceCall
      /\ calls' = calls /\ gone' = gone /\ status' = status /\ isEmergency' = isEmergency
  BY DEF vars, managerVars, handlerVars
<1>2. CurrentCalls' = CurrentCalls
  BY <1>1 DEF CurrentCalls
<1> QED BY <1>1, <1>2 DEF Exported, Announced, Readable, Refusable

\* A destroyed handler is nobody's active call, as far as a client can see.
LEMMA ReadableLives ==
    ASSUME DaemonInv, activeVoiceCall \in CurrentCalls \cup { NoCall }
    PROVE  /\ ActiveIds = { activeVoiceCall } /\ Readable["activeVoiceCall"] = activeVoiceCall
           /\ NoCall \notin CurrentCalls
<1>1. CurrentCalls \subseteq Announced /\ CurrentCalls \subseteq Handler /\ gone \subseteq Handler
  BY DEF DaemonInv, IInv, TypeOK, CurrentCalls, Announced
<1>2. NoCall \notin CurrentCalls /\ NoCall \notin gone
  BY <1>1, NoCallAssumption
<1>3. activeVoiceCall \notin gone
  BY <1>1, <1>2 DEF DaemonInv, GoneUnlisted
<1> QED BY <1>2, <1>3 DEF ActiveIds, Readable

\* The messages left when the first one has been taken.
Shifted ==
    /\ bus' \in Seq(Message)
    /\ 1 \in DOMAIN bus /\ Head(bus) = bus[1]
    /\ \A i \in DOMAIN bus' : i \in Nat /\ i + 1 \in DOMAIN bus /\ bus'[i] = bus[i + 1]
    /\ \A i \in DOMAIN bus : i \in Nat /\ (i = 1 \/ (i - 1 \in DOMAIN bus' /\ bus'[i - 1] = bus[i]))

LEMMA ShiftedByTail ==
    ASSUME bus \in Seq(Message), bus # << >>, bus' = Tail(bus)
    PROVE  Shifted
<1>1. /\ bus' \in Seq(Message) /\ Len(bus) \in Nat \ { 0 } /\ Len(bus') = Len(bus) - 1
      /\ DOMAIN bus = 1 .. Len(bus) /\ DOMAIN bus' = 1 .. Len(bus) - 1
      /\ Head(bus) = bus[1]
  OBVIOUS
<1>2. \A i \in 1 .. Len(bus) - 1 : bus'[i] = bus[i + 1]
  OBVIOUS
<1>3. \A i \in 1 .. Len(bus) : i = 1 \/ (i - 1 \in 1 .. Len(bus) - 1 /\ bus'[i - 1] = bus[i])
  BY <1>1, <1>2
<1> QED BY <1>1, <1>2, <1>3 DEF Shifted

\* What a message that is taken does, whatever it is, except for a new list of calls.
Taken(m) ==
    /\ m.type # "voiceCalls"
    /\ phase' = IF m.type = "properties" THEN [phase EXCEPT ![m.call] = "known"]
                ELSE IF m.type = "error" THEN [phase EXCEPT ![m.call] = "failed"] ELSE phase
    /\ mirror' = IF m.type \in { "status", "properties" }
                 THEN [mirror EXCEPT ![m.call] = m.status] ELSE mirror
    /\ IF m.type = "activeVoiceCall"
       THEN \E id \in ActiveIds : shownActive' = IF id \in handlers THEN id ELSE NoCall
       ELSE shownActive' = shownActive
    /\ shownProviders' = IF m.type = "providers" THEN providers ELSE shownProviders
    /\ UNCHANGED << handlers, requests, untold >>

LEMMA TakenStep ==
    ASSUME ClientInv, DaemonInv', UNCHANGED vars, client = "ready", client' = "ready",
           bus # << >>, bus' = Tail(bus), Taken(Head(bus))
    PROVE  ClientInv'
<1> DEFINE m == Head(bus)
<1>1. /\ ClientTypeOK /\ Asleep /\ Addressed /\ ActiveFound /\ Reachable /\ ToldOfExported
      /\ LatestNews /\ MirrorCurrent /\ FailedRefused /\ DaemonInv
      /\ TypeOK /\ TypeOK' /\ NoCall \notin Handler
  BY NoCallAssumption DEF ClientInv, DaemonInv, IInv
<1>2. Shifted /\ 1 \in DOMAIN bus /\ m = bus[1]
  BY <1>1, ShiftedByTail DEF ClientTypeOK, Shifted
<1>3. /\ CurrentCalls' = CurrentCalls /\ Exported' = Exported /\ Announced' = Announced
      /\ Readable' = Readable /\ Refusable' = Refusable /\ status' = status /\ gone' = gone
      /\ voiceCalls' = voiceCalls /\ activeVoiceCall' = activeVoiceCall /\ providers' = providers
      /\ Exported \subseteq Handler
  BY <1>1, DaemonAlone DEF Exported, TypeOK
<1>4. handlers' = handlers /\ requests' = requests /\ untold' = untold
  BY DEF Taken
<1>5. /\ m \in Message
      /\ m.type \in AboutCall => m.call \in Handler /\ Subscribed(m.call)
      /\ m.type \notin AboutCall => m.call = NoCall
      /\ m.status \in Status /\ m.call \in Handler \cup { NoCall }
  <2>1. m \in Message
    BY <1>1, <1>2 DEF ClientTypeOK
  <2>2. m.status \in Status /\ m.call \in Handler \cup { NoCall }
    BY <2>1 DEF Message
  <2> QED BY <1>1, <1>2, <2>1, <2>2 DEF Addressed
<1>6. /\ phase' \in [Handler -> Phase] /\ mirror' \in [Handler -> Status]
      /\ \A h \in Handler :
            /\ phase'[h] = IF h = m.call /\ m.type = "properties" THEN "known"
                           ELSE IF h = m.call /\ m.type = "error" THEN "failed" ELSE phase[h]
            /\ mirror'[h] = IF h = m.call /\ m.type \in { "status", "properties" }
                            THEN m.status ELSE mirror[h]
            /\ Subscribed(h) => Subscribed(h)'
            /\ phase[h] = "absent" <=> phase'[h] = "absent"
  <2>1. phase \in [Handler -> Phase] /\ mirror \in [Handler -> Status]
    BY <1>1 DEF ClientTypeOK
  <2>2. phase' \in [Handler -> Phase] /\ mirror' \in [Handler -> Status]
    BY <1>5, <2>1 DEF Taken, Phase
  <2>3. ASSUME NEW h \in Handler
        PROVE  /\ phase'[h] = IF h = m.call /\ m.type = "properties" THEN "known"
                              ELSE IF h = m.call /\ m.type = "error" THEN "failed" ELSE phase[h]
               /\ mirror'[h] = IF h = m.call /\ m.type \in { "status", "properties" }
                               THEN m.status ELSE mirror[h]
    BY <2>1 DEF Taken
  <2>4. ASSUME NEW h \in Handler
        PROVE  (Subscribed(h) => Subscribed(h)') /\ (phase[h] = "absent" <=> phase'[h] = "absent")
    BY <1>5, <2>3 DEF Subscribed, AboutCall
  <2> QED BY <2>2, <2>3, <2>4
<1>7. ASSUME NEW i \in DOMAIN bus, i # 1 PROVE i - 1 \in DOMAIN bus' /\ bus'[i - 1] = bus[i]
  BY <1>2, <1>7 DEF Shifted
<1>8. ASSUME NEW i \in DOMAIN bus'
      PROVE  /\ i + 1 \in DOMAIN bus /\ bus'[i] = bus[i + 1] /\ i + 1 # 1 /\ i \in Nat
  <2>1. i \in Nat /\ i + 1 \in DOMAIN bus /\ bus'[i] = bus[i + 1]
    BY <1>2 DEF Shifted
  <2>2. i + 1 # 1
    BY <1>2, <2>1 DEF Shifted, ClientTypeOK
  <2> QED BY <2>1, <2>2
<1> HIDE DEF m
<1>9. shownActive' \in Handler \cup { NoCall } /\ shownProviders' \subseteq Provider
  <2>1. shownActive' \in Handler \cup { NoCall }
    <3>1. handlers \subseteq Handler /\ shownActive \in Handler \cup { NoCall }
      BY <1>1 DEF ClientTypeOK
    <3> QED BY <3>1 DEF Taken
  <2>2. shownProviders' \subseteq Provider
    BY <1>1 DEF Taken, ClientTypeOK, TypeOK
  <2> QED BY <2>1, <2>2
<1>10. ClientTypeOK'
  <2>1. handlers' = { h \in Handler : phase'[h] # "absent" }
    BY <1>1, <1>4, <1>6 DEF ClientTypeOK
  <2>2. \A i \in DOMAIN bus' : bus'[i].call \in handlers' \cup { NoCall }
    BY <1>1, <1>4, <1>8 DEF ClientTypeOK
  <2>3. ASSUME NEW h \in Handler
        PROVE  h \in requests <=> phase'[h] = "asked" /\ \A i \in DOMAIN bus' :
                        ~(bus'[i].call = h /\ bus'[i].type \in { "properties", "error" })
    <3>1. h \in requests <=> phase[h] = "asked" /\ \A i \in DOMAIN bus :
                        ~(bus[i].call = h /\ bus[i].type \in { "properties", "error" })
      BY <1>1 DEF ClientTypeOK
    <3>2. CASE m.call = h /\ m.type \in { "properties", "error" }
      BY <1>2, <1>6, <3>1, <3>2
    <3>3. CASE ~(m.call = h /\ m.type \in { "properties", "error" })
      <4>1. (\A i \in DOMAIN bus : ~(bus[i].call = h /\ bus[i].type \in { "properties", "error" }))
            <=> (\A i \in DOMAIN bus' : ~(bus'[i].call = h /\ bus'[i].type \in { "properties", "error" }))
        BY <1>2, <1>7, <1>8, <3>3
      <4>2. phase'[h] = phase[h]
        BY <1>6, <3>3
      <4> QED BY <3>1, <4>1, <4>2
    <3> QED BY <3>2, <3>3
  <2>4. requests' = { h \in Handler : phase'[h] = "asked" /\ \A i \in DOMAIN bus' :
                        ~(bus'[i].call = h /\ bus'[i].type \in { "properties", "error" }) }
    <3>1. requests \subseteq Handler
      BY <1>1 DEF ClientTypeOK
    <3> QED BY <1>4, <2>3, <3>1
  <2>5. bus' \in Seq(Message) /\ untold' \subseteq Topic
    BY <1>1, <1>2, <1>4 DEF Shifted, ClientTypeOK
  <2> QED BY <1>1, <1>6, <1>9, <2>1, <2>2, <2>4, <2>5 DEF ClientTypeOK
<1>11. Asleep'
  BY DEF Asleep
<1>12. Addressed'
  BY <1>1, <1>6, <1>8 DEF Addressed
<1>13. ASSUME NEW t \in Topic PROVE Followed(t)'
  <2> SUFFICES ASSUME t \notin untold', ~UnderWay(t)' PROVE Shown(t)' = Readable'[t]
    BY DEF Followed
  <2>1. \A i \in DOMAIN bus : bus[i].type = t => i = 1
    BY <1>7 DEF UnderWay
  <2>2. CASE m.type # t
    <3>1. ~UnderWay(t)
      BY <1>2, <2>1, <2>2 DEF UnderWay
    <3>2. Shown(t) = Readable[t]
      BY <1>4, <3>1 DEF ClientInv, Followed
    <3>3. Shown(t)' = Shown(t)
      BY <1>4, <2>2 DEF Shown, Taken, Topic, m
    <3> QED BY <1>3, <3>2, <3>3
  <2>3. CASE m.type = t /\ t = "providers"
    BY <1>3, <2>3 DEF Shown, Taken, Readable, m
  <2>4. CASE m.type = t /\ t = "activeVoiceCall"
    <3>1. LastActive(1)
      BY <1>2, <2>1, <2>4 DEF LastActive
    <3>2. activeVoiceCall = NoCall \/ Findable(1)
      BY <1>1, <1>2, <1>4, <2>4, <3>1 DEF ActiveFound
    <3>3. \A j \in DOMAIN bus : ~(j < 1)
      BY <1>1 DEF ClientTypeOK
    <3>4. activeVoiceCall = NoCall \/ (activeVoiceCall \in CurrentCalls /\ activeVoiceCall \in handlers)
      <4>1. Findable(1) => activeVoiceCall \in CurrentCalls /\ activeVoiceCall \in handlers
        BY <3>3, Zenon DEF Findable
      <4> QED BY <3>2, <4>1
    <3>5. ActiveIds = { activeVoiceCall } /\ Readable["activeVoiceCall"] = activeVoiceCall
      BY <1>1, <3>4, ReadableLives
    <3>6. shownActive' = activeVoiceCall
      BY <2>4, <3>4, <3>5 DEF Taken, m
    <3> QED BY <1>3, <2>4, <3>5, <3>6 DEF Shown
  <2> QED BY <2>2, <2>3, <2>4 DEF Topic, Taken, m
<1>14. ActiveFound'
  <2> SUFFICES ASSUME "activeVoiceCall" \notin untold', NEW i \in DOMAIN bus', LastActive(i)',
                      activeVoiceCall' # NoCall
               PROVE  Findable(i)'
    BY DEF ActiveFound
  <2>0. PICK n \in DOMAIN bus : n = i + 1 /\ bus'[i] = bus[n] /\ n \in Nat /\ i \in Nat
    BY <1>8
  <2>1. LastActive(n)
    <3>1. bus[n].type = "activeVoiceCall"
      BY <2>0 DEF LastActive
    <3>2. ASSUME NEW j \in DOMAIN bus, j > n PROVE bus[j].type # "activeVoiceCall"
      <4>1. j \in Nat /\ j # 1 /\ j - 1 > i
        BY <1>1, <2>0, <3>2 DEF ClientTypeOK
      <4>2. PICK k \in DOMAIN bus' : k = j - 1 /\ bus'[k] = bus[j]
        BY <1>7, <4>1
      <4> QED BY <4>1, <4>2 DEF LastActive
    <3> QED BY <3>1, <3>2 DEF LastActive
  <2>2. Findable(n)
    BY <1>1, <1>3, <1>4, <2>1 DEF ActiveFound
  <2>3. ASSUME NEW j \in DOMAIN bus, j < n, bus[j].type = "voiceCalls"
        PROVE  \E k \in DOMAIN bus' : k < i /\ bus'[k].type = "voiceCalls"
    <3>1. j # 1 /\ j \in Nat
      BY <1>1, <1>2, <2>3 DEF Taken, m, ClientTypeOK
    <3>2. j - 1 \in DOMAIN bus' /\ bus'[j - 1] = bus[j] /\ j - 1 < i
      BY <1>7, <2>0, <2>3, <3>1
    <3> QED BY <2>3, <3>2
  <2> QED BY <1>3, <1>4, <2>2, <2>3 DEF Findable
<1>15. Reachable'
  BY <1>1, <1>3, <1>4 DEF Reachable
<1>16. ASSUME NEW h, NEW i \in DOMAIN bus', Tells(i, h)'
       PROVE  \E n \in DOMAIN bus : n = i + 1 /\ Tells(n, h) /\ bus'[i] = bus[n]
  BY <1>8, <1>16 DEF Tells
<1>17. ASSUME NEW h, NEW n \in DOMAIN bus, Tells(n, h), n # 1
       PROVE  \E i \in DOMAIN bus' : i = n - 1 /\ Tells(i, h)' /\ bus'[i] = bus[n]
  <2>1. PICK i \in DOMAIN bus' : i = n - 1 /\ bus'[i] = bus[n]
    BY <1>7, <1>17
  <2> QED BY <1>17, <2>1 DEF Tells
<1>18. ASSUME NEW h PROVE Tells(1, h) <=> (h = m.call /\ m.type \in { "status", "properties" })
  BY <1>2 DEF Tells
<1>19. ToldOfExported'
  <2> SUFFICES ASSUME NEW h \in Handler, phase'[h] = "known" \/ (\E i \in DOMAIN bus' : Tells(i, h)')
               PROVE  h \in voiceCalls \cup gone
    BY <1>3 DEF ToldOfExported
  <2>1. phase[h] = "known" \/ \E i \in DOMAIN bus : Tells(i, h)
    BY <1>2, <1>6, <1>16, <1>18
  <2> QED BY <1>1, <2>1 DEF ToldOfExported
<1>20. \A i \in DOMAIN bus : i \in Nat
  BY <1>2 DEF Shifted
<1>21. LatestNews'
  <2> SUFFICES ASSUME NEW h \in Exported, NEW i \in DOMAIN bus', Tells(i, h)',
                      \A j \in DOMAIN bus' : Tells(j, h)' => j <= i
               PROVE  bus'[i].status = status[h]
    BY <1>3 DEF LatestNews
  <2>1. PICK n \in DOMAIN bus : n = i + 1 /\ Tells(n, h) /\ bus'[i] = bus[n]
    BY <1>16
  <2>2. ASSUME NEW j \in DOMAIN bus, Tells(j, h) PROVE j <= n
    <3>1. CASE j = 1
      BY <1>8, <2>1, <3>1
    <3>2. CASE j # 1
      <4>1. PICK k \in DOMAIN bus' : k = j - 1 /\ Tells(k, h)'
        BY <1>17, <2>2, <3>2
      <4> QED BY <1>8, <1>20, <2>1, <4>1
    <3> QED BY <3>1, <3>2
  <2> QED BY <1>1, <2>1, <2>2 DEF LatestNews
<1>22. MirrorCurrent'
  <2> SUFFICES ASSUME NEW h \in Exported, phase'[h] = "known", \A i \in DOMAIN bus' : ~Tells(i, h)'
               PROVE  mirror'[h] = status[h]
    BY <1>3 DEF MirrorCurrent
  <2>1. \A i \in DOMAIN bus : Tells(i, h) => i = 1
    BY <1>17
  <2>2. CASE Tells(1, h)
    <3>1. bus[1].status = status[h]
      BY <1>1, <1>2, <2>1, <2>2 DEF LatestNews
    <3> QED BY <1>2, <1>3, <1>6, <1>18, <2>2, <3>1
  <2>3. CASE ~Tells(1, h)
    <3>1. phase[h] = "known" /\ mirror'[h] = mirror[h]
      BY <1>3, <1>6, <1>18, <2>3
    <3> QED BY <1>1, <2>1, <2>3, <3>1 DEF MirrorCurrent
  <2> QED BY <2>2, <2>3
<1>23. FailedRefused'
  <2> SUFFICES ASSUME NEW h \in Handler,
                      phase'[h] = "failed"
                        \/ (\E i \in DOMAIN bus' : bus'[i].call = h /\ bus'[i].type = "error")
               PROVE  h \in gone \cup Refusable
    BY <1>3 DEF FailedRefused
  <2>1. phase[h] = "failed" \/ \E i \in DOMAIN bus : bus[i].call = h /\ bus[i].type = "error"
    BY <1>2, <1>6, <1>8
  <2> QED BY <1>1, <2>1 DEF FailedRefused
<1> QED BY <1>10, <1>11, <1>12, <1>13, <1>14, <1>15, <1>19, <1>21, <1>22, <1>23 DEF ClientInv

\* The messages left after the calls have been read: of the first n the client has
\* taken, and those to handlers that are dropped reach nobody.
Masked(n) ==
    /\ bus' \in Seq(Message)
    /\ n \in { 0, 1 }
    /\ \A i \in DOMAIN bus' : i \in Nat /\ i + n \in DOMAIN bus
          /\ bus'[i] = IF bus[i + n].call \in Withdrawn THEN Unheard ELSE bus[i + n]
    /\ \A i \in DOMAIN bus : i \in Nat
          /\ (i > n => i - n \in DOMAIN bus') /\ (~(i > n) => bus[i].type = "voiceCalls")

LEMMA MaskedByRead ==
    ASSUME bus \in Seq(Message), NEW rest, ReadVoiceCalls(rest),
           \/ rest = bus
           \/ rest = Tail(bus) /\ bus # << >> /\ Head(bus).type = "voiceCalls"
    PROVE  \E n \in { 0, 1 } : Masked(n)
<1>1. Unheard \in Message
  BY StatusAssumption DEF Unheard, Changed, Message
<1>2. bus' = [ i \in DOMAIN rest |-> IF rest[i].call \in Withdrawn THEN Unheard ELSE rest[i] ]
  BY DEF ReadVoiceCalls
<1>3. CASE rest = bus
  <2>1. DOMAIN bus = 1 .. Len(bus) /\ Len(bus) \in Nat /\ \A i \in 1 .. Len(bus) : bus[i] \in Message
    OBVIOUS
  <2>2. bus' = [ i \in 1 .. Len(bus) |-> IF bus[i].call \in Withdrawn THEN Unheard ELSE bus[i] ]
    BY <1>2, <1>3, <2>1
  <2>3. bus' \in Seq(Message)
    BY <1>1, <2>1, <2>2
  <2>4. DOMAIN bus' = 1 .. Len(bus)
    BY <2>2
  <2>5. \A i \in 1 .. Len(bus) : i + 0 = i /\ i - 0 = i /\ i \in Nat /\ i > 0
    OBVIOUS
  <2>6. Masked(0)
    BY <2>1, <2>2, <2>3, <2>4, <2>5 DEF Masked
  <2> QED BY <2>6
<1>4. CASE rest = Tail(bus) /\ bus # << >> /\ Head(bus).type = "voiceCalls"
  <2>1. /\ Len(bus) \in Nat \ { 0 } /\ DOMAIN bus = 1 .. Len(bus) /\ DOMAIN rest = 1 .. Len(bus) - 1
        /\ Len(bus) - 1 \in Nat /\ bus[1].type = "voiceCalls"
    BY <1>4
  <2>2. \A i \in 1 .. Len(bus) - 1 : rest[i] = bus[i + 1] /\ bus[i + 1] \in Message
    BY <1>4
  <2>3. bus' = [ i \in 1 .. Len(bus) - 1 |->
                    IF rest[i].call \in Withdrawn THEN Unheard ELSE rest[i] ]
    BY <1>2, <2>1
  <2>4. bus' \in Seq(Message)
    BY <1>1, <2>1, <2>2, <2>3
  <2>5. ASSUME NEW i \in DOMAIN bus'
        PROVE  /\ i \in Nat /\ i + 1 \in DOMAIN bus
               /\ bus'[i] = IF bus[i + 1].call \in Withdrawn THEN Unheard ELSE bus[i + 1]
    <3>1. i \in 1 .. Len(bus) - 1
      BY <2>3
    <3>2. bus'[i] = IF rest[i].call \in Withdrawn THEN Unheard ELSE rest[i]
      BY <2>3, <3>1
    <3>3. rest[i] = bus[i + 1] /\ i \in Nat /\ i + 1 \in DOMAIN bus
      BY <2>1, <2>2, <3>1
    <3> QED BY <3>2, <3>3
  <2>6. ASSUME NEW i \in DOMAIN bus
        PROVE  /\ i \in Nat /\ (i > 1 => i - 1 \in DOMAIN bus')
               /\ (~(i > 1) => bus[i].type = "voiceCalls")
    BY <2>1, <2>3
  <2>7. Masked(1)
    BY <2>4, <2>5, <2>6 DEF Masked
  <2> QED BY <2>7
<1> QED BY <1>3, <1>4

LEMMA ReadStep ==
    ASSUME ClientInv, DaemonInv', UNCHANGED vars, client \in { "reading", "ready" }, client' = "ready",
           UNCHANGED << shownActive, shownProviders, untold >>,
           NEW rest, ReadVoiceCalls(rest),
           \/ rest = bus
           \/ rest = Tail(bus) /\ bus # << >> /\ Head(bus).type = "voiceCalls"
    PROVE  ClientInv'
<1>1. /\ ClientTypeOK /\ Asleep /\ Addressed /\ ActiveFound /\ Reachable /\ ToldOfExported
      /\ LatestNews /\ MirrorCurrent /\ FailedRefused /\ DaemonInv /\ RegisteredCallsKnown
      /\ TypeOK /\ TypeOK' /\ NoCall \notin Handler
  BY NoCallAssumption DEF ClientInv, DaemonInv, IInv
<1>2. PICK n \in { 0, 1 } : Masked(n)
  BY <1>1, MaskedByRead DEF ClientTypeOK
<1>3. /\ CurrentCalls' = CurrentCalls /\ Exported' = Exported /\ Announced' = Announced
      /\ Readable' = Readable /\ Refusable' = Refusable /\ status' = status /\ gone' = gone
      /\ voiceCalls' = voiceCalls /\ activeVoiceCall' = activeVoiceCall /\ providers' = providers
      /\ Exported \subseteq Handler /\ CurrentCalls \subseteq Handler /\ CurrentCalls \subseteq Announced
  BY <1>1, DaemonAlone DEF Exported, CurrentCalls, Announced, TypeOK
<1>4. shownActive' = shownActive /\ shownProviders' = shownProviders /\ untold' = untold
  OBVIOUS
<1>5. /\ handlers' = CurrentCalls /\ requests' = requests \ Withdrawn
      /\ Withdrawn = handlers \ CurrentCalls /\ handlers \subseteq Handler
      /\ phase' \in [Handler -> Phase] /\ mirror' \in [Handler -> Status]
  <2>1. handlers' = CurrentCalls /\ requests' = requests \ Withdrawn /\ handlers \subseteq Handler
    BY <1>1 DEF ReadVoiceCalls, Withdrawn, Awaited, ClientTypeOK
  <2>2. "new" \in Phase /\ "absent" \in Phase /\ "NULL" \in Status
    BY StatusAssumption DEF Phase
  <2>3. phase \in [Handler -> Phase] /\ mirror \in [Handler -> Status]
    BY <1>1 DEF ClientTypeOK
  <2>4. phase' \in [Handler -> Phase] /\ mirror' \in [Handler -> Status]
    BY <2>2, <2>3 DEF ReadVoiceCalls
  <2> QED BY <2>1, <2>4 DEF Withdrawn
<1>6. ASSUME NEW h \in Handler
      PROVE  /\ h \in handlers \cap CurrentCalls => phase'[h] = phase[h] /\ mirror'[h] = mirror[h]
             /\ h \in CurrentCalls \ handlers => phase'[h] = "new"
             /\ h \notin CurrentCalls => phase'[h] = "absent"
  BY <1>5 DEF ReadVoiceCalls
<1>7. \A h \in Handler : h \in handlers <=> phase[h] # "absent"
  BY <1>1 DEF ClientTypeOK
<1>8. ASSUME NEW i \in DOMAIN bus PROVE i > n => i - n \in DOMAIN bus' /\ (i - n) + n = i
  BY <1>2 DEF Masked
\* A message to a handler that stays is left as it is, and so is one to nobody.
<1>9. ASSUME NEW i \in DOMAIN bus'
      PROVE  /\ i + n \in DOMAIN bus /\ i \in Nat
             /\ bus'[i].type # "unheard" \/ bus'[i].call # NoCall => bus'[i] = bus[i + n]
             /\ bus[i + n].call \notin Withdrawn => bus'[i] = bus[i + n]
             /\ bus[i + n].call \in Withdrawn => bus'[i].type = "unheard" /\ bus'[i].call = NoCall
             /\ bus'[i].type = "unheard" => bus'[i].call = NoCall
  <2>1. i + n \in DOMAIN bus /\ i \in Nat
        /\ bus'[i] = IF bus[i + n].call \in Withdrawn THEN Unheard ELSE bus[i + n]
    BY <1>2 DEF Masked
  <2>2. Unheard.type = "unheard" /\ Unheard.call = NoCall
    BY DEF Unheard, Changed
  <2>3. bus[i + n].type = "unheard" => bus[i + n].call = NoCall
    BY <1>1, <2>1 DEF Addressed, AboutCall
  <2> QED BY <2>1, <2>2, <2>3
<1>10. ASSUME NEW i \in DOMAIN bus, i > n, bus[i].call \notin Withdrawn
       PROVE  \E k \in DOMAIN bus' : k = i - n /\ bus'[k] = bus[i]
  <2>1. i - n \in DOMAIN bus' /\ (i - n) + n = i
    BY <1>8, <1>10
  <2>2. bus[(i - n) + n].call \notin Withdrawn
    BY <1>10, <2>1
  <2>3. bus'[i - n] = bus[(i - n) + n]
    BY <1>9, <2>1, <2>2
  <2> QED BY <2>1, <2>3
<1>11. \A i \in DOMAIN bus : ~(i > n) => bus[i].type = "voiceCalls"
  BY <1>2 DEF Masked
<1>12. NoCall \notin Withdrawn
  BY <1>1, <1>5
<1>13. \A i \in DOMAIN bus : bus[i].type \notin AboutCall => bus[i].call \notin Withdrawn
  BY <1>1, <1>12 DEF Addressed
<1>14. \A i \in DOMAIN bus : bus[i].type \in AboutCall
          => bus[i].call \in handlers /\ bus[i].call \in Handler /\ Subscribed(bus[i].call) /\ i > n
  <2>1. \A h \in Handler : Subscribed(h) => h \in handlers
    BY <1>7 DEF Subscribed
  <2> QED BY <1>1, <1>11, <2>1 DEF Addressed, AboutCall
\* What concerns a call, before and after.
<1>15. ASSUME NEW i \in DOMAIN bus', bus'[i].type \in AboutCall
       PROVE  \E k \in DOMAIN bus : k = i + n /\ bus'[i] = bus[k] /\ bus[k].call \in handlers \cap CurrentCalls
                  /\ bus[k].call \in Handler /\ Subscribed(bus[k].call)
  <2>1. bus'[i].type # "unheard"
    BY <1>15 DEF AboutCall
  <2>2. PICK k \in DOMAIN bus : k = i + n /\ bus'[i] = bus[k] /\ bus[k].call \notin Withdrawn
    BY <1>9, <2>1
  <2> QED BY <1>5, <1>14, <1>15, <2>2
<1>16. ASSUME NEW i \in DOMAIN bus, bus[i].type \in AboutCall, bus[i].call \in CurrentCalls
       PROVE  \E k \in DOMAIN bus' : k = i - n /\ bus'[k] = bus[i]
  BY <1>5, <1>10, <1>14, <1>16
<1>17. ASSUME NEW t \in Topic \ { "voiceCalls" }, NEW i \in DOMAIN bus, bus[i].type = t
       PROVE  \E k \in DOMAIN bus' : k = i - n /\ bus'[k] = bus[i]
  <2>1. t \notin AboutCall /\ t # "voiceCalls"
    BY DEF AboutCall, Topic
  <2>2. i > n /\ bus[i].call \notin Withdrawn
    BY <1>11, <1>13, <1>17, <2>1
  <2> QED BY <1>10, <2>2
<1>18. ClientTypeOK'
  <2>1. handlers' = { h \in Handler : phase'[h] # "absent" }
    <3>1. \A h \in Handler : h \in CurrentCalls <=> phase'[h] # "absent"
      BY <1>6, <1>7
    <3> QED BY <1>3, <1>5, <3>1
  <2>2. ASSUME NEW i \in DOMAIN bus' PROVE bus'[i].call \in handlers' \cup { NoCall }
    <3>1. CASE bus'[i].type \in AboutCall
      BY <1>5, <1>15, <3>1
    <3>2. CASE bus'[i].type \notin AboutCall
      BY <1>1, <1>9, <3>2 DEF Addressed
    <3> QED BY <3>1, <3>2
  <2>3. ASSUME NEW h \in Handler
        PROVE  h \in requests' <=> phase'[h] = "asked" /\ \A i \in DOMAIN bus' :
                        ~(bus'[i].call = h /\ bus'[i].type \in { "properties", "error" })
    <3>1. h \in requests <=> phase[h] = "asked" /\ \A i \in DOMAIN bus :
                        ~(bus[i].call = h /\ bus[i].type \in { "properties", "error" })
      BY <1>1 DEF ClientTypeOK
    <3>2. CASE h \in handlers \cap CurrentCalls
      <4>1. (\A i \in DOMAIN bus : ~(bus[i].call = h /\ bus[i].type \in { "properties", "error" }))
            <=> (\A i \in DOMAIN bus' : ~(bus'[i].call = h /\ bus'[i].type \in { "properties", "error" }))
        BY <1>15, <1>16, <3>2 DEF AboutCall
      <4>2. h \notin Withdrawn /\ phase'[h] = phase[h]
        BY <1>5, <1>6, <3>2
      <4> QED BY <1>5, <3>1, <4>1, <4>2
    <3>3. CASE h \notin handlers
      <4>1. phase'[h] # "asked"
        BY <1>6, <3>3
      <4>2. h \notin requests
        BY <1>7, <3>1, <3>3
      <4> QED BY <1>5, <4>1, <4>2
    <3>4. CASE h \notin CurrentCalls
      <4>1. phase'[h] = "absent"
        BY <1>6, <3>4
      <4>2. h \in requests => h \in Withdrawn
        BY <1>5, <1>7, <3>1, <3>4
      <4> QED BY <1>5, <4>1, <4>2
    <3> QED BY <3>2, <3>3, <3>4
  <2>4. requests' = { h \in Handler : phase'[h] = "asked" /\ \A i \in DOMAIN bus' :
                        ~(bus'[i].call = h /\ bus'[i].type \in { "properties", "error" }) }
    <3>1. requests' \subseteq Handler
      BY <1>1, <1>5 DEF ClientTypeOK
    <3> QED BY <2>3, <3>1
  <2>5. bus' \in Seq(Message) /\ untold' \subseteq Topic
        /\ shownActive' \in Handler \cup { NoCall } /\ shownProviders' \subseteq Provider
    BY <1>1, <1>2, <1>4 DEF Masked, ClientTypeOK
  <2> QED BY <1>1, <1>5, <2>1, <2>2, <2>4, <2>5 DEF ClientTypeOK
<1>19. Asleep'
  BY DEF Asleep
<1>20. Addressed'
  <2> SUFFICES ASSUME NEW i \in DOMAIN bus'
               PROVE  IF bus'[i].type \in AboutCall
                      THEN \E h \in Handler : bus'[i].call = h /\ Subscribed(h)'
                      ELSE bus'[i].call = NoCall
    BY DEF Addressed, Subscribed
  <2>1. CASE bus'[i].type \in AboutCall
    <3>1. PICK h \in Handler : h = bus'[i].call /\ h \in handlers \cap CurrentCalls /\ Subscribed(h)
      BY <1>15, <2>1
    <3>2. Subscribed(h)'
      BY <1>6, <3>1 DEF Subscribed
    <3> QED BY <2>1, <3>1, <3>2
  <2>2. CASE bus'[i].type \notin AboutCall
    BY <1>1, <1>9, <2>2 DEF Addressed
  <2> QED BY <2>1, <2>2
<1>21. ASSUME NEW t \in Topic PROVE Followed(t)'
  <2>1. CASE t = "voiceCalls"
    BY <1>3, <1>5, <2>1 DEF Followed, Shown, Readable
  <2>2. CASE t # "voiceCalls"
    <3> SUFFICES ASSUME t \notin untold', ~UnderWay(t)' PROVE Shown(t)' = Readable'[t]
      BY DEF Followed
    <3>1. ~UnderWay(t)
      BY <1>17, <2>2 DEF UnderWay
    <3>2. Shown(t) = Readable[t]
      BY <1>4, <2>2, <3>1 DEF ClientInv, Followed
    <3>3. Shown(t)' = Shown(t)
      BY <1>4, <2>2 DEF Shown, Topic
    <3> QED BY <1>3, <3>2, <3>3
  <2> QED BY <2>1, <2>2
<1>22. ActiveFound'
  <2> SUFFICES ASSUME "activeVoiceCall" \notin untold', NEW i \in DOMAIN bus', LastActive(i)',
                      activeVoiceCall' # NoCall
               PROVE  Findable(i)'
    BY DEF ActiveFound
  <2>0. PICK k \in DOMAIN bus : k = i + n /\ bus'[i] = bus[k] /\ i \in Nat
    <3>1. bus'[i].type # "unheard"
      BY DEF LastActive
    <3> QED BY <1>9, <3>1
  <2>1. LastActive(k)
    <3>1. bus[k].type = "activeVoiceCall"
      BY <2>0 DEF LastActive
    <3>2. ASSUME NEW j \in DOMAIN bus, j > k, bus[j].type = "activeVoiceCall" PROVE FALSE
      <4>1. PICK l \in DOMAIN bus' : l = j - n /\ bus'[l] = bus[j]
        BY <1>17, <3>2 DEF Topic
      <4>2. l > i
        BY <1>2, <2>0, <3>2, <4>1 DEF Masked
      <4> QED BY <3>2, <4>1, <4>2 DEF LastActive
    <3> QED BY <3>1, <3>2 DEF LastActive
  <2>2. activeVoiceCall \in CurrentCalls
    BY <1>1, <1>3, <1>4, <2>1 DEF ActiveFound, Findable
  <2> QED BY <1>3, <1>5, <2>2 DEF Findable
<1>23. Reachable'
  <2>1. ASSUME NEW h \in CurrentCalls, h \notin voiceCalls PROVE h \in Refusable
    <3>1. PICK p \in providers : h \in calls[p]
      BY DEF CurrentCalls
    <3>2. WithDeviceLock /\ ~isEmergency[h]
      BY <1>1, <2>1, <3>1 DEF RegisteredCallsKnown
    <3> QED BY <1>3, <3>2 DEF Refusable
  <2> QED BY <1>3, <1>5, <2>1 DEF Reachable
<1>24. ASSUME NEW h, NEW i \in DOMAIN bus', Tells(i, h)'
       PROVE  \E k \in DOMAIN bus : k = i + n /\ Tells(k, h) /\ bus'[i] = bus[k] /\ h \in handlers \cap CurrentCalls
  <2>1. bus'[i].type \in AboutCall
    BY <1>24 DEF Tells, AboutCall
  <2>2. PICK k \in DOMAIN bus : k = i + n /\ bus'[i] = bus[k] /\ bus[k].call \in handlers \cap CurrentCalls
    BY <1>15, <2>1
  <2> QED BY <1>24, <2>2 DEF Tells
<1>25. ASSUME NEW h \in CurrentCalls, NEW k \in DOMAIN bus, Tells(k, h)
       PROVE  \E i \in DOMAIN bus' : i = k - n /\ Tells(i, h)' /\ bus'[i] = bus[k]
  <2>1. bus[k].type \in AboutCall /\ bus[k].call \in CurrentCalls
    BY <1>25 DEF Tells, AboutCall
  <2>2. PICK i \in DOMAIN bus' : i = k - n /\ bus'[i] = bus[k]
    BY <1>16, <2>1
  <2> QED BY <1>25, <2>2 DEF Tells
<1>26. ToldOfExported'
  <2> SUFFICES ASSUME NEW h \in Handler, phase'[h] = "known" \/ (\E i \in DOMAIN bus' : Tells(i, h)')
               PROVE  h \in voiceCalls \cup gone
    BY <1>3 DEF ToldOfExported
  <2>1. phase[h] = "known" \/ \E i \in DOMAIN bus : Tells(i, h)
    BY <1>6, <1>24
  <2> QED BY <1>1, <2>1 DEF ToldOfExported
<1>27. LatestNews'
  <2> SUFFICES ASSUME NEW h \in Exported, NEW i \in DOMAIN bus', Tells(i, h)',
                      \A j \in DOMAIN bus' : Tells(j, h)' => j <= i
               PROVE  bus'[i].status = status[h]
    BY <1>3 DEF LatestNews
  <2>1. PICK k \in DOMAIN bus : k = i + n /\ Tells(k, h) /\ bus'[i] = bus[k] /\ h \in CurrentCalls
    BY <1>24
  <2>2. ASSUME NEW j \in DOMAIN bus, Tells(j, h) PROVE j <= k
    <3>1. PICK l \in DOMAIN bus' : l = j - n /\ Tells(l, h)'
      BY <1>25, <2>1, <2>2
    <3>2. l <= i /\ j \in Nat /\ i \in Nat
      BY <1>2, <3>1 DEF Masked
    <3> QED BY <1>2, <2>1, <3>1, <3>2
  <2> QED BY <1>1, <2>1, <2>2 DEF LatestNews
<1>28. MirrorCurrent'
  <2> SUFFICES ASSUME NEW h \in Exported, phase'[h] = "known", \A i \in DOMAIN bus' : ~Tells(i, h)'
               PROVE  mirror'[h] = status[h]
    BY <1>3 DEF MirrorCurrent
  <2>1. h \in handlers \cap CurrentCalls /\ phase[h] = "known" /\ mirror'[h] = mirror[h]
    BY <1>3, <1>6
  <2>2. \A i \in DOMAIN bus : ~Tells(i, h)
    BY <1>25, <2>1
  <2> QED BY <1>1, <2>1, <2>2 DEF MirrorCurrent
<1>29. FailedRefused'
  <2> SUFFICES ASSUME NEW h \in Handler,
                      phase'[h] = "failed"
                        \/ (\E i \in DOMAIN bus' : bus'[i].call = h /\ bus'[i].type = "error")
               PROVE  h \in gone \cup Refusable
    BY <1>3 DEF FailedRefused
  <2>1. phase[h] = "failed" \/ \E i \in DOMAIN bus : bus[i].call = h /\ bus[i].type = "error"
    BY <1>6, <1>15 DEF AboutCall
  <2> QED BY <1>1, <2>1 DEF FailedRefused
<1> QED BY <1>18, <1>19, <1>20, <1>21, <1>22, <1>23, <1>26, <1>27, <1>28, <1>29 DEF ClientInv

\* getProperties is answered.
LEMMA AnswerStep ==
    ASSUME ClientInv, DaemonInv', NEW h \in Handler, GetProperties(h)
    PROVE  ClientInv'
<1> DEFINE m == IF h \in Exported THEN CallMessage("properties", h, status[h])
                ELSE CallMessage("error", h, "NULL")
<1>1. /\ ClientTypeOK /\ Asleep /\ Addressed /\ ActiveFound /\ Reachable /\ ToldOfExported
      /\ LatestNews /\ MirrorCurrent /\ FailedRefused /\ DaemonInv
      /\ TypeOK /\ TypeOK' /\ NoCall \notin Handler
  BY NoCallAssumption DEF ClientInv, DaemonInv, IInv
<1>2. /\ h \in requests /\ requests' = requests \ { h } /\ bus' = Append(bus, m)
      /\ UNCHANGED vars /\ client' = client /\ shownActive' = shownActive
      /\ shownProviders' = shownProviders /\ handlers' = handlers /\ phase' = phase
      /\ mirror' = mirror /\ untold' = untold
  BY DEF GetProperties
<1>3. /\ CurrentCalls' = CurrentCalls /\ Exported' = Exported /\ Announced' = Announced
      /\ Readable' = Readable /\ Refusable' = Refusable /\ status' = status /\ gone' = gone
      /\ voiceCalls' = voiceCalls /\ activeVoiceCall' = activeVoiceCall
      /\ Exported \subseteq Handler /\ Exported = voiceCalls \ gone
  BY <1>1, <1>2, DaemonAlone DEF Exported, TypeOK
<1>4. /\ m \in Message /\ m.call = h /\ m.type \in { "properties", "error" }
      /\ m.type = "properties" => h \in Exported /\ m.status = status[h]
      /\ m.type = "error" => h \notin Exported
  <2>1. status[h] \in Status /\ "NULL" \in Status
    BY <1>1, StatusAssumption DEF TypeOK
  <2> QED BY <2>1 DEF CallMessage, Message
<1> HIDE DEF m
<1>5. /\ phase[h] = "asked" /\ h \in handlers
      /\ \A i \in DOMAIN bus : ~(bus[i].call = h /\ bus[i].type \in { "properties", "error" })
  BY <1>1, <1>2 DEF ClientTypeOK
<1>6. /\ bus' \in Seq(Message) /\ bus \in Seq(Message)
      /\ \A i \in DOMAIN bus : i \in DOMAIN bus' /\ bus'[i] = bus[i] /\ i \in Nat /\ i <= Len(bus)
      /\ Len(bus) + 1 \in DOMAIN bus' /\ bus'[Len(bus) + 1] = m /\ Len(bus) \in Nat
      /\ \A i \in DOMAIN bus' : i \in DOMAIN bus \/ i = Len(bus) + 1
  <2>1. bus \in Seq(Message)
    BY <1>1 DEF ClientTypeOK
  <2>2. /\ bus' \in Seq(Message) /\ DOMAIN bus = 1 .. Len(bus) /\ Len(bus) \in Nat
        /\ DOMAIN bus' = 1 .. Len(bus) + 1
    BY <1>2, <1>4, <2>1
  <2>3. bus'[Len(bus) + 1] = m /\ \A i \in 1 .. Len(bus) : bus'[i] = bus[i]
    BY <1>2, <1>4, <2>1
  <2> QED BY <2>1, <2>2, <2>3
<1>7. PICK last \in DOMAIN bus' : last = Len(bus) + 1 /\ bus'[last] = m
  BY <1>6
<1>8. \A i \in DOMAIN bus' : i \in DOMAIN bus \/ i = last
  BY <1>6, <1>7
<1>9. m.type \notin Topic /\ m.type \in AboutCall
  BY <1>4 DEF Topic, AboutCall
<1>10. ClientTypeOK'
  <2>1. \A i \in DOMAIN bus' : bus'[i].call \in handlers' \cup { NoCall }
    BY <1>1, <1>2, <1>4, <1>5, <1>6, <1>7, <1>8 DEF ClientTypeOK
  <2>2. ASSUME NEW g \in Handler
        PROVE  g \in requests' <=> phase'[g] = "asked" /\ \A i \in DOMAIN bus' :
                        ~(bus'[i].call = g /\ bus'[i].type \in { "properties", "error" })
    <3>1. g \in requests <=> phase[g] = "asked" /\ \A i \in DOMAIN bus :
                        ~(bus[i].call = g /\ bus[i].type \in { "properties", "error" })
      BY <1>1 DEF ClientTypeOK
    <3>2. CASE g = h
      BY <1>2, <1>4, <1>7, <3>2
    <3>3. CASE g # h
      <4>1. (\A i \in DOMAIN bus : ~(bus[i].call = g /\ bus[i].type \in { "properties", "error" }))
            <=> (\A i \in DOMAIN bus' : ~(bus'[i].call = g /\ bus'[i].type \in { "properties", "error" }))
        BY <1>4, <1>6, <1>7, <1>8, <3>3
      <4> QED BY <1>2, <3>1, <3>3, <4>1
    <3> QED BY <3>2, <3>3
  <2>3. requests' = { g \in Handler : phase'[g] = "asked" /\ \A i \in DOMAIN bus' :
                        ~(bus'[i].call = g /\ bus'[i].type \in { "properties", "error" }) }
    <3>1. requests' \subseteq Handler
      BY <1>1, <1>2 DEF ClientTypeOK
    <3> QED BY <2>2, <3>1
  <2> QED BY <1>1, <1>2, <1>6, <2>1, <2>3 DEF ClientTypeOK
<1>11. Asleep'
  <2>1. client \notin { "absent", "waiting" }
    BY <1>1, <1>5 DEF Asleep
  <2> QED BY <1>1, <1>2, <2>1 DEF Asleep
<1>12. Subscribed(h) /\ \A g : Subscribed(g)' <=> Subscribed(g)
  BY <1>2, <1>5 DEF Subscribed
<1>13. Addressed'
  <2> SUFFICES ASSUME NEW i \in DOMAIN bus'
               PROVE  IF bus'[i].type \in AboutCall
                      THEN bus'[i].call \in Handler /\ Subscribed(bus'[i].call)
                      ELSE bus'[i].call = NoCall
    BY <1>12 DEF Addressed
  <2>1. CASE i \in DOMAIN bus
    BY <1>1, <1>6, <2>1 DEF Addressed
  <2>2. CASE i = last
    BY <1>4, <1>7, <1>9, <1>12, <2>2
  <2> QED BY <1>8, <2>1, <2>2
<1>14. ASSUME NEW t \in Topic PROVE Followed(t)'
  <2>1. Shown(t)' = Shown(t)
    BY <1>2 DEF Shown
  <2>2. ~UnderWay(t)' => ~UnderWay(t)
    BY <1>6 DEF UnderWay
  <2> QED BY <1>2, <1>3, <2>1, <2>2 DEF Followed, ClientInv
<1>15. ActiveFound'
  <2> SUFFICES ASSUME client \in { "reading", "ready" }, "activeVoiceCall" \notin untold,
                      NEW i \in DOMAIN bus', LastActive(i)', activeVoiceCall # NoCall
               PROVE  Findable(i)'
    BY <1>2, <1>3 DEF ActiveFound
  <2>1. i \in DOMAIN bus
    BY <1>7, <1>8, <1>9 DEF LastActive, Topic
  <2>2. LastActive(i)
    BY <1>6, <2>1 DEF LastActive
  <2>3. Findable(i)
    BY <1>1, <2>1, <2>2 DEF ActiveFound
  <2> QED BY <1>2, <1>3, <1>6, <2>3 DEF Findable
<1>16. Reachable'
  BY <1>1, <1>2, <1>3 DEF Reachable
<1>17. \A g : \A i \in DOMAIN bus : Tells(i, g) <=> Tells(i, g)'
  BY <1>6 DEF Tells
<1>18. \A g : Tells(last, g)' <=> g = h /\ m.type = "properties"
  BY <1>4, <1>7 DEF Tells
<1>19. ToldOfExported'
  <2> SUFFICES ASSUME NEW g \in Handler, phase[g] = "known" \/ (\E i \in DOMAIN bus' : Tells(i, g)')
               PROVE  g \in voiceCalls \cup gone
    BY <1>2, <1>3 DEF ToldOfExported
  <2>1. CASE g = h /\ m.type = "properties"
    BY <1>3, <1>4, <2>1
  <2>2. CASE ~(g = h /\ m.type = "properties")
    <3>1. phase[g] = "known" \/ \E i \in DOMAIN bus : Tells(i, g)
      BY <1>8, <1>17, <1>18, <2>2
    <3> QED BY <1>1, <3>1 DEF ToldOfExported
  <2> QED BY <2>1, <2>2
<1>20. LatestNews'
  <2> SUFFICES ASSUME NEW g \in Exported, NEW i \in DOMAIN bus', Tells(i, g)',
                      \A j \in DOMAIN bus' : Tells(j, g)' => j <= i
               PROVE  bus'[i].status = status[g]
    BY <1>3 DEF LatestNews
  <2>1. CASE i = last
    BY <1>4, <1>7, <1>18, <2>1
  <2>2. CASE i \in DOMAIN bus
    BY <1>1, <1>6, <1>17, <2>2 DEF LatestNews
  <2> QED BY <1>8, <2>1, <2>2
<1>21. MirrorCurrent'
  <2> SUFFICES ASSUME NEW g \in Exported, phase[g] = "known", \A i \in DOMAIN bus' : ~Tells(i, g)'
               PROVE  mirror[g] = status[g]
    BY <1>2, <1>3 DEF MirrorCurrent
  <2>1. \A i \in DOMAIN bus : ~Tells(i, g)
    BY <1>6, <1>17
  <2> QED BY <1>1, <2>1 DEF MirrorCurrent
<1>22. FailedRefused'
  <2> SUFFICES ASSUME NEW g \in Handler,
                      phase[g] = "failed"
                        \/ (\E i \in DOMAIN bus' : bus'[i].call = g /\ bus'[i].type = "error")
               PROVE  g \in gone \cup Refusable
    BY <1>2, <1>3 DEF FailedRefused
  <2>1. CASE g = h /\ m.type = "error"
    BY <1>1, <1>3, <1>4, <1>5, <2>1 DEF Reachable
  <2>2. CASE ~(g = h /\ m.type = "error")
    <3>1. phase[g] = "failed" \/ \E i \in DOMAIN bus : bus[i].call = g /\ bus[i].type = "error"
      BY <1>4, <1>6, <1>7, <1>8, <2>2
    <3> QED BY <1>1, <3>1 DEF FailedRefused
  <2> QED BY <2>1, <2>2
<1> QED BY <1>10, <1>11, <1>13, <1>14, <1>15, <1>16, <1>19, <1>20, <1>21, <1>22 DEF ClientInv

\* A handler connects to its call and asks for the properties.
LEMMA ConnectStep ==
    ASSUME ClientInv, DaemonInv', NEW h \in Handler, HandlerInitialize(h)
    PROVE  ClientInv'
<1>1. /\ ClientTypeOK /\ Asleep /\ Addressed /\ ActiveFound /\ Reachable /\ ToldOfExported
      /\ LatestNews /\ MirrorCurrent /\ FailedRefused /\ DaemonInv
      /\ TypeOK /\ TypeOK' /\ NoCall \notin Handler
  BY NoCallAssumption DEF ClientInv, DaemonInv, IInv
<1>2. /\ UNCHANGED vars /\ client' = client /\ client = "ready" /\ phase[h] = "new"
      /\ shownActive' = shownActive /\ shownProviders' = shownProviders /\ handlers' = handlers
      /\ mirror' = mirror /\ untold' = untold /\ bus' = bus /\ requests' = requests \cup { h }
      /\ phase' = [phase EXCEPT ![h] = "asked"]
  BY DEF HandlerInitialize
<1>3. /\ CurrentCalls' = CurrentCalls /\ Exported' = Exported /\ Announced' = Announced
      /\ Readable' = Readable /\ Refusable' = Refusable /\ status' = status /\ gone' = gone
      /\ voiceCalls' = voiceCalls /\ activeVoiceCall' = activeVoiceCall /\ Exported \subseteq Handler
  BY <1>1, <1>2, DaemonAlone DEF Exported, TypeOK
<1>4. phase' \in [Handler -> Phase] /\ \A g \in Handler : phase'[g] = IF g = h THEN "asked" ELSE phase[g]
  <2>1. phase \in [Handler -> Phase] /\ "asked" \in Phase
    BY <1>1 DEF ClientTypeOK, Phase
  <2> QED BY <1>2, <2>1
\* No message is about it yet.
<1>5. \A i \in DOMAIN bus : bus[i].call # h
  <2>1. ~Subscribed(h) /\ h # NoCall
    BY <1>1, <1>2 DEF Subscribed
  <2> QED BY <1>1, <2>1 DEF Addressed
<1>6. ClientTypeOK'
  <2>1. handlers' = { g \in Handler : phase'[g] # "absent" }
    BY <1>1, <1>2, <1>4 DEF ClientTypeOK
  <2>2. requests' = { g \in Handler : phase'[g] = "asked" /\ \A i \in DOMAIN bus' :
                        ~(bus'[i].call = g /\ bus'[i].type \in { "properties", "error" }) }
    BY <1>1, <1>2, <1>4, <1>5 DEF ClientTypeOK
  <2> QED BY <1>1, <1>2, <1>4, <2>1, <2>2 DEF ClientTypeOK
<1>7. \A g \in Handler : Subscribed(g) => Subscribed(g)'
  BY <1>4 DEF Subscribed
<1>8. Asleep' /\ Addressed' /\ Reachable'
  <2>1. Addressed'
    BY <1>1, <1>2, <1>7 DEF Addressed
  <2> QED BY <1>1, <1>2, <1>3, <2>1 DEF Asleep, Reachable
<1>9. ASSUME NEW t \in Topic PROVE Followed(t)'
  BY <1>2, <1>3 DEF Followed, Shown, UnderWay, ClientInv
<1>10. ActiveFound'
  BY <1>1, <1>2, <1>3 DEF ActiveFound, LastActive, Findable
<1>11. \A i, g : Tells(i, g)' <=> Tells(i, g)
  BY <1>2 DEF Tells
<1>12. ToldOfExported' /\ LatestNews' /\ MirrorCurrent' /\ FailedRefused'
  <2>1. ToldOfExported'
    BY <1>1, <1>2, <1>3, <1>4, <1>11 DEF ToldOfExported
  <2>2. LatestNews'
    BY <1>1, <1>2, <1>3, <1>11 DEF LatestNews
  <2>3. MirrorCurrent'
    BY <1>1, <1>2, <1>3, <1>4, <1>11 DEF MirrorCurrent
  <2>4. FailedRefused'
    BY <1>1, <1>2, <1>3, <1>4 DEF FailedRefused
  <2> QED BY <2>1, <2>2, <2>3, <2>4
<1> QED BY <1>6, <1>8, <1>9, <1>10, <1>12 DEF ClientInv

\* The client starts, and connects to the daemon.
LEMMA StartStep ==
    ASSUME ClientInv, DaemonInv', ClientStarts \/ Initialize
    PROVE  ClientInv'
<1>1. /\ ClientTypeOK /\ Asleep /\ DaemonInv /\ TypeOK /\ TypeOK'
  BY DEF ClientInv, DaemonInv, IInv
<1>2. /\ UNCHANGED vars /\ client \in { "absent", "waiting" } /\ client' \in { "waiting", "reading" }
      /\ shownActive' \in { shownActive, NoCall } /\ handlers' = handlers /\ phase' = phase
      /\ mirror' = mirror /\ requests' = requests /\ bus' = bus
      /\ client' = "waiting" => shownProviders' \in { {}, providers } /\ untold' = untold
      /\ client' = "reading" => shownActive' = NoCall /\ shownProviders' = shownProviders
  BY DEF ClientStarts, Initialize, mirrorVars
<1>3. bus = << >> /\ handlers = {} /\ DOMAIN bus = {}
  BY <1>1, <1>2 DEF Asleep
<1>4. \A h \in Handler : phase[h] = "absent"
  BY <1>1, <1>3 DEF ClientTypeOK
<1>5. client' = "reading" => untold' = { t \in Topic : CASE t = "voiceCalls" -> FALSE
                                   [] t = "activeVoiceCall" -> Readable[t] # NoCall
                                   [] t = "providers" -> Readable[t] # shownProviders }
  BY DEF ClientStarts, Initialize
<1>6. ClientTypeOK'
  <2>1. untold' \subseteq Topic
    BY <1>1, <1>2, <1>5 DEF ClientTypeOK
  <2>2. shownProviders' \subseteq Provider /\ shownActive' \in Handler \cup { NoCall }
    BY <1>1, <1>2 DEF ClientTypeOK, TypeOK
  <2> QED BY <1>1, <1>2, <1>3, <2>1, <2>2 DEF ClientTypeOK
<1>7. Asleep' /\ Addressed' /\ ActiveFound' /\ Reachable'
  BY <1>2, <1>3 DEF Asleep, Addressed, ActiveFound, Reachable
<1>8. ASSUME NEW t \in Topic PROVE Followed(t)'
  <2> SUFFICES ASSUME client' = "reading", t # "voiceCalls", t \notin untold' PROVE Shown(t)' = Readable[t]
    <3>1. Readable' = Readable /\ client' # "ready"
      BY <1>2, DaemonAlone
    <3> QED BY <3>1 DEF Followed
  <2>1. CASE t = "activeVoiceCall"
    BY <1>2, <1>5, <2>1 DEF Shown
  <2>2. CASE t = "providers"
    BY <1>2, <1>5, <2>2 DEF Shown
  <2> QED BY <2>1, <2>2 DEF Topic
<1>9. ToldOfExported' /\ LatestNews' /\ MirrorCurrent' /\ FailedRefused'
  <2>1. Exported' \subseteq Handler
    BY <1>1 DEF Exported, TypeOK
  <2> QED BY <1>2, <1>3, <1>4, <2>1 DEF ToldOfExported, LatestNews, MirrorCurrent, FailedRefused
<1> QED BY <1>6, <1>7, <1>8, <1>9 DEF ClientInv

LEMMA InitClientInv == ClientInit => ClientInv
<1> SUFFICES ASSUME ClientInit PROVE ClientInv
  OBVIOUS
<1>1. /\ IInv /\ TypeOK /\ bus = << >> /\ handlers = {} /\ client = "absent" /\ DOMAIN bus = {}
      /\ phase = [h \in Handler |-> "absent"] /\ Exported = {}
  BY InitIInv DEF ClientInit, IInv, Exported, Init, ManagerInit
<1>2. GoneUnlisted /\ TableListed /\ CallsFinite
  BY FS_EmptySet DEF ClientInit, Init, ManagerInit, GoneUnlisted, TableListed, CallsFinite
<1>3. ClientTypeOK
  <2>1. mirror \in [Handler -> Status]
    BY StatusAssumption DEF ClientInit
  <2>2. phase \in [Handler -> Phase] /\ requests = {} /\ untold = {} /\ shownProviders = {}
        /\ shownActive = NoCall
    BY DEF ClientInit, Phase
  <2> QED BY <1>1, <2>1, <2>2 DEF ClientTypeOK
<1> QED BY <1>1, <1>2, <1>3 DEF ClientInv, DaemonInv, Asleep, Addressed, Followed, ActiveFound,
        Reachable, ToldOfExported, LatestNews, MirrorCurrent, FailedRefused

LEMMA ClientInvStep == ASSUME ClientInv, [ClientNext]_<< vars, clientVars >> PROVE ClientInv'
<1>1. DaemonInv /\ [Next]_vars
  BY StepOfManager DEF ClientInv
<1>2. DaemonInv' /\ Lists /\ TypeOK'
  BY <1>1, DaemonInvStep, DaemonLists DEF DaemonInv, IInv
<1>3. CASE Unasked
  <2>1. PICK msgs \in Batches : DaemonSends(msgs) /\ StatusTold(msgs)
    BY <1>1, <1>2, <1>3, UnaskedBatch
  <2> QED BY <1>2, <2>1, UnheardStep, HeardStep
<1>4. ASSUME NEW h \in Handler, GetProperties(h) \/ HandlerInitialize(h) PROVE ClientInv'
  BY <1>2, <1>4, AnswerStep, ConnectStep
<1>5. CASE ClientStarts \/ Initialize
  BY <1>2, <1>5, StartStep
<1>6. CASE FirstRead \/ OnVoiceCallsChanged
  <2>1. CASE FirstRead
    BY <1>2, <2>1, ReadStep DEF FirstRead
  <2>2. CASE OnVoiceCallsChanged
    BY <1>2, <2>2, ReadStep DEF OnVoiceCallsChanged, Received
  <2> QED BY <1>6, <2>1, <2>2
<1>7. CASE OnActiveVoiceCallChanged \/ OnProvidersChanged \/ NobodyListens
           \/ OnStatusChanged \/ OnGetPropertiesFinished
  <2>1. UNCHANGED vars /\ client = "ready" /\ client' = "ready" /\ bus # << >> /\ bus' = Tail(bus)
    BY <1>7 DEF OnActiveVoiceCallChanged, OnProvidersChanged, NobodyListens, OnStatusChanged,
        OnGetPropertiesFinished, Received
  <2>2. Taken(Head(bus))
    <3>1. CASE OnActiveVoiceCallChanged
      BY <3>1 DEF OnActiveVoiceCallChanged, Received, Taken, mirrorVars
    <3>2. CASE OnProvidersChanged
      BY <3>2 DEF OnProvidersChanged, ProvidersRead, Received, Taken, mirrorVars
    <3>3. CASE NobodyListens
      BY <3>3 DEF NobodyListens, Received, Taken, mirrorVars
    <3>4. CASE OnStatusChanged
      BY <3>4 DEF OnStatusChanged, Received, Taken
    <3>5. CASE OnGetPropertiesFinished
      BY <3>5 DEF OnGetPropertiesFinished, Received, Taken
    <3> QED BY <1>7, <3>1, <3>2, <3>3, <3>4, <3>5
  <2> QED BY <1>2, <2>1, <2>2, TakenStep
<1>8. CASE UNCHANGED << vars, clientVars >>
  <2>1. /\ UNCHANGED vars /\ client' = client /\ shownActive' = shownActive
        /\ shownProviders' = shownProviders /\ handlers' = handlers /\ phase' = phase
        /\ mirror' = mirror /\ requests' = requests /\ bus' = bus /\ untold' = untold
    BY <1>8 DEF clientVars, mirrorVars
  <2>2. /\ CurrentCalls' = CurrentCalls /\ Exported' = Exported /\ Announced' = Announced
        /\ Readable' = Readable /\ Refusable' = Refusable /\ status' = status /\ gone' = gone
        /\ voiceCalls' = voiceCalls /\ activeVoiceCall' = activeVoiceCall
    BY <2>1, DaemonAlone
  <2>3. ClientTypeOK' /\ Asleep' /\ Addressed' /\ ActiveFound' /\ Reachable' /\ \A t \in Topic : Followed(t)'
    <3>1. ClientTypeOK'
      BY <1>2, <2>1 DEF ClientInv, ClientTypeOK
    <3> QED BY <2>1, <2>2, <3>1 DEF ClientInv, Asleep, Addressed, Subscribed, ActiveFound,
            LastActive, Findable, Reachable, Followed, UnderWay, Shown
  <2>4. ToldOfExported' /\ LatestNews' /\ MirrorCurrent' /\ FailedRefused'
    BY <2>1, <2>2 DEF ClientInv, ToldOfExported, LatestNews, MirrorCurrent, FailedRefused, Tells
  <2> QED BY <1>2, <2>3, <2>4 DEF ClientInv
<1> QED BY <1>3, <1>4, <1>5, <1>6, <1>7, <1>8 DEF ClientNext, DaemonStep, ClientStep, Unasked

LEMMA ClientInvariance == ClientSpec => []ClientInv
<1>1. ClientInv /\ [ClientNext]_<< vars, clientVars >> => ClientInv'
  BY ClientInvStep
<1> QED BY InitClientInv, <1>1, PTL DEF ClientSpec

-----------------------------------------------------------------------------

\* A client changes nothing for the daemon: with one, it is VoiceCallManager still, and
\* what is proved of that holds.
THEOREM ClientImplementsManager == ClientSpec => Spec
<1>1. ClientInit => Init
  BY DEF ClientInit
<1>2. [ClientNext]_<< vars, clientVars >> => [Next]_vars
  BY StepOfManager
<1> QED BY <1>1, <1>2, PTL DEF ClientSpec, Spec

\* What is under way is for handlers the client still has: no answer to one handler
\* ever reaches another that has taken its place.
THEOREM ClientTypeCorrect == ClientSpec => []ClientTypeOK
<1>1. ClientInv => ClientTypeOK
  BY DEF ClientInv
<1> QED BY ClientInvariance, <1>1, PTL

\* onVoiceCallsChanged: a client that has worked off its signals lists the calls there
\* are, for any number of calls and however far it lags behind.
THEOREM ModelAlwaysFollows == ClientSpec => []ModelFollows
<1>1. ClientInv => ModelFollows
  <2> SUFFICES ASSUME ClientInv, Settled("voiceCalls") PROVE handlers = CurrentCalls
    BY DEF ModelFollows
  <2>1. "voiceCalls" \in Topic
    BY DEF Topic
  <2> QED BY <2>1 DEF ClientInv, Followed, Settled, UnderWay, Shown, Readable
<1> QED BY ClientInvariance, <1>1, PTL

\* onActiveVoiceCallChanged: the active call is found in the model, whatever order the
\* announcements and the reads of the two properties come in.
THEOREM ActiveAlwaysFollows == ClientSpec => []ActiveFollows
<1>1. ClientInv => ActiveFollows
  <2> SUFFICES ASSUME ClientInv, Settled("activeVoiceCall")
               PROVE  shownActive = Readable["activeVoiceCall"]
    BY DEF ActiveFollows
  <2>1. "activeVoiceCall" \in Topic
    BY DEF Topic
  <2> QED BY <2>1 DEF ClientInv, Followed, Settled, UnderWay, Shown
<1> QED BY ClientInvariance, <1>1, PTL

\* onProvidersChanged: the client dials with the providers there are.
THEOREM ProvidersAlwaysFollow == ClientSpec => []ProvidersFollow
<1>1. ClientInv => ProvidersFollow
  <2> SUFFICES ASSUME ClientInv, Settled("providers") PROVE shownProviders = providers
    BY DEF ProvidersFollow
  <2>1. "providers" \in Topic
    BY DEF Topic
  <2> QED BY <2>1 DEF ClientInv, Followed, Settled, UnderWay, Shown, Readable
<1> QED BY ClientInvariance, <1>1, PTL

\* A handler that connects and asks while the call goes on ends up with the call's
\* status, unless the device lock refused the call.
THEOREM MirrorAlwaysFollows == ClientSpec => []MirrorFollows
<1>1. ClientInv => MirrorFollows
  <2> SUFFICES ASSUME ClientInv, NEW h \in handlers \cap Exported, phase[h] # "new", h \notin requests,
                      \A i \in DOMAIN bus : bus[i].call # h
               PROVE  \/ phase[h] = "known" /\ mirror[h] = status[h]
                      \/ phase[h] = "failed" /\ WithDeviceLock /\ ~isEmergency[h]
    BY DEF MirrorFollows
  <2>1. h \in Handler /\ phase[h] \in Phase \ { "absent", "new", "asked" }
    BY DEF ClientInv, ClientTypeOK
  <2>2. CASE phase[h] = "known"
    BY <2>2 DEF ClientInv, MirrorCurrent, Tells
  <2>3. CASE phase[h] = "failed"
    BY <2>1, <2>3 DEF ClientInv, FailedRefused, Exported, Refusable
  <2> QED BY <2>1, <2>2, <2>3 DEF Phase
<1> QED BY ClientInvariance, <1>1, PTL
=============================================================================
