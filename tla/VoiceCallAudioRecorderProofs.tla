---------------------- MODULE VoiceCallAudioRecorderProofs ----------------------
(***************************************************************************)
(* Proofs about VoiceCallAudioRecorder, for any number of recordings and   *)
(* however deep its functions run inside each other.                       *)
(***************************************************************************)
EXTENDS VoiceCallAudioRecorder, TLAPS

-----------------------------------------------------------------------------
(* Stacks *)

F(op, at) == [ op |-> op, at |-> at ]

\* Below the i-th function of s a startRecording() is still inside input->start().
PendingIn(s, i) == \E j \in (i + 1)..Len(s) : s[j] = F("initiate", "active")

\* The innermost function goes on as f; f is called; the innermost function goes on as
\* g and has called f.
Replaced(s, f) == << f >> \o Tail(s)
Pushed(s, f) == << f >> \o s
Called(s, g, f) == Pushed(Replaced(s, g), f)

LEMMA Lengths ==
    ASSUME NEW s \in Seq(Frame)
    PROVE  Len(s) \in Nat /\ (s # << >> => Len(s) >= 1 /\ 1 \in 1..Len(s) /\ Head(s) = s[1])
OBVIOUS

\* What that makes of the stack s.
IsReplaced(t, s, f) ==
    /\ t \in Seq(Frame) /\ t # << >> /\ Len(t) = Len(s) /\ Len(s) \in Nat
    /\ t[1] = f
    /\ \A i \in 2..Len(s) : t[i] = s[i]
    /\ \A i \in 1..Len(s) : PendingIn(t, i) <=> PendingIn(s, i)

IsPushed(t, s, f) ==
    /\ t \in Seq(Frame) /\ t # << >> /\ Len(t) = Len(s) + 1 /\ Len(s) \in Nat
    /\ t[1] = f
    /\ \A i \in 2..(Len(s) + 1) : /\ i - 1 \in 1..Len(s)
                                  /\ t[i] = s[i - 1]
                                  /\ PendingIn(t, i) <=> PendingIn(s, i - 1)
    /\ PendingIn(t, 1) <=> PendingIn(s, 0)

IsPopped(t, s) ==
    /\ t \in Seq(Frame) /\ Len(t) = Len(s) - 1 /\ Len(s) \in Nat
    /\ \A i \in 1..(Len(s) - 1) : /\ i + 1 \in 2..Len(s)
                                  /\ t[i] = s[i + 1]
                                  /\ PendingIn(t, i) <=> PendingIn(s, i + 1)
    /\ PendingIn(t, 0) <=> PendingIn(s, 1)

IsCalled(t, s, g, f) ==
    /\ t \in Seq(Frame) /\ t # << >> /\ Len(t) = Len(s) + 1 /\ Len(s) \in Nat
    /\ t[1] = f /\ t[2] = g
    /\ \A i \in 3..(Len(s) + 1) : /\ i - 1 \in 2..Len(s)
                                  /\ t[i] = s[i - 1]
                                  /\ PendingIn(t, i) <=> PendingIn(s, i - 1)
    /\ PendingIn(t, 2) <=> PendingIn(s, 1)

LEMMA Replace ==
    ASSUME NEW s \in Seq(Frame), s # << >>, NEW f \in Frame
    PROVE  IsReplaced(Replaced(s, f), s, f)
<1> DEFINE t == Replaced(s, f)
<1>1. /\ t \in Seq(Frame) /\ t # << >> /\ Len(t) = Len(s) /\ t[1] = f /\ Len(s) \in Nat
      /\ \A i \in 2..Len(s) : t[i] = s[i]
  BY DEF Replaced
<1> QED BY <1>1 DEF PendingIn, IsReplaced

LEMMA Push ==
    ASSUME NEW s \in Seq(Frame), NEW f \in Frame
    PROVE  IsPushed(Pushed(s, f), s, f)
<1> DEFINE t == Pushed(s, f)
<1>1. /\ t \in Seq(Frame) /\ t # << >> /\ Len(t) = Len(s) + 1 /\ t[1] = f /\ Len(s) \in Nat
      /\ \A i \in 1..Len(s) : t[i + 1] = s[i]
      /\ \A i \in 2..(Len(s) + 1) : i - 1 \in 1..Len(s) /\ t[i] = s[i - 1]
  BY DEF Pushed
<1> HIDE DEF t
<1>2. ASSUME NEW i \in 1..(Len(s) + 1), PendingIn(t, i) PROVE PendingIn(s, i - 1)
  <2>1. PICK j \in (i + 1)..Len(t) : t[j] = F("initiate", "active")
    BY <1>2 DEF PendingIn
  <2>2. j - 1 \in ((i - 1) + 1)..Len(s) /\ s[j - 1] = F("initiate", "active")
    BY <1>1, <2>1
  <2> QED BY <2>2 DEF PendingIn
<1>3. ASSUME NEW i \in 1..(Len(s) + 1), PendingIn(s, i - 1) PROVE PendingIn(t, i)
  <2>1. PICK j \in ((i - 1) + 1)..Len(s) : s[j] = F("initiate", "active")
    BY <1>3 DEF PendingIn
  <2>2. j + 1 \in (i + 1)..Len(t) /\ t[j + 1] = F("initiate", "active")
    BY <1>1, <2>1
  <2> QED BY <2>2 DEF PendingIn
<1>4. \A i \in 1..(Len(s) + 1) : PendingIn(t, i) <=> PendingIn(s, i - 1)
  BY <1>2, <1>3
<1>5. 1 \in 1..(Len(s) + 1) /\ 1 - 1 = 0
  BY <1>1
<1>6. PendingIn(t, 1) <=> PendingIn(s, 0)
  BY <1>4, <1>5
<1> QED BY <1>1, <1>4, <1>6 DEF t, IsPushed

LEMMA Pop ==
    ASSUME NEW s \in Seq(Frame), s # << >>
    PROVE  IsPopped(Tail(s), s)
<1> DEFINE t == Tail(s)
<1>1. /\ t \in Seq(Frame) /\ Len(t) = Len(s) - 1 /\ Len(s) \in Nat
      /\ \A i \in 1..(Len(s) - 1) : i + 1 \in 2..Len(s) /\ t[i] = s[i + 1]
  OBVIOUS
<1> HIDE DEF t
<1>2. ASSUME NEW i \in 0..(Len(s) - 1), PendingIn(t, i) PROVE PendingIn(s, i + 1)
  <2>1. PICK j \in (i + 1)..Len(t) : t[j] = F("initiate", "active")
    BY <1>2 DEF PendingIn
  <2>2. j + 1 \in ((i + 1) + 1)..Len(s) /\ s[j + 1] = F("initiate", "active")
    BY <1>1, <2>1
  <2> QED BY <2>2 DEF PendingIn
<1>3. ASSUME NEW i \in 0..(Len(s) - 1), PendingIn(s, i + 1) PROVE PendingIn(t, i)
  <2>1. PICK j \in ((i + 1) + 1)..Len(s) : s[j] = F("initiate", "active")
    BY <1>3 DEF PendingIn
  <2>2. j - 1 \in (i + 1)..Len(t) /\ t[j - 1] = F("initiate", "active")
    BY <1>1, <2>1
  <2> QED BY <2>2 DEF PendingIn
<1>4. \A i \in 0..(Len(s) - 1) : PendingIn(t, i) <=> PendingIn(s, i + 1)
  BY <1>2, <1>3
<1>5. Len(s) >= 1
  OBVIOUS
<1>6. 0 \in 0..(Len(s) - 1) /\ 0 + 1 = 1
  BY <1>1, <1>5
<1>7. PendingIn(t, 0) <=> PendingIn(s, 1)
  BY <1>4, <1>6
<1> QED BY <1>1, <1>4, <1>7 DEF t, IsPopped

LEMMA Call ==
    ASSUME NEW s \in Seq(Frame), s # << >>, NEW g \in Frame, NEW f \in Frame
    PROVE  IsCalled(Called(s, g, f), s, g, f)
<1> DEFINE r == Replaced(s, g)
           t == Called(s, g, f)
<1>1. IsReplaced(r, s, g) /\ r \in Seq(Frame)
  BY Replace DEF IsReplaced
<1>2. t = Pushed(r, f)
  BY DEF Called
<1> HIDE DEF r, t
<1>3. IsPushed(t, r, f)
  BY <1>1, <1>2, Push
<1>4. Len(s) >= 1 /\ 2 \in 2..(Len(r) + 1) /\ 2 - 1 = 1 /\ 1 \in 1..Len(s)
  BY <1>1, Lengths DEF IsReplaced
<1>5. t[2] = g /\ (PendingIn(t, 2) <=> PendingIn(s, 1))
  BY <1>1, <1>3, <1>4 DEF IsReplaced, IsPushed
<1>6. ASSUME NEW i \in 3..(Len(s) + 1)
      PROVE  /\ i - 1 \in 2..Len(s)
             /\ t[i] = s[i - 1]
             /\ PendingIn(t, i) <=> PendingIn(s, i - 1)
  <2>1. i - 1 \in 2..Len(s) /\ i - 1 \in 1..Len(s) /\ i \in 2..(Len(r) + 1)
    BY <1>1 DEF IsReplaced
  <2> QED BY <1>1, <1>3, <2>1 DEF IsReplaced, IsPushed
<1>7. t \in Seq(Frame) /\ t # << >> /\ Len(t) = Len(s) + 1 /\ Len(s) \in Nat /\ t[1] = f
  BY <1>1, <1>3 DEF IsReplaced, IsPushed
<1> QED BY <1>5, <1>6, <1>7 DEF t, IsCalled

\* The innermost function, and what is below it.
LEMMA PendingTop ==
    ASSUME NEW s \in Seq(Frame)
    PROVE  /\ PendingIn(s, 0) <=> (s # << >> /\ (s[1] = F("initiate", "active") \/ PendingIn(s, 1)))
           /\ \A i \in 1..Len(s) : PendingIn(s, i) => PendingIn(s, i - 1) /\ PendingIn(s, 0)
BY DEF PendingIn

-----------------------------------------------------------------------------
(* The inductive invariant *)

\* A file is open while the recorder says that it does not record only for as long as
\* an initiateRecording() is still to say so.
OpenUnseen ==
    output # NoRecording /\ ~active /\ ~At("initiate", "start") => PendingIn(stack, 0)

InputHasFile == input # "none" => output # NoRecording

\* Where the innermost function is, and what it has done before.
AtFinish == At("terminate", "finish") => input = "none"
AtStart == At("initiate", "start") => output # NoRecording /\ route = "on"

\* A terminateRecording() that called a handler before it has said that recording has
\* ended, and one that leaves a file open, do so inside of an input->start().
EndsInside ==
    \A i \in 1..Len(stack) :
        stack[i] = F("terminate", "inactive") /\ (i > 1 \/ output # NoRecording)
            => PendingIn(stack, i)

\* An initiateRecording() that is not inside of an input->start() finds everything
\* closed, and its terminateRecording() calls nobody.
StartsClean ==
    \A i \in 1..Len(stack) :
        stack[i] \in { F("initiate", "terminate"), F("initiate", "create") } =>
            \/ PendingIn(stack, i)
            \/ /\ output = NoRecording /\ ~active
               /\ i = 1 \/ (i = 2 /\ stack[1].op = "terminate")

\* A function that runs inside of another was called at one of these statements.
Callers ==
    \A i \in 2..Len(stack) :
        stack[i] \in { F("terminate", "reset"), F("terminate", "inactive"),
                      F("initiate", "create"), F("initiate", "active") }

RouteFollows ==
    /\ input = "recording" => route = "on"
    /\ input = "none" /\ ~routeLost /\ ~At("initiate", "start") => route = "off"

RecorderInv ==
    /\ TypeOK
    /\ OpenUnseen
    /\ InputHasFile
    /\ AtFinish
    /\ AtStart
    /\ EndsInside
    /\ StartsClean
    /\ Callers
    /\ RouteFollows

LEMMA InitRecorder == Init => RecorderInv
<1> SUFFICES ASSUME Init PROVE RecorderInv
  OBVIOUS
<1>1. stack = << >> /\ stack \in Seq(Frame) /\ Len(stack) = 0
  BY DEF Init
<1>2. TypeOK
  BY <1>1 DEF Init, TypeOK, Verdict
<1>3. OpenUnseen /\ InputHasFile /\ AtFinish /\ AtStart /\ RouteFollows
  BY <1>1 DEF Init, OpenUnseen, InputHasFile, AtFinish, AtStart, RouteFollows, At
<1>4. EndsInside /\ StartsClean /\ Callers
  BY <1>1 DEF EndsInside, StartsClean, Callers
<1> QED BY <1>2, <1>3, <1>4 DEF RecorderInv

\* The frame that goes on, whatever is left below it.
LEMMA GoesOn ==
    ASSUME NEW op, NEW at, NEW to, F(op, to) \in Frame, stack \in Seq(Frame), At(op, at)
    PROVE  /\ GoOn(to) = Replaced(stack, F(op, to))
           /\ stack # << >> /\ stack[1] = F(op, at)
<1>1. stack # << >> /\ Head(stack) = F(op, at) /\ stack[1] = F(op, at)
  BY DEF At, F
<1>2. [ Head(stack) EXCEPT !.at = to ] = F(op, to)
  BY <1>1 DEF F
<1> QED BY <1>1, <1>2 DEF GoOn, Replaced

\* One function is at one statement.
LEMMA OneTop ==
    ASSUME stack # << >>, NEW op, NEW at, stack[1] = F(op, at)
    PROVE  \A p, q : At(p, q) <=> (p = op /\ q = at)
BY DEF At, F

LEMMA Frames ==
    /\ \A at \in { "stop", "reset", "finish", "inactive" } : F("terminate", at) \in Frame
    /\ \A at \in { "terminate", "create", "start", "active" } : F("initiate", at) \in Frame
    /\ Terminate = F("terminate", "stop") /\ Initiate = F("initiate", "terminate")
BY DEF F, Frame, Terminate, Initiate

LEMMA QuietStep ==
    ASSUME RecorderInv, StartRecording \/ StopRecording \/ InputStopped \/ Destroy
    PROVE  RecorderInv'
<1>1. stack = << >> /\ Len(stack) = 0 /\ ~PendingIn(stack, 0)
      /\ \A p, q : ~At(p, q)
  BY DEF StartRecording, StopRecording, InputStopped, Destroy, Quiet, PendingIn, At
<1>2. output # NoRecording => active
  BY <1>1 DEF RecorderInv, OpenUnseen
<1>3. PICK f : /\ stack' = << f >>
               /\ f = Terminate \/ (f = Initiate /\ ~active)
  <2>1. CASE StartRecording BY <2>1 DEF StartRecording
  <2>2. CASE StopRecording BY <2>2 DEF StopRecording
  <2>3. CASE InputStopped BY <2>3 DEF InputStopped
  <2>4. CASE Destroy BY <2>4 DEF Destroy
  <2> QED BY <2>1, <2>2, <2>3, <2>4
<1>4. /\ f \in Frame /\ Len(stack') = 1 /\ stack'[1] = f /\ stack' # << >> /\ stack' \in Seq(Frame)
      /\ Head(stack') = f
  BY <1>3, Frames
<1>5. UNCHANGED << output, active, route, routeLost, disk, verdict >>
      /\ input' \in { input, "stopped" } /\ (input' # input => input = "recording")
      /\ featureAvailable' \in BOOLEAN /\ featuresCall' \in BOOLEAN /\ alive' \in BOOLEAN
  BY DEF StartRecording, StopRecording, InputStopped, Destroy, RecorderInv, TypeOK, recorderVars
<1>6. TypeOK'
  BY <1>4, <1>5 DEF RecorderInv, TypeOK
<1>7. OpenUnseen' /\ InputHasFile' /\ AtFinish' /\ AtStart' /\ RouteFollows'
  BY <1>1, <1>2, <1>3, <1>4, <1>5, Frames
     DEF RecorderInv, OpenUnseen, InputHasFile, AtFinish, AtStart, RouteFollows, At, F
<1>8. EndsInside'
  BY <1>3, <1>4, Frames DEF EndsInside, F
<1>9. StartsClean'
  BY <1>2, <1>3, <1>4, <1>5, Frames DEF StartsClean, F
<1>10. Callers'
  BY <1>4 DEF Callers
<1> QED BY <1>6, <1>7, <1>8, <1>9, <1>10 DEF RecorderInv

LEMMA IdleStep ==
    ASSUME RecorderInv, (\E r \in Recording : DeleteRecording(r)) \/ FeaturesCallFinished \/ UNCHANGED vars
    PROVE  RecorderInv'
<1>1. UNCHANGED << stack, input, output, active, route, routeLost, verdict >>
      /\ featureAvailable' \in BOOLEAN /\ featuresCall' \in BOOLEAN /\ alive' \in BOOLEAN
  BY DEF RecorderInv, TypeOK, DeleteRecording, FeaturesCallFinished, vars, recorderVars
<1>2. disk' \in [ Recording -> { "absent", "temp", "stored", "deleted" } ]
      /\ (output # NoRecording => disk'[output] = "temp")
  BY DEF RecorderInv, TypeOK, DeleteRecording, FeaturesCallFinished, vars, recorderVars
<1>3. TypeOK'
  BY <1>1, <1>2 DEF RecorderInv, TypeOK
<1>4. OpenUnseen' /\ InputHasFile' /\ AtFinish' /\ AtStart' /\ RouteFollows' /\ EndsInside' /\ StartsClean'
      /\ Callers'
  BY <1>1 DEF RecorderInv, OpenUnseen, InputHasFile, AtFinish, AtStart, RouteFollows, At,
              EndsInside, StartsClean, Callers
<1> QED BY <1>3, <1>4 DEF RecorderInv

\* What is known of the innermost function.
IsTop(op, at) ==
    /\ stack # << >> /\ stack[1] = F(op, at) /\ 1 \in 1..Len(stack) /\ Len(stack) \in Nat
    /\ \A p, q : At(p, q) <=> (p = op /\ q = at)

LEMMA Top ==
    ASSUME RecorderInv, NEW op, NEW at, At(op, at)
    PROVE  stack \in Seq(Frame) /\ IsTop(op, at)
<1>1. stack # << >> /\ Head(stack) = F(op, at) /\ stack \in Seq(Frame)
  BY DEF At, F, RecorderInv, TypeOK
<1>2. stack[1] = F(op, at) /\ 1 \in 1..Len(stack) /\ Len(stack) \in Nat
  BY <1>1, Lengths
<1> QED BY <1>1, <1>2, OneTop DEF IsTop

LEMMA ReplacedTop ==
    ASSUME NEW op, NEW at, IsReplaced(stack', stack, F(op, at))
    PROVE  \A p, q : At(p, q)' <=> (p = op /\ q = at)
BY DEF At, F, IsReplaced

LEMMA CalledTop ==
    ASSUME NEW op, NEW at, NEW g, IsCalled(stack', stack, g, F(op, at))
    PROVE  \A p, q : At(p, q)' <=> (p = op /\ q = at)
BY DEF At, F, IsCalled

\* The function that is called comes on top of what was pending.
LEMMA CalledPending ==
    ASSUME stack \in Seq(Frame), stack # << >>, stack[1] # F("initiate", "active"),
           NEW g, NEW f, IsCalled(stack', stack, g, f)
    PROVE  /\ PendingIn(stack, 0) => PendingIn(stack, 1)
           /\ PendingIn(stack', 2) => PendingIn(stack', 1) /\ PendingIn(stack', 0)
           /\ PendingIn(stack, 0) => PendingIn(stack', 0)
           /\ g = F("initiate", "active") => PendingIn(stack', 0)
<1>1. PendingIn(stack, 0) => PendingIn(stack, 1)
  BY PendingTop
<1>2. PendingIn(stack', 2) => PendingIn(stack', 1) /\ PendingIn(stack', 0)
  BY DEF PendingIn, IsCalled
<1>3. g = F("initiate", "active") => PendingIn(stack', 0)
  <2>1. 2 \in 1..Len(stack') /\ stack'[2] = g
    BY Lengths DEF IsCalled
  <2> QED BY <2>1 DEF PendingIn
<1> QED BY <1>1, <1>2, <1>3 DEF IsCalled

LEMMA CalledCallers ==
    ASSUME Callers, NEW f,
           NEW g \in { F("terminate", "reset"), F("terminate", "inactive"),
                       F("initiate", "create"), F("initiate", "active") },
           IsCalled(stack', stack, g, f)
    PROVE  Callers'
<1> SUFFICES ASSUME NEW i \in 2..Len(stack')
             PROVE  stack'[i] \in { F("terminate", "reset"), F("terminate", "inactive"),
                                    F("initiate", "create"), F("initiate", "active") }
  BY DEF Callers
<1>1. CASE i = 2
  BY <1>1 DEF IsCalled
<1>2. CASE i # 2
  <2>1. i \in 3..(Len(stack) + 1)
    BY <1>2 DEF IsCalled
  <2> QED BY <2>1 DEF IsCalled, Callers
<1> QED BY <1>1, <1>2

-----------------------------------------------------------------------------
(* terminateRecording() *)

LEMMA StopInputStep ==
    ASSUME RecorderInv, StopInput, UNCHANGED << featureAvailable, featuresCall, alive >>
    PROVE  RecorderInv'
<1>0. /\ At("terminate", "stop")
      /\ UNCHANGED << output, active, route, routeLost, disk, verdict >>
      /\ featureAvailable' \in BOOLEAN /\ featuresCall' \in BOOLEAN /\ alive' \in BOOLEAN
  BY DEF RecorderInv, TypeOK, StopInput
<1>1. stack \in Seq(Frame) /\ IsTop("terminate", "stop")
  BY <1>0, Top
<1>3. CASE input # "recording"
  <2>1. PICK to \in { "finish", "reset" } :
            /\ stack' = GoOn(to) /\ UNCHANGED input /\ (to = "finish" <=> input = "none")
    BY <1>3 DEF StopInput, RecorderInv, TypeOK
  <2>2. stack' = Replaced(stack, F("terminate", to)) /\ F("terminate", to) \in Frame
    BY <1>0, <1>1, <2>1, GoesOn, Frames
  <2>3. IsReplaced(stack', stack, F("terminate", to))
    BY <1>1, <2>2, Replace DEF IsTop
  <2>4. \A p, q : At(p, q)' <=> (p = "terminate" /\ q = to)
    BY <2>3, ReplacedTop
  <2>5. PendingIn(stack, 0) => PendingIn(stack', 0)
    BY <1>1, <2>3, PendingTop DEF F, IsReplaced, IsTop
  <2>6. TypeOK'
    BY <1>0, <2>1, <2>3 DEF RecorderInv, TypeOK, IsReplaced
  <2>7. OpenUnseen' /\ InputHasFile' /\ AtFinish' /\ AtStart' /\ RouteFollows'
    BY <1>0, <1>1, <2>1, <2>4, <2>5
       DEF RecorderInv, OpenUnseen, InputHasFile, AtFinish, AtStart, RouteFollows, IsTop
  <2>8. EndsInside'
    BY <1>0, <2>1, <2>3 DEF RecorderInv, EndsInside, F, IsReplaced
  <2>9. StartsClean'
    BY <1>0, <1>1, <2>1, <2>3 DEF RecorderInv, StartsClean, F, IsReplaced, IsTop
  <2>10. Callers'
    BY <2>3 DEF RecorderInv, Callers, IsReplaced
  <2> QED BY <2>6, <2>7, <2>8, <2>9, <2>10 DEF RecorderInv
<1>4. CASE input = "recording"
  <2>1. stack' = Called(stack, F("terminate", "reset"), Terminate) /\ input' = "stopped"
    BY <1>0, <1>1, <1>4, GoesOn, Frames DEF StopInput, Called, Pushed
  <2>2. IsCalled(stack', stack, F("terminate", "reset"), F("terminate", "stop"))
    <3>1. Terminate \in Frame /\ F("terminate", "reset") \in Frame
      BY Frames
    <3> QED BY <1>1, <2>1, <3>1, Call, Frames DEF IsTop
  <2>3. \A p, q : At(p, q)' <=> (p = "terminate" /\ q = "stop")
    BY <2>2, CalledTop
  <2>4. PendingIn(stack, 0) => PendingIn(stack', 0)
    BY <1>1, <2>2, CalledPending DEF F, IsTop
  <2>5. TypeOK'
    BY <1>0, <2>1, <2>2 DEF RecorderInv, TypeOK, IsCalled
  <2>6. OpenUnseen' /\ InputHasFile' /\ AtFinish' /\ AtStart' /\ RouteFollows'
    BY <1>0, <1>1, <1>4, <2>1, <2>3, <2>4
       DEF RecorderInv, OpenUnseen, InputHasFile, AtFinish, AtStart, RouteFollows, IsTop
  <2>7. EndsInside'
    <3> SUFFICES ASSUME NEW i \in 1..Len(stack'), stack'[i] = F("terminate", "inactive")
                 PROVE  PendingIn(stack', i)
      BY DEF EndsInside
    <3>1. i \in 3..Len(stack')
      BY <2>2 DEF F, IsCalled
    <3> QED BY <2>2, <3>1 DEF RecorderInv, EndsInside, IsCalled
  <2>8. StartsClean'
    <3> SUFFICES ASSUME NEW i \in 1..Len(stack'),
                        stack'[i] \in { F("initiate", "terminate"), F("initiate", "create") }
                 PROVE  PendingIn(stack', i)
      BY DEF StartsClean
    <3>1. i \in 3..Len(stack')
      BY <2>2 DEF F, IsCalled
    <3>2. output # NoRecording
      BY <1>4 DEF RecorderInv, InputHasFile
    <3> QED BY <2>2, <3>1, <3>2 DEF RecorderInv, StartsClean, IsCalled
  <2>9. Callers'
    BY <2>2, CalledCallers DEF RecorderInv
  <2> QED BY <2>5, <2>6, <2>7, <2>8, <2>9 DEF RecorderInv
<1> QED BY <1>3, <1>4

\* A function has returned: what was below it is innermost now.
LEMMA PoppedTop ==
    ASSUME stack \in Seq(Frame), Callers, IsPopped(stack', stack)
    PROVE  ~At("terminate", "finish")' /\ ~At("initiate", "start")'
<1> SUFFICES ASSUME stack' # << >>
             PROVE  ~At("terminate", "finish")' /\ ~At("initiate", "start")'
  BY DEF At
<1>1. 1 \in 1..(Len(stack) - 1) /\ Head(stack') = stack'[1]
  BY Lengths DEF IsPopped
<1>2. stack'[1] \in { F("terminate", "reset"), F("terminate", "inactive"),
                      F("initiate", "create"), F("initiate", "active") }
  BY <1>1 DEF IsPopped, Callers
<1> QED BY <1>1, <1>2 DEF At, F

LEMMA PoppedCallers ==
    ASSUME Callers, IsPopped(stack', stack)
    PROVE  Callers'
<1> SUFFICES ASSUME NEW i \in 2..Len(stack')
             PROVE  stack'[i] \in { F("terminate", "reset"), F("terminate", "inactive"),
                                    F("initiate", "create"), F("initiate", "active") }
  BY DEF Callers
<1>1. i \in 1..(Len(stack) - 1)
  BY DEF IsPopped
<1> QED BY <1>1 DEF Callers, IsPopped

LEMMA PoppedEndsInside ==
    ASSUME EndsInside, IsPopped(stack', stack)
    PROVE  EndsInside'
<1> SUFFICES ASSUME NEW i \in 1..Len(stack'), stack'[i] = F("terminate", "inactive")
             PROVE  PendingIn(stack', i)
  BY DEF EndsInside
<1>1. i \in 1..(Len(stack) - 1)
  BY DEF IsPopped
<1>2. i + 1 \in 1..Len(stack) /\ i + 1 > 1 /\ stack[i + 1] = F("terminate", "inactive")
  BY <1>1 DEF IsPopped
<1>3. PendingIn(stack, i + 1)
  BY <1>2 DEF EndsInside
<1> QED BY <1>1, <1>3 DEF IsPopped

LEMMA ResetInputStep ==
    ASSUME RecorderInv, ResetInput, UNCHANGED << featureAvailable, featuresCall, alive >>
    PROVE  RecorderInv'
<1>1. /\ At("terminate", "reset") /\ stack' = GoOn("finish")
      /\ UNCHANGED << output, active, disk, verdict >>
      /\ input' = "none" /\ (route' = "off" \/ (route' = route /\ routeLost'))
      /\ routeLost' \in BOOLEAN
  BY DEF RecorderInv, TypeOK, ResetInput
<1>2. stack \in Seq(Frame) /\ IsTop("terminate", "reset")
  BY <1>1, Top
<1>3. IsReplaced(stack', stack, F("terminate", "finish"))
  <2>1. stack' = Replaced(stack, F("terminate", "finish")) /\ F("terminate", "finish") \in Frame
    BY <1>1, <1>2, GoesOn, Frames
  <2> QED BY <1>2, <2>1, Replace DEF IsTop
<1>4. \A p, q : At(p, q)' <=> (p = "terminate" /\ q = "finish")
  BY <1>3, ReplacedTop
<1>5. PendingIn(stack, 0) => PendingIn(stack', 0)
  BY <1>2, <1>3, PendingTop DEF F, IsReplaced, IsTop
<1>6. TypeOK'
  BY <1>1, <1>3 DEF RecorderInv, TypeOK, IsReplaced
<1>7. OpenUnseen' /\ InputHasFile' /\ AtFinish' /\ AtStart' /\ RouteFollows'
  BY <1>1, <1>2, <1>4, <1>5
     DEF RecorderInv, OpenUnseen, InputHasFile, AtFinish, AtStart, RouteFollows, IsTop
<1>8. EndsInside'
  BY <1>1, <1>3 DEF RecorderInv, EndsInside, F, IsReplaced
<1>9. StartsClean'
  BY <1>1, <1>2, <1>3 DEF RecorderInv, StartsClean, F, IsReplaced, IsTop
<1>10. Callers'
  BY <1>3 DEF RecorderInv, Callers, IsReplaced
<1> QED BY <1>6, <1>7, <1>8, <1>9, <1>10 DEF RecorderInv

\* What finishing the file comes to: there may be none, and a handler may be called.
LEMMA Finishes ==
    ASSUME RecorderInv, FinishOutput
    PROVE  /\ At("terminate", "finish") /\ output' = NoRecording
           /\ UNCHANGED << input, active, route, routeLost >>
           /\ disk' \in [ Recording -> { "absent", "temp", "stored", "deleted" } ]
           /\ verdict' \in [ Recording -> Verdict ]
           /\ \/ stack' = GoOn("inactive")
              \/ output # NoRecording /\ ~active /\ stack' = << Initiate >> \o GoOn("inactive")
           /\ \A r \in Recording : /\ output # r => UNCHANGED << disk[r], verdict[r] >>
                                   /\ output = r => verdict'[r] # "none"
<1>1. CASE output = NoRecording
  BY <1>1, RecorderAssumption DEF FinishOutput, RecorderInv, TypeOK
<1>2. CASE output # NoRecording
  <2>1. PICK fileLength \in FileLength, written, renamed \in BOOLEAN :
            LET success == DataLength(fileLength) > 0 /\ written
            IN  /\ disk' = [ disk EXCEPT ![output] = IF renamed THEN "stored" ELSE "temp" ]
                /\ verdict' = [ verdict EXCEPT ![output] = IF success THEN "recorded" ELSE "lost" ]
                /\ IF success THEN stack' = GoOn("inactive") ELSE Emit(GoOn("inactive"), active)
    BY <1>2 DEF FinishOutput
  <2>2. PICK v \in { "recorded", "lost" } : verdict' = [ verdict EXCEPT ![output] = v ]
    BY <2>1
  <2>3. PICK d \in { "stored", "temp" } : disk' = [ disk EXCEPT ![output] = d ]
    BY <2>1
  <2>4. \/ stack' = GoOn("inactive")
        \/ ~active /\ stack' = << Initiate >> \o GoOn("inactive")
    BY <2>1 DEF Emit
  <2>5. output \in Recording
    BY <1>2 DEF RecorderInv, TypeOK
  <2> QED BY <1>2, <2>2, <2>3, <2>4, <2>5 DEF FinishOutput, RecorderInv, TypeOK, Verdict
<1> QED BY <1>1, <1>2

LEMMA FinishOutputStep ==
    ASSUME RecorderInv, FinishOutput, UNCHANGED << featureAvailable, featuresCall, alive >>
    PROVE  RecorderInv'
<1>1. /\ At("terminate", "finish") /\ output' = NoRecording
      /\ UNCHANGED << input, active, route, routeLost >>
      /\ input = "none"
  BY Finishes DEF RecorderInv, AtFinish
<1>2. stack \in Seq(Frame) /\ IsTop("terminate", "finish")
  BY <1>1, Top
<1>3. F("terminate", "inactive") \in Frame /\ GoOn("inactive") = Replaced(stack, F("terminate", "inactive"))
  BY <1>1, <1>2, GoesOn, Frames
<1>4. stack' \in Seq(Frame) => TypeOK'
  BY <1>1, Finishes DEF RecorderInv, TypeOK
<1>5. CASE stack' = GoOn("inactive")
  <2>1. IsReplaced(stack', stack, F("terminate", "inactive"))
    BY <1>2, <1>3, <1>5, Replace DEF IsTop
  <2>2. \A p, q : At(p, q)' <=> (p = "terminate" /\ q = "inactive")
    BY <2>1, ReplacedTop
  <2>3. TypeOK'
    BY <1>4, <2>1 DEF IsReplaced
  <2>4. OpenUnseen' /\ InputHasFile' /\ AtFinish' /\ AtStart' /\ RouteFollows'
    BY <1>1, <1>2, <2>2
       DEF RecorderInv, OpenUnseen, InputHasFile, AtFinish, AtStart, RouteFollows, IsTop
  <2>5. EndsInside'
    BY <1>1, <2>1 DEF RecorderInv, EndsInside, IsReplaced
  <2>6. StartsClean'
    BY <1>1, <1>2, <2>1 DEF RecorderInv, StartsClean, F, IsReplaced, IsTop
  <2>7. Callers'
    BY <2>1 DEF RecorderInv, Callers, IsReplaced
  <2> QED BY <2>3, <2>4, <2>5, <2>6, <2>7 DEF RecorderInv
<1>6. CASE output # NoRecording /\ ~active /\ stack' = << Initiate >> \o GoOn("inactive")
  <2>1. IsCalled(stack', stack, F("terminate", "inactive"), F("initiate", "terminate"))
    <3>1. stack' = Called(stack, F("terminate", "inactive"), F("initiate", "terminate"))
      BY <1>3, <1>6, Frames DEF Called, Pushed
    <3>2. F("initiate", "terminate") \in Frame
      BY Frames
    <3> QED BY <1>2, <1>3, <3>1, <3>2, Call DEF IsTop
  <2>2. \A p, q : At(p, q)' <=> (p = "initiate" /\ q = "terminate")
    BY <2>1, CalledTop
  <2>3. TypeOK'
    BY <1>4, <2>1 DEF IsCalled
  <2>4. OpenUnseen' /\ InputHasFile' /\ AtFinish' /\ AtStart' /\ RouteFollows'
    BY <1>1, <1>2, <2>2
       DEF RecorderInv, OpenUnseen, InputHasFile, AtFinish, AtStart, RouteFollows, IsTop
  <2>5. PendingIn(stack', 2)
    <3>1. PendingIn(stack, 0)
      BY <1>2, <1>6 DEF RecorderInv, OpenUnseen, IsTop
    <3>2. stack # << >> /\ stack[1] # F("initiate", "active")
      BY <1>2 DEF IsTop, F
    <3>3. PendingIn(stack, 1)
      BY <1>2, <2>1, <3>1, <3>2, CalledPending
    <3> QED BY <2>1, <3>3 DEF IsCalled
  <2>6. EndsInside'
    <3> SUFFICES ASSUME NEW i \in 1..Len(stack'), stack'[i] = F("terminate", "inactive")
                 PROVE  PendingIn(stack', i)
      BY DEF EndsInside
    <3>1. i = 2 \/ i \in 3..Len(stack')
      BY <2>1 DEF F, IsCalled
    <3> QED BY <2>1, <2>5, <3>1 DEF RecorderInv, EndsInside, IsCalled
  <2>7. StartsClean'
    <3> SUFFICES ASSUME NEW i \in 2..Len(stack'),
                        stack'[i] \in { F("initiate", "terminate"), F("initiate", "create") }
                 PROVE  PendingIn(stack', i)
      BY <1>1, <1>6 DEF StartsClean
    <3>1. i \in 3..Len(stack')
      BY <2>1 DEF F, IsCalled
    <3> QED BY <1>6, <2>1, <3>1 DEF RecorderInv, StartsClean, IsCalled
  <2>8. Callers'
    BY <2>1, CalledCallers DEF RecorderInv
  <2> QED BY <2>3, <2>4, <2>6, <2>7, <2>8 DEF RecorderInv
<1> QED BY <1>5, <1>6, Finishes

LEMMA BecomeInactiveStep ==
    ASSUME RecorderInv, BecomeInactive, UNCHANGED << featureAvailable, featuresCall, alive >>
    PROVE  RecorderInv'
<1>1. /\ At("terminate", "inactive") /\ active' = FALSE
      /\ UNCHANGED << input, output, route, routeLost, disk, verdict >>
      /\ \/ stack' = Tail(stack)
         \/ active /\ stack' = Replaced(stack, F("initiate", "terminate"))
  BY Frames DEF BecomeInactive, Emit, Return, Replaced, RecorderInv, TypeOK
<1>2. stack \in Seq(Frame) /\ IsTop("terminate", "inactive")
  BY <1>1, Top
<1>3. output # NoRecording => PendingIn(stack, 1)
  BY <1>2 DEF RecorderInv, EndsInside, IsTop
<1>4. stack' \in Seq(Frame) => TypeOK'
  BY <1>1 DEF RecorderInv, TypeOK
<1>5. CASE stack' = Tail(stack)
  <2>1. IsPopped(stack', stack)
    BY <1>2, <1>5, Pop DEF IsTop
  <2>2. ~At("terminate", "finish")' /\ ~At("initiate", "start")'
    BY <1>2, <2>1, PoppedTop DEF RecorderInv
  <2>3. TypeOK'
    BY <1>4, <2>1 DEF IsPopped
  <2>4. OpenUnseen' /\ InputHasFile' /\ AtFinish' /\ AtStart' /\ RouteFollows'
    BY <1>1, <1>2, <1>3, <2>1, <2>2
       DEF RecorderInv, OpenUnseen, InputHasFile, AtFinish, AtStart, RouteFollows, IsTop, IsPopped
  <2>5. EndsInside' /\ Callers'
    BY <2>1, PoppedEndsInside, PoppedCallers DEF RecorderInv
  <2>6. StartsClean'
    <3> SUFFICES ASSUME NEW i \in 1..Len(stack'),
                        stack'[i] \in { F("initiate", "terminate"), F("initiate", "create") }
                 PROVE  PendingIn(stack', i) \/ (output = NoRecording /\ i = 1)
      BY <1>1 DEF StartsClean
    <3>1. i \in 1..(Len(stack) - 1) /\ i + 1 \in 1..Len(stack) /\ stack[i + 1] = stack'[i]
      BY <2>1 DEF IsPopped
    <3>2. PendingIn(stack, i + 1) \/ (output = NoRecording /\ (i + 1 = 1 \/ i + 1 = 2))
      BY <3>1 DEF RecorderInv, StartsClean
    <3> QED BY <2>1, <3>1, <3>2 DEF IsPopped
  <2> QED BY <2>3, <2>4, <2>5, <2>6 DEF RecorderInv
<1>6. CASE active /\ stack' = Replaced(stack, F("initiate", "terminate"))
  <2>1. IsReplaced(stack', stack, F("initiate", "terminate"))
    BY <1>2, <1>6, Replace, Frames DEF IsTop
  <2>2. \A p, q : At(p, q)' <=> (p = "initiate" /\ q = "terminate")
    BY <2>1, ReplacedTop
  <2>3. TypeOK'
    BY <1>4, <2>1 DEF IsReplaced
  <2>4. output # NoRecording => PendingIn(stack', 1) /\ PendingIn(stack', 0)
    BY <1>2, <1>3, <2>1, PendingTop DEF IsReplaced, IsTop
  <2>5. OpenUnseen' /\ InputHasFile' /\ AtFinish' /\ AtStart' /\ RouteFollows'
    BY <1>1, <1>2, <2>2, <2>4
       DEF RecorderInv, OpenUnseen, InputHasFile, AtFinish, AtStart, RouteFollows, IsTop
  <2>6. EndsInside'
    BY <1>1, <2>1 DEF RecorderInv, EndsInside, F, IsReplaced
  <2>7. StartsClean'
    BY <1>1, <1>2, <1>6, <2>1, <2>4 DEF RecorderInv, StartsClean, F, IsReplaced, IsTop
  <2>8. Callers'
    BY <2>1 DEF RecorderInv, Callers, IsReplaced
  <2> QED BY <2>3, <2>5, <2>6, <2>7, <2>8 DEF RecorderInv
<1> QED BY <1>1, <1>5, <1>6

-----------------------------------------------------------------------------
(* initiateRecording() *)

\* Nothing below an initiateRecording() that is innermost starts clean.
LEMMA BelowInitiate ==
    ASSUME RecorderInv, NEW at, IsTop("initiate", at), NEW i \in 2..Len(stack),
           stack[i] \in { F("initiate", "terminate"), F("initiate", "create") }
    PROVE  PendingIn(stack, i)
BY DEF RecorderInv, StartsClean, IsTop, F

LEMMA TerminateFirstStep ==
    ASSUME RecorderInv, TerminateFirst, UNCHANGED << featureAvailable, featuresCall, alive >>
    PROVE  RecorderInv'
<1>1. /\ At("initiate", "terminate") /\ stack' = << Terminate >> \o GoOn("create")
      /\ UNCHANGED << input, output, active, route, routeLost, disk, verdict >>
  BY DEF TerminateFirst, recorderVars
<1>2. stack \in Seq(Frame) /\ IsTop("initiate", "terminate")
  BY <1>1, Top
<1>3. IsCalled(stack', stack, F("initiate", "create"), F("terminate", "stop"))
  <2>1. /\ F("initiate", "create") \in Frame /\ F("terminate", "stop") \in Frame
        /\ GoOn("create") = Replaced(stack, F("initiate", "create"))
    BY <1>1, <1>2, GoesOn, Frames
  <2>2. stack' = Called(stack, F("initiate", "create"), F("terminate", "stop"))
    BY <1>1, <2>1, Frames DEF Called, Pushed
  <2> QED BY <1>2, <2>1, <2>2, Call DEF IsTop
<1>4. \A p, q : At(p, q)' <=> (p = "terminate" /\ q = "stop")
  BY <1>3, CalledTop
<1>5. PendingIn(stack, 0) => PendingIn(stack', 0)
  BY <1>2, <1>3, CalledPending DEF F, IsTop
<1>6. TypeOK'
  BY <1>1, <1>3 DEF RecorderInv, TypeOK, IsCalled
<1>7. OpenUnseen' /\ InputHasFile' /\ AtFinish' /\ AtStart' /\ RouteFollows'
  BY <1>1, <1>2, <1>4, <1>5
     DEF RecorderInv, OpenUnseen, InputHasFile, AtFinish, AtStart, RouteFollows, IsTop
<1>8. EndsInside'
  <2> SUFFICES ASSUME NEW i \in 1..Len(stack'), stack'[i] = F("terminate", "inactive")
               PROVE  PendingIn(stack', i)
    BY DEF EndsInside
  <2>1. i \in 3..Len(stack')
    BY <1>3 DEF F, IsCalled
  <2> QED BY <1>3, <2>1 DEF RecorderInv, EndsInside, IsCalled
<1>9. StartsClean'
  <2> SUFFICES ASSUME NEW i \in 1..Len(stack'),
                      stack'[i] \in { F("initiate", "terminate"), F("initiate", "create") }
               PROVE  PendingIn(stack', i) \/ (output = NoRecording /\ ~active /\ i = 2)
    BY <1>1, <1>3 DEF StartsClean, IsCalled, F
  <2>1. CASE i = 2
    <3>1. PendingIn(stack, 1) \/ (output = NoRecording /\ ~active)
      BY <1>2 DEF RecorderInv, StartsClean, IsTop
    <3> QED BY <1>3, <2>1, <3>1 DEF IsCalled
  <2>2. CASE i # 2
    <3>1. i \in 3..(Len(stack) + 1)
      BY <1>3, <2>2 DEF IsCalled, F
    <3>2. PendingIn(stack, i - 1)
      BY <1>2, <1>3, <3>1, BelowInitiate DEF IsCalled
    <3> QED BY <1>3, <3>1, <3>2 DEF IsCalled
  <2> QED BY <2>1, <2>2
<1>10. Callers'
  BY <1>3, CalledCallers DEF RecorderInv
<1> QED BY <1>6, <1>7, <1>8, <1>9, <1>10 DEF RecorderInv

\* What was below an initiateRecording() has something pending below it, or is none.
LEMMA PoppedStartsClean ==
    ASSUME RecorderInv, NEW at, IsTop("initiate", at), IsPopped(stack', stack)
    PROVE  StartsClean'
<1> SUFFICES ASSUME NEW i \in 1..Len(stack'),
                    stack'[i] \in { F("initiate", "terminate"), F("initiate", "create") }
             PROVE  PendingIn(stack', i)
  BY DEF StartsClean
<1>1. i \in 1..(Len(stack) - 1) /\ i + 1 \in 2..Len(stack) /\ stack[i + 1] = stack'[i]
  BY DEF IsPopped
<1>2. PendingIn(stack, i + 1)
  BY <1>1, BelowInitiate
<1> QED BY <1>1, <1>2 DEF IsPopped

LEMMA RefuseRecordingStep ==
    ASSUME RecorderInv, RefuseRecording, UNCHANGED << featureAvailable, featuresCall, alive >>
    PROVE  RecorderInv'
<1>1. /\ At("initiate", "create")
      /\ UNCHANGED << input, output, active, route, routeLost >>
      /\ \/ stack' = Tail(stack)
         \/ ~active /\ stack' = Replaced(stack, F("initiate", "terminate"))
  BY Frames DEF RefuseRecording, Emit, Return, Replaced
<1>2. stack \in Seq(Frame) /\ IsTop("initiate", "create")
  BY <1>1, Top
<1>3. output # NoRecording /\ ~active => PendingIn(stack, 1)
  BY <1>2, PendingTop DEF RecorderInv, OpenUnseen, IsTop, F
<1>4. stack' \in Seq(Frame) => TypeOK'
  <2>1. CASE UNCHANGED << disk, verdict >>
    BY <1>1, <2>1 DEF RecorderInv, TypeOK
  <2>2. CASE \E r \in Unused, left \in { "absent", "temp" } :
                /\ disk' = [ disk EXCEPT ![r] = left ]
                /\ verdict' = [ verdict EXCEPT ![r] = "refused" ]
    <3>1. PICK r \in Unused, left \in { "absent", "temp" } :
                /\ disk' = [ disk EXCEPT ![r] = left ]
                /\ verdict' = [ verdict EXCEPT ![r] = "refused" ]
      BY <2>2
    <3>2. r \in Recording /\ r # output
      BY <3>1, RecorderAssumption DEF Unused, RecorderInv, TypeOK
    <3> QED BY <1>1, <3>1, <3>2 DEF RecorderInv, TypeOK, Verdict
  <2> QED BY <2>1, <2>2 DEF RefuseRecording
<1>5. CASE stack' = Tail(stack)
  <2>1. IsPopped(stack', stack)
    BY <1>2, <1>5, Pop DEF IsTop
  <2>2. ~At("terminate", "finish")' /\ ~At("initiate", "start")'
    BY <1>2, <2>1, PoppedTop DEF RecorderInv
  <2>3. TypeOK'
    BY <1>4, <2>1 DEF IsPopped
  <2>4. OpenUnseen' /\ InputHasFile' /\ AtFinish' /\ AtStart' /\ RouteFollows'
    BY <1>1, <1>2, <1>3, <2>1, <2>2
       DEF RecorderInv, OpenUnseen, InputHasFile, AtFinish, AtStart, RouteFollows, IsTop, IsPopped
  <2>5. EndsInside' /\ Callers'
    BY <2>1, PoppedEndsInside, PoppedCallers DEF RecorderInv
  <2>6. StartsClean'
    BY <1>2, <2>1, PoppedStartsClean DEF RecorderInv
  <2> QED BY <2>3, <2>4, <2>5, <2>6 DEF RecorderInv
<1>6. CASE ~active /\ stack' = Replaced(stack, F("initiate", "terminate"))
  <2>1. IsReplaced(stack', stack, F("initiate", "terminate"))
    BY <1>2, <1>6, Replace, Frames DEF IsTop
  <2>2. \A p, q : At(p, q)' <=> (p = "initiate" /\ q = "terminate")
    BY <2>1, ReplacedTop
  <2>3. TypeOK'
    BY <1>4, <2>1 DEF IsReplaced
  <2>4. output # NoRecording => PendingIn(stack', 1) /\ PendingIn(stack', 0)
    BY <1>2, <1>3, <1>6, <2>1, PendingTop DEF IsReplaced, IsTop
  <2>5. OpenUnseen' /\ InputHasFile' /\ AtFinish' /\ AtStart' /\ RouteFollows'
    BY <1>1, <1>2, <2>2, <2>4
       DEF RecorderInv, OpenUnseen, InputHasFile, AtFinish, AtStart, RouteFollows, IsTop
  <2>6. EndsInside'
    BY <1>1, <2>1 DEF RecorderInv, EndsInside, F, IsReplaced
  <2>7. StartsClean'
    <3> SUFFICES ASSUME NEW i \in 2..Len(stack'),
                        stack'[i] \in { F("initiate", "terminate"), F("initiate", "create") }
                 PROVE  PendingIn(stack', i)
      BY <1>1, <1>6, <2>4 DEF StartsClean
    <3> QED BY <1>2, <2>1, BelowInitiate DEF IsReplaced
  <2>8. Callers'
    BY <2>1 DEF RecorderInv, Callers, IsReplaced
  <2> QED BY <2>3, <2>5, <2>6, <2>7, <2>8 DEF RecorderInv
<1> QED BY <1>1, <1>5, <1>6

LEMMA CreateFileStep ==
    ASSUME RecorderInv, CreateFile, UNCHANGED << featureAvailable, featuresCall, alive >>
    PROVE  RecorderInv'
<1>1. PICK r \in Unused : /\ output' = r /\ disk' = [ disk EXCEPT ![r] = "temp" ]
                          /\ At("initiate", "create") /\ route' = "on" /\ stack' = GoOn("start")
                          /\ UNCHANGED << input, active, routeLost, verdict >>
  BY DEF CreateFile
<1>2. stack \in Seq(Frame) /\ IsTop("initiate", "create") /\ r \in Recording /\ r # NoRecording
      /\ verdict[r] = "none"
  BY <1>1, Top, RecorderAssumption DEF Unused
<1>3. IsReplaced(stack', stack, F("initiate", "start"))
  <2>1. stack' = Replaced(stack, F("initiate", "start")) /\ F("initiate", "start") \in Frame
    BY <1>1, <1>2, GoesOn, Frames
  <2> QED BY <1>2, <2>1, Replace DEF IsTop
<1>4. \A p, q : At(p, q)' <=> (p = "initiate" /\ q = "start")
  BY <1>3, ReplacedTop
<1>5. TypeOK'
  BY <1>1, <1>2, <1>3 DEF RecorderInv, TypeOK, IsReplaced
<1>6. OpenUnseen' /\ InputHasFile' /\ AtFinish' /\ AtStart' /\ RouteFollows'
  BY <1>1, <1>2, <1>4
     DEF RecorderInv, OpenUnseen, InputHasFile, AtFinish, AtStart, RouteFollows
<1>7. EndsInside'
  BY <1>1, <1>3 DEF RecorderInv, EndsInside, F, IsReplaced
<1>8. StartsClean'
  <2> SUFFICES ASSUME NEW i \in 2..Len(stack'),
                      stack'[i] \in { F("initiate", "terminate"), F("initiate", "create") }
               PROVE  PendingIn(stack', i)
    BY <1>3 DEF StartsClean, F, IsReplaced
  <2> QED BY <1>2, <1>3, BelowInitiate DEF IsReplaced
<1>9. Callers'
  BY <1>3 DEF RecorderInv, Callers, IsReplaced
<1> QED BY <1>5, <1>6, <1>7, <1>8, <1>9 DEF RecorderInv

LEMMA StartInputStep ==
    ASSUME RecorderInv, StartInput, UNCHANGED << featureAvailable, featuresCall, alive >>
    PROVE  RecorderInv'
<1>1. /\ At("initiate", "start") /\ input' \in { "recording", "stopped" }
      /\ stack' = GoOn("active") \/ stack' = << Terminate >> \o GoOn("active")
      /\ UNCHANGED << output, active, route, routeLost, disk, verdict >>
      /\ output # NoRecording /\ route = "on"
  BY DEF StartInput, RecorderInv, AtStart
<1>2. stack \in Seq(Frame) /\ IsTop("initiate", "start")
  BY <1>1, Top
<1>3. F("initiate", "active") \in Frame /\ GoOn("active") = Replaced(stack, F("initiate", "active"))
  BY <1>1, <1>2, GoesOn, Frames
<1>4. stack' \in Seq(Frame) => TypeOK'
  BY <1>1 DEF RecorderInv, TypeOK
<1>5. CASE stack' = GoOn("active")
  <2>1. IsReplaced(stack', stack, F("initiate", "active"))
    BY <1>2, <1>3, <1>5, Replace DEF IsTop
  <2>2. \A p, q : At(p, q)' <=> (p = "initiate" /\ q = "active")
    BY <2>1, ReplacedTop
  <2>3. TypeOK'
    BY <1>4, <2>1 DEF IsReplaced
  <2>4. PendingIn(stack', 0)
    BY <2>1, PendingTop DEF IsReplaced
  <2>5. OpenUnseen' /\ InputHasFile' /\ AtFinish' /\ AtStart' /\ RouteFollows'
    BY <1>1, <2>2, <2>4
       DEF RecorderInv, OpenUnseen, InputHasFile, AtFinish, AtStart, RouteFollows
  <2>6. EndsInside'
    BY <1>1, <2>1 DEF RecorderInv, EndsInside, F, IsReplaced
  <2>7. StartsClean'
    <3> SUFFICES ASSUME NEW i \in 2..Len(stack'),
                        stack'[i] \in { F("initiate", "terminate"), F("initiate", "create") }
                 PROVE  PendingIn(stack', i)
      BY <2>1 DEF StartsClean, F, IsReplaced
    <3> QED BY <1>2, <2>1, BelowInitiate DEF IsReplaced
  <2>8. Callers'
    BY <2>1 DEF RecorderInv, Callers, IsReplaced
  <2> QED BY <2>3, <2>5, <2>6, <2>7, <2>8 DEF RecorderInv
<1>6. CASE stack' = << Terminate >> \o GoOn("active")
  <2>1. IsCalled(stack', stack, F("initiate", "active"), F("terminate", "stop"))
    <3>1. stack' = Called(stack, F("initiate", "active"), F("terminate", "stop"))
      BY <1>3, <1>6, Frames DEF Called, Pushed
    <3>2. F("terminate", "stop") \in Frame
      BY Frames
    <3> QED BY <1>2, <1>3, <3>1, <3>2, Call DEF IsTop
  <2>2. \A p, q : At(p, q)' <=> (p = "terminate" /\ q = "stop")
    BY <2>1, CalledTop
  <2>3. TypeOK'
    BY <1>4, <2>1 DEF IsCalled
  <2>4. PendingIn(stack', 0)
    BY <1>2, <2>1, CalledPending DEF IsTop, F
  <2>5. OpenUnseen' /\ InputHasFile' /\ AtFinish' /\ AtStart' /\ RouteFollows'
    BY <1>1, <2>2, <2>4
       DEF RecorderInv, OpenUnseen, InputHasFile, AtFinish, AtStart, RouteFollows
  <2>6. EndsInside'
    <3> SUFFICES ASSUME NEW i \in 1..Len(stack'), stack'[i] = F("terminate", "inactive")
                 PROVE  PendingIn(stack', i)
      BY DEF EndsInside
    <3>1. i \in 3..Len(stack')
      BY <2>1 DEF F, IsCalled
    <3> QED BY <2>1, <3>1 DEF RecorderInv, EndsInside, IsCalled
  <2>7. StartsClean'
    <3> SUFFICES ASSUME NEW i \in 1..Len(stack'),
                        stack'[i] \in { F("initiate", "terminate"), F("initiate", "create") }
                 PROVE  PendingIn(stack', i)
      BY DEF StartsClean
    <3>1. i \in 3..(Len(stack) + 1)
      BY <2>1 DEF F, IsCalled
    <3>2. PendingIn(stack, i - 1)
      BY <1>2, <2>1, <3>1, BelowInitiate DEF IsCalled
    <3> QED BY <2>1, <3>1, <3>2 DEF IsCalled
  <2>8. Callers'
    BY <2>1, CalledCallers DEF RecorderInv
  <2> QED BY <2>3, <2>5, <2>6, <2>7, <2>8 DEF RecorderInv
<1> QED BY <1>1, <1>5, <1>6

LEMMA BecomeActiveStep ==
    ASSUME RecorderInv, BecomeActive, UNCHANGED << featureAvailable, featuresCall, alive >>
    PROVE  RecorderInv'
<1>1. /\ At("initiate", "active") /\ active' = TRUE /\ stack' = Tail(stack)
      /\ UNCHANGED << input, output, route, routeLost, disk, verdict >>
  BY DEF BecomeActive, Return
<1>2. stack \in Seq(Frame) /\ IsTop("initiate", "active")
  BY <1>1, Top
<1>3. IsPopped(stack', stack)
  BY <1>1, <1>2, Pop DEF IsTop
<1>4. ~At("terminate", "finish")' /\ ~At("initiate", "start")'
  BY <1>2, <1>3, PoppedTop DEF RecorderInv
<1>5. TypeOK'
  BY <1>1, <1>3 DEF RecorderInv, TypeOK, IsPopped
<1>6. OpenUnseen' /\ InputHasFile' /\ AtFinish' /\ AtStart' /\ RouteFollows'
  BY <1>1, <1>2, <1>4
     DEF RecorderInv, OpenUnseen, InputHasFile, AtFinish, AtStart, RouteFollows, IsTop
<1>7. EndsInside' /\ Callers'
  BY <1>3, PoppedEndsInside, PoppedCallers DEF RecorderInv
<1>8. StartsClean'
  BY <1>2, <1>3, PoppedStartsClean DEF RecorderInv
<1> QED BY <1>5, <1>6, <1>7, <1>8 DEF RecorderInv

-----------------------------------------------------------------------------
(* The theorems *)

LEMMA RecorderStep == RecorderInv /\ [Next]_vars => RecorderInv'
<1> SUFFICES ASSUME RecorderInv, [Next]_vars PROVE RecorderInv'
  OBVIOUS
<1>1. CASE StartRecording \/ StopRecording \/ InputStopped \/ Destroy
  BY <1>1, QuietStep
<1>2. CASE (\E r \in Recording : DeleteRecording(r)) \/ FeaturesCallFinished \/ UNCHANGED vars
  BY <1>2, IdleStep
<1>3. CASE /\ TerminateRecording \/ InitiateRecording
           /\ UNCHANGED << featureAvailable, featuresCall, alive >>
  <2>1. CASE StopInput BY <1>3, <2>1, StopInputStep
  <2>2. CASE ResetInput BY <1>3, <2>2, ResetInputStep
  <2>3. CASE FinishOutput BY <1>3, <2>3, FinishOutputStep
  <2>4. CASE BecomeInactive BY <1>3, <2>4, BecomeInactiveStep
  <2>5. CASE TerminateFirst BY <1>3, <2>5, TerminateFirstStep
  <2>6. CASE RefuseRecording BY <1>3, <2>6, RefuseRecordingStep
  <2>7. CASE CreateFile BY <1>3, <2>7, CreateFileStep
  <2>8. CASE StartInput BY <1>3, <2>8, StartInputStep
  <2>9. CASE BecomeActive BY <1>3, <2>9, BecomeActiveStep
  <2> QED BY <1>3, <2>1, <2>2, <2>3, <2>4, <2>5, <2>6, <2>7, <2>8, <2>9
          DEF TerminateRecording, InitiateRecording
<1> QED BY <1>1, <1>2, <1>3 DEF Next

LEMMA RecorderInvariant == Spec => []RecorderInv
BY InitRecorder, RecorderStep, PTL DEF Spec

\* The recorder's variables always have their types, and the file that is open is one
\* of which the user has not been told anything.
THEOREM RecorderTypeCorrect == Spec => []TypeOK
<1>1. RecorderInv => TypeOK
  BY DEF RecorderInv
<1> QED BY <1>1, RecorderInvariant, PTL

\* Once everything has returned the microphone records only if recording() says so,
\* into a file, and with the call's audio routed to it: however deep the handlers of
\* the recorder's signals have started recordings inside of each other.
THEOREM NothingEverRecordsUnseen == Spec => []NothingRecordsUnseen
<1>1. RecorderInv => NothingRecordsUnseen
  <2> SUFFICES ASSUME RecorderInv, Quiet, input = "recording"
               PROVE  active /\ output # NoRecording /\ route = "on"
    BY DEF NothingRecordsUnseen
  <2>1. output # NoRecording /\ route = "on"
    BY DEF RecorderInv, InputHasFile, RouteFollows
  <2>2. ~At("initiate", "start") /\ ~PendingIn(stack, 0)
    BY DEF Quiet, At, PendingIn
  <2> QED BY <2>1, <2>2 DEF RecorderInv, OpenUnseen
<1> QED BY <1>1, RecorderInvariant, PTL

\* The route is given back whenever there is no input left, unless a request of it was
\* lost.
THEOREM RouteIsAlwaysGivenBack == Spec => []RouteIsGivenBack
<1>1. RecorderInv => RouteIsGivenBack
  BY DEF RecorderInv, RouteFollows, RouteIsGivenBack, Quiet, At
<1> QED BY <1>1, RecorderInvariant, PTL

\* What is said of a file is said once, and it is said of every file that is not open
\* any longer; only one that is replaced from inside of an input->start() goes without.
THEOREM EveryFileIsAlwaysJudged == Spec => EveryFileIsJudged
<1> DEFINE Judged(r) ==
        /\ verdict[r] # "none" => verdict'[r] = verdict[r]
        /\ (disk[r] = "absent" \/ output = r) /\ disk'[r] # "absent" /\ output' # r =>
              \/ verdict'[r] # "none"
              \/ output = r /\ output' # NoRecording /\ Pending(1)
<1>1. RecorderInv /\ [Next]_vars => [ \A r \in Recording : Judged(r) ]_vars
  <2> SUFFICES ASSUME RecorderInv, Next, NEW r \in Recording PROVE Judged(r)
    OBVIOUS
  <2>1. CASE StartRecording \/ StopRecording \/ InputStopped \/ FeaturesCallFinished \/ Destroy
    BY <2>1 DEF StartRecording, StopRecording, InputStopped, FeaturesCallFinished, Destroy,
                recorderVars
  <2>2. CASE \E q \in Recording : DeleteRecording(q)
    BY <2>2 DEF DeleteRecording, RecorderInv, TypeOK
  <2>3. CASE StopInput \/ ResetInput \/ BecomeInactive \/ TerminateFirst \/ StartInput \/ BecomeActive
    BY <2>3 DEF StopInput, ResetInput, BecomeInactive, TerminateFirst, StartInput, BecomeActive,
                recorderVars
  <2>4. CASE FinishOutput
    <3>1. output = r => verdict[r] = "none"
      BY RecorderAssumption DEF RecorderInv, TypeOK
    <3> QED BY <2>4, <3>1, Finishes
  <2>5. CASE RefuseRecording
    <3>1. UNCHANGED output /\ (UNCHANGED << disk, verdict >> \/
            \E q \in Unused, left \in { "absent", "temp" } :
                /\ disk' = [ disk EXCEPT ![q] = left ]
                /\ verdict' = [ verdict EXCEPT ![q] = "refused" ])
      BY <2>5 DEF RefuseRecording
    <3>2. CASE UNCHANGED << disk, verdict >>
      BY <3>1, <3>2
    <3>3. CASE \E q \in Unused, left \in { "absent", "temp" } :
                /\ disk' = [ disk EXCEPT ![q] = left ]
                /\ verdict' = [ verdict EXCEPT ![q] = "refused" ]
      <4>1. PICK q \in Unused, left \in { "absent", "temp" } :
                /\ disk' = [ disk EXCEPT ![q] = left ]
                /\ verdict' = [ verdict EXCEPT ![q] = "refused" ]
        BY <3>3
      <4> QED BY <3>1, <4>1 DEF Unused, RecorderInv, TypeOK
    <3> QED BY <3>1, <3>2, <3>3
  <2>6. CASE CreateFile
    <3>1. PICK q \in Unused : output' = q /\ disk' = [ disk EXCEPT ![q] = "temp" ] /\ UNCHANGED verdict
      BY <2>6 DEF CreateFile
    <3>2. q \in Recording /\ q # NoRecording
      BY RecorderAssumption DEF Unused
    <3>3. CASE output = r
      <4>1. stack \in Seq(Frame) /\ IsTop("initiate", "create")
        BY <2>6, Top DEF CreateFile
      <4>2. output # NoRecording
        BY <3>3, RecorderAssumption
      <4>3. PendingIn(stack, 1)
        BY <4>1, <4>2 DEF RecorderInv, StartsClean, IsTop
      <4> QED BY <3>1, <3>2, <3>3, <4>3 DEF Pending, PendingIn, F
    <3>4. CASE output # r
      BY <3>1, <3>2, <3>4 DEF RecorderInv, TypeOK
    <3> QED BY <3>3, <3>4
  <2> QED BY <2>1, <2>2, <2>3, <2>4, <2>5, <2>6
          DEF Next, TerminateRecording, InitiateRecording
<1> QED BY <1>1, RecorderInvariant, PTL DEF Spec, EveryFileIsJudged, Judged
=============================================================================
