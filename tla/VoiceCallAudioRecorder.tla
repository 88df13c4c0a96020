------------------------ MODULE VoiceCallAudioRecorder ------------------------
(***************************************************************************)
(* The recorder of calls in the QML plugin.  All of it runs in one thread, *)
(* but its functions call each other through signals: QAudioInput emits    *)
(* stateChanged() from inside stop() and, when it cannot open the device,  *)
(* from inside start(), which leads back into terminateRecording(); and a  *)
(* QML handler of recordingChanged() or recordingError() may start a       *)
(* recording at once.  The functions that are running are kept in stack,   *)
(* the innermost first, each with the statement it goes on at.             *)
(*                                                                         *)
(* The label is only handed on and is left out, as are the file names: a   *)
(* recording stands for its file.                                          *)
(***************************************************************************)
EXTENDS Integers, Sequences, FiniteSets

CONSTANTS
    Recording,        \* recordings, each with its own time stamp and so its own file
    NoRecording,
    WaveHeaderLength, \* 44
    Width,            \* 2^32: lengths are quint32
    MaxDepth          \* bound: functions running at once when a handler starts another

ASSUME RecorderAssumption ==
    /\ NoRecording \notin Recording
    /\ WaveHeaderLength \in Nat \ {0} /\ Width \in Nat /\ Width > WaveHeaderLength + 1

VARIABLES
    featureAvailable,  \* featureAvailable
    featuresCall,      \* the GetAll call to the route manager is under way
    alive,             \* the recorder has not been destroyed
    stack,             \* functions running, innermost first
    input,             \* the QAudioInput: "none", "recording", "stopped"
    output,            \* the recording whose file is open
    active,            \* what recording() says
    route,             \* what the route manager was last asked to do
    routeLost,         \* history: a request to disable the route could not be sent
    disk,              \* recording -> "absent", "temp", "stored", "deleted"
    verdict            \* recording -> what was signalled of it

recorderVars == << input, output, active, route, routeLost, disk, verdict >>
vars == << featureAvailable, featuresCall, alive, stack, recorderVars >>

Frame ==
    [ op : { "terminate" }, at : { "stop", "reset", "finish", "inactive" } ]
    \cup [ op : { "initiate" }, at : { "terminate", "create", "start", "active" } ]

Terminate == [ op |-> "terminate", at |-> "stop" ]
Initiate == [ op |-> "initiate", at |-> "terminate" ]

At(op, at) == stack # << >> /\ Head(stack) = [ op |-> op, at |-> at ]
GoOn(at) == << [ Head(stack) EXCEPT !.at = at ] >> \o Tail(stack)
Return == Tail(stack)

Verdict == { "none", "refused", "recorded", "lost" }

TypeOK ==
    /\ featureAvailable \in BOOLEAN /\ featuresCall \in BOOLEAN /\ alive \in BOOLEAN
    /\ stack \in Seq(Frame)
    /\ input \in { "none", "recording", "stopped" }
    /\ output \in Recording \cup { NoRecording }
    /\ active \in BOOLEAN /\ route \in { "off", "on" } /\ routeLost \in BOOLEAN
    /\ disk \in [ Recording -> { "absent", "temp", "stored", "deleted" } ]
    /\ verdict \in [ Recording -> Verdict ]
    /\ output # NoRecording => disk[output] = "temp" /\ verdict[output] = "none"

Init ==
    /\ featureAvailable = FALSE /\ featuresCall = TRUE /\ alive = TRUE
    /\ stack = << >>
    /\ input = "none" /\ output = NoRecording /\ active = FALSE
    /\ route = "off" /\ routeLost = FALSE
    /\ disk = [ r \in Recording |-> "absent" ]
    /\ verdict = [ r \in Recording |-> "none" ]

\* Nothing of the recorder is running: the event loop is.
Quiet == stack = << >>

-----------------------------------------------------------------------------
(* What makes the recorder run *)

\* startRecording(), with a name and a uid.
StartRecording ==
    /\ Quiet /\ alive /\ ~active
    /\ stack' = << Initiate >>
    /\ UNCHANGED << featureAvailable, featuresCall, alive, recorderVars >>

StopRecording ==
    /\ Quiet /\ alive
    /\ stack' = << Terminate >>
    /\ UNCHANGED << featureAvailable, featuresCall, alive, recorderVars >>

\* inputStateChanged(StoppedState), when the device stops by itself.
InputStopped ==
    /\ Quiet /\ input = "recording"
    /\ input' = "stopped"
    /\ stack' = << Terminate >>
    /\ UNCHANGED << featureAvailable, featuresCall, alive, output, active, route, routeLost,
                    disk, verdict >>

\* deleteRecording(), which may fail.
DeleteRecording(r) ==
    /\ Quiet /\ alive /\ disk[r] = "stored"
    /\ disk' = [ disk EXCEPT ![r] = "deleted" ]
    /\ UNCHANGED << featureAvailable, featuresCall, alive, stack, input, output, active, route,
                    routeLost, verdict >>

\* The constructor asks once; without an answer recording stays unavailable.
FeaturesCallFinished ==
    /\ Quiet /\ alive /\ featuresCall
    /\ featuresCall' = FALSE
    /\ featureAvailable' \in BOOLEAN
    /\ UNCHANGED << alive, stack, recorderVars >>

\* ~VoiceCallAudioRecorder().
Destroy ==
    /\ Quiet /\ alive
    /\ alive' = FALSE
    /\ stack' = << Terminate >>
    /\ UNCHANGED << featureAvailable, featuresCall, recorderVars >>

\* A signal is emitted, and then the rest is done; startRecording() called from a
\* handler of the signal comes first, unless a recording is in progress.
Emit(rest, nowActive) ==
    \/ stack' = rest
    \/ /\ alive /\ ~nowActive /\ Len(rest) < MaxDepth
       /\ stack' = << Initiate >> \o rest

-----------------------------------------------------------------------------
(* terminateRecording() *)

\* Mutant: the input is left running and only the file is finished.
StopInput_Skipped ==
    /\ At("terminate", "stop")
    /\ stack' = GoOn("finish")
    /\ UNCHANGED recorderVars

\* input->stop() emits stateChanged() if the input was not stopped yet, and another
\* terminateRecording() runs before this one goes on.
StopInput ==
    /\ At("terminate", "stop")
    /\ stack' = CASE input = "none"      -> GoOn("finish")
                  [] input = "stopped"   -> GoOn("reset")
                  [] input = "recording" -> << Terminate >> \o GoOn("reset")
    /\ input' = IF input = "recording" THEN "stopped" ELSE input
    /\ UNCHANGED << output, active, route, routeLost, disk, verdict >>

\* Mutant: the route is given back only by a recording that has become active.
ResetInput_IfActive ==
    /\ At("terminate", "reset")
    /\ input' = "none"
    /\ route' = IF active THEN "off" ELSE route
    /\ stack' = GoOn("finish")
    /\ UNCHANGED << output, active, routeLost, disk, verdict >>

\* input.reset(), whichever input it is by now, and the route is given back.
ResetInput ==
    /\ At("terminate", "reset")
    /\ input' = "none"
    /\ \/ route' = "off" /\ UNCHANGED routeLost
       \/ route' = route /\ routeLost' = TRUE
    /\ stack' = GoOn("finish")
    /\ UNCHANGED << output, active, disk, verdict >>

\* A file that cannot be flushed has length 0, and its data length is a large number.
DataLength(fileLength) == (fileLength - WaveHeaderLength) % Width

\* The lengths that matter: not flushed, empty, with sound.
FileLength == { 0, WaveHeaderLength, WaveHeaderLength + 1 }

\* Mutant: a file that cannot be renamed is given up without a word.
FinishOutput_Silent ==
    /\ At("terminate", "finish")
    /\ output' = NoRecording
    /\ IF output = NoRecording THEN stack' = GoOn("inactive") /\ UNCHANGED << disk, verdict >>
       ELSE \E renamed \in BOOLEAN :
            /\ disk' = [ disk EXCEPT ![output] = IF renamed THEN "stored" ELSE "temp" ]
            /\ verdict' = [ verdict EXCEPT ![output] = IF renamed THEN "recorded" ELSE "none" ]
            /\ stack' = GoOn("inactive")
    /\ UNCHANGED << input, active, route, routeLost >>

\* The header is written, the file renamed whether or not it was, and the outcome
\* signalled; that the file could not be renamed is not noticed.
FinishOutput ==
    /\ At("terminate", "finish")
    /\ output' = NoRecording
    /\ IF output = NoRecording THEN stack' = GoOn("inactive") /\ UNCHANGED << disk, verdict >>
       ELSE \E fileLength \in FileLength, written, renamed \in BOOLEAN :
            LET success == DataLength(fileLength) > 0 /\ written
            IN  /\ disk' = [ disk EXCEPT ![output] = IF renamed THEN "stored" ELSE "temp" ]
                /\ verdict' = [ verdict EXCEPT ![output] = IF success THEN "recorded" ELSE "lost" ]
                /\ IF success THEN stack' = GoOn("inactive") ELSE Emit(GoOn("inactive"), active)
    /\ UNCHANGED << input, active, route, routeLost >>

BecomeInactive ==
    /\ At("terminate", "inactive")
    /\ active' = FALSE
    /\ IF active THEN Emit(Return, FALSE) ELSE stack' = Return
    /\ UNCHANGED << input, output, route, routeLost, disk, verdict >>

TerminateRecording == StopInput \/ ResetInput \/ FinishOutput \/ BecomeInactive

-----------------------------------------------------------------------------
(* initiateRecording() *)

TerminateFirst ==
    /\ At("initiate", "terminate")
    /\ stack' = << Terminate >> \o GoOn("create")
    /\ UNCHANGED recorderVars

\* A recording whose file name is not taken yet.
Unused == { r \in Recording : disk[r] = "absent" /\ verdict[r] = "none" }

\* The file cannot be created, has no room for its header and stays there, or is
\* removed because the route cannot be asked for.
RefuseRecording ==
    /\ At("initiate", "create")
    /\ \/ UNCHANGED << disk, verdict >>
       \/ \E r \in Unused, left \in { "absent", "temp" } :
            /\ disk' = [ disk EXCEPT ![r] = left ]
            /\ verdict' = [ verdict EXCEPT ![r] = "refused" ]
    /\ Emit(Return, active)
    /\ UNCHANGED << input, output, active, route, routeLost >>

CreateFile ==
    /\ At("initiate", "create")
    /\ \E r \in Unused :
        /\ output' = r
        /\ disk' = [ disk EXCEPT ![r] = "temp" ]
    /\ route' = "on"
    /\ stack' = GoOn("start")
    /\ UNCHANGED << input, active, routeLost, verdict >>

\* input->start(): a device that cannot be opened stops with or without a signal.
StartInput ==
    /\ At("initiate", "start")
    /\ \/ input' = "recording" /\ stack' = GoOn("active")
       \/ input' = "stopped" /\ stack' = GoOn("active")
       \/ input' = "stopped" /\ stack' = << Terminate >> \o GoOn("active")
    /\ UNCHANGED << output, active, route, routeLost, disk, verdict >>

\* active is set even if all has ended already; a handler of recordingChanged() does
\* not start another recording then.
BecomeActive ==
    /\ At("initiate", "active")
    /\ active' = TRUE
    /\ stack' = Return
    /\ UNCHANGED << input, output, route, routeLost, disk, verdict >>

InitiateRecording ==
    TerminateFirst \/ RefuseRecording \/ CreateFile \/ StartInput \/ BecomeActive

-----------------------------------------------------------------------------

Next ==
    \/ StartRecording
    \/ StopRecording
    \/ InputStopped
    \/ \E r \in Recording : DeleteRecording(r)
    \/ FeaturesCallFinished
    \/ Destroy
    \/ /\ TerminateRecording \/ InitiateRecording
       /\ UNCHANGED << featureAvailable, featuresCall, alive >>

Spec == Init /\ [][Next]_vars

-----------------------------------------------------------------------------
(* Properties *)

\* The microphone never records while the recorder says that it does not, or into
\* no file: whatever runs inside what, once all has returned.
NothingRecordsUnseen ==
    Quiet /\ input = "recording" => active /\ output # NoRecording /\ route = "on"

\* The call's audio is not routed to the recorder any longer once it has no input,
\* unless the request could not be sent.
RouteIsGivenBack == Quiet /\ input = "none" /\ ~routeLost => route = "off"

\* Below the i-th function a startRecording() has not come back from input->start()
\* yet, and will set active when it does.
Pending(i) ==
    \E j \in (i + 1)..Len(stack) : stack[j] = [ op |-> "initiate", at |-> "active" ]

\* Every file that was created is accounted for exactly once: while it is not the one
\* that is open, the user has been told what became of it.  The exception is a file
\* that another takes the place of while a third recording is still being started.
EveryFileIsJudged ==
    [][ \A r \in Recording :
            /\ verdict[r] # "none" => verdict'[r] = verdict[r]
            /\ (disk[r] = "absent" \/ output = r) /\ disk'[r] # "absent" /\ output' # r =>
                  \/ verdict'[r] # "none"
                  \/ output = r /\ output' # NoRecording /\ Pending(1) ]_vars
=============================================================================
