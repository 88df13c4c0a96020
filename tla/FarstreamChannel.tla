--------------------------- MODULE FarstreamChannel ---------------------------
(***************************************************************************)
(* The media of a Telepathy call whose streams its handler has to carry.   *)
(* CallChannelHandler asks for a Farstream channel once it is ready, and   *)
(* FarstreamChannel follows the signals of that channel and of its         *)
(* contents: it keeps one GStreamer bin for the microphone (input) and one *)
(* for the loudspeaker (output), whatever the number of contents.          *)
(*                                                                         *)
(* GStreamer and telepathy-farstream are modelled from how they are used:  *)
(* adding an element to a pipeline it is already in fails, linking a pad   *)
(* that has a peer answers WAS_LINKED, pads link only inside one pipeline, *)
(* and an element that is removed loses its links.  Anything else the code *)
(* checks for may fail.  A failure is only logged and signalled: nobody    *)
(* connects to error() or stateChanged().                                  *)
(***************************************************************************)
EXTENDS FiniteSets

CONSTANTS
    Audio,   \* audio contents of the call
    Video,   \* video contents
    None     \* no peer

ASSUME ContentAssumption == Audio \cap Video = {} /\ None \notin Audio \cup Video

Content == Audio \cup Video

VARIABLES
    channel,     \* the FarstreamChannel of the handler
    mState,      \* its Tp::MediaStreamState
    pipeline,    \* mGstPipeline: "none", "stopped", "playing"
    conference,  \* the FsConference: "absent", "in" the pipeline, "outside" of it
    input,       \* mGstAudioInput
    output,      \* mGstAudioOutput
    content,     \* contents as this object knows them
    sending,     \* contents whose start-sending was answered with true
    shared,      \* history: audio contents that were there together with another
    refused      \* history: a bin would not go to the NULL state

vars == << channel, mState, pipeline, conference, input, output, content, sending,
           shared, refused >>

\* "asked": createChannel() runs; "failed": it ended in an error and hangup() was
\* called; "deaf": no TfChannel to connect to; "freed": the handler is gone.
ChannelStage == { "none", "asked", "failed", "deaf", "alive", "freed" }

MediaStreamState == { "Disconnected", "Connecting", "Connected" }

\* "deaf": added while there was no pipeline, so its signals were not connected.
ContentStage == { "new", "deaf", "added", "removed" }

Bin == [ made : BOOLEAN, parts : SUBSET { "source", "queue", "sink" }, pad : BOOLEAN,
         in : BOOLEAN, locked : BOOLEAN, state : { "NULL", "READY", "PLAYING" },
         peer : Content \cup { None } ]

NoBin == [ made |-> FALSE, parts |-> {}, pad |-> FALSE, in |-> FALSE, locked |-> FALSE,
           state |-> "NULL", peer |-> None ]

NewBin == [ NoBin EXCEPT !.made = TRUE ]

TypeOK ==
    /\ channel \in ChannelStage
    /\ mState \in MediaStreamState
    /\ pipeline \in { "none", "stopped", "playing" }
    /\ conference \in { "absent", "in", "outside" }
    /\ \A bin \in { input, output } :
        /\ bin \in Bin
        /\ ~bin.made => bin = NoBin
        /\ bin.pad => bin.parts # {}
    /\ content \in [ Content -> ContentStage ]
    /\ sending \subseteq Audio
    /\ shared \subseteq Audio
    /\ refused \in BOOLEAN

Init ==
    /\ channel = "none" /\ mState = "Disconnected"
    /\ pipeline = "none" /\ conference = "absent"
    /\ input = NoBin /\ output = NoBin
    /\ content = [ c \in Content |-> "new" ]
    /\ sending = {} /\ shared = {} /\ refused = FALSE

-----------------------------------------------------------------------------
(* Making and unmaking the bins *)

\* addElementToBin() and addAndLink(): an element that cannot be made, added or
\* linked does not stay.
AddElement(bin, e) == { bin, [ bin EXCEPT !.parts = @ \cup { e } ] }

\* pushElement(): what follows is linked to the last element that was made.
PushElement(bins, e) == UNION { AddElement(b, e) : b \in bins }

\* A bin without an element has no pad to make a ghost of.
CreateGhostPad(bin) ==
    { [ bin EXCEPT !.pad = p ] : p \in { q \in BOOLEAN : q => bin.parts # {} } }

\* A bin that was half made is never completed: the next call finds it there.
InitAudioInput ==
    IF input.made THEN { input }
    ELSE { NoBin } \cup UNION { CreateGhostPad(b) : b \in AddElement(NewBin, "source") }

InitAudioOutput ==
    IF output.made THEN { output }
    ELSE { NoBin } \cup
         UNION { CreateGhostPad(b) : b \in PushElement(AddElement(NewBin, "queue"), "sink") }

\* Mutant: the volume element and the ghost pad are released, the bin is forgotten.
DeinitAudioInput_KeepsBin == input' = [ input EXCEPT !.made = FALSE ]

DeinitAudioInput == input' = NoBin

DeinitAudioOutput == output' = NoBin

\* addBin(): a bin that is in the pipeline already is not touched.
AddBin(bin) ==
    IF bin.made /\ ~bin.in THEN [ bin EXCEPT !.in = TRUE, !.locked = TRUE ] ELSE bin

\* Mutant: the bin is taken out without being stopped first.
RemoveBin_StillPlaying(bin, stops) ==
    IF bin.made THEN [ bin EXCEPT !.locked = TRUE, !.in = FALSE, !.peer = None ] ELSE bin

\* removeBin(): locked first, then stopped, unlinked from whatever content it is
\* linked to, and taken out.  Without its pad it stays in the pipeline.
RemoveBin(bin, stops) ==
    CASE ~bin.made -> bin
      [] bin.made /\ ~stops -> [ bin EXCEPT !.locked = TRUE ]
      [] bin.made /\ stops /\ ~bin.pad -> [ bin EXCEPT !.locked = TRUE, !.state = "NULL" ]
      [] bin.made /\ stops /\ bin.pad ->
            [ bin EXCEPT !.locked = TRUE, !.state = "NULL", !.in = FALSE, !.peer = None ]

-----------------------------------------------------------------------------
(* The channel *)

SetState(state) == mState' = state

\* onCallChannelReady(), when the handler has to do the streaming.
AskForChannel ==
    /\ channel = "none"
    /\ channel' = "asked"
    /\ UNCHANGED << mState, pipeline, conference, input, output, content, sending, shared, refused >>

\* initGstreamer(): a missing bus or watch is reported, and the pipeline used anyway.
InitGstreamer == { "none", "stopped" }

\* init(): without a pipeline the state still becomes Connecting; with one that
\* does not play it stays Disconnected.
InitChannel ==
    \E p \in InitGstreamer, plays \in BOOLEAN :
        IF p = "none" THEN pipeline' = "none" /\ SetState("Connecting")
        ELSE IF plays THEN pipeline' = "playing" /\ SetState("Connecting")
        ELSE pipeline' = "stopped" /\ UNCHANGED mState

\* The constructor connects to the signals of the TfChannel, if there is one.
Construct == \E tfChannel \in BOOLEAN : channel' = IF tfChannel THEN "alive" ELSE "deaf"

\* onFarstreamCreateChannelFinished().
CreateChannelFinished ==
    /\ channel = "asked"
    /\ \/ channel' = "failed" /\ UNCHANGED << mState, pipeline >>
       \/ Construct /\ InitChannel
    /\ UNCHANGED << conference, input, output, content, sending, shared, refused >>

OnClosed ==
    /\ channel = "alive"
    /\ SetState("Disconnected")
    /\ UNCHANGED << channel, pipeline, conference, input, output, content, sending, shared, refused >>

DeinitGstreamer == pipeline' = "none"

\* The destructor, when the handler is deleted.  Unreferencing the TfChannel ends
\* its conference and contents.
Destroy ==
    /\ channel \in { "asked", "failed", "deaf", "alive" }
    /\ channel' = "freed"
    /\ DeinitAudioOutput
    /\ DeinitAudioInput
    /\ DeinitGstreamer
    /\ conference' = "absent" /\ sending' = {}
    /\ UNCHANGED << mState, content, shared, refused >>

-----------------------------------------------------------------------------
(* Signals of the TfChannel *)

OnFsConferenceAdded ==
    /\ channel = "alive" /\ conference = "absent"
    /\ \E added \in BOOLEAN :
        conference' = IF pipeline # "none" /\ added THEN "in" ELSE "outside"
    /\ UNCHANGED << channel, mState, pipeline, input, output, content, sending, shared, refused >>

\* GStreamer: an element that leaves the pipeline loses its links.
Unlinked(bin) == IF bin.peer = None THEN bin ELSE [ bin EXCEPT !.peer = None ]

\* telepathy-farstream drops the conference when it has no content left.
OnFsConferenceRemoved ==
    /\ channel = "alive" /\ conference # "absent"
    /\ \A c \in Content : content[c] \in { "new", "removed" }
    /\ conference' = "absent"
    /\ input' = Unlinked(input)
    /\ output' = Unlinked(output)
    /\ UNCHANGED << channel, mState, pipeline, content, sending, shared, refused >>

\* What makes two audio contents share the bins.
OthersThan(c) == { d \in Audio \ { c } : content[d] = "added" }

OnContentAdded(c) ==
    /\ channel = "alive" /\ conference # "absent" /\ content[c] = "new"
    /\ \A d \in sending : content[d] = "added"
    /\ IF pipeline = "none" THEN
            /\ content' = [ content EXCEPT ![c] = "deaf" ]
            /\ UNCHANGED << input, output, shared >>
       ELSE
            /\ content' = [ content EXCEPT ![c] = "added" ]
            /\ IF c \in Audio THEN
                    /\ \E i \in InitAudioInput : input' = AddBin(i)
                    /\ output' \in InitAudioOutput
                    /\ shared' = IF OthersThan(c) = {} THEN shared
                                 ELSE shared \cup OthersThan(c) \cup { c }
               ELSE UNCHANGED << input, output, shared >>
    /\ UNCHANGED << channel, mState, pipeline, conference, sending, refused >>

\* A content that still sends may be told to stop once it has been removed, though
\* not after another content has come (see OnContentAdded).
OnContentRemoved(c) ==
    /\ channel = "alive" /\ content[c] \in { "deaf", "added" }
    /\ content' = [ content EXCEPT ![c] = "removed" ]
    /\ \E late \in BOOLEAN : sending' = IF late THEN sending ELSE sending \ { c }
    /\ IF pipeline = "none" \/ c \in Video THEN UNCHANGED << input, output, refused >>
       ELSE \E inStops, outStops \in BOOLEAN :
                /\ input' = RemoveBin(input, inStops)
                /\ output' = RemoveBin(output, outStops)
                /\ refused' = (refused \/ ~inStops \/ ~outStops)
    /\ UNCHANGED << channel, mState, pipeline, conference, shared >>

-----------------------------------------------------------------------------
(* Signals of the TfContents *)

\* Mutant: a link that is refused is taken for one that is there already.
LinkPads_Refused(bin, c) ==
    IF bin.peer = None /\ bin.in /\ conference = "in" THEN { "ok", "refused" } ELSE { "was_linked" }

\* gst_pad_link(): a pad that has a peer is left to it.
LinkPads(bin, c) ==
    IF bin.peer # None THEN { "was_linked" }
    ELSE IF bin.in /\ conference = "in" THEN { "ok", "refused" }
    ELSE { "refused" }

\* The input, once its pad is linked: unlocked, and brought to the pipeline's state.
Started(bin, syncs) ==
    [ bin EXCEPT !.locked = FALSE,
                 !.state = IF syncs /\ pipeline = "playing" THEN "PLAYING" ELSE @ ]

\* onStartSending(), answered with true or false.  WAS_LINKED counts as a success,
\* whichever content the input is linked to.
OnStartSending(c) ==
    /\ channel = "alive" /\ content[c] = "added" /\ c \notin sending
    /\ \/ UNCHANGED << input, sending >>          \* no sink pad, or a video content
       \/ /\ c \in Audio
          /\ \E bin \in InitAudioInput :
                \/ /\ ~bin.pad
                   /\ input' = bin
                   /\ UNCHANGED sending
                \/ \E link \in LinkPads(bin, c), syncs \in BOOLEAN :
                    /\ bin.pad
                    /\ input' = CASE link = "refused"    -> bin
                                  [] link = "ok"         -> Started([ bin EXCEPT !.peer = c ], syncs)
                                  [] link = "was_linked" -> Started(bin, syncs)
                    /\ sending' = IF link # "refused" /\ syncs THEN sending \cup { c } ELSE sending
    /\ UNCHANGED << channel, mState, pipeline, conference, output, content, shared, refused >>

\* Mutant: the input is stopped only if it is this content that it is linked to.
Stopped_IfLinked(bin, c, stops) ==
    IF bin.peer = c /\ stops THEN [ bin EXCEPT !.locked = TRUE, !.state = "NULL", !.peer = None ]
    ELSE bin

\* The input is stopped before it is found out whether it is this content that it
\* is linked to; only then is it unlinked.
Stopped(bin, c, stops) ==
    CASE ~bin.made -> bin
      [] bin.made /\ ~stops -> [ bin EXCEPT !.locked = TRUE ]
      [] bin.made /\ stops ->
            [ bin EXCEPT !.locked = TRUE, !.state = "NULL", !.peer = IF @ = c THEN None ELSE @ ]

\* onStopSending(); a content that sends has its sink pad.
OnStopSending(c) ==
    /\ channel = "alive" /\ c \in sending
    /\ sending' = sending \ { c }
    /\ \E stops \in BOOLEAN :
        /\ input' = Stopped(input, c, stops)
        /\ refused' = (refused \/ ~stops)
    /\ UNCHANGED << channel, mState, pipeline, conference, output, content, shared >>

\* The output while a stream is given to it: it is added the first time, and freed
\* of the stream it played before, of which nobody may have said that it ended.
FreedForStream ==
    LET bin == AddBin(output)
    IN  IF bin.peer = None THEN bin
        ELSE [ bin EXCEPT !.locked = TRUE, !.state = "READY", !.peer = None ]

\* onSrcPadAddedContent().  A second stream that cannot be linked leaves the first
\* one silent; the state is Connected even after onClosed().
OnSrcPadAddedContent(c) ==
    /\ channel = "alive" /\ content[c] = "added"
    /\ \/ /\ c \in Video
          /\ UNCHANGED << output, mState >>
       \/ /\ c \in Audio /\ ~output.pad
          /\ output' = AddBin(output)
          /\ UNCHANGED mState
       \/ /\ c \in Audio /\ output.pad
          /\ \E link \in LinkPads(FreedForStream, c), plays \in BOOLEAN :
                /\ output' = CASE link # "ok" -> FreedForStream
                              [] link = "ok" ->
                                    [ FreedForStream EXCEPT !.peer = c, !.locked = FALSE,
                                                            !.state = IF plays THEN "PLAYING" ELSE @ ]
                /\ IF link = "ok" /\ plays THEN SetState("Connected") ELSE UNCHANGED mState
    /\ UNCHANGED << channel, pipeline, conference, input, content, sending, shared, refused >>

-----------------------------------------------------------------------------

ContentStep(c) ==
    \/ OnContentAdded(c)
    \/ OnContentRemoved(c)
    \/ OnStartSending(c)
    \/ OnStopSending(c)
    \/ OnSrcPadAddedContent(c)

Next ==
    \/ AskForChannel
    \/ CreateChannelFinished
    \/ OnClosed
    \/ OnFsConferenceAdded
    \/ OnFsConferenceRemoved
    \/ \E c \in Content : ContentStep(c)
    \/ Destroy

Spec == Init /\ [][Next]_vars

-----------------------------------------------------------------------------
(* Properties *)

\* A bin that plays stands in the pipeline and is linked to a content that is
\* still there: neither order of removals and late signals leaves the microphone
\* or the loudspeaker open towards a content that has gone.
PlayingBinsArePlumbed ==
    \A bin \in { input, output } :
        bin.state = "PLAYING" /\ ~refused =>
            /\ bin.in /\ ~bin.locked /\ bin.parts # {}
            /\ bin.peer \in Audio /\ content[bin.peer] = "added"

\* The microphone is open only while some content was told it may send, although
\* the one bin serves all contents and failures leave it half set up.
MicrophoneOnlyWhileSending ==
    input.state = "PLAYING" /\ ~refused => sending # {}

\* A content that was told it may send is fed from the microphone, as long as
\* it never had to share the input with another and the pipeline plays.
SendingIsHeard ==
    \A c \in sending \ shared :
        content[c] = "added" /\ pipeline = "playing" /\ ~refused =>
            input.state = "PLAYING" /\ input.peer = c
=============================================================================
