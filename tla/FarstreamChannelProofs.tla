------------------------ MODULE FarstreamChannelProofs ------------------------
(***************************************************************************)
(* FarstreamChannel keeps its bins plumbed, opens the microphone only      *)
(* while a content may send, and feeds the content that may, for any       *)
(* number of audio and video contents.                                     *)
(***************************************************************************)
EXTENDS FarstreamChannel, TLAPS

\* Nothing has happened yet while the Farstream channel is being made.
FreshUntilMade ==
    channel \in { "none", "asked" } =>
        /\ content = [ c \in Content |-> "new" ] /\ sending = {}
        /\ input = NoBin /\ output = NoBin

\* Signals of a content are heard only if there was a pipeline when it was added.
HeardHavePipeline ==
    /\ \A c \in Content :
        /\ content[c] = "deaf" => pipeline = "none"
        /\ content[c] = "added" /\ channel = "alive" => pipeline # "none"
    /\ \A c \in sending : content[c] \in { "added", "removed" }

\* Two audio contents that are there at the same time, or of which one may still
\* be told to stop, count as sharing the bins.
SharingIsKnown ==
    \A c, d \in Audio :
        /\ c # d /\ content[c] = "added"
        /\ content[d] = "added" \/ d \in sending
        => c \in shared

\* A bin is linked to a content that is there, and plays only if it is linked.
Plumbed(bin) ==
    /\ ~refused /\ bin.peer # None =>
            bin.in /\ bin.pad /\ bin.peer \in Audio /\ content[bin.peer] = "added"
    /\ ~refused /\ bin.state = "PLAYING" => bin.peer # None /\ ~bin.locked

MediaInv ==
    /\ TypeOK
    /\ FreshUntilMade
    /\ HeardHavePipeline
    /\ SharingIsKnown
    /\ Plumbed(input) /\ Plumbed(output)
    /\ MicrophoneOnlyWhileSending
    /\ SendingIsHeard

-----------------------------------------------------------------------------
(* The operators on bins *)

\* What TypeOK says of one bin.
WellMade(bin) ==
    /\ bin \in Bin
    /\ ~bin.made => bin = NoBin
    /\ bin.pad => bin.parts # {}

\* A bin that has just been made: out of the pipeline, stopped and unlinked.
Fresh(bin) == WellMade(bin) /\ ~bin.in /\ bin.state = "NULL" /\ bin.peer = None

LEMMA NoBinIsFresh == Fresh(NoBin)
BY DEF Fresh, WellMade, NoBin, Bin

\* Adding elements and a ghost pad to a bin does nothing else to it.
LEMMA ElementsKeepBinsFresh ==
    ASSUME NEW bin, Fresh(bin), bin.made, ~bin.pad, NEW e \in { "source", "queue", "sink" },
           NEW b \in AddElement(bin, e)
    PROVE  Fresh(b) /\ b.made /\ ~b.pad
BY DEF Fresh, WellMade, Bin, AddElement

LEMMA GhostPadsKeepBinsFresh ==
    ASSUME NEW bin, Fresh(bin), bin.made, ~bin.pad, NEW b \in CreateGhostPad(bin)
    PROVE  Fresh(b)
BY DEF Fresh, WellMade, Bin, CreateGhostPad

LEMMA NewBinIsFresh == Fresh(NewBin) /\ NewBin.made /\ ~NewBin.pad
BY DEF Fresh, WellMade, Bin, NewBin, NoBin

\* initAudioInput() leaves a bin that is there as it is, and makes a fresh one otherwise.
LEMMA InitAudioInputResult ==
    ASSUME NEW bin \in InitAudioInput
    PROVE  IF input.made THEN bin = input ELSE Fresh(bin)
<1>1. CASE input.made
  BY <1>1 DEF InitAudioInput
<1>2. CASE ~input.made
  <2>1. bin = NoBin \/ \E b \in AddElement(NewBin, "source") : bin \in CreateGhostPad(b)
    BY <1>2, Zenon DEF InitAudioInput
  <2>2. ASSUME NEW b \in AddElement(NewBin, "source"), bin \in CreateGhostPad(b)
        PROVE  Fresh(bin)
    <3>1. Fresh(b) /\ b.made /\ ~b.pad
      BY NewBinIsFresh, ElementsKeepBinsFresh, Zenon
    <3> QED
      BY <2>2, <3>1, GhostPadsKeepBinsFresh, Zenon
  <2> QED
    BY <1>2, <2>1, <2>2, NoBinIsFresh, Zenon
<1> QED
  BY <1>1, <1>2

\* initAudioOutput() likewise.
LEMMA InitAudioOutputResult ==
    ASSUME NEW bin \in InitAudioOutput
    PROVE  IF output.made THEN bin = output ELSE Fresh(bin)
<1>1. CASE output.made
  BY <1>1 DEF InitAudioOutput
<1>2. CASE ~output.made
  <2> DEFINE Chains == PushElement(AddElement(NewBin, "queue"), "sink")
  <2>1. bin = NoBin \/ \E b \in Chains : bin \in CreateGhostPad(b)
    BY <1>2, Zenon DEF InitAudioOutput
  <2>2. ASSUME NEW b \in Chains, bin \in CreateGhostPad(b)
        PROVE  Fresh(bin)
    <3>1. PICK q \in AddElement(NewBin, "queue") : b \in AddElement(q, "sink")
      BY Zenon DEF PushElement
    <3>2. Fresh(q) /\ q.made /\ ~q.pad
      BY NewBinIsFresh, ElementsKeepBinsFresh, Zenon
    <3>3. Fresh(b) /\ b.made /\ ~b.pad
      BY <3>1, <3>2, ElementsKeepBinsFresh, Zenon
    <3> QED
      BY <2>2, <3>3, GhostPadsKeepBinsFresh, Zenon
  <2> QED
    BY <1>2, <2>1, <2>2, NoBinIsFresh, Zenon
<1> QED
  BY <1>1, <1>2

\* addBin() changes where a bin stands, and nothing else.
LEMMA AddBinResult ==
    ASSUME NEW bin, WellMade(bin)
    PROVE  /\ WellMade(AddBin(bin))
           /\ AddBin(bin).made = bin.made /\ AddBin(bin).pad = bin.pad
           /\ AddBin(bin).peer = bin.peer /\ AddBin(bin).state = bin.state
           /\ bin.in => AddBin(bin) = bin
           /\ bin.made => AddBin(bin).in
BY DEF AddBin, WellMade, Bin

\* removeBin() stops and unlinks a bin unless it refuses to stop.
LEMMA RemoveBinResult ==
    ASSUME NEW bin, WellMade(bin), NEW stops \in BOOLEAN
    PROVE  /\ WellMade(RemoveBin(bin, stops))
           /\ stops => /\ RemoveBin(bin, stops).state = "NULL"
                       /\ bin.pad => RemoveBin(bin, stops).peer = None
                       /\ ~bin.pad => RemoveBin(bin, stops).peer = bin.peer
<1>1. CASE ~bin.made
  <2>1. RemoveBin(bin, stops) = bin
    BY <1>1 DEF RemoveBin
  <2> QED
    BY <1>1, <2>1 DEF WellMade, NoBin
<1>2. CASE bin.made /\ ~stops
  <2>1. RemoveBin(bin, stops) = [ bin EXCEPT !.locked = TRUE ]
    BY <1>2 DEF RemoveBin
  <2> QED
    BY <1>2, <2>1 DEF WellMade, Bin
<1>3. CASE bin.made /\ stops /\ ~bin.pad
  <2>1. RemoveBin(bin, stops) = [ bin EXCEPT !.locked = TRUE, !.state = "NULL" ]
    BY <1>3 DEF RemoveBin
  <2> QED
    BY <1>3, <2>1 DEF WellMade, Bin
<1>4. CASE bin.made /\ stops /\ bin.pad
  <2>1. RemoveBin(bin, stops) =
            [ bin EXCEPT !.locked = TRUE, !.state = "NULL", !.in = FALSE, !.peer = None ]
    BY <1>4 DEF RemoveBin
  <2> QED
    BY <1>4, <2>1 DEF WellMade, Bin
<1> QED
  BY <1>1, <1>2, <1>3, <1>4

\* Stopping for a content stops the bin whatever it is linked to.
LEMMA StoppedResult ==
    ASSUME NEW bin, WellMade(bin), NEW c, NEW stops \in BOOLEAN
    PROVE  /\ WellMade(Stopped(bin, c, stops))
           /\ stops => /\ Stopped(bin, c, stops).state = "NULL"
                       /\ Stopped(bin, c, stops).peer \in { bin.peer, None }
                       /\ Stopped(bin, c, stops).in = bin.in
                       /\ Stopped(bin, c, stops).pad = bin.pad
<1>1. CASE ~bin.made
  <2>1. Stopped(bin, c, stops) = bin
    BY <1>1 DEF Stopped
  <2> QED
    BY <1>1, <2>1 DEF WellMade, NoBin
<1>2. CASE bin.made /\ ~stops
  <2>1. Stopped(bin, c, stops) = [ bin EXCEPT !.locked = TRUE ]
    BY <1>2 DEF Stopped
  <2> QED
    BY <1>2, <2>1 DEF WellMade, Bin
<1>3. CASE bin.made /\ stops
  <2>1. Stopped(bin, c, stops) =
            [ bin EXCEPT !.locked = TRUE, !.state = "NULL", !.peer = IF @ = c THEN None ELSE @ ]
    BY <1>3 DEF Stopped
  <2> QED
    BY <1>3, <2>1 DEF WellMade, Bin
<1> QED
  BY <1>1, <1>2, <1>3

\* A bin that is started is unlocked, and plays if the pipeline does.
LEMMA StartedResult ==
    ASSUME NEW bin, WellMade(bin), bin.made, NEW syncs \in BOOLEAN
    PROVE  /\ WellMade(Started(bin, syncs))
           /\ ~Started(bin, syncs).locked
           /\ Started(bin, syncs).in = bin.in /\ Started(bin, syncs).pad = bin.pad
           /\ Started(bin, syncs).peer = bin.peer
           /\ Started(bin, syncs).state =
                IF syncs /\ pipeline = "playing" THEN "PLAYING" ELSE bin.state
BY DEF Started, WellMade, Bin

\* The output that is offered a stream is in the pipeline and has no peer.
LEMMA FreedForStreamResult ==
    ASSUME WellMade(output), output.pad
    PROVE  /\ WellMade(FreedForStream)
           /\ FreedForStream.in /\ FreedForStream.pad /\ FreedForStream.made
           /\ FreedForStream.peer = None
           /\ FreedForStream.state = IF output.peer = None THEN output.state ELSE "READY"
<1>1. output.made
  BY DEF WellMade, NoBin
<1>2. /\ WellMade(AddBin(output)) /\ AddBin(output).made /\ AddBin(output).pad
      /\ AddBin(output).in /\ AddBin(output).peer = output.peer
      /\ AddBin(output).state = output.state
  BY <1>1, AddBinResult
<1>3. CASE output.peer = None
  <2>1. FreedForStream = AddBin(output)
    BY <1>2, <1>3 DEF FreedForStream
  <2> QED
    BY <1>2, <1>3, <2>1
<1>4. CASE output.peer # None
  <2> DEFINE added == AddBin(output)
  <2>1. FreedForStream = [ added EXCEPT !.locked = TRUE, !.state = "READY", !.peer = None ]
    BY <1>2, <1>4 DEF FreedForStream
  <2>2. WellMade(added) /\ added.made /\ added.pad /\ added.in
    BY <1>2
  <2> HIDE DEF added
  <2> QED
    BY <1>4, <2>1, <2>2 DEF WellMade, Bin
<1> QED
  BY <1>3, <1>4

-----------------------------------------------------------------------------
(* The invariant is kept by every step *)

\* The bins' part of the type invariant, as the lemmas above use it.
LEMMA TypeSplits ==
    TypeOK <=> /\ channel \in ChannelStage
               /\ mState \in MediaStreamState
               /\ pipeline \in { "none", "stopped", "playing" }
               /\ conference \in { "absent", "in", "outside" }
               /\ WellMade(input) /\ WellMade(output)
               /\ content \in [ Content -> ContentStage ]
               /\ sending \subseteq Audio
               /\ shared \subseteq Audio
               /\ refused \in BOOLEAN
<1>1. (\A bin \in { input, output } : WellMade(bin)) <=> WellMade(input) /\ WellMade(output)
  OBVIOUS
<1>2. (\A bin \in { input, output } : WellMade(bin)) <=>
      \A bin \in { input, output } :
        /\ bin \in Bin
        /\ ~bin.made => bin = NoBin
        /\ bin.pad => bin.parts # {}
  BY Zenon DEF WellMade
<1> QED
  BY <1>1, <1>2, Zenon DEF TypeOK

LEMMA MediaInit == Init => MediaInv
<1> SUFFICES ASSUME Init PROVE MediaInv
  OBVIOUS
<1>1. TypeOK
  BY NoBinIsFresh, TypeSplits
     DEF Init, Fresh, ChannelStage, MediaStreamState, ContentStage
<1>2. Plumbed(input) /\ Plumbed(output) /\ MicrophoneOnlyWhileSending
  BY DEF Init, Plumbed, MicrophoneOnlyWhileSending, NoBin
<1>3. FreshUntilMade /\ SendingIsHeard
  BY DEF Init, FreshUntilMade, SendingIsHeard
<1>4. \A c \in Content : content[c] = "new"
  BY DEF Init
<1>5. HeardHavePipeline /\ SharingIsKnown
  BY <1>4 DEF Init, HeardHavePipeline, SharingIsKnown, Content
<1> QED
  BY <1>1, <1>2, <1>3, <1>5 DEF MediaInv

\* Steps of the channel itself leave bins and contents alone.
LEMMA ChannelSteps ==
    ASSUME MediaInv, AskForChannel \/ CreateChannelFinished \/ OnClosed
    PROVE  MediaInv'
<1> USE DEF MediaInv
<1>1. UNCHANGED << conference, input, output, content, sending, shared, refused >>
  BY DEF AskForChannel, CreateChannelFinished, OnClosed
<1>2. /\ channel' \in ChannelStage /\ mState' \in MediaStreamState
      /\ pipeline' \in { "none", "stopped", "playing" }
  BY DEF AskForChannel, CreateChannelFinished, OnClosed, Construct, InitChannel, InitGstreamer,
         SetState, TypeOK, ChannelStage, MediaStreamState
<1>3. channel' \in { "none", "asked" } => channel \in { "none", "asked" }
  BY DEF AskForChannel, CreateChannelFinished, OnClosed, Construct
<1>4. \/ UNCHANGED pipeline /\ (channel' = "alive" => channel = "alive")
      \/ channel = "asked"
  BY DEF AskForChannel, CreateChannelFinished, OnClosed
<1>5. TypeOK'
  BY <1>1, <1>2 DEF TypeOK
<1>6. FreshUntilMade'
  BY <1>1, <1>3 DEF FreshUntilMade
<1>7. HeardHavePipeline'
  BY <1>1, <1>4 DEF FreshUntilMade, HeardHavePipeline
<1>8. SharingIsKnown' /\ Plumbed(input)' /\ Plumbed(output)' /\ MicrophoneOnlyWhileSending'
  BY <1>1 DEF SharingIsKnown, Plumbed, MicrophoneOnlyWhileSending
<1>9. SendingIsHeard'
  BY <1>1, <1>4 DEF FreshUntilMade, SendingIsHeard
<1> QED
  BY <1>5, <1>6, <1>7, <1>8, <1>9

LEMMA DestroyStep ==
    ASSUME MediaInv, Destroy
    PROVE  MediaInv'
<1> USE DEF MediaInv
<1>1. /\ channel' = "freed" /\ input' = NoBin /\ output' = NoBin /\ pipeline' = "none"
      /\ conference' = "absent" /\ sending' = {} /\ UNCHANGED << mState, content, shared, refused >>
  BY DEF Destroy, DeinitAudioOutput, DeinitAudioInput, DeinitGstreamer
<1>2. TypeOK'
  BY <1>1, NoBinIsFresh, TypeSplits DEF TypeOK, ChannelStage, Fresh, WellMade
<1>3. FreshUntilMade' /\ HeardHavePipeline' /\ SendingIsHeard'
  BY <1>1 DEF FreshUntilMade, HeardHavePipeline, SendingIsHeard
<1>4. SharingIsKnown'
  BY <1>1 DEF SharingIsKnown
<1>5. Plumbed(input)' /\ Plumbed(output)' /\ MicrophoneOnlyWhileSending'
  BY <1>1 DEF Plumbed, MicrophoneOnlyWhileSending, NoBin
<1> QED
  BY <1>2, <1>3, <1>4, <1>5

LEMMA UnlinkedResult ==
    ASSUME NEW bin, WellMade(bin)
    PROVE  /\ WellMade(Unlinked(bin))
           /\ Unlinked(bin).state = bin.state /\ Unlinked(bin).peer = None
<1>1. CASE bin.peer = None
  BY <1>1 DEF Unlinked
<1>2. CASE bin.peer # None
  <2>1. bin.made
    BY <1>2 DEF WellMade, NoBin
  <2>2. Unlinked(bin) = [ bin EXCEPT !.peer = None ]
    BY <1>2 DEF Unlinked
  <2> QED
    BY <2>1, <2>2 DEF WellMade, Bin
<1> QED
  BY <1>1, <1>2

LEMMA ConferenceSteps ==
    ASSUME MediaInv, OnFsConferenceAdded \/ OnFsConferenceRemoved
    PROVE  MediaInv'
<1> USE DEF MediaInv
<1>1. CASE OnFsConferenceAdded
  <2>1. /\ UNCHANGED << channel, mState, pipeline, input, output, content, sending, shared, refused >>
        /\ conference' \in { "in", "outside" }
    BY <1>1 DEF OnFsConferenceAdded
  <2>2. TypeOK'
    BY <2>1 DEF TypeOK
  <2>3. FreshUntilMade' /\ HeardHavePipeline' /\ SharingIsKnown'
    BY <2>1 DEF FreshUntilMade, HeardHavePipeline, SharingIsKnown
  <2>4. Plumbed(input)' /\ Plumbed(output)' /\ MicrophoneOnlyWhileSending' /\ SendingIsHeard'
    BY <2>1 DEF Plumbed, MicrophoneOnlyWhileSending, SendingIsHeard
  <2> QED
    BY <2>2, <2>3, <2>4
<1>2. CASE OnFsConferenceRemoved
  <2>1. /\ UNCHANGED << channel, mState, pipeline, content, sending, shared, refused >>
        /\ conference' = "absent"
        /\ input' = Unlinked(input) /\ output' = Unlinked(output)
        /\ channel = "alive" /\ \A c \in Content : content[c] \in { "new", "removed" }
    BY <1>2 DEF OnFsConferenceRemoved
  <2>2. WellMade(input) /\ WellMade(output)
    BY TypeSplits
  <2>3. /\ WellMade(input') /\ input'.state = input.state /\ input'.peer = None
        /\ WellMade(output') /\ output'.state = output.state /\ output'.peer = None
    BY <2>1, <2>2, UnlinkedResult
  <2>4. ~refused => input.state # "PLAYING" /\ output.state # "PLAYING"
    BY <2>1 DEF Plumbed, Content
  <2>5. TypeOK'
    BY <2>1, <2>3, TypeSplits DEF TypeOK, WellMade
  <2>6. FreshUntilMade' /\ HeardHavePipeline' /\ SharingIsKnown'
    BY <2>1 DEF FreshUntilMade, HeardHavePipeline, SharingIsKnown
  <2>7. Plumbed(input)' /\ Plumbed(output)' /\ MicrophoneOnlyWhileSending'
    BY <2>1, <2>3, <2>4 DEF Plumbed, MicrophoneOnlyWhileSending
  <2>8. SendingIsHeard'
    BY <2>1 DEF SendingIsHeard, TypeOK, Content
  <2> QED
    BY <2>5, <2>6, <2>7, <2>8
<1> QED
  BY <1>1, <1>2

\* A content that comes gets the bins made and the input put into the pipeline; one
\* that feeds from the input already is sharing from now on.
LEMMA ContentAddedStep ==
    ASSUME MediaInv, NEW c \in Content, OnContentAdded(c)
    PROVE  MediaInv'
<1> USE DEF MediaInv
<1>1. /\ channel = "alive" /\ content[c] = "new" /\ \A d \in sending : content[d] = "added"
      /\ UNCHANGED << channel, mState, pipeline, conference, sending, refused >>
  BY DEF OnContentAdded
<1>2. /\ WellMade(input) /\ WellMade(output)
      /\ content \in [ Content -> ContentStage ] /\ sending \subseteq Audio /\ Audio \subseteq Content
  BY TypeSplits DEF Content
<1>3. c \notin sending
  BY <1>1
<1>4. CASE pipeline = "none"
  <2>1. content' = [ content EXCEPT ![c] = "deaf" ] /\ UNCHANGED << input, output, shared >>
    BY <1>4 DEF OnContentAdded
  <2>2. TypeOK'
    BY <1>1, <1>2, <2>1 DEF TypeOK, ContentStage
  <2>3. FreshUntilMade' /\ HeardHavePipeline' /\ SharingIsKnown'
    BY <1>1, <1>2, <1>3, <1>4, <2>1 DEF FreshUntilMade, HeardHavePipeline, SharingIsKnown
  <2>4. \A d \in Content : content[d] = "added" => content'[d] = "added"
    BY <1>1, <1>2, <2>1
  <2>5. Plumbed(input)' /\ Plumbed(output)'
    BY <1>1, <1>2, <2>1, <2>4 DEF Plumbed
  <2>6. MicrophoneOnlyWhileSending' /\ SendingIsHeard'
    BY <1>1, <1>2, <1>3, <2>1 DEF MicrophoneOnlyWhileSending, SendingIsHeard
  <2> QED
    BY <2>2, <2>3, <2>5, <2>6
<1>5. CASE pipeline # "none"
  <2>1. content' = [ content EXCEPT ![c] = "added" ]
    BY <1>5 DEF OnContentAdded
  <2>2. \A d \in Content : content[d] = "added" => content'[d] = "added"
    BY <1>1, <1>2, <2>1
  <2>3. CASE c \notin Audio
    <3>1. UNCHANGED << input, output, shared >>
      BY <1>5, <2>3 DEF OnContentAdded
    <3>2. TypeOK'
      BY <1>1, <1>2, <2>1, <3>1 DEF TypeOK, ContentStage
    <3>3. FreshUntilMade' /\ HeardHavePipeline'
      BY <1>1, <1>2, <1>3, <1>5, <2>1 DEF FreshUntilMade, HeardHavePipeline
    <3>4. SharingIsKnown'
      BY <1>1, <1>2, <2>1, <2>3, <3>1 DEF SharingIsKnown
    <3>5. Plumbed(input)' /\ Plumbed(output)'
      BY <1>1, <1>2, <2>2, <3>1 DEF Plumbed
    <3>6. MicrophoneOnlyWhileSending' /\ SendingIsHeard'
      BY <1>1, <1>2, <1>3, <2>1, <3>1 DEF MicrophoneOnlyWhileSending, SendingIsHeard
    <3> QED
      BY <3>2, <3>3, <3>4, <3>5, <3>6
  <2>4. CASE c \in Audio
    <3>1. PICK bin \in InitAudioInput : input' = AddBin(bin)
      BY <1>5, <2>4 DEF OnContentAdded
    <3>2. /\ output' \in InitAudioOutput
          /\ shared' = IF OthersThan(c) = {} THEN shared ELSE shared \cup OthersThan(c) \cup { c }
      BY <1>5, <2>4 DEF OnContentAdded
    <3>3. /\ WellMade(bin)
          /\ bin.peer # None \/ bin.state = "PLAYING" => bin = input /\ input.made
      BY <1>2, <3>1, InitAudioInputResult DEF Fresh
    <3>4. /\ WellMade(input') /\ input'.state = bin.state
          /\ bin.peer # None \/ bin.state = "PLAYING" =>
                input'.peer = bin.peer /\ (bin.in => input' = input)
      BY <3>1, <3>3, AddBinResult
    <3>5. /\ WellMade(output')
          /\ output'.peer # None \/ output'.state = "PLAYING" => output' = output
      BY <1>2, <3>2, InitAudioOutputResult DEF Fresh
    <3>6. shared \subseteq shared' /\ shared' \subseteq Audio
      BY <2>4, <3>2 DEF OthersThan, TypeOK
    <3>7. TypeOK'
      <4>1. content' \in [ Content -> ContentStage ]
        BY <1>2, <2>1 DEF ContentStage
      <4> QED
        BY <1>1, <3>4, <3>5, <3>6, <4>1, TypeSplits DEF TypeOK, WellMade
    <3>8. FreshUntilMade' /\ HeardHavePipeline'
      BY <1>1, <1>2, <1>3, <1>5, <2>1 DEF FreshUntilMade, HeardHavePipeline
    <3>9. SharingIsKnown'
      <4> SUFFICES ASSUME NEW d \in Audio, NEW e \in Audio, d # e, content'[d] = "added",
                          content'[e] = "added" \/ e \in sending
                   PROVE  d \in shared'
        BY <1>1 DEF SharingIsKnown
      <4>1. CASE d # c /\ e # c
        BY <1>2, <2>1, <3>6, <4>1 DEF SharingIsKnown
      <4>2. CASE d = c
        <5>1. e \in OthersThan(c)
          BY <1>1, <1>2, <2>1, <4>2 DEF OthersThan
        <5> QED
          BY <3>2, <4>2, <5>1
      <4>3. CASE e = c
        <5>1. d \in OthersThan(c)
          BY <1>2, <2>1, <4>3 DEF OthersThan
        <5> QED
          BY <3>2, <5>1
      <4> QED
        BY <4>1, <4>2, <4>3
    <3>10. Plumbed(input)'
      <4> SUFFICES ASSUME ~refused, input'.peer # None \/ input'.state = "PLAYING"
                   PROVE  /\ input' = input
                          /\ input.peer # None /\ Plumbed(input)
        BY <1>1, <1>2, <2>2 DEF Plumbed
      <4>1. input'.peer = bin.peer
        BY <3>1, <3>3, AddBinResult
      <4>2. bin = input /\ input.made
        BY <3>3, <3>4, <4>1
      <4>3. input.peer # None /\ input.in
        BY <3>4, <4>1, <4>2 DEF Plumbed
      <4> QED
        BY <3>4, <4>2, <4>3
    <3>11. Plumbed(output)'
      BY <1>1, <1>2, <2>2, <3>5 DEF Plumbed
    <3>12. MicrophoneOnlyWhileSending'
      BY <1>1, <3>3, <3>4 DEF MicrophoneOnlyWhileSending
    <3>13. SendingIsHeard'
      <4> SUFFICES ASSUME NEW d \in sending, d \notin shared', content'[d] = "added",
                          pipeline = "playing", ~refused
                   PROVE  input'.state = "PLAYING" /\ input'.peer = d
        BY <1>1 DEF SendingIsHeard
      <4>1. input.state = "PLAYING" /\ input.peer = d
        BY <1>2, <1>3, <2>1, <3>6 DEF SendingIsHeard
      <4>2. input.made
        BY <1>2, <4>1 DEF WellMade, NoBin
      <4>3. bin = input
        BY <3>1, <4>2, InitAudioInputResult
      <4> QED
        BY <3>3, <3>4, <4>1, <4>3
    <3> QED
      BY <3>7, <3>8, <3>9, <3>10, <3>11, <3>12, <3>13
  <2> QED
    BY <2>3, <2>4
<1> QED
  BY <1>4, <1>5

\* A content that goes takes the bins with it, whatever they are linked to.
LEMMA ContentRemovedStep ==
    ASSUME MediaInv, NEW c \in Content, OnContentRemoved(c)
    PROVE  MediaInv'
<1> USE DEF MediaInv
<1>1. /\ channel = "alive" /\ content[c] \in { "deaf", "added" }
      /\ content' = [ content EXCEPT ![c] = "removed" ]
      /\ sending' \in { sending, sending \ { c } }
      /\ UNCHANGED << channel, mState, pipeline, conference, shared >>
  BY DEF OnContentRemoved
<1>2. /\ WellMade(input) /\ WellMade(output)
      /\ content \in [ Content -> ContentStage ] /\ sending \subseteq Audio /\ Audio \subseteq Content
  BY TypeSplits DEF Content
<1>3. \A d \in Content : content'[d] = IF d = c THEN "removed" ELSE content[d]
  BY <1>1, <1>2
<1>4. FreshUntilMade' /\ HeardHavePipeline'
  BY <1>1, <1>2, <1>3 DEF FreshUntilMade, HeardHavePipeline
<1>5. SharingIsKnown'
  BY <1>1, <1>2, <1>3 DEF SharingIsKnown
<1>6. content' \in [ Content -> ContentStage ] /\ sending' \subseteq Audio
  BY <1>1, <1>2 DEF ContentStage
<1>7. CASE pipeline = "none" \/ c \in Video
  <2>1. UNCHANGED << input, output, refused >>
    BY <1>7 DEF OnContentRemoved
  <2>2. TypeOK'
    BY <1>1, <1>2, <1>6, <2>1, TypeSplits DEF TypeOK, WellMade
  <2>3. \A d \in Audio : content[d] = "added" => content'[d] = "added" /\ d # c
    BY <1>1, <1>2, <1>3, <1>7, ContentAssumption DEF HeardHavePipeline, Content
  <2>4. Plumbed(input)' /\ Plumbed(output)'
    BY <1>2, <2>1, <2>3 DEF Plumbed
  <2>5. c \notin sending
    BY <1>1, <1>2, <1>7, ContentAssumption DEF HeardHavePipeline
  <2>6. MicrophoneOnlyWhileSending' /\ SendingIsHeard'
    BY <1>1, <1>2, <1>3, <2>1, <2>5 DEF MicrophoneOnlyWhileSending, SendingIsHeard
  <2> QED
    BY <1>4, <1>5, <2>2, <2>4, <2>6
<1>8. CASE ~(pipeline = "none" \/ c \in Video)
  <2>1. PICK inStops \in BOOLEAN, outStops \in BOOLEAN :
            /\ input' = RemoveBin(input, inStops)
            /\ output' = RemoveBin(output, outStops)
            /\ refused' = (refused \/ ~inStops \/ ~outStops)
    BY <1>8 DEF OnContentRemoved
  <2>2. c \in Audio
    BY <1>8 DEF Content
  <2>3. WellMade(input') /\ WellMade(output')
    BY <1>2, <2>1, RemoveBinResult
  <2>4. TypeOK'
    BY <1>1, <1>6, <2>1, <2>3, TypeSplits DEF TypeOK, WellMade
  <2>5. ~refused' => /\ ~refused
                     /\ input'.state = "NULL" /\ input'.peer = None
                     /\ output'.state = "NULL" /\ output'.peer = None
    BY <1>2, <2>1, RemoveBinResult DEF Plumbed
  <2>6. Plumbed(input)' /\ Plumbed(output)' /\ MicrophoneOnlyWhileSending'
    BY <2>5 DEF Plumbed, MicrophoneOnlyWhileSending
  <2>7. \A d \in sending' : content'[d] = "added" => d \in shared
    BY <1>1, <1>2, <1>3, <2>2 DEF SharingIsKnown, HeardHavePipeline
  <2>8. SendingIsHeard'
    BY <1>1, <2>7 DEF SendingIsHeard
  <2> QED
    BY <1>4, <1>5, <2>4, <2>6, <2>8
<1> QED
  BY <1>7, <1>8

\* The input is started for a content by a link that was made now, or that was there.
LEMMA StartSendingStep ==
    ASSUME MediaInv, NEW c \in Content, OnStartSending(c)
    PROVE  MediaInv'
<1> USE DEF MediaInv
<1>1. /\ channel = "alive" /\ content[c] = "added" /\ c \notin sending
      /\ UNCHANGED << channel, mState, pipeline, conference, output, content, shared, refused >>
  BY DEF OnStartSending
<1>2. WellMade(input) /\ WellMade(output) /\ sending \subseteq Audio /\ Audio \subseteq Content
  BY TypeSplits DEF Content
<1>3. CASE UNCHANGED << input, sending >>
  <2>1. TypeOK' /\ FreshUntilMade' /\ HeardHavePipeline' /\ SharingIsKnown'
    BY <1>1, <1>3 DEF TypeOK, FreshUntilMade, HeardHavePipeline, SharingIsKnown
  <2>2. Plumbed(input)' /\ Plumbed(output)' /\ MicrophoneOnlyWhileSending' /\ SendingIsHeard'
    BY <1>1, <1>3 DEF Plumbed, MicrophoneOnlyWhileSending, SendingIsHeard
  <2> QED
    BY <2>1, <2>2
<1>4. CASE ~UNCHANGED << input, sending >>
  <2>1. PICK bin \in InitAudioInput :
            /\ c \in Audio
            /\ \/ ~bin.pad /\ input' = bin /\ UNCHANGED sending
               \/ \E link \in LinkPads(bin, c), syncs \in BOOLEAN :
                    /\ bin.pad
                    /\ input' = CASE link = "refused"    -> bin
                                  [] link = "ok"         -> Started([ bin EXCEPT !.peer = c ], syncs)
                                  [] link = "was_linked" -> Started(bin, syncs)
                    /\ sending' = IF link # "refused" /\ syncs THEN sending \cup { c } ELSE sending
    BY <1>4, Zenon DEF OnStartSending
  <2>2. /\ WellMade(bin)
        /\ \/ bin = input
           \/ ~input.made /\ bin.peer = None /\ bin.state = "NULL" /\ ~bin.in
    BY <1>2, <2>1, InitAudioInputResult DEF Fresh
  <2>3. \A d \in sending \ shared : content[d] = "added" => FALSE
    BY <1>1, <1>2, <2>1 DEF SharingIsKnown
  <2>4. CASE input' = bin /\ UNCHANGED sending
    <3>1. TypeOK'
      BY <1>1, <2>2, <2>4, TypeSplits DEF TypeOK, WellMade
    <3>2. FreshUntilMade' /\ HeardHavePipeline' /\ SharingIsKnown'
      BY <1>1, <2>4 DEF FreshUntilMade, HeardHavePipeline, SharingIsKnown
    <3>3. Plumbed(input)' /\ Plumbed(output)' /\ MicrophoneOnlyWhileSending'
      BY <1>1, <2>2, <2>4 DEF Plumbed, MicrophoneOnlyWhileSending
    <3>4. SendingIsHeard'
      BY <1>1, <2>3, <2>4 DEF SendingIsHeard
    <3> QED
      BY <3>1, <3>2, <3>3, <3>4
  <2>5. ASSUME NEW link \in LinkPads(bin, c), NEW syncs \in BOOLEAN, bin.pad, link # "refused",
               input' = CASE link = "refused"    -> bin
                          [] link = "ok"         -> Started([ bin EXCEPT !.peer = c ], syncs)
                          [] link = "was_linked" -> Started(bin, syncs),
               sending' = IF link # "refused" /\ syncs THEN sending \cup { c } ELSE sending
        PROVE  MediaInv'
    <3> DEFINE linked == IF link = "ok" THEN [ bin EXCEPT !.peer = c ] ELSE bin
    <3>1. /\ link \in { "ok", "was_linked" }
          /\ link = "ok" => bin.peer = None /\ bin.in
          /\ link = "was_linked" => bin.peer # None
      BY <2>5 DEF LinkPads
    <3>2. input' = Started(linked, syncs)
      BY <2>5, <3>1
    <3>3. bin.made
      BY <2>2, <2>5 DEF WellMade, NoBin
    <3>4. /\ WellMade(linked) /\ linked.made /\ linked.pad /\ linked.in = bin.in
          /\ linked.state = bin.state
          /\ linked.peer = IF link = "ok" THEN c ELSE bin.peer
      BY <2>2, <2>5, <3>1, <3>3 DEF WellMade, Bin
    <3> HIDE DEF linked
    <3>5. /\ WellMade(input') /\ ~input'.locked /\ input'.pad
          /\ input'.in = bin.in /\ input'.peer = linked.peer
          /\ input'.state = IF syncs /\ pipeline = "playing" THEN "PLAYING" ELSE bin.state
      BY <3>2, <3>4, StartedResult
    <3>6. sending' = IF syncs THEN sending \cup { c } ELSE sending
      BY <2>5
    <3>7. TypeOK'
      BY <1>1, <1>2, <2>1, <3>5, <3>6, TypeSplits DEF TypeOK, WellMade
    <3>8. FreshUntilMade' /\ HeardHavePipeline'
      BY <1>1, <3>6 DEF FreshUntilMade, HeardHavePipeline
    <3>9. SharingIsKnown'
      BY <1>1, <3>6 DEF SharingIsKnown
    <3>10. ~refused => input'.in /\ input'.peer \in Audio /\ content[input'.peer] = "added"
      <4>1. CASE link = "ok"
        BY <1>1, <2>1, <3>1, <3>4, <3>5, <4>1
      <4>2. CASE link = "was_linked"
        BY <2>2, <3>1, <3>4, <3>5, <4>2 DEF Plumbed
      <4> QED
        BY <3>1, <4>1, <4>2
    <3>11. Plumbed(input)'
      <4>1. input'.peer # None
        BY <1>2, <3>1, <3>4, <3>5, ContentAssumption DEF Content
      <4> QED
        BY <1>1, <3>5, <3>10, <4>1 DEF Plumbed
    <3>12. Plumbed(output)'
      BY <1>1 DEF Plumbed
    <3>13. MicrophoneOnlyWhileSending'
      BY <1>1, <2>2, <3>5, <3>6 DEF MicrophoneOnlyWhileSending
    <3>14. SendingIsHeard'
      <4> SUFFICES ASSUME NEW d \in sending', d \notin shared, content[d] = "added",
                          pipeline = "playing", ~refused
                   PROVE  input'.state = "PLAYING" /\ input'.peer = d
        BY <1>1 DEF SendingIsHeard
      <4>1. d = c /\ syncs
        BY <2>3, <3>6
      <4>2. input'.peer = c
        <5>1. \A e \in Audio : content[e] = "added" => e = c
          BY <1>1, <2>1, <4>1 DEF SharingIsKnown
        <5> QED
          BY <3>10, <5>1
      <4> QED
        BY <3>5, <4>1, <4>2
    <3> QED
      BY <3>7, <3>8, <3>9, <3>11, <3>12, <3>13, <3>14
  <2>6. ASSUME NEW link \in LinkPads(bin, c), NEW syncs \in BOOLEAN, bin.pad, link = "refused",
               input' = CASE link = "refused"    -> bin
                          [] link = "ok"         -> Started([ bin EXCEPT !.peer = c ], syncs)
                          [] link = "was_linked" -> Started(bin, syncs),
               sending' = IF link # "refused" /\ syncs THEN sending \cup { c } ELSE sending
        PROVE  MediaInv'
    <3>1. input' = bin /\ UNCHANGED sending
      BY <2>6
    <3> QED
      BY <2>4, <3>1
  <2> QED
    BY <2>1, <2>4, <2>5, <2>6
<1> QED
  BY <1>3, <1>4

\* Stopping for one content stops the microphone for all: one that still sends has
\* shared it.
LEMMA StopSendingStep ==
    ASSUME MediaInv, NEW c \in Content, OnStopSending(c)
    PROVE  MediaInv'
<1> USE DEF MediaInv
<1>1. /\ channel = "alive" /\ c \in sending /\ sending' = sending \ { c }
      /\ UNCHANGED << channel, mState, pipeline, conference, output, content, shared >>
  BY DEF OnStopSending
<1>2. PICK stops \in BOOLEAN :
        input' = Stopped(input, c, stops) /\ refused' = (refused \/ ~stops)
  BY DEF OnStopSending
<1>3. WellMade(input) /\ WellMade(output) /\ sending \subseteq Audio
  BY TypeSplits
<1>4. /\ WellMade(input')
      /\ stops => /\ input'.state = "NULL" /\ input'.peer \in { input.peer, None }
                  /\ input'.in = input.in /\ input'.pad = input.pad
  BY <1>2, <1>3, StoppedResult
<1>5. TypeOK'
  BY <1>1, <1>2, <1>3, <1>4, TypeSplits DEF TypeOK, WellMade
<1>6. FreshUntilMade' /\ HeardHavePipeline' /\ SharingIsKnown'
  BY <1>1 DEF FreshUntilMade, HeardHavePipeline, SharingIsKnown
<1>7. ~refused' => ~refused /\ stops
  BY <1>2
<1>8. Plumbed(input)' /\ Plumbed(output)' /\ MicrophoneOnlyWhileSending'
  BY <1>1, <1>4, <1>7 DEF Plumbed, MicrophoneOnlyWhileSending
<1>9. SendingIsHeard'
  BY <1>1, <1>3 DEF SendingIsHeard, SharingIsKnown
<1> QED
  BY <1>5, <1>6, <1>8, <1>9

\* The output changes hands, and the input is not touched.
LEMMA SrcPadAddedStep ==
    ASSUME MediaInv, NEW c \in Content, OnSrcPadAddedContent(c)
    PROVE  MediaInv'
<1> USE DEF MediaInv
<1>1. /\ channel = "alive" /\ content[c] = "added"
      /\ UNCHANGED << channel, pipeline, conference, input, content, sending, shared, refused >>
      /\ mState' \in { mState, "Connected" }
  BY DEF OnSrcPadAddedContent, SetState
<1>2. WellMade(input) /\ WellMade(output)
  BY TypeSplits
<1>3. WellMade(output') /\ Plumbed(output)'
  <2>1. CASE c \in Video /\ UNCHANGED output
    BY <1>1, <1>2, <2>1 DEF Plumbed
  <2>2. CASE ~output.pad /\ output' = AddBin(output)
    <3>1. /\ WellMade(output') /\ output'.peer = output.peer /\ output'.state = output.state
          /\ output'.pad = output.pad
      BY <1>2, <2>2, AddBinResult
    <3>2. ~refused => output'.peer = None /\ output'.state # "PLAYING"
      BY <2>2, <3>1 DEF Plumbed
    <3> QED
      BY <1>1, <3>1, <3>2 DEF Plumbed
  <2>3. CASE /\ c \in Audio /\ output.pad
             /\ \E link \in LinkPads(FreedForStream, c), plays \in BOOLEAN :
                    output' = CASE link # "ok" -> FreedForStream
                                [] link = "ok" ->
                                    [ FreedForStream EXCEPT !.peer = c, !.locked = FALSE,
                                                            !.state = IF plays THEN "PLAYING" ELSE @ ]
    <3>1. /\ WellMade(FreedForStream) /\ FreedForStream.in /\ FreedForStream.pad
          /\ FreedForStream.made /\ FreedForStream.peer = None
          /\ ~refused => FreedForStream.state # "PLAYING"
      BY <1>2, <2>3, FreedForStreamResult DEF Plumbed
    <3> DEFINE free == FreedForStream
    <3>2. CASE output' = free
      BY <1>1, <3>1, <3>2 DEF Plumbed
    <3>3. ASSUME NEW plays \in BOOLEAN,
                 output' = [ free EXCEPT !.peer = c, !.locked = FALSE,
                                         !.state = IF plays THEN "PLAYING" ELSE @ ]
          PROVE  WellMade(output') /\ Plumbed(output)'
      <4>1. c \in Content /\ c # None
        BY ContentAssumption DEF Content
      <4> HIDE DEF free
      <4>2. /\ WellMade(output') /\ output'.in /\ output'.pad /\ ~output'.locked
            /\ output'.peer = c
        BY <3>1, <3>3, <4>1 DEF WellMade, Bin, free
      <4> QED
        BY <1>1, <2>3, <4>1, <4>2 DEF Plumbed
    <3> QED
      BY <2>3, <3>2, <3>3
  <2> QED
    BY <2>1, <2>2, <2>3, Zenon DEF OnSrcPadAddedContent
<1>4. TypeOK'
  BY <1>1, <1>2, <1>3, TypeSplits DEF TypeOK, WellMade, MediaStreamState
<1>5. FreshUntilMade' /\ HeardHavePipeline' /\ SharingIsKnown'
  BY <1>1 DEF FreshUntilMade, HeardHavePipeline, SharingIsKnown
<1>6. Plumbed(input)' /\ MicrophoneOnlyWhileSending' /\ SendingIsHeard'
  BY <1>1 DEF Plumbed, MicrophoneOnlyWhileSending, SendingIsHeard
<1> QED
  BY <1>3, <1>4, <1>5, <1>6

LEMMA MediaStutter ==
    ASSUME MediaInv, UNCHANGED vars
    PROVE  MediaInv'
<1> USE DEF MediaInv, vars
<1>1. TypeOK' /\ FreshUntilMade' /\ HeardHavePipeline' /\ SharingIsKnown'
  BY DEF TypeOK, FreshUntilMade, HeardHavePipeline, SharingIsKnown
<1>2. Plumbed(input)' /\ Plumbed(output)' /\ MicrophoneOnlyWhileSending' /\ SendingIsHeard'
  BY DEF Plumbed, MicrophoneOnlyWhileSending, SendingIsHeard
<1> QED
  BY <1>1, <1>2

LEMMA MediaStep == MediaInv /\ [Next]_vars => MediaInv'
<1> SUFFICES ASSUME MediaInv, [Next]_vars PROVE MediaInv'
  OBVIOUS
<1>1. CASE AskForChannel \/ CreateChannelFinished \/ OnClosed
  BY <1>1, ChannelSteps, Zenon
<1>2. CASE OnFsConferenceAdded \/ OnFsConferenceRemoved
  BY <1>2, ConferenceSteps, Zenon
<1>3. ASSUME NEW c \in Content, ContentStep(c) PROVE MediaInv'
  BY <1>3, ContentAddedStep, ContentRemovedStep, StartSendingStep, StopSendingStep,
     SrcPadAddedStep, Zenon DEF ContentStep
<1>4. CASE Destroy
  BY <1>4, DestroyStep, Zenon
<1>5. CASE UNCHANGED vars
  BY <1>5, MediaStutter, Zenon
<1> QED
  BY <1>1, <1>2, <1>3, <1>4, <1>5, Zenon DEF Next

\* The invariant holds throughout.
LEMMA MediaAlways == Spec => []MediaInv
<1>1. Init => MediaInv
  BY MediaInit
<1>2. MediaInv /\ [Next]_vars => MediaInv'
  BY MediaStep
<1> QED
  BY <1>1, <1>2, PTL DEF Spec

-----------------------------------------------------------------------------
(* The theorems *)

\* What the bins are made of always fits together: nothing is left of a bin that
\* is not there, and no pad is offered by an empty one.
THEOREM BinsAreWellMade == Spec => []TypeOK
<1>1. MediaInv => TypeOK
  BY DEF MediaInv
<1> QED
  BY <1>1, MediaAlways, PTL

\* Whatever contents come, go and start or stop, a bin that plays stands in the
\* pipeline, linked to a content that has not gone.
THEOREM PlayingBinsStayPlumbed == Spec => []PlayingBinsArePlumbed
<1>1. MediaInv => PlayingBinsArePlumbed
  <2> SUFFICES ASSUME MediaInv, NEW bin \in { input, output }, bin.state = "PLAYING", ~refused
               PROVE  /\ bin.in /\ ~bin.locked /\ bin.parts # {}
                      /\ bin.peer \in Audio /\ content[bin.peer] = "added"
    BY DEF PlayingBinsArePlumbed
  <2>1. Plumbed(bin) /\ WellMade(bin)
    BY TypeSplits DEF MediaInv
  <2> QED
    BY <2>1 DEF Plumbed, WellMade
<1> QED
  BY <1>1, MediaAlways, PTL

\* The microphone is never open without a content that was told it may send.
THEOREM MicrophoneNeedsASender == Spec => []MicrophoneOnlyWhileSending
<1>1. MediaInv => MicrophoneOnlyWhileSending
  BY DEF MediaInv
<1> QED
  BY <1>1, MediaAlways, PTL

\* A content that was told it may send, and shares the input with no other, is fed.
THEOREM SendersAreHeard == Spec => []SendingIsHeard
<1>1. MediaInv => SendingIsHeard
  BY DEF MediaInv
<1> QED
  BY <1>1, MediaAlways, PTL
=============================================================================
