-------------------------------- MODULE Audio ---------------------------------
(***************************************************************************)
(* Sounds and streams (Audio), over an OpenAL device.  A source is a name  *)
(* the device gives out, and gives out again once it was deleted.  A       *)
(* source plays the buffers it has queued: one, for a sound, and those a   *)
(* video keeps handing it, for a stream.  A buffer of a stream is known by *)
(* the time of its samples and lasts for one tick.                         *)
(*                                                                         *)
(* Everything runs on the main thread, so that an operation is a function  *)
(* from one state of Audio to the next.  Gains, positions and listeners    *)
(* are left out.                                                           *)
(***************************************************************************)
EXTENDS Scenario, Integers, Sequences, FiniteSets

CONSTANTS
    Sources,                \* names of sources, those of the device
    Sounds                  \* names of sounds

ASSUME AudioBounds == Sources \subseteq Nat \ {0}

VARIABLES
    audio,                  \* Audio, with the device it uses
    given                   \* sources that scripts were told of

audioVars == <<audio, given>>

Audio(works) ==
    [available |-> works, buffers |-> {}, active |-> {}, streaming |-> {},
     voices |-> [v \in {} |-> 0]]

AudioInit == audio = Audio(TRUE) /\ given = {}

Playback(queue, state, processed) ==
    [queue |-> queue, state |-> state, processed |-> processed]

----------------------------------------------------------------------------
\* A source that the device has free, or 0.
FreeSource(a) ==
    LET free == Sources \ DOMAIN a.voices
    IN IF a.available /\ free # {} THEN CHOOSE s \in free : \A other \in free : s <= other
       ELSE 0

\* A source with what it is to play, listed among those in use.
WithSource(a, source, played) ==
    [a EXCEPT !.active = @ \cup {source},
              !.voices = [v \in DOMAIN @ \cup {source} |->
                              IF v = source THEN played ELSE @[v]]]

\* createStreamingSource
CreateStreaming(a) ==
    LET source == FreeSource(a)
    IN IF source = 0 THEN a
       ELSE [WithSource(a, source, Playback(<<>>, "initial", 0)) EXCEPT !.streaming = @ \cup {source}]

\* What the device has played of a source is taken off its queue.
Reclaim(a, source) ==
    IF source \notin a.streaming THEN a
    ELSE [a EXCEPT !.voices[source].queue =
                       SubSeq(@, a.voices[source].processed + 1, Len(@)),
                   !.voices[source].processed = 0]

DestroyStreaming(a, source) ==
    IF source \notin a.streaming THEN a
    ELSE [a EXCEPT !.active = @ \ {source}, !.streaming = @ \ {source},
                   !.voices = [s \in DOMAIN @ \ {source} |-> @[s]]]

\* alSourcePlay: from where it was paused, else from the first buffer.
PlaySource(a, source) ==
    IF source \notin DOMAIN a.voices THEN a
    ELSE LET it == a.voices[source]
             from == IF it.state = "paused" THEN it.processed ELSE 0
         IN [a EXCEPT !.voices[source] =
                Playback(it.queue, IF it.queue = <<>> THEN "stopped" ELSE "playing", from)]

PauseSource(a, source) ==
    IF source \notin DOMAIN a.voices \/ a.voices[source].state # "playing" THEN a
    ELSE [a EXCEPT !.voices[source].state = "paused"]

\* queueStreamPcm16, for several buffers: a source that does not play
\* starts to, or goes on.
QueueStream(a, source, times) ==
    IF source \notin a.streaming \/ times = <<>> THEN a
    ELSE LET queued == [a EXCEPT !.voices[source].queue = @ \o times]
         IN IF a.voices[source].state = "playing" THEN queued ELSE PlaySource(queued, source)

\* getStreamingClockSeconds: the time of the first buffer that is queued and
\* how far the device is beyond it, which is nowhere once it has stopped.
StreamingClock(a, source, fallback) ==
    IF source \notin a.streaming \/ a.voices[source].queue = <<>> THEN fallback
    ELSE LET it == a.voices[source]
         IN Head(it.queue) + (IF it.state = "stopped" THEN 0 ELSE it.processed)

\* alSourceStop
Halt(a, source) ==
    IF source \notin DOMAIN a.voices THEN a
    ELSE [a EXCEPT !.voices[source].state = "stopped",
                   !.voices[source].processed = Len(a.voices[source].queue)]

\* Streams are relieved of what was played, sounds that have stopped go.
CleanupStopped(a) ==
    LET over == {s \in a.active \ a.streaming : a.voices[s].state = "stopped"}
    IN [a EXCEPT !.active = @ \ over,
                 !.voices = [s \in DOMAIN @ \ over |->
                                 IF s \in a.streaming THEN Reclaim(a, s).voices[s] ELSE @[s]]]

\* What reset leaves: nothing, and a device that was opened again or not.
Reopened == {Audio(TRUE), Audio(FALSE)}

\* The device plays for one tick; a stream that has nothing left stops.
Played(a) ==
    [a EXCEPT !.voices = [s \in DOMAIN @ |->
        IF s \notin a.streaming \/ @[s].state # "playing" THEN @[s]
        ELSE [a.voices[s] EXCEPT !.processed = @ + 1,
                                 !.state = IF a.voices[s].processed + 1 = Len(a.voices[s].queue)
                                           THEN "stopped" ELSE @]]]

----------------------------------------------------------------------------
(* What scripts do with sounds.  loadSound reads a file that is there; a   *)
(* sound whose buffer is still played may be unloaded.                     *)

LoadSound(name) ==
    /\ Spend("load")
    /\ audio.available
    /\ audio' = [audio EXCEPT !.buffers = @ \cup {name}]
    /\ UNCHANGED given

UnloadSound(name) ==
    /\ Spend("load")
    /\ name \in audio.buffers
    /\ audio' = [audio EXCEPT !.buffers = @ \ {name}]
    /\ UNCHANGED given

PlaySound(name) ==
    LET source == FreeSource(audio)
    IN /\ Spend("sound")
       /\ name \in audio.buffers
       /\ source # 0
       /\ audio' = WithSource(audio, source, Playback(<<name>>, "playing", 0))
       /\ given' = given \cup {source}

\* Whatever the source is by now that a script was once told of.
StopSound(source) ==
    /\ Spend("halt")
    /\ source \in given
    /\ audio.available
    /\ audio' = Halt(audio, source)
    /\ UNCHANGED given

\* The device gets to the end of a sound.
SoundEnds(source) ==
    /\ source \in audio.active \ audio.streaming
    /\ audio.voices[source].state = "playing"
    /\ audio' = Halt(audio, source)
    /\ UNCHANGED <<left, given>>

SoundNext ==
    \/ \E name \in Sounds : LoadSound(name) \/ UnloadSound(name) \/ PlaySound(name)
    \/ \E source \in Sources : StopSound(source) \/ SoundEnds(source)
=============================================================================
