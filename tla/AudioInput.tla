------------------------------ MODULE AudioInput ------------------------------
(***************************************************************************)
(* Recording (AudioInput): a callback of the audio device puts frames of   *)
(* one sample per channel into a ring that scripts read.  The callback     *)
(* never waits: while a script is at the ring it drops what it has, and    *)
(* what is too much for the ring overwrites what is oldest.                *)
(*                                                                         *)
(* A sample is its number among all that the device delivered.  "heard",   *)
(* "taken", "cleared" and "overrun" count samples for the properties: what *)
(* was delivered, read, cleared, and thrown away by a delivery that is as  *)
(* long as the whole ring.                                                 *)
(***************************************************************************)
EXTENDS Scenario, Integers, Sequences, FiniteSets

CONSTANTS
    Channels,
    BufferFrames,           \* frames that the ring can hold
    Deliveries              \* how many frames come at once

ASSUME RecordingBounds ==
    /\ {Channels, BufferFrames} \subseteq Nat \ {0}
    /\ Deliveries \subseteq Nat \ {0}

VARIABLES
    data, head, size,       \* SampleRingBuffer
    droppedSamples,
    recording,              \* running: the device calls back
    heard, taken, cleared, overrun

recordingVars ==
    <<data, head, size, droppedSamples, recording, heard, taken, cleared, overrun>>

Capacity == BufferFrames * Channels

RecordingInit ==
    /\ data = [i \in 0..(Capacity - 1) |-> 0]
    /\ head = 0 /\ size = 0
    /\ droppedSamples = 0
    /\ recording = FALSE
    /\ heard = 0 /\ taken = 0 /\ cleared = 0 /\ overrun = 0

\* What the ring holds, the oldest first.
Held == [i \in 1..size |-> data[(head + i - 1) % Capacity]]

----------------------------------------------------------------------------

StartRecording ==
    /\ Spend("record")
    /\ ~recording
    /\ recording' = TRUE
    /\ UNCHANGED <<data, head, size, droppedSamples, heard, taken, cleared, overrun>>

StopRecording ==
    /\ Spend("record")
    /\ recording
    /\ recording' = FALSE
    /\ UNCHANGED <<data, head, size, droppedSamples, heard, taken, cleared, overrun>>

\* The samples of a delivery, of which a long one leaves the last.  Mutual
\* exclusion is by try_lock.
Missed(count) ==
    /\ droppedSamples' = droppedSamples + count
    /\ UNCHANGED <<data, head, size, overrun>>

\* The oldest sample, after as many were written over.
Oldest(from, over) == (from + over) % Capacity

\* push writes sample by sample: behind the others while there is room, and
\* then over the oldest, which is thereby the one behind it.
Stored(count) ==
    LET long == count >= Capacity
        kept == IF long THEN Capacity ELSE count
        from == IF long THEN 0 ELSE head
        old == IF long THEN 0 ELSE size
        over == IF old + kept > Capacity THEN old + kept - Capacity ELSE 0
    IN /\ data' = [i \in DOMAIN data |->
                      LET place == (i - from - old + 2 * Capacity) % Capacity
                      IN IF place < kept THEN heard + count - kept + place + 1 ELSE data[i]]
       /\ head' = Oldest(from, over)
       /\ size' = old + kept - over
       /\ droppedSamples' = droppedSamples + over
       /\ overrun' = overrun + (IF long THEN size + count - Capacity ELSE 0)

Deliver(frames) ==
    /\ Spend("deliver")
    /\ recording
    /\ Stored(frames * Channels) \/ Missed(frames * Channels)
    /\ heard' = heard + frames * Channels
    /\ UNCHANGED <<recording, taken, cleared>>

\* read-frames and read-frames-into.
ReadFrames(frames) ==
    LET wanted == frames * Channels
        count == IF wanted < size THEN wanted ELSE size
    IN /\ Spend("fetch")
       /\ size > 0
       /\ head' = (head + count) % Capacity
       /\ size' = size - count
       /\ taken' = taken + count
       /\ UNCHANGED <<data, droppedSamples, recording, heard, cleared, overrun>>

ClearRecording ==
    /\ Spend("fetch")
    /\ head' = 0 /\ size' = 0
    /\ cleared' = cleared + size
    /\ UNCHANGED <<data, droppedSamples, recording, heard, taken, overrun>>

RecordingNext ==
    \/ StartRecording \/ StopRecording \/ ClearRecording
    \/ \E frames \in Deliveries : Deliver(frames) \/ ReadFrames(frames)

----------------------------------------------------------------------------

\* What a script is about to read is whole frames, in the order in which the
\* device delivered them, their samples in the order of the channels; and
\* every sample delivered is there, was read or cleared, or counts as
\* dropped, but for those that a delivery as long as the ring ran over.
RecordingIsWhole ==
    /\ \A i \in 1..size : Held[i] % Channels = i % Channels
    /\ \A i \in 1..(size - 1) :
           IF i % Channels = 0 THEN Held[i] < Held[i + 1] ELSE Held[i + 1] = Held[i] + 1
    /\ size % Channels = 0
    /\ heard = taken + cleared + size + droppedSamples + overrun
=============================================================================
