----------------------------- MODULE VideoPlayer ------------------------------
(***************************************************************************)
(* Videos (VideoPlayer, VideoManager).  A thread of each player decodes    *)
(* its file ahead into two bounded queues; the main thread obeys scripts   *)
(* and, once per frame of the engine, hands sound to Audio and shows the   *)
(* pictures that are due.  A file has one picture for each tick of its     *)
(* length, and as much sound if it has any that is not muted; a decoder    *)
(* may keep the last few pictures back until the file ends.                *)
(*                                                                         *)
(* "fresh" counts the seeks the thread has obeyed and marks what it        *)
(* decodes: nothing of the code, it tells pictures from before a seek from *)
(* those after.                                                            *)
(***************************************************************************)
EXTENDS Audio, FiniteSetsExt

CONSTANTS
    Players,
    Length,                 \* of every file, in ticks
    Keys,                   \* pictures a seek can go to
    Delay,                  \* pictures the decoder keeps back
    Lead,                   \* sound is queued this much ahead of its time
    MaxBufferedFrames, MaxBufferedAudioChunks,
    MaxStream               \* bound: what a source has queued

ASSUME VideoBounds ==
    /\ Players = 1..Cardinality(Players)
    /\ {Length, MaxBufferedFrames, MaxBufferedAudioChunks} \subseteq Nat \ {0}
    /\ Delay \in Nat /\ Lead \in Nat
    /\ 0 \in Keys /\ Keys \subseteq 0..(Length - 1)

VARIABLES
    player,                 \* the players there are
    sounding,               \* the manager knows of Audio
    turn                    \* where the main thread is

mediaVars == <<audioVars, player, sounding, turn>>

None == -1
Idle == [at |-> "idle"]

MediaInit ==
    /\ AudioInit
    /\ player = [p \in {} |-> 0]
    /\ sounding = TRUE
    /\ turn = Idle

\* The players of VideoManager: they leave once they are dropped.
Registered == {p \in DOMAIN player : player[p].registered}

Update(p, changed) == player' = [player EXCEPT ![p] = changed]

----------------------------------------------------------------------------
(* A player.                                                               *)

\* What a script asks for: a video with sound, played once from the start;
\* one that loops, one without sound and one that waits for play.  Players
\* are named in the order they come.
Sorts == {"once", "looped", "silent", "waiting"}

Create(p) ==
    /\ turn = Idle
    /\ p \in Players \ DOMAIN player /\ \A q \in 1..(p - 1) : q \in DOMAIN player
    /\ \E sort \in Sorts :
           /\ Spend(sort)
           /\ player' = [v \in DOMAIN player \cup {p} |->
               IF v # p THEN player[v]
               ELSE [loop |-> sort = "looped", track |-> sort # "silent",
                     registered |-> TRUE, playing |-> sort # "waiting", ready |-> FALSE, ended |-> FALSE,
                     base |-> 0, elapsed |-> 0, pending |-> None, displayed |-> None,
                     frames |-> <<>>, chunks |-> <<>>, source |-> 0,
                     has_audio |-> FALSE, running |-> TRUE, finished |-> FALSE,
                     pc |-> "open", cursor |-> 0, coded |-> <<>>, fresh |-> 0]]
    /\ UNCHANGED <<audioVars, sounding, turn>>

\* Where the playback is.  The length is known once the file is open.
Wrapped(v, time) == IF v.loop /\ v.pc # "open" THEN time % Length ELSE time
Position(v) == Wrapped(v, v.base + v.elapsed)

Play(p) ==
    LET v == player[p]
    IN /\ Spend("play")
       /\ turn = Idle
       /\ ~v.playing
       /\ Update(p, [v EXCEPT !.playing = TRUE, !.elapsed = 0, !.ended = FALSE,
                              !.base = IF v.ended THEN 0 ELSE @,
                              !.pending = IF v.ended THEN 0 ELSE @])
       /\ audio' = IF sounding THEN PlaySource(audio, v.source) ELSE audio
       /\ UNCHANGED <<given, sounding, turn>>

Pause(p) ==
    LET v == player[p]
        sounds == v.source # 0 /\ sounding
    IN /\ Spend("play")
       /\ turn = Idle
       /\ v.playing
       /\ Update(p, [v EXCEPT !.playing = FALSE, !.elapsed = 0,
                              !.base = IF sounds THEN StreamingClock(audio, v.source, @)
                                       ELSE @ + v.elapsed])
       /\ audio' = IF sounds THEN PauseSource(audio, v.source) ELSE audio
       /\ UNCHANGED <<given, sounding, turn>>

\* seek and stop ask the thread to go elsewhere, and only then clear what it
\* has decoded: it may already be there.
GoTo(p, time, plays) ==
    /\ Spend("seek")
    /\ turn = Idle
    /\ Update(p, [player[p] EXCEPT !.base = time, !.elapsed = 0, !.ended = FALSE,
                                   !.displayed = None, !.pending = time,
                                   !.playing = plays])
    /\ turn' = [at |-> "clear", of |-> p]
    /\ UNCHANGED <<audioVars, sounding>>

Seek(p, time) == GoTo(p, time, player[p].playing)
Stop(p) == GoTo(p, 0, FALSE)

\* The source of a player is given back, if Audio is there to take it.
\* Mutant: the player goes on using its name.
SourceKept(v) == v

Silenced(v) == IF sounding THEN [v EXCEPT !.source = 0] ELSE v
SilencedAudio(v) == IF sounding THEN DestroyStreaming(audio, v.source) ELSE audio

Clear(p) ==
    /\ turn = [at |-> "clear", of |-> p]
    /\ Update(p, Silenced([player[p] EXCEPT !.frames = <<>>, !.chunks = <<>>]))
    /\ audio' = SilencedAudio(player[p])
    /\ turn' = Idle
    /\ UNCHANGED <<left, given, sounding>>

\* drop, for one player or, when the engine shuts down, for each: the thread
\* is told and waited for.
Drop(p) ==
    /\ Spend("drop")
    /\ turn = Idle
    /\ player[p].running
    /\ Update(p, [player[p] EXCEPT !.running = FALSE])
    /\ turn' = [at |-> "join", of |-> p, rest |-> {}, last |-> FALSE]
    /\ UNCHANGED <<audioVars, sounding>>

Join(p) ==
    /\ turn.at = "join" /\ turn.of = p
    /\ player[p].pc = "over"
    /\ Update(p, [Silenced(player[p]) EXCEPT !.registered = FALSE])
    /\ audio' = SilencedAudio(player[p])
    /\ turn' = IF turn.last THEN [at |-> "drop", rest |-> turn.rest] ELSE Idle
    /\ UNCHANGED <<left, given, sounding>>

----------------------------------------------------------------------------
(* A frame of the engine: Audio first, then every player in turn.          *)

\* How many at the head of what was decoded are due.
Due(decoded, time) ==
    CHOOSE n \in 0..Len(decoded) :
        /\ \A j \in 1..n : decoded[j].pts <= time
        /\ n < Len(decoded) => ~(decoded[n + 1].pts <= time)

Times(decoded) == [i \in DOMAIN decoded |-> decoded[i].pts]

BeginMedia ==
    /\ turn = Idle
    /\ DOMAIN player # {}
    /\ audio' = CleanupStopped(audio)
    /\ turn' = [at |-> "frame", due |-> Registered]
    /\ UNCHANGED <<left, given, player, sounding>>

EndMedia ==
    /\ turn = [at |-> "frame", due |-> {}]
    /\ turn' = Idle
    /\ UNCHANGED <<left, audioVars, player, sounding>>

\* A player with sound has a source as soon as Audio can give it one.  Its
\* clock is that of the playback from then on.
WithSound(v) == sounding /\ v.has_audio
SourceOf(v) == IF v.source = 0 THEN FreeSource(audio) ELSE v.source
Prepared(v) ==
    Reclaim(IF v.source = 0 THEN CreateStreaming(audio) ELSE audio, SourceOf(v))
DueChunks(v) == Due(v.chunks, Position(v) + Lead)
Sounded(v) ==
    IF ~WithSound(v) THEN audio
    ELSE IF ~v.playing THEN PauseSource(Prepared(v), SourceOf(v))
    ELSE QueueStream(Prepared(v), SourceOf(v), Times(SubSeq(v.chunks, 1, DueChunks(v))))
HeardPlayer(v) ==
    IF ~WithSound(v) \/ SourceOf(v) = 0 THEN v
    ELSE IF ~v.playing THEN [v EXCEPT !.source = SourceOf(v)]
    ELSE [v EXCEPT !.source = SourceOf(v), !.chunks = SubSeq(@, DueChunks(v) + 1, Len(@)),
                   !.base = Wrapped(v, StreamingClock(Sounded(v), SourceOf(v), Position(v))),
                   !.elapsed = 0]

\* The last picture that is due is shown; before anything is, the first.
Shown(v) ==
    LET due == Due(v.frames, Position(v))
        n == IF due = 0 /\ v.displayed = None /\ v.frames # <<>> THEN 1 ELSE due
    IN IF n = 0 THEN v
       ELSE [v EXCEPT !.frames = SubSeq(@, n + 1, Len(@)),
                      !.displayed = v.frames[n].pts, !.ready = TRUE]

UpdatePlayer(p) ==
    /\ turn.at = "frame"
    /\ p \in turn.due
    /\ Update(p, Shown(HeardPlayer(player[p])))
    /\ audio' = Sounded(player[p])
    /\ \A source \in audio'.streaming : Len(audio'.voices[source].queue) <= MaxStream
    /\ turn' = [at |-> "end", of |-> p, due |-> turn.due \ {p}]
    /\ UNCHANGED <<left, given, sounding>>

\* Nothing is left to show of a video that does not loop.
NoteEnd(p) ==
    /\ turn.at = "end" /\ turn.of = p
    /\ Update(p, IF player[p].finished /\ ~player[p].loop /\ player[p].frames = <<>>
                 THEN [player[p] EXCEPT !.playing = FALSE, !.elapsed = 0, !.ended = TRUE]
                 ELSE player[p])
    /\ turn' = [at |-> "frame", due |-> turn.due]
    /\ UNCHANGED <<left, audioVars, sounding>>

\* A tick: the device plays, playbacks go on.
Tick ==
    /\ Spend("tick")
    /\ turn = Idle
    /\ audio' = Played(audio)
    /\ player' = [p \in DOMAIN player |->
                      IF player[p].playing THEN [player[p] EXCEPT !.elapsed = @ + 1]
                      ELSE player[p]]
    /\ UNCHANGED <<given, sounding, turn>>

----------------------------------------------------------------------------
(* The thread that decodes.  A picture is at an even place of the file,    *)
(* the sound that goes with it right behind.                               *)

Decoded(v, pts) == [pts |-> pts, fresh |-> v.fresh]

\* A queue that is too long loses what is first.
Enqueued(queue, item, limit) ==
    LET longer == Append(queue, item)
    IN SubSeq(longer, IF Len(longer) > limit THEN Len(longer) - limit + 1 ELSE 1, Len(longer))

\* A file may turn out not to be one.
Open(p) ==
    /\ player[p].pc = "open"
    /\ \/ Update(p, [player[p] EXCEPT !.pc = "top", !.has_audio = player[p].track])
       \/ Update(p, [player[p] EXCEPT !.pc = "over"])

\* The start of the loop: a seek is obeyed, by going to the picture before
\* that can be decoded by itself.
Take(p) ==
    LET v == player[p]
    IN /\ v.pc = "top"
       /\ Update(p, IF ~v.running THEN [v EXCEPT !.pc = "over"]
                    ELSE IF v.pending = None THEN [v EXCEPT !.pc = "read"]
                    ELSE [v EXCEPT !.pc = "read", !.pending = None, !.finished = FALSE,
                                   !.cursor = 2 * Max({k \in Keys : k <= v.pending}),
                                   !.coded = <<>>, !.fresh = @ + 1])

\* buffers_full
Full(v) ==
    \/ Len(v.frames) >= MaxBufferedFrames
    \/ v.has_audio /\ Len(v.chunks) >= MaxBufferedAudioChunks

\* A wait ends with something to obey, or with room; that it is also cut off
\* after five milliseconds only makes the thread look again.
Wait(p) ==
    /\ player[p].pc = "read"
    /\ Full(player[p])
    /\ ~player[p].running \/ player[p].pending # None
    /\ Update(p, [player[p] EXCEPT !.pc = "top"])

Read(p) ==
    LET v == player[p]
        pts == v.cursor \div 2
        next == [v EXCEPT !.cursor = @ + (IF v.has_audio THEN 1 ELSE 2)]
    IN /\ v.pc = "read"
       /\ ~Full(v)
       /\ Update(p, IF pts = Length THEN [v EXCEPT !.pc = "drain"]
                    ELSE IF v.cursor % 2 = 0
                    THEN [next EXCEPT !.pc = "push", !.coded = Append(@, Decoded(v, pts))]
                    ELSE [next EXCEPT !.pc = "top",
                                      !.chunks = Enqueued(@, Decoded(v, pts),
                                                        MaxBufferedAudioChunks)])

\* One picture comes out of the decoder.  One that is not the file's last
\* shows that the video has not ended.
Push(p) ==
    LET v == player[p]
    IN /\ v.pc \in {"push", "drain"}
       /\ v.running
       /\ v.coded # <<>>
       /\ Update(p, [v EXCEPT !.coded = Tail(@),
                              !.frames = Enqueued(@, Head(v.coded), MaxBufferedFrames),
                              !.ended = @ /\ v.pc = "drain"])

\* The decoder wants more before it gives more.
Again(p) ==
    /\ player[p].pc = "push"
    /\ player[p].running => Len(player[p].coded) <= Delay
    /\ Update(p, [player[p] EXCEPT !.pc = "top"])

\* The file is at its end and the decoder empty: from the start again, or
\* the thread is over, for good.
Finish(p) ==
    LET v == player[p]
    IN /\ v.pc = "drain"
       /\ v.running => v.coded = <<>>
       /\ Update(p, IF v.loop
                    THEN [v EXCEPT !.pc = "top", !.cursor = 0, !.coded = <<>>,
                                   !.finished = FALSE]
                    ELSE [v EXCEPT !.pc = "over", !.finished = TRUE])

Decode(p) ==
    /\ Open(p) \/ Take(p) \/ Wait(p) \/ Read(p) \/ Push(p) \/ Again(p) \/ Finish(p)
    /\ UNCHANGED <<left, audioVars, sounding, turn>>

----------------------------------------------------------------------------
(* What happens to all players.                                            *)

\* A player gives its source up and keeps where it is.
AudioLost(v) ==
    IF v.source = 0 THEN v
    ELSE [v EXCEPT !.base = StreamingClock(audio, v.source, @), !.elapsed = 0, !.source = 0]

\* audio:reset tells the players before Audio forgets everything.
ResetAudio ==
    /\ Spend("reset")
    /\ turn = Idle
    /\ sounding
    /\ player' = [p \in DOMAIN player |->
                      IF player[p].registered THEN AudioLost(player[p]) ELSE player[p]]
    /\ audio' \in Reopened
    /\ UNCHANGED <<given, sounding, turn>>

\* Engine::shutdown: drop_all, and the manager forgets Audio.
ShutdownMedia ==
    /\ Spend("shutdown")
    /\ turn = Idle
    /\ turn' = [at |-> "drop", rest |-> Registered]
    /\ UNCHANGED <<audioVars, player, sounding>>

DropNext(p) ==
    /\ turn.at = "drop"
    /\ p \in turn.rest
    /\ Update(p, [player[p] EXCEPT !.running = FALSE])
    /\ turn' = [at |-> "join", of |-> p, rest |-> turn.rest \ {p}, last |-> TRUE]
    /\ UNCHANGED <<left, audioVars, sounding>>

ForgetAudio ==
    /\ turn = [at |-> "drop", rest |-> {}]
    /\ sounding' = FALSE
    /\ turn' = Idle
    /\ UNCHANGED <<left, audioVars, player>>

----------------------------------------------------------------------------

MediaNext ==
    \/ \E p \in Players : Create(p)
    \/ \E p \in DOMAIN player :
           \/ Play(p) \/ Pause(p) \/ Stop(p) \/ \E time \in 0..Length : Seek(p, time)
           \/ Clear(p) \/ Drop(p) \/ Join(p) \/ DropNext(p)
           \/ UpdatePlayer(p) \/ NoteEnd(p) \/ Decode(p)
    \/ BeginMedia \/ EndMedia \/ Tick
    \/ ResetAudio \/ ShutdownMedia \/ ForgetAudio
    \/ turn = Idle /\ SoundNext /\ UNCHANGED <<player, sounding, turn>>

----------------------------------------------------------------------------

\* A video has ended once all of it was shown and nothing more can come: it
\* is not played, its thread is over and its pictures are used up.
EndsAreTrue ==
    \A p \in DOMAIN player :
        LET v == player[p]
        IN v.ended => ~v.playing /\ ~v.loop /\ v.finished /\ v.pc = "over" /\ v.frames = <<>>

\* Once the thread has obeyed a seek, no more is left of what was decoded
\* before than what had come out of the decoder in the meantime: at most as
\* many pictures as it keeps back and one more, and one piece of sound.
SeekLeavesBehind ==
    \A p \in DOMAIN player :
        LET v == player[p]
            old(decoded) == {i \in DOMAIN decoded : decoded[i].fresh < v.fresh}
        IN v.pending = None /\ turn # [at |-> "clear", of |-> p]
               => /\ old(v.coded) = {}
                  /\ Cardinality(old(v.frames)) <= Delay + 1
                  /\ Cardinality(old(v.chunks)) <= 1

\* The streams of Audio are those of the players, one each; a player that
\* was dropped has none, is not listed and has no thread.
SourcesAgree ==
    LET held == {p \in DOMAIN player : player[p].source # 0}
    IN /\ {player[p].source : p \in held} = audio.streaming
       /\ Cardinality(held) = Cardinality(audio.streaming)
       /\ audio.streaming \subseteq audio.active /\ audio.active = DOMAIN audio.voices
       /\ \A p \in DOMAIN player \ Registered :
              player[p].source = 0 /\ player[p].pc = "over" /\ ~player[p].running

MediaAgrees == EndsAreTrue /\ SeekLeavesBehind /\ SourcesAgree
=============================================================================
