------------------------------ MODULE Subsystems ------------------------------
(***************************************************************************)
(* Parts of the engine that share no state with each other.  What holds of *)
(* one holds whatever the others do, so that each is looked at by itself:  *)
(* only the scenario's subject moves.                                      *)
(***************************************************************************)
EXTENDS Realtime, Input, VideoPlayer, AudioInput, Files, Terminal

Init ==
    /\ Opens /\ RealtimeInit /\ InputInit /\ MediaInit /\ RecordingInit /\ FilesInit
    /\ TerminalInit

\* The turn is the subject's: the others stay as they are.
Moves(part) ==
    /\ subject = part
    /\ UNCHANGED subject
    /\ IF part = "realtime" THEN TRUE ELSE UNCHANGED realtimeVars
    /\ IF part = "input" THEN TRUE ELSE UNCHANGED inputVars
    /\ IF part = "media" THEN TRUE ELSE UNCHANGED mediaVars
    /\ IF part = "recording" THEN TRUE ELSE UNCHANGED recordingVars
    /\ IF part = "files" THEN TRUE ELSE UNCHANGED filesVars
    /\ IF part = "terminal" THEN TRUE ELSE UNCHANGED terminalVars

Next ==
    \/ Moves("realtime") /\ RealtimeNext
    \/ Moves("input") /\ InputNext
    \/ Moves("media") /\ MediaNext
    \/ Moves("recording") /\ RecordingNext
    \/ Moves("files") /\ FilesNext
    \/ Moves("terminal") /\ TerminalNext

vars == <<subject, left, realtimeVars, inputVars, mediaVars, recordingVars, filesVars,
          terminalVars>>

Spec == Init /\ [][Next]_vars

\* What is played and what is recorded: video_player.cpp, audio.cpp and
\* audio_input.cpp keep their promises.
PlayingAndRecordingAgree == MediaAgrees /\ RecordingIsWhole
=============================================================================
