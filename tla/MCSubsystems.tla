----------------------------- MODULE MCSubsystems ------------------------------
(***************************************************************************)
(* Instances of Subsystems for TLC: the scenarios, by subject.             *)
(***************************************************************************)
EXTENDS Subsystems, TLC

----------------------------------------------------------------------------
\* Realtime.  The second client lacks a feature.
CONSTANTS a, b, chat, voice

MCKnown == (a :> {chat, voice}) @@ (b :> {chat})
MCTickets == {{chat}, {chat, voice}}
MCSlots == {0, 1}

\* A client comes back with another ticket, or another takes its slot.
Reconnecting == [start |-> 1, control |-> 1, connect |-> 2]
Switching == [start |-> 1, control |-> 2, post |-> 1, connect |-> 1]
Restarting == [start |-> 2, stop |-> 1, control |-> 1, connect |-> 2]
Talking == [start |-> 1, control |-> 1, post |-> 1, connect |-> 1, send |-> 1]
Failing ==
    [start |-> 1, control |-> 1, connect |-> 1, unreadable |-> 1, disconnect |-> 1, send |-> 1]
Closing == [start |-> 1, connect |-> 2, disconnect |-> 1, close |-> 1]

OfRealtime == {Reconnecting, Switching, Restarting, Talking, Failing, Closing}

----------------------------------------------------------------------------
\* Input: one scenario for each kind of device.  A stick is pushed right or
\* further down than the threshold of dialing.
MCSides == {"left", "right"}
MCAngles == {0, 900}

KeyAndMouse == [key |-> 3, mouse |-> 2, pause |-> 2, fps |-> 2]
TwoFingers == [finger |-> 5, pause |-> 2]
TwoPens == [pen |-> 5, pause |-> 2]
TwoPads == [pad |-> 5, pause |-> 2]
Dialing == [pad |-> 1, stick |-> 2, dial |-> 3]
Adapting == [pad |-> 1, stick |-> 2, dial |-> 4]

OfInput == {KeyAndMouse, TwoFingers, TwoPens, TwoPads, Dialing, Adapting}

----------------------------------------------------------------------------
\* Media: one video is played through, looped and sought; two share Audio,
\* with sounds, until it is opened again or the engine shuts down.
MCKeys == {0, 2}

Watching == [once |-> 1, tick |-> 3, play |-> 1, drop |-> 1]
Looping == [looped |-> 1, tick |-> 3, play |-> 1]
Seeking == [once |-> 1, seek |-> 2]
Waiting == [waiting |-> 1, tick |-> 1, play |-> 1, seek |-> 1]
Sharing == [once |-> 1, waiting |-> 1]
Ending == [once |-> 1, shutdown |-> 1, reset |-> 1]
Muted == [silent |-> 1, seek |-> 1, tick |-> 2, shutdown |-> 1]
Ringing == [once |-> 1, sound |-> 1, load |-> 2, halt |-> 1, reset |-> 1]

OfMedia == {Watching, Looping, Seeking, Waiting, Sharing, Ending, Muted, Ringing}

----------------------------------------------------------------------------
\* Recording: two channels, deliveries shorter and longer than the ring.
Recording == [record |-> 2, deliver |-> 3, fetch |-> 2]

----------------------------------------------------------------------------
\* Files: two savers, and others at the file.  The bytes are at the ends of the
\* ranges that UTF-8 tells apart.
MCBytes == {0, 65, 128, 144, 160, 194, 224, 225, 237, 240, 241, 244, 255}

Saving == [token |-> 2, save |-> 2, clock |-> 1]
Spoiling == [token |-> 1, save |-> 1, write |-> 2, clock |-> 1, fail |-> 1]
Mending == [token |-> 1, save |-> 1, append |-> 1, remove |-> 1, touch |-> 1, clock |-> 1]
Reading == [window |-> 1]

OfFiles == {Saving, Spoiling, Mending, Reading}
----------------------------------------------------------------------------
\* Terminal: output, resizes and the alternate screen; and one with a child.
Scrolling == [input |-> 1, print |-> 4, resize |-> 2, limit |-> 1, clear |-> 1]
Painting == [input |-> 2, cell |-> 2, draw |-> 2, resize |-> 1, switch |-> 1]
Hiding == [input |-> 2, print |-> 4, switch |-> 2, resize |-> 2]
Shelling == [spawn |-> 1, input |-> 3, print |-> 1, drop |-> 1]
OfTerminal == {Scrolling, Painting, Hiding, Shelling}

----------------------------------------------------------------------------

Parts ==
    [realtime |-> OfRealtime, input |-> OfInput, media |-> OfMedia, recording |-> {Recording},
     files |-> OfFiles, terminal |-> OfTerminal]

MCScenarios ==
    UNION {{[subject |-> part, calls |-> calls] : calls \in Parts[part]} : part \in DOMAIN Parts}
=============================================================================
