------------------------------- MODULE Terminal -------------------------------
(***************************************************************************)
(* A terminal of scripts (Terminal): libvterm keeps the screen, and tells  *)
(* of damage to it and of lines that leave or come back to its top; the    *)
(* terminal notes what is dirty until scripts have redrawn it, keeps the   *)
(* scrollback, and reads from a child at the other end of a pty.           *)
(*                                                                         *)
(* A line is its number in the order of output and as wide as the screen   *)
(* was.  "undrawn" are the cells changed since a script drew them, "untold"  *)
(* those changed since one was last told to draw; "lost" are the lines     *)
(* pushed out by a resize behind the alternate screen, which has no        *)
(* scrollback.                                                             *)
(***************************************************************************)
EXTENDS Scenario, Integers, Sequences, FiniteSets
LOCAL INSTANCE SequencesExt

CONSTANTS
    Heights, Widths,        \* sizes a terminal may be given
    LineLimits,             \* scrollback-lines that scripts set
    ByteLimit               \* scrollbackByteLimit, in cells

ASSUME TerminalBounds ==
    /\ Heights \subseteq Nat \ {0} /\ Widths \subseteq Nat \ {0}
    /\ LineLimits \subseteq Nat /\ ByteLimit \in Nat

VARIABLES
    extent,                 \* size: [rows, cols]
    lines,                  \* what is on the primary screen
    altScreen,              \* inAltScreen
    scrollback, scrollbackBytes, lineLimit,
    dirtyRows,              \* row -> [left, right], of the rows that are dirty
    screenChanged,
    damage,                 \* cells damaged of which libvterm has not told yet
    call,                   \* what the terminal is in: nothing, input, flush or gone
    child, childPid,        \* none, running, exited or reaped; 0 if there is none
    undrawn, untold, printed, lost

terminalVars ==
    <<extent, lines, altScreen, scrollback, scrollbackBytes, lineLimit, dirtyRows,
      screenChanged, damage, call, child, childPid, undrawn, untold, printed, lost>>
screenVars == <<lines, altScreen, scrollback, scrollbackBytes, printed, lost>>
dirtyVars == <<dirtyRows, screenChanged>>

TerminalInit ==
    /\ extent = [rows |-> 2, cols |-> 2]
    /\ lines = <<>> /\ altScreen = FALSE
    /\ scrollback = <<>> /\ scrollbackBytes = 0 /\ lineLimit = 3
    /\ dirtyRows = [row \in {} |-> 0] /\ screenChanged = FALSE
    /\ damage = {}
    /\ call = "none"
    /\ child = "none" /\ childPid = 0
    /\ undrawn = {} /\ untold = {} /\ printed = 0 /\ lost = {}

Cells(size) == (1..size.rows) \X (1..size.cols)

----------------------------------------------------------------------------
(* The scrollback.                                                         *)

Line(number) == [number |-> number, cells |-> extent.cols]
CellsOf(kept) == FoldLeft(LAMBDA sum, line : sum + line.cells, 0, kept)

\* trimScrollback: the oldest go while there are too many, or too large.
Trimmed(kept, limit) ==
    LET fits == {n \in 0..Len(kept) :
                    LET rest == SubSeq(kept, n + 1, Len(kept))
                    IN  Len(rest) <= limit /\ CellsOf(rest) <= ByteLimit}
        dropped == CHOOSE n \in fits : \A k \in fits : n <= k
    IN  SubSeq(kept, dropped + 1, Len(kept))

Keep(kept) == scrollback' = kept /\ scrollbackBytes' = CellsOf(kept)

\* Mutant: the lines a screen gets back stay in the scrollback.
PoppedLeft(kept, count) == kept

\* popScrollbackLine, so many times.
Popped(kept, count) == SubSeq(kept, 1, Len(kept) - count)

----------------------------------------------------------------------------
(* What is dirty.                                                          *)

\* markDamage, of some cells: a row is dirty from its first to its last.
Marked(rows, cells) ==
    LET Spanned(row) == {cell[2] : cell \in {x \in cells : x[1] = row}}
                            \cup (IF row \in DOMAIN rows THEN {rows[row].left, rows[row].right}
                                  ELSE {})
    IN  [row \in DOMAIN rows \cup {cell[1] : cell \in cells} |->
            [left |-> CHOOSE col \in Spanned(row) : \A k \in Spanned(row) : col <= k,
             right |-> CHOOSE col \in Spanned(row) : \A k \in Spanned(row) : col >= k]]

\* collectDirtyRegions: rows that follow each other and span the same columns
\* make one region.
Regions ==
    LET Same(top, bottom) == \A row \in top..bottom :
                                row \in DOMAIN dirtyRows /\ dirtyRows[row] = dirtyRows[top]
    IN  {r \in [top : 1..extent.rows, bottom : 1..extent.rows] :
            /\ r.top <= r.bottom /\ Same(r.top, r.bottom)
            /\ ~Same(r.top - 1, r.bottom) /\ ~Same(r.top, r.bottom + 1)}

Covered ==
    UNION {(r.top..r.bottom) \X (dirtyRows[r.top].left..dirtyRows[r.top].right) : r \in Regions}

\* The program changes cells: libvterm tells of it at some time, at the latest
\* when it is made to.
Change(cells) ==
    /\ damage' = damage \cup cells
    /\ undrawn' = undrawn \cup cells
    /\ untold' = untold \cup cells

\* handleDamage, handleMoveRect
TellDamage ==
    /\ call = "input"
    /\ damage # {}
    /\ \E row \in {cell[1] : cell \in damage} :
           LET cells == {cell \in damage : cell[1] = row}
           IN  /\ damage' = damage \ cells
               /\ dirtyRows' = Marked(dirtyRows, cells)
    /\ screenChanged' = TRUE
    /\ UNCHANGED <<left, extent, screenVars, lineLimit, call, child, childPid, undrawn, untold>>

\* flushDamage, up to on-screen-updated.
Flush ==
    /\ call = "input"
    /\ dirtyRows' = Marked(dirtyRows, damage)
    /\ damage' = {}
    /\ untold' = IF screenChanged \/ damage # {} THEN {} ELSE untold
    /\ screenChanged' = (screenChanged \/ damage # {})
    /\ call' = "flush"
    /\ UNCHANGED <<left, extent, screenVars, lineLimit, child, childPid, undrawn>>

\* The rest of it, and of drainPty, which looks after the child.
Flushed ==
    /\ call = "flush"
    /\ call' = "none"
    /\ screenChanged' = FALSE
    /\ IF childPid # 0 /\ child = "exited"
       THEN child' = "reaped" /\ childPid' = 0
       ELSE UNCHANGED <<child, childPid>>
    /\ UNCHANGED <<left, extent, screenVars, lineLimit, dirtyRows, damage, undrawn, untold>>

\* A script draws what is dirty and clears it, in between or told to by a callback
\* (get-dirty-regions, clear-dirty-regions).
Draw ==
    /\ Spend("draw")
    /\ call # "gone"
    /\ undrawn' = undrawn \ Covered
    /\ untold' = untold \ Covered
    /\ dirtyRows' = [row \in {} |-> 0]
    /\ screenChanged' = FALSE
    /\ UNCHANGED <<extent, screenVars, lineLimit, damage, call, child, childPid>>

----------------------------------------------------------------------------
(* Input to libvterm, from the child or a script.                          *)

\* update, inject-output, send-key and send-mouse begin.
BeginInput ==
    /\ Spend("input")
    /\ call = "none"
    /\ call' = "input"
    /\ UNCHANGED <<extent, screenVars, lineLimit, dirtyVars, damage, child, childPid, undrawn,
                   untold>>

\* A line more; if the screen is full its first goes to the scrollback.
PrintLine ==
    /\ Spend("print")
    /\ call = "input" /\ ~altScreen
    /\ printed' = printed + 1
    /\ IF Len(lines) < extent.rows
       THEN /\ lines' = Append(lines, printed + 1)
            /\ Change({Len(lines) + 1} \X (1..extent.cols))
            /\ UNCHANGED <<scrollback, scrollbackBytes>>
       ELSE /\ lines' = Append(Tail(lines), printed + 1)
            /\ Change(Cells(extent))
            /\ Keep(Trimmed(Append(scrollback, Line(Head(lines))), lineLimit))
    /\ UNCHANGED <<extent, altScreen, lost, lineLimit, dirtyVars, call, child, childPid>>

ChangeCell ==
    /\ Spend("cell")
    /\ call = "input"
    /\ \E cell \in Cells(extent) : Change({cell})
    /\ UNCHANGED <<extent, screenVars, lineLimit, dirtyVars, call, child, childPid>>

\* handleSetTermProp: the terminal marks all of the screen itself.
SwitchScreen ==
    /\ Spend("switch")
    /\ call = "input"
    /\ altScreen' = ~altScreen
    /\ Change(Cells(extent))
    /\ dirtyRows' = Marked(dirtyRows, Cells(extent))
    /\ screenChanged' = TRUE
    /\ UNCHANGED <<extent, lines, scrollback, scrollbackBytes, printed, lost, lineLimit, call,
                   child, childPid>>

\* handleScrollbackClear
ClearScrollback ==
    /\ Spend("clear")
    /\ call = "input"
    /\ Keep(<<>>)
    /\ UNCHANGED <<extent, lines, altScreen, printed, lost, lineLimit, dirtyVars, damage, call,
                   child, childPid, undrawn, untold>>

----------------------------------------------------------------------------
(* Scripts.                                                                *)

\* resize: libvterm hands over lines that do not fit, which are refused behind
\* the alternate screen, or asks for some to fill what is new; handleResize
\* begins anew with all of the screen dirty.
Resize(rows, cols) ==
    LET size == [rows |-> rows, cols |-> cols]
        over == IF Len(lines) > rows THEN Len(lines) - rows ELSE 0
        room == IF rows > extent.rows THEN rows - extent.rows ELSE 0
        back == IF altScreen THEN 0 ELSE IF room < Len(scrollback) THEN room ELSE Len(scrollback)
        fresh == [i \in 1..over |-> Line(lines[i])]
        older == SubSeq(scrollback, Len(scrollback) - back + 1, Len(scrollback))
    IN  /\ Spend("resize")
        /\ call = "none"
        /\ extent # size
        /\ extent' = size
        /\ call' = "input"
        /\ lines' = [i \in DOMAIN older |-> older[i].number] \o SubSeq(lines, over + 1, Len(lines))
        /\ IF altScreen
           THEN /\ lost' = lost \cup {fresh[i].number : i \in DOMAIN fresh}
                /\ UNCHANGED <<scrollback, scrollbackBytes>>
           ELSE /\ Keep(IF over > 0 THEN Trimmed(scrollback \o fresh, lineLimit)
                        ELSE Popped(scrollback, back))
                /\ UNCHANGED lost
        /\ damage' = {} /\ undrawn' = Cells(size) /\ untold' = Cells(size)
        /\ dirtyRows' = Marked([row \in {} |-> 0], Cells(size))
        /\ screenChanged' = TRUE
        /\ UNCHANGED <<altScreen, printed, lineLimit, child, childPid>>

SetScrollbackLimit(limit) ==
    /\ Spend("limit")
    /\ call = "none"
    /\ lineLimit' = limit
    /\ Keep(Trimmed(scrollback, limit))
    /\ UNCHANGED <<extent, lines, altScreen, printed, lost, dirtyVars, damage, call, child,
                   childPid, undrawn, untold>>

----------------------------------------------------------------------------
(* The child.  There is none if a pty cannot be had.                       *)

Spawn ==
    /\ Spend("spawn")
    /\ child = "none" /\ call = "none"
    /\ child' = "running" /\ childPid' = 1
    /\ UNCHANGED <<extent, screenVars, lineLimit, dirtyVars, damage, call, undrawn, untold>>

ChildExits ==
    /\ child = "running"
    /\ child' = "exited"
    /\ UNCHANGED <<left, extent, screenVars, lineLimit, dirtyVars, damage, call, childPid, undrawn,
                   untold>>

\* ~Impl: a child that was not reaped is hung up, and reaped if it is gone.
DropTerminal ==
    /\ Spend("drop")
    /\ call = "none"
    /\ call' = "gone"
    /\ IF childPid # 0 /\ child = "exited" THEN child' = "reaped" /\ childPid' = 0
       ELSE UNCHANGED <<child, childPid>>
    /\ UNCHANGED <<extent, screenVars, lineLimit, dirtyVars, damage, undrawn, untold>>

TerminalNext ==
    \/ TellDamage \/ Flush \/ Flushed \/ Draw
    \/ BeginInput \/ PrintLine \/ ChangeCell \/ SwitchScreen \/ ClearScrollback
    \/ \E rows \in Heights, cols \in Widths : Resize(rows, cols)
    \/ \E limit \in LineLimits : SetScrollbackLimit(limit)
    \/ Spawn \/ ChildExits \/ DropTerminal

----------------------------------------------------------------------------
(* Properties.                                                             *)

\* Whenever scripts have the terminal to themselves every cell they have not
\* drawn is in a dirty region, and they have been told to draw it (the damage
\* merged by libvterm, the marks a resize discards, redraws within callbacks).
NoChangeIsMissed ==
    call = "none" => undrawn \subseteq Covered /\ untold = {}

\* The scrollback and then the screen have the lines in the order of output, each
\* once, and none is missing between them but those a resize pushed out behind
\* the alternate screen; the scrollback is as large as it is said to be, and
\* within its limits (the pushes and pops of a resize, trimScrollback, clear).
HistoryIsWhole ==
    LET history == [i \in DOMAIN scrollback |-> scrollback[i].number] \o lines
    IN  /\ \A i \in 1..(Len(history) - 1) :
               /\ history[i] < history[i + 1]
               /\ (history[i] + 1)..(history[i + 1] - 1) \subseteq lost
        /\ scrollbackBytes = CellsOf(scrollback)
        /\ Len(scrollback) <= lineLimit /\ scrollbackBytes <= ByteLimit

\* The process a terminal would hang up is its child, running or not yet reaped
\* (childPid and the waits of drainPty).
ChildIsOurs == (childPid # 0) <=> child \in {"running", "exited"}

\* The module's properties together.
TerminalAgrees == NoChangeIsMissed /\ HistoryIsWhole /\ ChildIsOurs
=============================================================================
