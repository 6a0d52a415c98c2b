--------------------------------- MODULE Files ---------------------------------
(***************************************************************************)
(* The fs module of scripts, lua_fs.cpp, where it deals with a file that   *)
(* others change meanwhile: a script's text window, and the save of a      *)
(* buffer, fs_atomic_replace_if_current, which replaces a file unless it   *)
(* has changed since a token of it was taken.                              *)
(*                                                                         *)
(* A file has an inode, contents, the time of its last change, which is    *)
(* one of the ticks of a clock, and permissions.  The contents are a size, *)
(* what a token samples of them, edges, and what it does not, the middle.  *)
(* "versions" are all that has been at the path, for the properties.       *)
(***************************************************************************)
EXTENDS Scenario, Integers, Sequences, FiniteSets

CONSTANTS
    Savers,                 \* engines with the file in a buffer
    Inodes,                 \* bound: a free one is taken, or taken again
    Middles,                \* what the middle of a file may be
    Bytes,                  \* bytes a window may have in it
    WindowBytes             \* bound: how many

ASSUME FilesBounds ==
    /\ Inodes \subseteq Nat /\ Cardinality(Inodes) > Cardinality(Savers) + 2
    /\ WindowBytes \in Nat

VARIABLES
    file, versions, clock,
    writer,                 \* a write_file under way: the inode it opened, and contents
    saver,                  \* [pc, expected, seen]: the token a save is given, and
                            \* the version its last look was at
    temps,                  \* the temporary file of each save
    raw                     \* the bytes of the last text window

filesVars == <<file, versions, clock, writer, saver, temps, raw>>

Missing == [ino |-> 0]
Contents(size, edges, middle) == [size |-> size, edges |-> edges, middle |-> middle]
Emptied == Contents(0, "none", "none")
Absent == [stat |-> Missing, edges |-> "none", at |-> 0]

FilesInit ==
    /\ file = [ino |-> 1, contents |-> Contents(2, "first", "x"), time |-> 0, perms |-> "some"]
    /\ versions = <<file>>
    /\ clock = 0
    /\ writer = Missing
    /\ saver = [r \in Savers |-> [pc |-> "idle", expected |-> Absent, seen |-> 0]]
    /\ temps = [r \in Savers |-> Missing]
    /\ raw = <<>>

----------------------------------------------------------------------------
(* Tokens.                                                                 *)

Permissions(f) == IF f = Missing THEN "all" ELSE f.perms

\* What stat tells of a file.  build_file_token_table asks for some of it
\* earlier too, which only adds to what has to be equal.
Stat(f) ==
    IF f = Missing THEN Missing
    ELSE [ino |-> f.ino, size |-> f.contents.size, time |-> f.time, perms |-> f.perms]

\* bounded_file_fingerprint
Sample(f) == IF f = Missing THEN "none" ELSE f.contents.edges

NowIs(f) == file' = f /\ versions' = Append(versions, f)

\* An inode that is free: the one longest known, or the latest.
Unused ==
    LET free == Inodes \ ({file.ino, writer.ino} \cup {temps[r].ino : r \in Savers})
    IN  {i \in free : (\A j \in free : i <= j) \/ (\A j \in free : i >= j)}

TakesStat(r) ==
    saver' = [saver EXCEPT ![r] = [pc |-> "sample", seen |-> Len(versions),
        expected |-> [stat |-> Stat(file), edges |-> "none", at |-> Len(versions)]]]

\* file_token, of a script; or, at the end of a save, of the file saved.
TakeStat(r) ==
    /\ saver[r].pc = "idle" /\ Spend("token")
    /\ TakesStat(r)
    /\ UNCHANGED <<file, versions, clock, writer, temps, raw>>

ResultStat(r) ==
    /\ saver[r].pc = "saved" /\ UNCHANGED left
    /\ TakesStat(r)
    /\ UNCHANGED <<file, versions, clock, writer, temps, raw>>

TakeSample(r) ==
    /\ saver[r].pc = "sample"
    /\ saver' = [saver EXCEPT ![r].pc = "idle", ![r].expected.edges = Sample(file)]
    /\ UNCHANGED <<left, file, versions, clock, writer, temps, raw>>

----------------------------------------------------------------------------
(* A save: fs_atomic_replace_if_current.                                   *)

SaverGoes(r, pc, temp) ==
    /\ saver' = [saver EXCEPT ![r].pc = pc, ![r].seen = Len(versions)]
    /\ temps' = [temps EXCEPT ![r] = temp]
    /\ UNCHANGED <<left, file, versions, clock, writer, raw>>

BeginSave(r) ==
    /\ Spend("save")
    /\ saver[r].pc = "idle" /\ saver[r].expected # Absent
    /\ Stat(file) = saver[r].expected.stat /\ Sample(file) = saver[r].expected.edges
    /\ \E ino \in Unused :
           temps' = [temps EXCEPT ![r] = [ino |-> ino, contents |-> Emptied, whole |-> FALSE,
                                          time |-> clock, perms |-> "default"]]
    /\ saver' = [saver EXCEPT ![r].pc = "compose"]
    /\ UNCHANGED <<file, versions, clock, writer, raw>>

\* Text, or text and a segment of the file as it is by now, which may have
\* become too short for that.
Compose(r) ==
    LET Written(middle) == [temps[r] EXCEPT !.contents = Contents(2, r, middle),
                                            !.whole = TRUE, !.time = clock]
    IN  /\ saver[r].pc = "compose"
        /\ \/ SaverGoes(r, "permit", Written("text"))
           \/ IF file # Missing /\ file.contents.size >= 2
              THEN SaverGoes(r, "permit", Written(file.contents.middle))
              ELSE SaverGoes(r, "idle", Missing)

Permit(r) ==
    /\ saver[r].pc = "permit"
    /\ SaverGoes(r, "check", [temps[r] EXCEPT !.perms = Permissions(saver[r].expected.stat),
                                              !.time = clock])

\* Mutant: what the first look told is taken to hold still.
CheckOnce(r) ==
    /\ saver[r].pc = "check"
    /\ SaverGoes(r, "compare", temps[r])

\* The second token_matches: what stat tells, then the sample.
Check(r) ==
    /\ saver[r].pc = "check"
    /\ IF Stat(file) = saver[r].expected.stat THEN SaverGoes(r, "compare", temps[r])
       ELSE SaverGoes(r, "idle", Missing)

Compare(r) ==
    /\ saver[r].pc = "compare"
    /\ IF Sample(file) = saver[r].expected.edges
       THEN /\ saver' = [saver EXCEPT ![r].pc = "rename"]
            /\ UNCHANGED <<left, file, versions, clock, writer, temps, raw>>
       ELSE SaverGoes(r, "idle", Missing)

Replace(r) ==
    /\ saver[r].pc = "rename"
    /\ LET temp == temps[r]
       IN  NowIs([ino |-> temp.ino, contents |-> temp.contents, time |-> clock,
                     perms |-> temp.perms])
    /\ saver' = [saver EXCEPT ![r].pc = "saved"]
    /\ temps' = [temps EXCEPT ![r] = Missing]
    /\ UNCHANGED <<left, clock, writer, raw>>

\* A full disk, or the like, before the rename.
SaveFails(r) ==
    /\ saver[r].pc \in {"compose", "permit", "rename"} /\ Spend("fail")
    /\ saver' = [saver EXCEPT ![r].pc = "idle"]
    /\ temps' = [temps EXCEPT ![r] = Missing]
    /\ UNCHANGED <<file, versions, clock, writer, raw>>

----------------------------------------------------------------------------
(* What others do at the path, scripts among them.                         *)

Created(contents) ==
    \E ino \in Unused :
        NowIs([ino |-> ino, contents |-> contents, time |-> clock, perms |-> "default"])

Changed(contents) == NowIs([file EXCEPT !.contents = contents, !.time = clock])

\* fs_write_file: the file is emptied as it is opened, and written.
OpenToWrite ==
    /\ Spend("write")
    /\ writer = Missing
    /\ \/ file = Missing /\ Created(Emptied)
       \/ file # Missing /\ Changed(Emptied)
    /\ \E middle \in Middles :
           writer' = [ino |-> file'.ino, contents |-> Contents(2, "first", middle)]
    /\ UNCHANGED <<clock, saver, temps, raw>>

\* The file that was opened need not be the one at the path any more.
Write ==
    /\ writer # Missing
    /\ writer' = Missing
    /\ IF file.ino = writer.ino THEN Changed(writer.contents)
       ELSE UNCHANGED <<file, versions>>
    /\ UNCHANGED <<left, clock, saver, temps, raw>>

\* fs_append_file: more of the sort that is at the end.
AppendTo ==
    /\ Spend("append")
    /\ \/ file = Missing /\ Created(Contents(1, "more", "none"))
       \/ file # Missing /\ Changed(Contents(file.contents.size + 1, "more", file.contents.middle))
    /\ UNCHANGED <<clock, writer, saver, temps, raw>>

Touch ==
    /\ Spend("touch")
    /\ \/ file = Missing /\ Created(Emptied)
       \/ file # Missing /\ Changed(file.contents)
    /\ UNCHANGED <<clock, writer, saver, temps, raw>>

RemoveFile ==
    /\ Spend("remove")
    /\ file # Missing
    /\ NowIs(Missing)
    /\ UNCHANGED <<clock, writer, saver, temps, raw>>

\* Changes of one tick carry the same time.
ClockTicks ==
    /\ Spend("clock")
    /\ clock' = clock + 1
    /\ UNCHANGED <<file, versions, writer, saver, temps, raw>>

----------------------------------------------------------------------------
(* Text: sanitize_text_window makes text of the bytes of a window.  A      *)
(* character of it is the sequence of its bytes.                           *)

Replacement == <<>>

SequenceLength(first) ==
    CASE first \in 194..223 -> 2
      [] first \in 224..239 -> 3
      [] first \in 240..244 -> 4
      [] OTHER -> 0

ValidSecond(first, second) ==
    CASE first = 224 -> second \in 160..191
      [] first = 237 -> second \in 128..159
      [] first = 240 -> second \in 144..191
      [] first = 244 -> second \in 128..143
      [] OTHER -> second \in 128..191

\* valid_utf8_sequence and valid_utf8_prefix, of as much as there is.
ValidSoFar(bytes) ==
    /\ Len(bytes) > 1 => ValidSecond(bytes[1], bytes[2])
    /\ \A i \in 3..Len(bytes) : bytes[i] \in 128..191

\* The next character of a window: itself, or what stands for a byte of it.
NextChar(bytes) ==
    LET length == SequenceLength(bytes[1])
        there == SubSeq(bytes, 1, IF length < Len(bytes) THEN length ELSE Len(bytes))
    IN  CASE bytes[1] \in 1..127 -> [char |-> <<bytes[1]>>, cut |-> FALSE]
          [] length > 0 /\ ValidSoFar(there) ->
                 [char |-> IF Len(there) = length THEN there ELSE Replacement,
                  cut |-> Len(there) < length]
          [] OTHER -> [char |-> Replacement, cut |-> FALSE]

Width(char) == IF char = Replacement THEN 1 ELSE Len(char)

Sanitized(bytes) ==
    LET from[i \in 1..(Len(bytes) + 1)] ==
            IF i > Len(bytes) THEN [text |-> <<>>, truncated |-> FALSE]
            ELSE LET next == NextChar(SubSeq(bytes, i, Len(bytes)))
                 IN  IF next.cut THEN [text |-> <<Replacement>>, truncated |-> TRUE]
                     ELSE [from[i + Width(next.char)] EXCEPT !.text = <<next.char>> \o @]
    IN  from[1]

\* fs_read_text_window, of a file with any bytes.
ReadTextWindow ==
    /\ Spend("window")
    /\ \E n \in 0..WindowBytes : raw' \in [1..n -> Bytes]
    /\ UNCHANGED <<file, versions, clock, writer, saver, temps>>

----------------------------------------------------------------------------

FilesNext ==
    \/ \E r \in Savers :
           \/ TakeStat(r) \/ ResultStat(r) \/ TakeSample(r)
           \/ BeginSave(r) \/ Compose(r) \/ Permit(r) \/ Check(r) \/ Compare(r)
           \/ Replace(r) \/ SaveFails(r)
    \/ OpenToWrite \/ Write \/ AppendTo \/ Touch \/ RemoveFile \/ ClockTicks
    \/ ReadTextWindow

----------------------------------------------------------------------------
(* Properties.                                                             *)

\* A save that is about to rename has looked at a file of which stat tells what it
\* told when the script took its token, and which had since then no version of
\* another tick of the clock (token_matches, the order of the checks).  A change
\* within that tick that keeps the size may pass: the sample of a token, like that
\* of a look, is of a later moment than its stat.
NothingIsOverwritten ==
    \A r \in Savers :
        saver[r].pc = "rename" =>
            LET s == saver[r]
                old == versions[s.expected.at]
            IN  /\ Stat(versions[s.seen]) = Stat(old)
                /\ old # Missing =>
                       \A i \in s.expected.at..s.seen :
                           versions[i] = Missing \/ versions[i].time = old.time

\* A save puts a whole file in place, with the permissions of the one it
\* replaces, and one that ended, well or not, leaves no other file behind.
SavesAreWhole ==
    \A r \in Savers :
        /\ saver[r].pc = "rename" =>
               temps[r].whole /\ temps[r].perms = Permissions(saver[r].expected.stat)
        /\ saver[r].pc \in {"idle", "sample", "saved"} => temps[r] = Missing

\* The value UTF-8 gives to a character of two to four bytes, and whether that is
\* the only way to write it, by the definition of UTF-8.
CodePoint(char) ==
    LET first == <<0, char[1] - 192, char[1] - 224, char[1] - 240>>[Len(char)]
        value[i \in 1..Len(char)] == IF i = 1 THEN first ELSE value[i - 1] * 64 + char[i] - 128
    IN  value[Len(char)]

WellFormed(char) ==
    /\ \A i \in 2..Len(char) : char[i] \in 128..191
    /\ CASE Len(char) = 1 -> char[1] \in 1..127
         [] Len(char) = 2 -> char[1] \in 192..223 /\ CodePoint(char) \in 128..2047
         [] Len(char) = 3 ->
                char[1] \in 224..239 /\ CodePoint(char) \in (2048..65535) \ (55296..57343)
         [] Len(char) = 4 -> char[1] \in 240..247 /\ CodePoint(char) \in 65536..1114111
         [] OTHER -> FALSE

\* A window's text is of well-formed characters, loses none that begins where
\* another ends, and can be joined to that of the next window unless it is
\* said to be truncated (valid_utf8_sequence, valid_utf8_prefix, truncated).
WindowIsText ==
    LET whole == Sanitized(raw)
        begins[i \in 1..(Len(whole.text) + 1)] ==
            IF i = 1 THEN 1 ELSE begins[i - 1] + Width(whole.text[i - 1])
    IN  /\ \A i \in DOMAIN whole.text :
               IF whole.text[i] # Replacement THEN WellFormed(whole.text[i])
               ELSE \A n \in begins[i]..Len(raw) : ~WellFormed(SubSeq(raw, begins[i], n))
        /\ \A n \in 1..Len(raw) :
               LET window == Sanitized(SubSeq(raw, 1, n))
               IN  ~window.truncated =>
                       whole.text = window.text \o Sanitized(SubSeq(raw, n + 1, Len(raw))).text

\* The module's properties together.
FilesAgree == NothingIsOverwritten /\ SavesAreWhole /\ WindowIsText
=============================================================================
