----------------------------- MODULE VectorBuffer -----------------------------
(***************************************************************************)
(* A VectorBuffer (vector_buffer.h, lua_vector_buffer.cpp): floats of      *)
(* which scripts allocate blocks, write them and give them back, and the   *)
(* copy a renderer keeps of it on the GPU (assets/lua/text-renderer.fnl),  *)
(* which follows by the range of what is dirty.                            *)
(*                                                                         *)
(* A block is known by its first float and its size, and scripts keep such *)
(* pairs for as long as they like.  Which of two free blocks of one size   *)
(* is taken first is left open.                                            *)
(***************************************************************************)
EXTENDS Integers

CONSTANTS
    Holders,        \* what keeps a handle
    None,           \* none of them
    Values,         \* of a float; 0 is one
    InitialSize,    \* the constructor's argument
    MaxLength,      \* bound: floats in use
    MaxSize         \* bound: floats of a block

ASSUME SizesAssumption ==
    InitialSize \in Nat /\ MaxLength \in Nat /\ MaxSize \in Nat /\ 0 \in Values /\ None \notin Holders

VARIABLES
    freeFrom,       \* where the part never allocated begins
    capacity,       \* floats there are
    freed, active,  \* blocks below freeFrom: given back, and in use
    releasing,      \* a release under way: its phase, and what reallocate
                    \* allocates after it, and for whom
    dirty,          \* what the next upload must carry: from, and to (excluded)
    mem,            \* the floats
    handles,        \* the handle of each holder
    gpu,            \* the renderer's copy; 0 where there is none
    uploaded,       \* floats of its last full upload, 0 with another buffer's there
    fresh,          \* history: holders whose handle the buffer gave and they kept
    lowest          \* history: the least freeFrom since the last full upload

blockVars == <<freeFrom, capacity, freed, active, releasing>>
scriptVars == <<handles, fresh>>
gpuVars == <<gpu, uploaded>>
vectorVars == <<blockVars, dirty, mem, scriptVars, gpuVars, lowest>>

Floats == 0..MaxLength - 1
Block(index, size) == [index |-> index, size |-> size]
End(b) == b.index + b.size
FloatsOf(b) == b.index..End(b) - 1

AtRest == [phase |-> "idle", by |-> None, next |-> 0]
Idle == releasing = AtRest

\* A release goes on: in the phase, with what reallocate has yet to allocate.
Then(phase, h, next) ==
    IF phase = "tail" \/ next # 0 THEN [phase |-> phase, by |-> h, next |-> next] ELSE AtRest

----------------------------------------------------------------------------
\* What is dirty.

Clean == [from |-> 0, to |-> 0]

\* markDirty(from, to - from) with the buffer's length given.
Marked(d, from, to, length) ==
    LET end == IF to > length THEN length ELSE to
    IN  IF from >= to \/ from >= length THEN d
        ELSE IF d = Clean THEN [from |-> from, to |-> end]
        ELSE [from |-> IF from < d.from THEN from ELSE d.from,
              to |-> IF end > d.to THEN end ELSE d.to]

\* Mutant: what lies across the end is forgotten with the rest.
ClampedLate(d, length) == IF d.to <= length THEN d ELSE Clean

\* clampDirtyToLength
Clamped(d, length) ==
    IF d.from >= length THEN Clean
    ELSE [d EXCEPT !.to = IF @ > length THEN length ELSE @]

----------------------------------------------------------------------------
\* Blocks.

\* validateHandle, and is_active.
IsActive(b) == b.size > 0 /\ End(b) <= capacity /\ b \in active

\* releaseRegion of b; afterwards h gets `next' floats.
Release(h, b, next) ==
    /\ IF End(b) = freeFrom
       THEN /\ freeFrom' = b.index
            /\ lowest' = IF b.index < lowest THEN b.index ELSE lowest
            /\ releasing' = Then("tail", h, next)
            /\ UNCHANGED <<freed, dirty, mem>>
       ELSE /\ freed' = freed \cup {b}
            /\ dirty' = Marked(dirty, b.index, End(b), freeFrom)
            /\ mem' = [f \in Floats |-> IF f \in FloatsOf(b) THEN 0 ELSE mem[f]]
            /\ releasing' = Then("allocate", h, next)
            /\ UNCHANGED <<freeFrom, lowest>>
    /\ UNCHANGED <<capacity, gpuVars>>

\* A turn of releaseTailFreeBlocks.
ReleaseTail ==
    /\ releasing.phase = "tail"
    /\ \E b \in freed :
          /\ End(b) = freeFrom
          /\ freeFrom' = b.index
          /\ freed' = freed \ {b}
          /\ lowest' = IF b.index < lowest THEN b.index ELSE lowest
    /\ UNCHANGED <<capacity, active, releasing, dirty, mem, scriptVars, gpuVars>>

ReleaseEnds ==
    /\ releasing.phase = "tail"
    /\ \A b \in freed : End(b) # freeFrom
    /\ dirty' = Clamped(dirty, freeFrom)
    /\ releasing' = Then("allocate", releasing.by, releasing.next)
    /\ UNCHANGED <<freeFrom, capacity, freed, active, mem, scriptVars, gpuVars, lowest>>

\* A free block of that size, or else new floats.
Found(size) ==
    IF \E b \in freed : b.size = size
    THEN {b \in freed : b.size = size} ELSE {Block(freeFrom, size)}

\* allocate, called by a script or at the end of reallocate.
Allocate(h, size) ==
    /\ \/ Idle /\ h \notin fresh
       \/ releasing = [phase |-> "allocate", by |-> h, next |-> size]
    /\ \E b \in Found(size) :
          /\ End(b) <= MaxLength
          /\ handles' = [handles EXCEPT ![h] = b]
          /\ freeFrom' = IF b \in freed THEN freeFrom ELSE End(b)
          /\ freed' = freed \ {b}
          /\ active' = active \cup {b}
          /\ capacity' = IF freeFrom' > capacity THEN 2 * capacity + size ELSE capacity
    /\ fresh' = fresh \cup {h}
    /\ releasing' = AtRest
    /\ UNCHANGED <<dirty, mem, gpuVars, lowest>>

\* deleteHandle; scripts keep the handle.
Delete(h) ==
    /\ Idle
    /\ IsActive(handles[h])
    /\ active' = active \ {handles[h]}
    /\ fresh' = fresh \ {h}
    /\ UNCHANGED handles
    /\ Release(h, handles[h], 0)

\* Mutant: all of the block is released.
RemainderWhole(b, size) == b

\* What reallocate gives back of a block that becomes smaller.
Remainder(b, size) == Block(b.index + size, b.size - size)

\* reallocate to fewer floats.
Shrink(h, size) ==
    LET b == handles[h]
    IN  /\ Idle
        /\ IsActive(b)
        /\ size < b.size
        /\ active' = (active \ {b}) \cup (IF size = 0 THEN {} ELSE {Block(b.index, size)})
        /\ handles' = [handles EXCEPT ![h].size = size]
        /\ fresh' = IF size = 0 THEN fresh \ {h} ELSE fresh
        /\ Release(h, Remainder(b, size), 0)

\* reallocate to more: deleteHandle, then allocate.
Grow(h, size) ==
    LET b == handles[h]
    IN  /\ Idle
        /\ IsActive(b)
        /\ size > b.size
        /\ freeFrom + size <= MaxLength
        /\ active' = active \ {b}
        /\ UNCHANGED <<handles, fresh>>
        /\ Release(h, b, size)

----------------------------------------------------------------------------
\* Writes.

\* The floats that a write of v marks: those it changes, or all of them.
Changes(range, v, diff) == {f \in range : ~diff \/ mem[f] # v}

\* The set- functions: n floats from the i-th of h's block become v.  Several
\* blocks in one call are as many writes, of which the first stay if one fails.
Write(h, i, n, v, diff) ==
    LET b == handles[h]
        range == b.index + i..b.index + i + n - 1
        marked == Changes(range, v, diff)
    IN  /\ Idle
        /\ i + n <= b.size
        /\ IsActive(b)
        /\ mem' = [f \in Floats |-> IF f \in range THEN v ELSE mem[f]]
        /\ IF marked = {} THEN UNCHANGED dirty
           ELSE \E from, to \in marked :
                   /\ \A f \in marked : from <= f /\ f <= to
                   /\ dirty' = Marked(dirty, from, to + 1, freeFrom)
        /\ UNCHANGED <<blockVars, handles, fresh, gpuVars, lowest>>

----------------------------------------------------------------------------
\* The renderer.

\* upload-vector: all of it if its length is another than at the last full
\* upload or another buffer was uploaded since, otherwise what is dirty.
UploadAll ==
    /\ Idle
    /\ freeFrom > 0 /\ uploaded # freeFrom
    /\ gpu' = [f \in Floats |-> IF f < freeFrom THEN mem[f] ELSE 0]
    /\ uploaded' = freeFrom
    /\ dirty' = Clean
    /\ lowest' = freeFrom
    /\ UNCHANGED <<blockVars, mem, scriptVars>>

UploadDirty ==
    /\ Idle
    /\ freeFrom > 0 /\ uploaded = freeFrom /\ dirty # Clean
    /\ gpu' = [f \in Floats |-> IF f \in dirty.from..dirty.to - 1 THEN mem[f] ELSE gpu[f]]
    /\ dirty' = Clean
    /\ UNCHANGED <<blockVars, mem, scriptVars, uploaded, lowest>>

\* Another buffer takes this one's place.
UploadOther ==
    /\ Idle
    /\ uploaded' = 0
    /\ gpu' = [f \in Floats |-> 0]
    /\ UNCHANGED <<blockVars, dirty, mem, scriptVars, lowest>>

----------------------------------------------------------------------------
VectorInit ==
    /\ freeFrom = 0 /\ capacity = InitialSize
    /\ freed = {} /\ active = {}
    /\ releasing = AtRest
    /\ dirty = Clean
    /\ mem = [f \in Floats |-> 0]
    /\ handles = [h \in Holders |-> Block(0, 0)]
    /\ gpu = [f \in Floats |-> 0] /\ uploaded = 0
    /\ fresh = {} /\ lowest = 0

Scripts(h) ==
    \/ Delete(h)
    \/ \E size \in 1..MaxSize : Allocate(h, size) \/ Grow(h, size)
    \/ \E size \in 0..MaxSize : Shrink(h, size)
    \/ \E i \in 0..MaxSize - 1, n \in 1..MaxSize, v \in Values, diff \in BOOLEAN :
          Write(h, i, n, v, diff)

VectorNext ==
    \/ \E h \in Holders : Scripts(h)
    \/ ReleaseTail \/ ReleaseEnds
    \/ UploadAll \/ UploadDirty \/ UploadOther

VectorSpec == VectorInit /\ [][VectorNext]_vectorVars

----------------------------------------------------------------------------
Blocks == active \cup freed

\* No two blocks share a float, and each float below length is in one.
Tiles(blocks, length) ==
    /\ \A b, c \in blocks : b = c \/ End(b) <= c.index \/ End(c) <= b.index
    /\ \A b \in blocks : b.size > 0 /\ End(b) <= length
    /\ \A f \in 0..length - 1 : \E b \in blocks : f \in FloatsOf(b)

\* Blocks in use and free ones have no float in common and leave none below
\* freeFrom to nobody, whatever is allocated, given back, shrunk and grown, by
\* handles kept too long as well; between calls the last block is in use.
BlocksTile ==
    /\ Tiles(Blocks, freeFrom)
    /\ active \cap freed = {}
    /\ releasing.phase # "tail" => \A b \in freed : End(b) # freeFrom
    /\ freeFrom <= capacity

\* What the GPU has differs from the buffer only where the next upload goes,
\* as far down as the buffer has been since the last full one.
GpuFollows ==
    uploaded > 0 =>
        \A f \in 0..lowest - 1 : gpu[f] = mem[f] \/ f \in dirty.from..dirty.to - 1

\* The module's properties together.
VectorAgrees == BlocksTile /\ GpuFollows
=============================================================================
