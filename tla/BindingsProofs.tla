----------------------------- MODULE BindingsProofs -----------------------------
(***************************************************************************)
(* Proofs about two of the modules of Bindings, each by itself.            *)
(*                                                                         *)
(* VectorBuffer, for any number of holders and any bounds: blocks tile the *)
(* floats in use, and the renderer's copy differs from them only where the *)
(* next upload goes.  Desktop, for any handles, centers, keys and watches  *)
(* and any number of calls: what callbacks, rebuilds and ends leave of a   *)
(* tray and of notes, and the order of what watches tell.                  *)
(***************************************************************************)
EXTENDS VectorBuffer, Desktop, TLAPS

BlockType == [index : Nat, size : Nat]

TypeInv ==
    /\ freeFrom \in Nat /\ capacity \in Nat
    /\ freed \subseteq BlockType /\ active \subseteq BlockType
    /\ releasing \in [phase : {"idle", "tail", "allocate"}, by : Holders \cup {None}, next : Nat]
    /\ handles \in [Holders -> BlockType]

BlockInv == TypeInv /\ BlocksTile

-----------------------------------------------------------------------------
(* What taking, giving back and cutting of blocks do to a tiling.          *)

LEMMA BlocksAreRecords ==
    ASSUME NEW i \in Nat, NEW s \in Nat
    PROVE  /\ Block(i, s) \in BlockType
           /\ Block(i, s).index = i /\ Block(i, s).size = s
           /\ End(Block(i, s)) = i + s
           /\ FloatsOf(Block(i, s)) = i..i + s - 1
  BY DEF Block, BlockType, End, FloatsOf

LEMMA RemainderIsRest ==
    ASSUME NEW b \in BlockType, NEW size \in Nat, size <= b.size
    PROVE  /\ Remainder(b, size) \in BlockType
           /\ Remainder(b, size).index = b.index + size
           /\ Remainder(b, size).size = b.size - size
           /\ End(Remainder(b, size)) = End(b)
           /\ FloatsOf(Remainder(b, size)) = b.index + size..End(b) - 1
  <1>1. b.index + size \in Nat /\ b.size - size \in Nat  BY DEF BlockType
  <1> DEFINE i == b.index + size
             s == b.size - size
  <1>2. i + s = End(b)  BY DEF End, BlockType
  <1> HIDE DEF i, s
  <1>3. /\ Block(i, s) \in BlockType
        /\ Block(i, s).index = i /\ Block(i, s).size = s
        /\ End(Block(i, s)) = i + s
        /\ FloatsOf(Block(i, s)) = i..i + s - 1
    BY <1>1, BlocksAreRecords DEF i, s
  <1>4. Remainder(b, size) = Block(i, s)  BY DEF Remainder, i, s
  <1>5. i = b.index + size /\ s = b.size - size  BY DEF i, s
  <1> QED  BY <1>2, <1>3, <1>4, <1>5

\* The last block gone, the others tile what is below it.
LEMMA DropLast ==
    ASSUME NEW blocks \in SUBSET BlockType, NEW length \in Nat, Tiles(blocks, length),
           NEW b \in blocks, End(b) = length
    PROVE  /\ Tiles(blocks \ {b}, b.index)
           /\ \A c \in blocks \ {b} : c # b
  <1>1. b.index < length /\ b.index \in Nat  BY DEF Tiles, End, BlockType
  <1>2. \A c \in blocks \ {b} : c.size > 0 /\ End(c) <= b.index  BY DEF Tiles, End, BlockType
  <1>3. ASSUME NEW f \in 0..b.index - 1
        PROVE  \E c \in blocks \ {b} : f \in FloatsOf(c)
    <2>1. PICK c \in blocks : f \in FloatsOf(c)  BY <1>1 DEF Tiles
    <2>2. c # b  BY <2>1 DEF FloatsOf, End, BlockType
    <2> QED  BY <2>1, <2>2
  <1> QED  BY <1>2, <1>3 DEF Tiles

\* A block behind the last.
LEMMA AddLast ==
    ASSUME NEW blocks \in SUBSET BlockType, NEW length \in Nat, Tiles(blocks, length),
           NEW size \in Nat, size > 0
    PROVE  Tiles(blocks \cup {Block(length, size)}, length + size)
  <1> DEFINE new == Block(length, size)
  <1>1. /\ new \in BlockType /\ new.index = length /\ new.size = size
        /\ End(new) = length + size /\ FloatsOf(new) = length..length + size - 1
    BY BlocksAreRecords
  <1> HIDE DEF new
  <1>2. \A c \in blocks : c.size > 0 /\ End(c) <= length /\ End(c) \in Nat
    BY DEF Tiles, End, BlockType
  <1>3. ASSUME NEW f \in 0..length + size - 1
        PROVE  \E c \in blocks \cup {new} : f \in FloatsOf(c)
    BY <1>1 DEF Tiles
  <1>4. \A c, d \in blocks \cup {new} : c = d \/ End(c) <= d.index \/ End(d) <= c.index
    BY <1>1, <1>2 DEF Tiles
  <1>5. \A c \in blocks \cup {new} : c.size > 0 /\ End(c) <= length + size  BY <1>1, <1>2
  <1> QED  BY <1>3, <1>4, <1>5 DEF Tiles, new

\* A block cut in two.
LEMMA Cut ==
    ASSUME NEW blocks \in SUBSET BlockType, NEW length \in Nat, Tiles(blocks, length),
           NEW b \in blocks, NEW size \in Nat, 0 < size, size < b.size
    PROVE  Tiles((blocks \ {b}) \cup {Block(b.index, size), Remainder(b, size)}, length)
  <1> DEFINE lower == Block(b.index, size)
             upper == Remainder(b, size)
  <1>0. b.index \in Nat /\ b.size \in Nat /\ b.index + size \in Nat /\ b.size - size \in Nat
    BY DEF BlockType
  <1>1. /\ lower \in BlockType /\ lower.index = b.index /\ lower.size = size
        /\ End(lower) = b.index + size /\ FloatsOf(lower) = b.index..b.index + size - 1
    BY <1>0, BlocksAreRecords
  <1>2. /\ upper \in BlockType /\ upper.index = b.index + size /\ upper.size = b.size - size
        /\ End(upper) = End(b) /\ FloatsOf(upper) = b.index + size..End(b) - 1
    BY RemainderIsRest DEF BlockType
  <1> HIDE DEF lower, upper
  <1>3. \A c \in blocks \ {b} : /\ c.index \in Nat /\ End(c) \in Nat
                                /\ End(c) <= b.index \/ End(b) <= c.index
    BY DEF Tiles, End, BlockType
  <1>4. End(b) \in Nat /\ End(b) = b.index + b.size /\ End(b) <= length  BY <1>0 DEF End, Tiles
  <1> DEFINE all == (blocks \ {b}) \cup {lower, upper}
  <1>5. \A c, d \in all : c = d \/ End(c) <= d.index \/ End(d) <= c.index
    <2> SUFFICES ASSUME NEW c \in all, NEW d \in all
                 PROVE  c = d \/ End(c) <= d.index \/ End(d) <= c.index
      OBVIOUS
    <2>1. CASE c \in blocks \ {b} /\ d \in blocks \ {b}  BY <2>1 DEF Tiles
    <2>2. CASE c \in blocks \ {b} /\ d \in {lower, upper}  BY <2>2, <1>0, <1>1, <1>2, <1>3, <1>4
    <2>3. CASE c \in {lower, upper} /\ d \in blocks \ {b}  BY <2>3, <1>0, <1>1, <1>2, <1>3, <1>4
    <2>4. CASE c \in {lower, upper} /\ d \in {lower, upper}  BY <2>4, <1>0, <1>1, <1>2
    <2> QED  BY <2>1, <2>2, <2>3, <2>4
  <1>6. \A c \in all : c.size > 0 /\ End(c) <= length  BY <1>0, <1>1, <1>2, <1>4 DEF Tiles
  <1>7. ASSUME NEW f \in 0..length - 1
        PROVE  \E c \in all : f \in FloatsOf(c)
    <2>1. PICK c \in blocks : f \in FloatsOf(c)  BY DEF Tiles
    <2>2. CASE c = b  BY <2>1, <2>2, <1>0, <1>1, <1>2, <1>4 DEF FloatsOf
    <2> QED  BY <2>1, <2>2
  <1> QED  BY <1>5, <1>6, <1>7 DEF Tiles, lower, upper

-----------------------------------------------------------------------------
(* Blocks tile the floats in use.                                          *)

LEMMA ThenIsType ==
    ASSUME NEW phase \in {"tail", "allocate"}, NEW h \in Holders \cup {None}, NEW next \in Nat
    PROVE  Then(phase, h, next) \in
             [phase : {"idle", "tail", "allocate"}, by : Holders \cup {None}, next : Nat]
  BY DEF Then, AtRest

\* releaseRegion of a block that is neither in use any more nor free yet.
LEMMA ReleaseTiles ==
    ASSUME BlockInv, Idle, NEW h \in Holders, NEW next \in Nat, NEW b \in BlockType,
           Tiles(active' \cup freed \cup {b}, freeFrom),
           active' \subseteq BlockType, active' \cap freed = {},
           b \notin active', b \notin freed,
           handles' \in [Holders -> BlockType],
           Release(h, b, next)
    PROVE  BlockInv'
  <1> DEFINE all == active' \cup freed \cup {b}
  <1>1. all \in SUBSET BlockType /\ freeFrom \in Nat  BY DEF BlockInv, TypeInv
  <1>2. \A f \in freed : End(f) # freeFrom  BY DEF BlockInv, BlocksTile, Idle, AtRest
  <1>3. CASE End(b) = freeFrom
    <2>1. /\ freeFrom' = b.index /\ freed' = freed /\ capacity' = capacity
          /\ releasing' = Then("tail", h, next)
      BY <1>3 DEF Release
    <2>2. Tiles(all \ {b}, b.index)  BY <1>1, <1>3, DropLast
    <2>3. all \ {b} = Blocks'  BY <2>1 DEF Blocks
    <2>4. b.index \in Nat /\ b.index <= freeFrom  BY <1>3 DEF End, BlockType
    <2>5. releasing'.phase = "tail"  BY <2>1 DEF Then
    <2>6. TypeInv'  BY <2>1, <2>4, ThenIsType DEF BlockInv, TypeInv
    <2>7. freeFrom' <= capacity'  BY <2>1, <2>4 DEF BlockInv, TypeInv, BlocksTile
    <2>8. Tiles(Blocks', freeFrom')  BY <2>1, <2>2, <2>3
    <2> QED  BY <2>1, <2>5, <2>6, <2>7, <2>8 DEF BlockInv, BlocksTile
  <1>4. CASE End(b) # freeFrom
    <2>1. /\ freeFrom' = freeFrom /\ freed' = freed \cup {b} /\ capacity' = capacity
          /\ releasing' = Then("allocate", h, next)
      BY <1>4 DEF Release
    <2>2. all = Blocks'  BY <2>1 DEF Blocks
    <2>3. TypeInv'  BY <2>1, ThenIsType DEF BlockInv, TypeInv
    <2>4. active' \cap freed' = {}  BY <2>1
    <2>5. \A f \in freed' : End(f) # freeFrom'  BY <2>1, <1>2, <1>4
    <2>6. Tiles(Blocks', freeFrom')  BY <2>1, <2>2
    <2>7. freeFrom' <= capacity'  BY <2>1 DEF BlockInv, BlocksTile
    <2> QED  BY <2>3, <2>4, <2>5, <2>6, <2>7 DEF BlockInv, BlocksTile
  <1> QED  BY <1>3, <1>4

LEMMA AllocateTiles ==
    ASSUME BlockInv, NEW h \in Holders, NEW size \in Nat, size > 0, Allocate(h, size)
    PROVE  BlockInv'
  <1>0. /\ Blocks \in SUBSET BlockType /\ freeFrom \in Nat /\ capacity \in Nat
        /\ Tiles(Blocks, freeFrom) /\ freeFrom <= capacity /\ active \cap freed = {}
    BY DEF BlockInv, TypeInv, BlocksTile, Blocks
  <1>1. \A f \in freed : End(f) # freeFrom  BY DEF BlockInv, BlocksTile, Allocate, Idle, AtRest
  <1>2. PICK b \in Found(size) :
          /\ handles' = [handles EXCEPT ![h] = b]
          /\ freeFrom' = IF b \in freed THEN freeFrom ELSE End(b)
          /\ freed' = freed \ {b}
          /\ active' = active \cup {b}
          /\ capacity' = IF freeFrom' > capacity THEN 2 * capacity + size ELSE capacity
    BY DEF Allocate
  <1>3. releasing' = AtRest  BY DEF Allocate
  <1>4. AtRest \in [phase : {"idle", "tail", "allocate"}, by : Holders \cup {None}, next : Nat]
    BY DEF AtRest
  <1>5. CASE b \in freed
    <2>1. b \in BlockType /\ b \notin active  BY <1>0, <1>5 DEF Blocks
    <2>2. Blocks' = Blocks /\ freeFrom' = freeFrom /\ capacity' = capacity
      BY <1>0, <1>2, <1>5 DEF Blocks
    <2>3. TypeInv'  BY <1>2, <1>3, <1>4, <2>1, <2>2 DEF BlockInv, TypeInv
    <2> QED  BY <1>0, <1>1, <1>2, <2>1, <2>2, <2>3 DEF BlockInv, BlocksTile
  <1>6. CASE b \notin freed
    <2>1. b = Block(freeFrom, size)  BY <1>2, <1>6 DEF Found
    <2>2. b \in BlockType /\ End(b) = freeFrom + size /\ b.index = freeFrom /\ b.size = size
      BY <1>0, <2>1, BlocksAreRecords
    <2>3. freeFrom' = freeFrom + size /\ freed' = freed /\ Blocks' = Blocks \cup {b}
      BY <1>2, <1>6, <2>2 DEF Blocks
    <2>4. Tiles(Blocks', freeFrom')  BY <1>0, <2>1, <2>3, AddLast
    <2>5. \A c \in Blocks : End(c) <= freeFrom /\ End(c) \in Nat  BY <1>0 DEF Tiles, End, BlockType
    <2>6. b \notin Blocks  BY <1>0, <2>2, <2>5
    <2>7. active' \cap freed' = {}  BY <1>0, <1>2, <2>3, <2>6 DEF Blocks
    <2>8. \A f \in freed' : End(f) # freeFrom'  BY <1>0, <2>3, <2>5 DEF Blocks
    <2>9. freeFrom' <= capacity' /\ capacity' \in Nat /\ freeFrom' \in Nat  BY <1>0, <1>2, <2>3
    <2>10. TypeInv'  BY <1>2, <1>3, <1>4, <2>2, <2>3, <2>9 DEF BlockInv, TypeInv
    <2> QED  BY <2>4, <2>7, <2>8, <2>9, <2>10 DEF BlockInv, BlocksTile
  <1> QED  BY <1>5, <1>6

LEMMA ShrinkTiles ==
    ASSUME BlockInv, NEW h \in Holders, NEW size \in Nat, Shrink(h, size)
    PROVE  BlockInv'
  <1> DEFINE b == handles[h]
             kept == IF size = 0 THEN {} ELSE {Block(b.index, size)}
             rest == Remainder(b, size)
  <1>0. /\ Idle /\ b \in active /\ size < b.size
        /\ active' = (active \ {b}) \cup kept
        /\ handles' = [handles EXCEPT ![h].size = size]
        /\ Release(h, rest, 0)
    BY DEF Shrink, IsActive
  <1>1. /\ Blocks \in SUBSET BlockType /\ freeFrom \in Nat /\ active \subseteq BlockType
        /\ Tiles(Blocks, freeFrom) /\ active \cap freed = {}
    BY DEF BlockInv, TypeInv, BlocksTile, Blocks
  <1>2. b \in BlockType /\ b \in Blocks /\ b.index \in Nat /\ b.size \in Nat
    BY <1>0, <1>1 DEF Blocks, BlockType
  <1>3. /\ rest \in BlockType /\ rest.index = b.index + size /\ rest.size = b.size - size
        /\ End(rest) = End(b) /\ FloatsOf(rest) = b.index + size..End(b) - 1
    BY <1>0, <1>2, RemainderIsRest
  <1>4. handles' \in [Holders -> BlockType]  BY <1>0 DEF BlockInv, TypeInv, BlockType
  <1>5. \A c \in Blocks \ {b} : End(c) <= b.index \/ End(b) <= c.index  BY <1>1, <1>2 DEF Tiles
  <1>6. \A c \in Blocks : c.index \in Nat /\ c.size \in Nat /\ c.size > 0 /\ End(c) = c.index + c.size
    BY <1>1 DEF Tiles, End, BlockType
  <1>7. rest \notin Blocks \ {b}
    <2> SUFFICES ASSUME rest \in Blocks \ {b} PROVE FALSE  OBVIOUS
    <2>1. End(rest) <= b.index \/ End(b) <= rest.index  BY <1>5
    <2>2. End(b) = b.index + b.size  BY <1>2, <1>6
    <2>3. rest.index < End(b) /\ b.index < End(rest)  BY <1>0, <1>2, <1>3, <2>2
    <2> QED  BY <1>2, <1>3, <2>1, <2>2, <2>3
  <1>8. freed \subseteq Blocks \ {b} /\ active \ {b} \subseteq Blocks \ {b}
    BY <1>0, <1>1 DEF Blocks
  <1>9. CASE size = 0
    <2>1. kept = {}  BY <1>9
    <2>2. rest = b  BY <1>9, <1>2, <1>3 DEF BlockType
    <2>3. active' \cup freed \cup {rest} = Blocks  BY <1>0, <2>1, <2>2 DEF Blocks
    <2> HIDE DEF b, rest
    <2> QED  BY <1>0, <1>1, <1>2, <1>3, <1>4, <1>7, <1>8, <2>1, <2>2, <2>3, ReleaseTiles
  <1>10. CASE size > 0
    <2>1. kept = {Block(b.index, size)}  BY <1>10
    <2>2. /\ Block(b.index, size) \in BlockType
          /\ Block(b.index, size).index = b.index /\ Block(b.index, size).size = size
          /\ End(Block(b.index, size)) = b.index + size
      BY <1>2, BlocksAreRecords
    <2>3. Tiles((Blocks \ {b}) \cup {Block(b.index, size), rest}, freeFrom)
      BY <1>0, <1>1, <1>2, <1>10, Cut
    <2>4. (Blocks \ {b}) \cup {Block(b.index, size), rest} = active' \cup freed \cup {rest}
      BY <1>0, <1>8, <2>1 DEF Blocks
    <2>5. Block(b.index, size) \notin Blocks \ {b}  BY <1>0, <1>2, <1>5, <1>6, <1>10, <2>2
    <2>6. rest # Block(b.index, size)  BY <1>2, <1>3, <1>10, <2>2
    <2> HIDE DEF b, rest
    <2>7. active' \cap freed = {} /\ active' \subseteq BlockType
      BY <1>0, <1>1, <1>8, <2>1, <2>2, <2>5
    <2>8. rest \notin active' /\ rest \notin freed  BY <1>0, <1>7, <1>8, <2>1, <2>6
    <2> QED  BY <1>0, <1>3, <1>4, <2>3, <2>4, <2>7, <2>8, ReleaseTiles
  <1> QED  BY <1>9, <1>10

LEMMA BlocksStep == BlockInv /\ [VectorNext]_vectorVars => BlockInv'
  <1> SUFFICES ASSUME BlockInv, [VectorNext]_vectorVars PROVE BlockInv'  OBVIOUS
  <1>0. /\ Blocks \in SUBSET BlockType /\ freeFrom \in Nat /\ active \subseteq BlockType
        /\ Tiles(Blocks, freeFrom) /\ freeFrom <= capacity /\ active \cap freed = {}
    BY DEF BlockInv, TypeInv, BlocksTile, Blocks
  <1>1. ASSUME NEW h \in Holders, Delete(h) PROVE BlockInv'
    <2>1. /\ Idle /\ handles[h] \in active /\ active' = active \ {handles[h]}
          /\ handles' = handles /\ Release(h, handles[h], 0)
      BY <1>1 DEF Delete, IsActive
    <2>2. active' \cup freed \cup {handles[h]} = Blocks  BY <2>1 DEF Blocks
    <2>3. handles' \in [Holders -> BlockType]  BY <2>1 DEF BlockInv, TypeInv
    <2> QED  BY <1>0, <2>1, <2>2, <2>3, ReleaseTiles
  <1>2. ASSUME NEW h \in Holders, NEW size \in 1..MaxSize, Grow(h, size) PROVE BlockInv'
    <2>1. /\ Idle /\ handles[h] \in active /\ active' = active \ {handles[h]}
          /\ handles' = handles /\ Release(h, handles[h], size)
      BY <1>2 DEF Grow, IsActive
    <2>2. active' \cup freed \cup {handles[h]} = Blocks  BY <2>1 DEF Blocks
    <2>3. handles' \in [Holders -> BlockType] /\ size \in Nat  BY <2>1 DEF BlockInv, TypeInv
    <2> QED  BY <1>0, <2>1, <2>2, <2>3, ReleaseTiles
  <1>3. ASSUME NEW h \in Holders, NEW size \in 1..MaxSize, Allocate(h, size) PROVE BlockInv'
    BY <1>3, AllocateTiles
  <1>4. ASSUME NEW h \in Holders, NEW size \in 0..MaxSize, Shrink(h, size) PROVE BlockInv'
    BY <1>4, ShrinkTiles
  <1>5. CASE ReleaseTail
    <2>1. PICK b \in freed : /\ End(b) = freeFrom /\ freeFrom' = b.index
                             /\ freed' = freed \ {b}
      BY <1>5 DEF ReleaseTail
    <2>2. /\ capacity' = capacity /\ active' = active /\ releasing' = releasing
          /\ handles' = handles /\ releasing.phase = "tail"
      BY <1>5 DEF ReleaseTail, scriptVars
    <2>3. b \in BlockType /\ b \in Blocks /\ Blocks' = Blocks \ {b}  BY <1>0, <2>1, <2>2 DEF Blocks
    <2>4. Tiles(Blocks', freeFrom')  BY <1>0, <2>1, <2>3, DropLast
    <2>5. freeFrom' \in Nat /\ freeFrom' <= freeFrom  BY <2>1, <2>3 DEF End, BlockType
    <2>6. TypeInv'  BY <2>1, <2>2, <2>5 DEF BlockInv, TypeInv
    <2>7. freeFrom' <= capacity'  BY <1>0, <2>2, <2>5 DEF BlockInv, TypeInv
    <2> QED  BY <1>0, <2>1, <2>2, <2>4, <2>6, <2>7 DEF BlockInv, BlocksTile
  <1>6. CASE ReleaseEnds
    <2>1. /\ freeFrom' = freeFrom /\ capacity' = capacity /\ freed' = freed /\ active' = active
          /\ handles' = handles /\ releasing' = Then("allocate", releasing.by, releasing.next)
          /\ \A b \in freed : End(b) # freeFrom
      BY <1>6 DEF ReleaseEnds, scriptVars
    <2>2. TypeInv'  BY <2>1, ThenIsType DEF BlockInv, TypeInv
    <2> QED  BY <1>0, <2>1, <2>2 DEF BlockInv, BlocksTile, Blocks
  <1>7. ASSUME blockVars' = blockVars, handles' = handles PROVE BlockInv'
    BY <1>7 DEF blockVars, BlockInv, TypeInv, BlocksTile, Blocks
  <1>8. ASSUME NEW h \in Holders, NEW i, NEW n, NEW v, NEW diff, Write(h, i, n, v, diff)
        PROVE  BlockInv'
    BY <1>7, <1>8 DEF Write
  <1>9. CASE UploadAll \/ UploadDirty \/ UploadOther
    BY <1>7, <1>9 DEF UploadAll, UploadDirty, UploadOther, scriptVars
  <1>10. CASE UNCHANGED vectorVars  BY <1>7, <1>10 DEF vectorVars, scriptVars
  <1>11. CASE VectorNext
    BY <1>1, <1>2, <1>3, <1>4, <1>5, <1>6, <1>8, <1>9, <1>11 DEF VectorNext, Scripts
  <1> QED  BY <1>10, <1>11

LEMMA BlocksInit == VectorInit => BlockInv
  BY SizesAssumption DEF VectorInit, BlockInv, TypeInv, BlocksTile, Tiles, Blocks, AtRest, Block, BlockType

\* Whatever scripts do, with handles kept too long as well, blocks in use and
\* free ones share no float, leave none below freeFrom to nobody, and between
\* calls the last one is in use (allocate, reallocate, deleteHandle,
\* releaseRegion, releaseTailFreeBlocks).
THEOREM BlocksAlwaysTile == VectorSpec => []BlocksTile
  <1>1. BlockInv => BlocksTile  BY DEF BlockInv
  <1> QED  BY <1>1, BlocksInit, BlocksStep, PTL DEF VectorSpec

-----------------------------------------------------------------------------
(* The renderer's copy.                                                    *)

DirtyType == {d \in [from : Nat, to : Nat] : d = Clean \/ d.from < d.to}
Covers(d, f) == f \in d.from..d.to - 1

CopyInv ==
    /\ freeFrom <= MaxLength
    /\ lowest \in Nat /\ lowest <= freeFrom
    /\ dirty \in DirtyType
    /\ GpuFollows

LEMMA MarkedCovers ==
    ASSUME NEW d \in DirtyType, NEW from \in Nat, NEW to \in Nat, NEW length \in Nat
    PROVE  /\ Marked(d, from, to, length) \in DirtyType
           /\ \A f \in Nat : Covers(d, f) => Covers(Marked(d, from, to, length), f)
           /\ \A f \in from..to - 1 : f < length => Covers(Marked(d, from, to, length), f)
  BY DEF Marked, DirtyType, Covers, Clean

LEMMA ClampedCovers ==
    ASSUME NEW d \in DirtyType, NEW length \in Nat
    PROVE  /\ Clamped(d, length) \in DirtyType
           /\ \A f \in Nat : Covers(d, f) /\ f < length => Covers(Clamped(d, length), f)
  BY DEF Clamped, DirtyType, Covers, Clean

LEMMA CopyInit == VectorInit => CopyInv
  BY SizesAssumption DEF VectorInit, CopyInv, GpuFollows, DirtyType, Clean

\* A release keeps the copy, of a block below freeFrom.
LEMMA ReleaseFollows ==
    ASSUME BlockInv, CopyInv, NEW h, NEW next, NEW b \in BlockType, End(b) <= freeFrom,
           Release(h, b, next)
    PROVE  CopyInv'
  <1>0. /\ freeFrom \in Nat /\ gpu' = gpu /\ uploaded' = uploaded
        /\ b.index \in Nat /\ End(b) \in Nat /\ b.index <= freeFrom
    BY DEF BlockInv, TypeInv, Release, gpuVars, BlockType, End
  <1>1. CASE End(b) = freeFrom  BY <1>0, <1>1, SizesAssumption DEF Release, CopyInv, GpuFollows
  <1>2. CASE End(b) # freeFrom
    <2> DEFINE d == Marked(dirty, b.index, End(b), freeFrom)
    <2>1. /\ freeFrom' = freeFrom /\ lowest' = lowest /\ dirty' = d
          /\ mem' = [f \in Floats |-> IF f \in FloatsOf(b) THEN 0 ELSE mem[f]]
      BY <1>2 DEF Release
    <2>2. /\ d \in DirtyType
          /\ \A f \in Nat : Covers(dirty, f) => Covers(d, f)
          /\ \A f \in b.index..End(b) - 1 : f < freeFrom => Covers(d, f)
      BY <1>0, MarkedCovers DEF CopyInv
    <2> HIDE DEF d
    <2>3. ASSUME uploaded > 0, NEW f \in 0..lowest - 1
          PROVE  gpu[f] = mem'[f] \/ Covers(d, f)
      <3>1. f \in Floats /\ f \in Nat /\ f < freeFrom  BY <1>0, SizesAssumption DEF CopyInv, Floats
      <3>2. gpu[f] = mem[f] \/ Covers(dirty, f)  BY <2>3 DEF CopyInv, GpuFollows, Covers
      <3> QED  BY <2>1, <2>2, <3>1, <3>2 DEF FloatsOf
    <2>4. GpuFollows'  BY <1>0, <2>1, <2>3 DEF GpuFollows, Covers
    <2> QED  BY <2>1, <2>2, <2>4 DEF CopyInv
  <1> QED  BY <1>1, <1>2

LEMMA WriteFollows ==
    ASSUME BlockInv, CopyInv, NEW h \in Holders, NEW i \in Nat, NEW n \in Nat, NEW v,
           NEW diff \in BOOLEAN, Write(h, i, n, v, diff)
    PROVE  CopyInv'
  <1> DEFINE range == handles[h].index + i..handles[h].index + i + n - 1
             marked == {f \in range : ~diff \/ mem[f] # v}
  <1>0. /\ freeFrom' = freeFrom /\ lowest' = lowest /\ gpu' = gpu /\ uploaded' = uploaded
        /\ freeFrom \in Nat /\ handles[h] \in active
        /\ mem' = [f \in Floats |-> IF f \in range THEN v ELSE mem[f]]
    BY DEF BlockInv, TypeInv, Write, IsActive, blockVars, gpuVars
  <1>1. range \subseteq Nat  BY DEF BlockInv, TypeInv, BlockType
  <1>2. /\ dirty' \in DirtyType
        /\ \A f \in Nat : Covers(dirty, f) => Covers(dirty', f)
        /\ \A f \in marked : f < freeFrom => Covers(dirty', f)
    <2>1. CASE marked = {}  BY <2>1 DEF Write, Changes, CopyInv
    <2>2. CASE marked # {}
      <3>1. PICK from \in marked, to \in marked :
              /\ \A f \in marked : from <= f /\ f <= to
              /\ dirty' = Marked(dirty, from, to + 1, freeFrom)
        BY <2>2 DEF Write, Changes
      <3>2. from \in Nat /\ to + 1 \in Nat  BY <1>1
      <3>3. \A f \in marked : f \in from..(to + 1) - 1  BY <1>1, <3>1
      <3> QED  BY <1>0, <3>1, <3>2, <3>3, MarkedCovers DEF CopyInv
    <2> QED  BY <2>1, <2>2
  <1>3. ASSUME uploaded > 0, NEW f \in 0..lowest - 1
        PROVE  gpu[f] = mem'[f] \/ Covers(dirty', f)
    <2>1. f \in Floats /\ f \in Nat /\ f < freeFrom  BY <1>0, SizesAssumption DEF CopyInv, Floats
    <2>2. gpu[f] = mem[f] \/ Covers(dirty, f)  BY <1>3 DEF CopyInv, GpuFollows, Covers
    <2> QED  BY <1>0, <1>2, <2>1, <2>2
  <1>4. GpuFollows'  BY <1>0, <1>3 DEF GpuFollows, Covers
  <1> QED  BY <1>0, <1>2, <1>4 DEF CopyInv

LEMMA CopyStep == BlockInv /\ CopyInv /\ [VectorNext]_vectorVars => CopyInv'
  <1> SUFFICES ASSUME BlockInv, CopyInv, [VectorNext]_vectorVars PROVE CopyInv'  OBVIOUS
  <1>0. /\ freeFrom \in Nat /\ freed \subseteq BlockType /\ active \subseteq BlockType
        /\ \A b \in active \cup freed : End(b) <= freeFrom
    BY DEF BlockInv, TypeInv, BlocksTile, Tiles, Blocks
  <1>1. ASSUME NEW h \in Holders, Delete(h) PROVE CopyInv'
    BY <1>0, <1>1, ReleaseFollows DEF Delete, IsActive
  <1>2. ASSUME NEW h \in Holders, NEW size \in 1..MaxSize, Grow(h, size) PROVE CopyInv'
    BY <1>0, <1>2, ReleaseFollows DEF Grow, IsActive
  <1>3. ASSUME NEW h \in Holders, NEW size \in 1..MaxSize, Allocate(h, size) PROVE CopyInv'
    <2>1. PICK b \in Found(size) : /\ End(b) <= MaxLength
                                   /\ freeFrom' = IF b \in freed THEN freeFrom ELSE End(b)
      BY <1>3 DEF Allocate
    <2>2. b \in freed \/ End(b) = freeFrom + size  BY <1>0, <2>1, BlocksAreRecords DEF Found
    <2>3. freeFrom' >= freeFrom /\ freeFrom' <= MaxLength /\ freeFrom' \in Nat
      BY <1>0, <2>1, <2>2, SizesAssumption DEF CopyInv
    <2> QED  BY <1>0, <1>3, <2>3 DEF Allocate, CopyInv, GpuFollows, gpuVars
  <1>4. ASSUME NEW h \in Holders, NEW size \in 0..MaxSize, Shrink(h, size) PROVE CopyInv'
    <2>1. handles[h] \in active /\ size < handles[h].size /\ Release(h, Remainder(handles[h], size), 0)
      BY <1>4 DEF Shrink, IsActive
    <2>2. /\ Remainder(handles[h], size) \in BlockType
          /\ End(Remainder(handles[h], size)) <= freeFrom
      BY <1>0, <2>1, RemainderIsRest DEF BlockType
    <2> QED  BY <2>1, <2>2, ReleaseFollows
  <1>5. CASE ReleaseTail
    <2>1. PICK b \in freed : /\ End(b) = freeFrom /\ freeFrom' = b.index
                             /\ lowest' = IF b.index < lowest THEN b.index ELSE lowest
      BY <1>5 DEF ReleaseTail
    <2>2. b.index \in Nat /\ b.index <= freeFrom  BY <1>0, <2>1 DEF End, BlockType
    <2> QED
      BY <1>0, <1>5, <2>1, <2>2, SizesAssumption DEF ReleaseTail, CopyInv, GpuFollows, gpuVars
  <1>6. CASE ReleaseEnds
    <2>1. /\ freeFrom' = freeFrom /\ lowest' = lowest /\ mem' = mem /\ gpu' = gpu
          /\ uploaded' = uploaded /\ dirty' = Clamped(dirty, freeFrom)
      BY <1>6 DEF ReleaseEnds, gpuVars
    <2>2. /\ dirty' \in DirtyType
          /\ \A f \in Nat : Covers(dirty, f) /\ f < freeFrom => Covers(dirty', f)
      BY <1>0, <2>1, ClampedCovers DEF CopyInv
    <2>3. GpuFollows'  BY <1>0, <2>1, <2>2 DEF CopyInv, GpuFollows, Covers
    <2> QED  BY <2>1, <2>2, <2>3 DEF CopyInv
  <1>7. ASSUME NEW h \in Holders, NEW i \in 0..MaxSize - 1, NEW n \in 1..MaxSize, NEW v \in Values,
               NEW diff \in BOOLEAN, Write(h, i, n, v, diff)
        PROVE  CopyInv'
    BY <1>7, WriteFollows, SizesAssumption
  <1>8. CASE UploadAll
    <2>1. /\ freeFrom' = freeFrom /\ lowest' = freeFrom /\ mem' = mem /\ dirty' = Clean
          /\ gpu' = [f \in Floats |-> IF f < freeFrom THEN mem[f] ELSE 0]
      BY <1>8 DEF UploadAll, blockVars
    <2>2. \A f \in 0..freeFrom - 1 : f \in Floats /\ f < freeFrom
      BY <1>0, SizesAssumption DEF CopyInv, Floats
    <2> QED  BY <1>0, <2>1, <2>2 DEF CopyInv, GpuFollows, DirtyType, Clean
  <1>9. CASE UploadDirty
    <2>1. /\ freeFrom' = freeFrom /\ lowest' = lowest /\ mem' = mem /\ dirty' = Clean
          /\ uploaded' = uploaded
          /\ gpu' = [f \in Floats |-> IF f \in dirty.from..dirty.to - 1 THEN mem[f] ELSE gpu[f]]
      BY <1>9 DEF UploadDirty, blockVars
    <2>2. \A f \in 0..lowest - 1 : f \in Floats  BY <1>0, SizesAssumption DEF CopyInv, Floats
    <2> QED  BY <1>0, <2>1, <2>2 DEF CopyInv, GpuFollows, DirtyType, Clean
  <1>10. CASE UploadOther  BY <1>10 DEF UploadOther, CopyInv, GpuFollows, blockVars
  <1>11. CASE UNCHANGED vectorVars  BY <1>11 DEF vectorVars, CopyInv, GpuFollows, blockVars, gpuVars
  <1>12. CASE VectorNext
    BY <1>1, <1>2, <1>3, <1>4, <1>5, <1>6, <1>7, <1>8, <1>9, <1>10, <1>12 DEF VectorNext, Scripts
  <1> QED  BY <1>11, <1>12

\* Down to the least length since the last full upload, what the renderer has
\* is what the buffer has, or within the range that the next upload carries
\* (markDirty, clampDirtyToLength, upload-vector), while blocks tile the floats.
THEOREM VectorAlwaysAgrees == VectorSpec => []VectorAgrees
  <1>1. BlockInv => BlocksTile  BY DEF BlockInv
  <1>2. CopyInv => GpuFollows  BY DEF CopyInv
  <1> QED
    BY <1>1, <1>2, BlocksInit, BlocksStep, CopyInit, CopyStep, PTL DEF VectorSpec, VectorAgrees

-----------------------------------------------------------------------------
(* The desktop: a tray, notifications and file watches.                    *)

MenuType == [of : Trays, number : Nat]
Handle ==
    [state : {"none", "made", "running", "gone"}, built : Nat, whole : BOOLEAN, menu : Nat]
TrayType ==
    /\ trays \in [Trays -> Handle]
    /\ indicators \in Seq(MenuType)
    /\ indicator \in 0..Len(indicators)

Used(h) == trays[h].state \in {"made", "running"}

\* What holds of trays whatever scripts do: a handle has had a menu, and one that
\* is not made yet has none.
TrayShape ==
    \A h \in Trays : /\ Used(h) => trays[h].menu # 0
                     /\ trays[h].state = "none" => ~ trays[h].whole

\* And as long as they do what the bindings withstand: the last menu was read, the
\* indicator is that of the tray that runs, and the callback's menu is there.
TrayCalm ==
    /\ \A h \in Trays : Used(h) => trays[h].whole /\ trays[h].menu = trays[h].built
    /\ \A h \in Trays : trays[h].state = "running" =>
           indicator # 0 /\ indicators[indicator].of = h
    /\ \A i \in DOMAIN indicators : indicators[i].number # 0 =>
           /\ i = indicator /\ trays[indicators[i].of].state = "running"
           /\ indicators[i].number = trays[indicators[i].of].built
    /\ IsInside("click") => Alive(inside.menu)

TrayInv == TrayType /\ TrayShape /\ LoopTellsExit /\ (strayed \/ TrayCalm)

NoteType ==
    [center : Centers, key : Keys \cup {NoKey}, handlers : Seq(Nat), actions : Nat,
     shown : BOOLEAN, kept : BOOLEAN]
NotesType ==
    /\ centers \in [Centers -> [initialized : BOOLEAN, gone : BOOLEAN]]
    /\ ready \in BOOLEAN
    /\ notes \in Seq(NoteType)
    /\ replaceIndex \in [Centers \X Keys -> Nat]
    /\ toldClosed \in Seq(Nat)

InsideType ==
    \/ inside = Outside
    \/ inside \in [kind : {"click"}, menu : MenuType]
    \/ inside \in [kind : {"closed"}, note : DOMAIN notes, todo : Seq(Nat)]
    \/ inside \in [kind : {"action"}, note : DOMAIN notes, actions : Nat]

\* The number of a send that was.
Sent(k) == "send" \in DOMAIN left => k > left["send"]

Told(k) == \E j \in DOMAIN toldClosed : toldClosed[j] = k
Calling(n) == IsInside("closed") /\ inside.note = n
Pending(k) == IsInside("closed") /\ \E j \in DOMAIN inside.todo : inside.todo[j] = k

LeftInv == left \in [DOMAIN left -> Nat]

\* A key stands for a note of its center that is kept.
KeyInv ==
    \A at \in Centers \X Keys : replaceIndex[at] # 0 =>
        /\ replaceIndex[at] \in DOMAIN notes
        /\ notes[replaceIndex[at]].kept
        /\ notes[replaceIndex[at]].center = at[1] /\ notes[replaceIndex[at]].key = at[2]

\* Notes are of centers that were connected, and those of one that is gone are
\* not shown.
CenterInv ==
    \A n \in DOMAIN notes :
        /\ centers[notes[n].center].initialized \/ centers[notes[n].center].gone
        /\ centers[notes[n].center].gone => ~ notes[n].shown /\ ~ notes[n].kept

\* Every send has a number of its own, of one on-close of one note.
HandlerInv ==
    /\ \A n \in DOMAIN notes :
           /\ notes[n].handlers # <<>>
           /\ \A i \in DOMAIN notes[n].handlers : Sent(notes[n].handlers[i])
    /\ \A m, n \in DOMAIN notes :
           \A i \in DOMAIN notes[m].handlers, j \in DOMAIN notes[n].handlers :
               notes[m].handlers[i] = notes[n].handlers[j] => m = n /\ i = j

\* What was told was sent, once each, and of no note that may still be closed.
ToldInv ==
    /\ \A j \in DOMAIN toldClosed : Sent(toldClosed[j])
    /\ \A i, j \in DOMAIN toldClosed : toldClosed[i] = toldClosed[j] => i = j
    /\ \A n \in DOMAIN notes :
           notes[n].kept \/ (notes[n].shown /\ ~ Calling(n)) =>
               \A i \in DOMAIN notes[n].handlers : ~ Told(notes[n].handlers[i])

\* What is being told is the rest of what the note had when it was closed.
CallingInv ==
    IsInside("closed") =>
        /\ inside.todo # <<>>
        /\ \A j \in DOMAIN inside.todo :
               /\ ~ Told(inside.todo[j])
               /\ \E i \in DOMAIN notes[inside.note].handlers :
                      notes[inside.note].handlers[i] = inside.todo[j]
        /\ \A i, j \in DOMAIN inside.todo : inside.todo[i] = inside.todo[j] => i = j

NoteCalm ==
    /\ \A n \in DOMAIN notes : notes[n].kept /\ notes[n].key # NoKey =>
           replaceIndex[<<notes[n].center, notes[n].key>>] = n
    /\ \A n \in DOMAIN notes :
           \/ notes[n].kept /\ ~ Calling(n)
           \/ centers[notes[n].center].gone
           \/ \A i \in DOMAIN notes[n].handlers :
                  Told(notes[n].handlers[i]) \/ Pending(notes[n].handlers[i])
    /\ IsInside("closed") => ~ centers[notes[inside.note].center].gone
    /\ IsInside("action") => notes[inside.note].actions = inside.actions

NoteInv ==
    /\ NotesType /\ InsideType /\ LeftInv
    /\ KeyInv /\ CenterInv /\ HandlerInv /\ ToldInv /\ CallingInv
    /\ strayed \/ NoteCalm

WatchInv ==
    /\ watching \in [open : BOOLEAN, ids : SUBSET Watches, made : Nat]
    /\ watchQueue \in Seq(Nat) /\ watchTold \in Seq(Nat) /\ watchHand \in Nat
    /\ \A i \in DOMAIN watchTold : watchTold[i] = i
    /\ \A i \in DOMAIN watchQueue : watchQueue[i] = Len(watchTold) + i
    /\ watchHand # 0 => watchHand = Len(watchTold) + Len(watchQueue) + 1
    /\ watching.open =>
           watching.made = Len(watchTold) + Len(watchQueue) + IF watchHand = 0 THEN 0 ELSE 1

DesktopInv == TrayInv /\ NoteInv /\ WatchInv /\ strayed \in BOOLEAN /\ NothingFreedIsUsed

-----------------------------------------------------------------------------
(* File watches.                                                           *)

LEMMA Joined ==
    ASSUME NEW s \in Seq(Nat), NEW t \in Seq(Nat)
    PROVE  /\ s \o t \in Seq(Nat) /\ Len(s \o t) = Len(s) + Len(t)
           /\ \A i \in 1..Len(s \o t) :
                  (s \o t)[i] = IF i <= Len(s) THEN s[i] ELSE t[i - Len(s)]
  OBVIOUS

\* Two stretches that count on count together.
LEMMA CountedOn ==
    ASSUME NEW s \in Seq(Nat), NEW t \in Seq(Nat),
           \A i \in 1..Len(s) : s[i] = i,
           \A i \in 1..Len(t) : t[i] = Len(s) + i
    PROVE  /\ s \o t \in Seq(Nat) /\ Len(s \o t) = Len(s) + Len(t)
           /\ \A i \in 1..Len(s \o t) : (s \o t)[i] = i
  <1> DEFINE all == s \o t
  <1>1. /\ all \in Seq(Nat) /\ Len(all) = Len(s) + Len(t)
        /\ \A i \in 1..Len(all) : all[i] = IF i <= Len(s) THEN s[i] ELSE t[i - Len(s)]
    BY Joined
  <1>2. Len(s) \in Nat /\ Len(t) \in Nat  OBVIOUS
  <1> HIDE DEF all
  <1>3. ASSUME NEW i \in 1..Len(all)
        PROVE  all[i] = i
    <2>1. i \in 1..Len(s) + Len(t)  BY <1>1
    <2>2. CASE i <= Len(s)
      <3>1. i \in 1..Len(s)  BY <1>2, <2>1, <2>2
      <3>2. s[i] = i  BY <3>1
      <3> QED  BY <1>1, <2>2, <3>2
    <2>3. CASE ~ (i <= Len(s))
      <3>1. i - Len(s) \in 1..Len(t)  BY <1>2, <2>1, <2>3
      <3>2. t[i - Len(s)] = Len(s) + (i - Len(s))  BY <3>1
      <3>3. all[i] = t[i - Len(s)]  BY <1>1, <2>3
      <3>4. Len(s) + (i - Len(s)) = i  BY <1>2, <2>1
      <3> QED  BY <3>2, <3>3, <3>4
    <2> QED  BY <2>2, <2>3
  <1> QED  BY <1>1, <1>3 DEF all

LEMMA WatchStart == DesktopInit => WatchInv
  BY DEF DesktopInit, WatchInv

LEMMA WatchFrame ==
    ASSUME WatchInv, UNCHANGED watchState
    PROVE  WatchInv'
  BY DEF WatchInv, watchState

LEMMA ChoiceKeepsWatchInv ==
    ASSUME WatchInv, NEW id \in Watches, AddWatch(id) \/ RemoveWatch(id)
    PROVE  WatchInv'
  BY DEF WatchInv, AddWatch, RemoveWatch

LEMMA NoticeKeepsWatchInv ==
    ASSUME WatchInv, Notice
    PROVE  WatchInv'
  <1>1. /\ watching' \in [open : BOOLEAN, ids : SUBSET Watches, made : Nat]
        /\ watching'.made = watching.made + 1 /\ watching.open
    BY DEF WatchInv, Notice
  <1>2. /\ watchHand = 0 /\ watchHand' = watching.made + 1
        /\ UNCHANGED <<watchQueue, watchTold>>
    BY DEF Notice
  <1>3. watching.made = Len(watchTold) + Len(watchQueue)  BY <1>1, <1>2 DEF WatchInv
  <1>4. watching.made \in Nat /\ watchHand' \in Nat /\ watchHand' # 0  BY <1>2 DEF WatchInv
  <1> QED  BY <1>1, <1>2, <1>3, <1>4 DEF WatchInv

LEMMA QueueKeepsWatchInv ==
    ASSUME WatchInv, Queue
    PROVE  WatchInv'
  <1>1. /\ watchQueue' \in Seq(Nat) /\ Len(watchQueue') = Len(watchQueue) + 1
        /\ \A i \in DOMAIN watchQueue' :
               watchQueue'[i] = IF i = Len(watchQueue) + 1 THEN watchHand ELSE watchQueue[i]
    BY DEF WatchInv, Queue
  <1>2. \A i \in DOMAIN watchQueue' : watchQueue'[i] = Len(watchTold) + i
    BY <1>1 DEF WatchInv, Queue
  <1> QED  BY <1>1, <1>2 DEF WatchInv, Queue

LEMMA PollKeepsWatchInv ==
    ASSUME WatchInv, PollWatches
    PROVE  WatchInv'
  <1>1. /\ watchTold \in Seq(Nat) /\ watchQueue \in Seq(Nat)
        /\ \A i \in 1..Len(watchTold) : watchTold[i] = i
        /\ \A i \in 1..Len(watchQueue) : watchQueue[i] = Len(watchTold) + i
    BY DEF WatchInv
  <1>2. watchTold' = watchTold \o watchQueue  BY DEF PollWatches
  <1>3. /\ watchTold' \in Seq(Nat) /\ Len(watchTold') = Len(watchTold) + Len(watchQueue)
        /\ \A i \in 1..Len(watchTold') : watchTold'[i] = i
    BY <1>1, <1>2, CountedOn
  <1>4. watchQueue' = <<>> /\ Len(watchQueue') = 0 /\ UNCHANGED <<watching, watchHand>>
    BY DEF PollWatches
  <1> QED  BY <1>3, <1>4 DEF WatchInv

LEMMA DropKeepsWatchInv ==
    ASSUME WatchInv, DropWatches
    PROVE  WatchInv'
  <1>1. /\ watching' \in [open : BOOLEAN, ids : SUBSET Watches, made : Nat]
        /\ ~ watching'.open
    BY DEF WatchInv, DropWatches
  <1>2. watchQueue' = <<>> /\ watchHand = 0 /\ UNCHANGED <<watchHand, watchTold>>
    BY DEF DropWatches
  <1> QED  BY <1>1, <1>2 DEF WatchInv

LEMMA WatchesInOrder == WatchInv => WatchesTellInOrder
  <1> SUFFICES ASSUME WatchInv
               PROVE  WatchesTellInOrder
    OBVIOUS
  <1> DEFINE hand == IF watchHand = 0 THEN <<>> ELSE <<watchHand>>
             both == watchTold \o watchQueue
             all == both \o hand
  <1>1. /\ watchTold \in Seq(Nat) /\ watchQueue \in Seq(Nat)
        /\ \A i \in 1..Len(watchTold) : watchTold[i] = i
        /\ \A i \in 1..Len(watchQueue) : watchQueue[i] = Len(watchTold) + i
    BY DEF WatchInv
  <1>2. /\ both \in Seq(Nat) /\ Len(both) = Len(watchTold) + Len(watchQueue)
        /\ \A i \in 1..Len(both) : both[i] = i
    BY <1>1, CountedOn
  <1> HIDE DEF both
  <1>3. /\ hand \in Seq(Nat) /\ Len(hand) = IF watchHand = 0 THEN 0 ELSE 1
        /\ \A i \in 1..Len(hand) : hand[i] = Len(both) + i
    BY <1>2 DEF WatchInv
  <1> HIDE DEF hand
  <1>4. /\ all \in Seq(Nat) /\ Len(all) = Len(both) + Len(hand)
        /\ \A i \in 1..Len(all) : all[i] = i
    BY <1>2, <1>3, CountedOn
  <1> HIDE DEF all
  <1>5. all = [i \in 1..Len(all) |-> i]  BY <1>4
  <1>6. watching.open => Len(all) = watching.made  BY <1>2, <1>3, <1>4 DEF WatchInv
  <1> QED  BY <1>5, <1>6 DEF WatchesTellInOrder, all, both, hand

-----------------------------------------------------------------------------
(* The tray.                                                               *)

LEMMA InsideIs ==
    ASSUME InsideType
    PROVE  /\ IsInside("click") => inside.menu \in MenuType
           /\ inside # Outside \/ ~ IsInside("click")
  BY DEF InsideType, IsInside, Outside

LEMMA TrayStart == DesktopInit => TrayInv
  <1>1. ASSUME DesktopInit
        PROVE  TrayType
    BY <1>1 DEF DesktopInit, TrayType, Handle
  <1>2. ASSUME DesktopInit
        PROVE  TrayShape /\ LoopTellsExit /\ TrayCalm
    BY <1>2 DEF DesktopInit, TrayShape, LoopTellsExit, TrayCalm, Used, IsInside, Outside
  <1> QED  BY <1>1, <1>2 DEF TrayInv

\* Nothing of the tray changes, and no callback of it begins.
LEMMA TrayFrame ==
    ASSUME TrayInv, UNCHANGED trayState, strayed => strayed',
           (inside' = inside) \/ inside'.kind # "click"
    PROVE  TrayInv'
  <1>1. /\ UNCHANGED <<trays, indicators, indicator, loopResult>>
        /\ TrayType' /\ TrayShape' /\ LoopTellsExit'
    BY DEF TrayInv, trayState, TrayType, Handle, TrayShape, LoopTellsExit, Used
  <1>2. ASSUME TrayCalm
        PROVE  TrayCalm'
    <2>1. IsInside("click")' => Alive(inside.menu)'  BY <1>1, <1>2 DEF TrayCalm, IsInside, Alive
    <2> QED  BY <1>1, <1>2, <2>1 DEF TrayCalm, Used
  <1> QED  BY <1>1, <1>2 DEF TrayInv

\* What a handle becomes when its specification is read.
LEMMA RebuiltIs ==
    ASSUME TrayType, NEW h \in Trays, NEW spec \in {"headless", "torn", "whole"}
    PROVE  LET r == Rebuilt(h, spec) IN
           /\ r \in Handle /\ r.state = trays[h].state
           /\ spec = "headless" => r = trays[h]
           /\ spec = "torn" => r.menu = trays[h].menu /\ ~ r.whole
           /\ spec = "whole" => /\ r.built = trays[h].built + 1 /\ r.menu = trays[h].built + 1
                               /\ r.whole
  <1> DEFINE t == trays[h]
             now == t.built + 1
             whole == ReadsAll(spec)
             menu == IF whole THEN now ELSE t.menu
             a == [t EXCEPT !.built = now]
             b == [a EXCEPT !.whole = whole]
             c == [b EXCEPT !.menu = menu]
  <1>1. t \in Handle /\ now \in Nat /\ t = trays[h] /\ now = trays[h].built + 1
    BY DEF TrayType, Handle
  <1>2. whole \in BOOLEAN /\ (whole <=> spec = "whole")  BY DEF ReadsAll
  <1> HIDE DEF whole
  <1>3. menu \in Nat /\ (whole => menu = now) /\ (~ whole => menu = t.menu)  BY <1>1 DEF Handle
  <1>4. Rebuilt(h, spec) = IF spec = "headless" THEN t ELSE c
    <2>1. CASE spec = "headless"  BY <2>1 DEF Rebuilt
    <2>2. CASE spec # "headless"
      <3>1. b.menu = t.menu  BY <1>1 DEF Handle
      <3> QED  BY <2>2, <3>1 DEF Rebuilt, whole
    <2> QED  BY <2>1, <2>2
  <1> HIDE DEF menu
  <1>5. a \in Handle /\ a.state = t.state /\ a.built = now  BY <1>1 DEF Handle
  <1> HIDE DEF a
  <1>6. b \in Handle /\ b.state = a.state /\ b.built = a.built /\ b.whole = whole
    BY <1>2, <1>5 DEF Handle
  <1> HIDE DEF b
  <1>7. /\ c \in Handle /\ c.state = b.state /\ c.built = b.built /\ c.whole = b.whole
        /\ c.menu = menu
    BY <1>3, <1>6 DEF Handle
  <1> HIDE DEF c, t, now
  <1> QED  BY <1>1, <1>2, <1>3, <1>4, <1>5, <1>6, <1>7

\* A menu that is there belongs to a handle that was made.
LEMMA AliveMade ==
    ASSUME TrayInv, NEW menu \in MenuType, Alive(menu)
    PROVE  Used(menu.of)
  BY DEF TrayInv, TrayType, Handle, TrayShape, Alive, Used, MenuType

LEMMA CreateKeepsTrayInv ==
    ASSUME TrayInv, InsideType, NEW h \in Trays, CreateTray(h)
    PROVE  TrayInv'
  <1> DEFINE r == Rebuilt(h, "whole")
             s == [r EXCEPT !.state = "made"]
  <1>0. /\ r \in Handle /\ r.built = trays[h].built + 1 /\ r.menu = trays[h].built + 1
        /\ r.whole
    BY RebuiltIs DEF TrayInv
  <1> HIDE DEF r
  <1>8. /\ s \in Handle /\ s.built = trays[h].built + 1 /\ s.menu = trays[h].built + 1
        /\ s.whole /\ s.state = "made"
    BY <1>0 DEF Handle
  <1>9. trays[h].state = "none" /\ trays' = [trays EXCEPT ![h] = s]  BY DEF CreateTray, r
  <1> HIDE DEF s
  <1>1. /\ trays[h].state = "none"
        /\ trays' \in [Trays -> Handle]
        /\ trays'[h].state = "made" /\ trays'[h].whole
        /\ trays'[h].built = trays[h].built + 1 /\ trays'[h].menu = trays[h].built + 1
        /\ \A g \in Trays : g # h => trays'[g] = trays[g]
    BY <1>8, <1>9 DEF TrayInv, TrayType, Handle
  <1>2. UNCHANGED <<inside, strayed, indicators, indicator, loopResult>>  BY DEF CreateTray
  <1>3. TrayType' /\ TrayShape' /\ LoopTellsExit'
    BY <1>1, <1>2 DEF TrayInv, TrayType, Handle, TrayShape, LoopTellsExit, Used
  <1>4. ASSUME TrayCalm
        PROVE  TrayCalm'
    <2>1. IsInside("click") => Alive(inside.menu)'
      BY <1>1, <1>2, <1>4, InsideIs, AliveMade DEF TrayCalm, Alive, MenuType, Used
    <2>2. \A i \in DOMAIN indicators : indicators[i] \in MenuType  BY DEF TrayInv, TrayType, Handle
    <2>3. \A i \in DOMAIN indicators : indicators[i].number # 0 =>
              indicators[i].of \in Trays /\ indicators[i].of # h
      BY <1>1, <1>4, <2>2 DEF TrayCalm, MenuType
    <2> QED  BY <1>1, <1>2, <1>4, <2>1, <2>3 DEF TrayCalm, Used, IsInside
  <1> QED  BY <1>2, <1>3, <1>4 DEF TrayInv

LEMMA StartKeepsTrayInv ==
    ASSUME TrayInv, InsideType, NEW h \in Trays, StartTray(h)
    PROVE  TrayInv' /\ (strayed' \/ desktop' = desktop)
  <1> DEFINE menu == Menu(h)
             n == Len(indicators) + 1
  <1>1. Used(h) /\ UNCHANGED <<inside, loopResult>>  BY DEF StartTray, Used
  <1>2. /\ menu \in MenuType /\ menu.of = h
        /\ menu.number = trays[h].menu /\ menu.number # 0
    BY <1>1 DEF Menu, MenuType, TrayInv, TrayType, Handle, TrayShape
  <1>3. CASE /\ trays' = [trays EXCEPT ![h].state = "made"]
             /\ Strays(trays[h].state = "running")
             /\ UNCHANGED <<desktop, indicators, indicator>>
    <2>1. /\ trays' \in [Trays -> Handle]
          /\ trays'[h].state = "made" /\ trays'[h].whole = trays[h].whole
          /\ trays'[h].built = trays[h].built /\ trays'[h].menu = trays[h].menu
          /\ \A g \in Trays : g # h => trays'[g] = trays[g]
      BY <1>3 DEF TrayInv, TrayType, Handle
    <2>2. TrayType' /\ TrayShape' /\ LoopTellsExit'
      BY <1>1, <1>3, <2>1 DEF TrayInv, TrayType, Handle, TrayShape, LoopTellsExit, Used
    <2>3. ASSUME TrayCalm, ~ strayed'
          PROVE  TrayCalm'
      <3>1. trays[h].state = "made"  BY <1>1, <1>3, <2>3 DEF Strays, Used
      <3>2. trays' = trays  BY <1>3, <2>1, <3>1 DEF TrayInv, TrayType, Handle
      <3> QED
        <4>1. UNCHANGED <<inside, trayState>> /\ (strayed => strayed')
          BY <1>1, <1>3, <3>2 DEF Strays, trayState
        <4>2. TrayInv'  BY <4>1, TrayFrame
        <4> QED  BY <2>3, <4>2 DEF TrayInv
    <2> QED  BY <1>3, <2>2, <2>3 DEF TrayInv, Strays
  <1>4. CASE /\ Reads(Alive(menu))
             /\ indicators' = Append(indicators, menu)
             /\ indicator' = n
             /\ trays' = [trays EXCEPT ![h].state = "running"]
             /\ Strays(indicator # 0)
    <2>1. /\ trays' \in [Trays -> Handle]
          /\ trays'[h].state = "running" /\ trays'[h].whole = trays[h].whole
          /\ trays'[h].built = trays[h].built /\ trays'[h].menu = trays[h].menu
          /\ \A g \in Trays : g # h => trays'[g] = trays[g]
      BY <1>4 DEF TrayInv, TrayType, Handle
    <2>2. /\ indicators \in Seq(MenuType) /\ n = Len(indicators) + 1
          /\ indicators' = Append(indicators, menu)
      BY <1>4 DEF TrayInv, TrayType, Handle
    <2> HIDE DEF menu, n
    <2>3. /\ indicators' \in Seq(MenuType) /\ Len(indicators') = n
          /\ n \in Nat /\ n # 0 /\ n \in DOMAIN indicators'
          /\ indicators'[n] = menu
          /\ \A i \in DOMAIN indicators' : i # n =>
                 i \in DOMAIN indicators /\ indicators'[i] = indicators[i]
      BY <1>2, <2>2
    <2>4. TrayType' /\ TrayShape'
      BY <1>1, <1>4, <2>1, <2>3 DEF TrayInv, TrayType, Handle, TrayShape, Used
    <2>5. LoopTellsExit'  BY <1>1, <1>2, <2>3 DEF TrayInv, LoopTellsExit
    <2>6. ASSUME TrayCalm, ~ strayed'
          PROVE  TrayCalm' /\ Alive(menu)
      <3>1. /\ indicator = 0 /\ \A g \in Trays : trays[g].state # "running"
            /\ \A i \in DOMAIN indicators : indicators[i].number = 0
        <4>1. indicator = 0  BY <1>4, <2>6 DEF Strays
        <4>2. \A g \in Trays : trays[g].state # "running"  BY <2>6, <4>1 DEF TrayCalm
        <4>3. \A i \in DOMAIN indicators : indicators[i] \in MenuType  BY <2>2
        <4> QED  BY <2>6, <4>1, <4>2, <4>3 DEF TrayCalm, MenuType
      <3>2. Alive(menu)  BY <1>1, <1>2, <2>6 DEF TrayCalm, Alive, Used
      <3>3. IsInside("click") => Alive(inside.menu)'
        BY <1>1, <2>1, <2>6, InsideIs DEF TrayCalm, Alive, MenuType
      <3>4. \A g \in Trays : Used(g)' => trays'[g].whole /\ trays'[g].menu = trays'[g].built
        BY <1>1, <2>1, <2>6 DEF TrayCalm, Used
      <3>5. \A g \in Trays : trays'[g].state = "running" =>
                indicator' # 0 /\ indicators'[indicator'].of = g
        BY <1>2, <1>4, <2>1, <2>3, <3>1 DEF n
      <3>6. \A i \in DOMAIN indicators' : indicators'[i].number # 0 =>
                /\ i = indicator' /\ trays'[indicators'[i].of].state = "running"
                /\ indicators'[i].number = trays'[indicators'[i].of].built
        BY <1>1, <1>2, <1>4, <2>1, <2>3, <2>6, <3>1 DEF n, TrayCalm
      <3> QED  BY <1>1, <3>2, <3>3, <3>4, <3>5, <3>6 DEF TrayCalm, IsInside
    <2> QED  BY <1>4, <2>4, <2>5, <2>6 DEF TrayInv, Strays, Reads
  <1> QED  BY <1>3, <1>4 DEF StartTray

\* The native tray's menu, replaced.
LEMMA WithMenuIs ==
    ASSUME TrayType, NEW menu \in MenuType
    PROVE  LET w == WithMenu(menu) IN
           /\ w \in Seq(MenuType) /\ Len(w) = Len(indicators)
           /\ DOMAIN w = DOMAIN indicators
           /\ indicator # 0 => w[indicator] = menu
           /\ \A i \in DOMAIN indicators : i # indicator => w[i] = indicators[i]
  BY DEF TrayType, WithMenu

\* Handle h has a menu of another number, and the indicator, if there is one and h
\* is the tray that runs, has it.
LEMMA NewMenuKeepsTrayInv ==
    ASSUME TrayInv, InsideType, NEW h \in Trays, Used(h), NEW r \in Handle,
           r.state = trays[h].state, r.menu # 0,
           trays' = [trays EXCEPT ![h] = r],
           NEW menu \in MenuType, menu.of = h, menu.number = r.menu,
           indicators' = WithMenu(menu) \/ (indicators' = indicators /\ ~ r.whole),
           UNCHANGED <<inside, indicator, loopResult>>,
           Strays(\/ ~ r.whole
                  \/ r # trays[h] /\ IsInside("click") /\ inside.menu.of = h
                  \/ trays[h].state # "running" /\ indicator # 0),
           r.whole => r.menu = r.built
    PROVE  TrayInv'
  <1>1. /\ trays' \in [Trays -> Handle] /\ trays'[h] = r
        /\ \A g \in Trays : g # h => trays'[g] = trays[g]
    BY DEF TrayInv, TrayType
  <1> DEFINE w == WithMenu(menu)
  <1>2. /\ w \in Seq(MenuType) /\ Len(w) = Len(indicators)
        /\ DOMAIN w = DOMAIN indicators
        /\ indicator # 0 => w[indicator] = menu
        /\ \A i \in DOMAIN indicators : i # indicator => w[i] = indicators[i]
    BY WithMenuIs DEF TrayInv
  <1>3. /\ indicators \in Seq(MenuType) /\ indicator \in 0..Len(indicators)
        /\ indicators' = w \/ (indicators' = indicators /\ ~ r.whole)
    BY DEF TrayInv, TrayType
  <1> HIDE DEF w
  <1>4. TrayType'  BY <1>1, <1>2, <1>3 DEF TrayType
  <1>5. TrayShape'
    <2>1. \A g \in Trays : Used(g)' => trays'[g].menu # 0  BY <1>1 DEF TrayInv, TrayShape, Used
    <2>2. r.state # "none"  BY DEF Used
    <2>3. \A g \in Trays : trays'[g].state = "none" => ~ trays'[g].whole
      BY <1>1, <2>2 DEF TrayInv, TrayShape
    <2> QED  BY <2>1, <2>3 DEF TrayShape
  <1>6. LoopTellsExit'  BY <1>2, <1>3 DEF TrayInv, LoopTellsExit
  <1>7. ASSUME TrayCalm, ~ strayed'
        PROVE  TrayCalm'
    <2>1. /\ r.whole /\ r.menu = r.built /\ indicators' = w
          /\ r # trays[h] /\ IsInside("click") => inside.menu.of # h
          /\ trays[h].state # "running" => indicator = 0
      BY <1>3, <1>7 DEF Strays
    <2>2. \A g \in Trays : Used(g)' => trays'[g].whole /\ trays'[g].menu = trays'[g].built
      BY <1>1, <1>7, <2>1 DEF TrayCalm, Used
    <2>3. trays[h].state = "running" => indicator # 0 /\ indicators[indicator].of = h
      BY <1>7 DEF TrayCalm
    <2>4. \A g \in Trays : trays'[g].state = "running" =>
              indicator # 0 /\ indicators'[indicator].of = g
      BY <1>1, <1>2, <1>7, <2>1, <2>3 DEF TrayCalm
    <2>5. indicator # 0 => trays[h].state = "running"  BY <2>1
    <2>6. ASSUME NEW i \in DOMAIN indicators, w[i].number # 0
          PROVE  /\ i = indicator /\ trays'[w[i].of].state = "running"
                 /\ w[i].number = trays'[w[i].of].built
      <3>1. CASE i = indicator  BY <1>1, <1>2, <1>3, <2>1, <2>5, <3>1
      <3>2. CASE i # indicator  BY <1>2, <1>7, <2>6, <3>2 DEF TrayCalm
      <3> QED  BY <3>1, <3>2
    <2>7. IsInside("click") => Alive(inside.menu)'
      BY <1>1, <1>7, <2>1, InsideIs DEF TrayCalm, Alive, MenuType
    <2> QED  BY <1>2, <2>1, <2>2, <2>4, <2>6, <2>7 DEF TrayCalm, IsInside
  <1> QED  BY <1>4, <1>5, <1>6, <1>7 DEF TrayInv, Strays

LEMMA UpdateKeepsTrayInv ==
    ASSUME TrayInv, InsideType, NEW h \in Trays,
           NEW spec \in {"none", "headless", "torn", "whole"}, UpdateTray(h, spec)
    PROVE  TrayInv' /\ (strayed' \/ desktop' = desktop)
  <1>1. /\ Used(h) /\ UNCHANGED <<inside, indicator, loopResult>>
        /\ Strays(\/ spec = "torn"
                  \/ spec = "whole" /\ IsInside("click") /\ inside.menu.of = h
                  \/ trays[h].state # "running" /\ indicator # 0)
    BY DEF UpdateTray, Used
  <1>2. /\ trays[h] \in Handle /\ trays[h].menu # 0 /\ trays[h].menu \in Nat
        /\ trays \in [Trays -> Handle]
    BY <1>1 DEF TrayInv, TrayType, TrayShape, Handle
  <1>3. TrayCalm => trays[h].whole /\ trays[h].menu = trays[h].built  BY <1>1 DEF TrayCalm
  <1>4. CASE spec = "none"
    <2> DEFINE menu == Menu(h)
    <2>1. menu \in MenuType /\ menu.of = h /\ menu.number = trays[h].menu
      BY <1>2 DEF Menu, MenuType
    <2>2. indicators' = WithMenu(menu) /\ UNCHANGED trays /\ Reads(Alive(menu))
      BY <1>4 DEF UpdateTray
    <2> HIDE DEF menu
    <2>3. TrayCalm => Alive(menu)  BY <1>1, <1>3, <2>1 DEF Alive, Used
    <2>4. strayed' \/ desktop' = desktop  BY <1>1, <2>2, <2>3 DEF TrayInv, Reads, Strays
    <2>5. CASE trays[h].whole /\ trays[h].menu = trays[h].built
      <3> DEFINE r == trays[h]
      <3>1. trays' = [trays EXCEPT ![h] = r]  BY <1>2, <2>2
      <3>2. Strays(\/ ~ r.whole
                   \/ r # trays[h] /\ IsInside("click") /\ inside.menu.of = h
                   \/ trays[h].state # "running" /\ indicator # 0)
        BY <1>1, <1>4, <2>5 DEF Strays
      <3>3. r \in Handle /\ r.state = trays[h].state /\ r.menu # 0 /\ menu.number = r.menu
            /\ (r.whole => r.menu = r.built)
        BY <1>2, <2>1, <2>5
      <3> HIDE DEF r
      <3> QED  BY <1>1, <2>1, <2>2, <2>4, <3>1, <3>2, <3>3, NewMenuKeepsTrayInv
    <2>6. CASE ~ (trays[h].whole /\ trays[h].menu = trays[h].built)
      <3>1. strayed /\ strayed'  BY <1>1, <1>3, <2>6 DEF TrayInv, Strays
      <3>2. /\ indicators' \in Seq(MenuType) /\ Len(indicators') = Len(indicators)
            /\ DOMAIN indicators' = DOMAIN indicators
            /\ indicator # 0 => indicators'[indicator] = menu
            /\ \A i \in DOMAIN indicators : i # indicator => indicators'[i] = indicators[i]
        BY <2>1, <2>2, WithMenuIs DEF TrayInv
      <3>3. TrayType' /\ TrayShape'  BY <1>1, <2>2, <3>2 DEF TrayInv, TrayType, TrayShape, Used
      <3>4. LoopTellsExit'  BY <1>1, <1>2, <2>1, <3>2 DEF TrayInv, LoopTellsExit
      <3> QED  BY <3>1, <3>3, <3>4 DEF TrayInv
    <2> QED  BY <2>4, <2>5, <2>6
  <1>5. CASE spec # "none"
    <2> DEFINE r == Rebuilt(h, spec)
               menu == [of |-> h, number |-> IF spec = "whole" THEN trays[h].built + 1
                                             ELSE r.menu]
    <2>1. spec \in {"headless", "torn", "whole"}  BY <1>5
    <2>2. /\ r \in Handle /\ r.state = trays[h].state
          /\ spec = "headless" => r = trays[h]
          /\ spec = "torn" => r.menu = trays[h].menu /\ ~ r.whole
          /\ spec = "whole" => /\ r.built = trays[h].built + 1 /\ r.menu = trays[h].built + 1
                              /\ r.whole
      BY <2>1, RebuiltIs DEF TrayInv
    <2>3. trays' = [trays EXCEPT ![h] = r] /\ desktop' = desktop  BY <1>5 DEF UpdateTray
    <2> HIDE DEF r
    <2>4. r.menu # 0 /\ r.menu \in Nat  BY <1>2, <2>1, <2>2 DEF Handle
    <2>5. menu \in MenuType /\ menu.of = h /\ menu.number = r.menu
      BY <1>2, <2>2, <2>4 DEF MenuType, Handle
    <2>6. CASE spec = "headless"
      <3>1. r = trays[h] /\ trays' = trays /\ indicators' = indicators
        BY <1>2, <1>5, <2>2, <2>3, <2>6 DEF UpdateTray
      <3> QED  BY <1>1, <2>3, <3>1, TrayFrame DEF trayState, Strays
    <2>7. CASE spec = "torn"
      <3>1. indicators' = indicators  BY <2>7 DEF UpdateTray
      <3>2. Strays(\/ ~ r.whole
                   \/ r # trays[h] /\ IsInside("click") /\ inside.menu.of = h
                   \/ trays[h].state # "running" /\ indicator # 0)
        BY <1>1, <2>2, <2>7 DEF Strays
      <3> HIDE DEF menu
      <3> QED  BY <1>1, <2>2, <2>3, <2>4, <2>5, <2>7, <3>1, <3>2, NewMenuKeepsTrayInv
    <2>8. CASE spec = "whole"
      <3>1. indicators' = WithMenu(menu)  BY <2>8 DEF UpdateTray
      <3>2. r # trays[h]  BY <1>2, <2>2, <2>8 DEF Handle
      <3>3. Strays(\/ ~ r.whole
                   \/ r # trays[h] /\ IsInside("click") /\ inside.menu.of = h
                   \/ trays[h].state # "running" /\ indicator # 0)
        BY <1>1, <2>2, <2>8, <3>2 DEF Strays
      <3>4. r.whole => r.menu = r.built  BY <2>2, <2>8
      <3> HIDE DEF menu
      <3> QED  BY <1>1, <2>2, <2>3, <2>4, <2>5, <3>1, <3>3, <3>4, NewMenuKeepsTrayInv
    <2> QED  BY <2>1, <2>6, <2>7, <2>8
  <1> QED  BY <1>4, <1>5

\* A tray that ends, for now or for good, takes the indicator with it if it runs.
LEMMA EndKeepsTrayInv ==
    ASSUME TrayInv, InsideType, NEW h \in Trays, Used(h), Exited(h),
           NEW state \in {"made", "gone"},
           trays' = [trays EXCEPT ![h].state = state],
           Strays(state = "gone" /\ IsInside("click") /\ inside.menu.of = h),
           UNCHANGED inside
    PROVE  TrayInv'
  <1>1. /\ trays' \in [Trays -> Handle]
        /\ trays'[h].state = state /\ trays'[h].whole = trays[h].whole
        /\ trays'[h].built = trays[h].built /\ trays'[h].menu = trays[h].menu
        /\ \A g \in Trays : g # h => trays'[g] = trays[g]
    BY DEF TrayInv, TrayType, Handle
  <1>2. TrayShape'  BY <1>1 DEF TrayInv, TrayShape, Used
  <1>3. ASSUME TrayCalm, ~ strayed'
        PROVE  /\ \A g \in Trays : Used(g)' => trays'[g].whole /\ trays'[g].menu = trays'[g].built
               /\ IsInside("click") => Alive(inside.menu)'
    <2>1. \A g \in Trays : Used(g)' => trays'[g].whole /\ trays'[g].menu = trays'[g].built
      BY <1>1, <1>3 DEF TrayCalm, Used
    <2>2. IsInside("click") => inside.menu.of # h \/ state # "gone"  BY <1>3 DEF Strays
    <2>3. IsInside("click") => Alive(inside.menu)'
      BY <1>1, <1>3, <2>2, InsideIs DEF TrayCalm, Alive, MenuType
    <2> QED  BY <2>1, <2>3
  <1>4. CASE trays[h].state = "running"
    <2> DEFINE none == [of |-> h, number |-> 0]
    <2>1. /\ none \in MenuType /\ none.of = h /\ none.number = 0  BY DEF MenuType
    <2>2. /\ loopResult' = -1 /\ indicator' = 0
          /\ indicators' = IF indicator = 0 THEN indicators
                           ELSE [indicators EXCEPT ![indicator] = none]
      BY <1>4 DEF Exited
    <2> HIDE DEF none
    <2>3. /\ indicators' \in Seq(MenuType) /\ DOMAIN indicators' = DOMAIN indicators
          /\ indicator # 0 => indicators'[indicator] = none
          /\ \A i \in DOMAIN indicators : i # indicator => indicators'[i] = indicators[i]
      BY <2>1, <2>2 DEF TrayInv, TrayType
    <2>4. TrayType' /\ LoopTellsExit'  BY <1>1, <2>2, <2>3 DEF TrayType, LoopTellsExit
    <2>5. ASSUME TrayCalm, ~ strayed'
          PROVE  TrayCalm'
      <3>1. \A i \in DOMAIN indicators : indicators'[i].number = 0
        <4>1. ASSUME NEW i \in DOMAIN indicators
              PROVE  indicators'[i].number = 0
          <5>1. CASE i = indicator
            <6>1. indicator # 0  BY <4>1, <5>1 DEF TrayInv, TrayType
            <6> QED  BY <2>1, <2>3, <5>1, <6>1
          <5>2. CASE i # indicator  BY <2>3, <2>5, <5>2 DEF TrayCalm
          <5> QED  BY <5>1, <5>2
        <4> QED  BY <4>1
      <3>2. \A g \in Trays : trays[g].state = "running" => g = h  BY <1>4, <2>5 DEF TrayCalm
      <3>3. \A g \in Trays : trays'[g].state # "running"  BY <1>1, <3>2
      <3> QED  BY <1>3, <2>3, <2>5, <3>1, <3>3 DEF TrayCalm, IsInside
    <2> QED  BY <1>2, <2>4, <2>5 DEF TrayInv, Strays
  <1>5. CASE trays[h].state # "running"
    <2>1. UNCHANGED <<loopResult, indicators, indicator>>  BY <1>5 DEF Exited
    <2>2. TrayType' /\ LoopTellsExit'  BY <1>1, <2>1 DEF TrayInv, TrayType, LoopTellsExit
    <2>3. ASSUME TrayCalm, ~ strayed'
          PROVE  TrayCalm'
      <3>1. \A i \in DOMAIN indicators : indicators[i].number # 0 =>
                indicators[i].of \in Trays /\ indicators[i].of # h
        <4>1. ASSUME NEW i \in DOMAIN indicators, indicators[i].number # 0
              PROVE  indicators[i].of \in Trays /\ indicators[i].of # h
          <5>1. indicators[i] \in MenuType  BY DEF TrayInv, TrayType
          <5>2. trays[indicators[i].of].state = "running"  BY <2>3, <4>1 DEF TrayCalm
          <5> QED  BY <1>5, <5>1, <5>2 DEF MenuType
        <4> QED  BY <4>1
      <3>2. \A g \in Trays : trays'[g].state = "running" => g # h  BY <1>1
      <3> QED  BY <1>1, <1>3, <2>1, <2>3, <3>1, <3>2 DEF TrayCalm, IsInside
    <2> QED  BY <1>2, <2>2, <2>3 DEF TrayInv, Strays
  <1> QED  BY <1>4, <1>5

LEMMA ExitKeepsTrayInv ==
    ASSUME TrayInv, InsideType, NEW h \in Trays, ExitTray(h), strayed \in BOOLEAN
    PROVE  TrayInv'
  <1> DEFINE state == "made"
  <1>1. /\ Used(h) /\ Exited(h) /\ state \in {"made", "gone"}
        /\ trays' = [trays EXCEPT ![h].state = state] /\ UNCHANGED inside
    BY DEF ExitTray, Used
  <1>2. Strays(state = "gone" /\ IsInside("click") /\ inside.menu.of = h)  BY DEF ExitTray, Strays
  <1> HIDE DEF state
  <1> QED  BY <1>1, <1>2, EndKeepsTrayInv

LEMMA DropTrayKeepsTrayInv ==
    ASSUME TrayInv, InsideType, NEW h \in Trays, DropTray(h)
    PROVE  TrayInv'
  <1> DEFINE state == "gone"
  <1>1. /\ Used(h) /\ Exited(h) /\ state \in {"made", "gone"}
        /\ trays' = [trays EXCEPT ![h].state = state] /\ UNCHANGED inside
    BY DEF DropTray, Used
  <1>2. Strays(state = "gone" /\ IsInside("click") /\ inside.menu.of = h)  BY DEF DropTray, Strays
  <1> HIDE DEF state
  <1> QED  BY <1>1, <1>2, EndKeepsTrayInv

LEMMA ClickKeepsTrayInv ==
    ASSUME TrayInv, NEW i \in DOMAIN indicators, Click(i)
    PROVE  TrayInv' /\ (strayed' \/ desktop' = desktop)
  <1>1. /\ UNCHANGED <<strayed, trays, indicators, indicator, loopResult>>
        /\ indicators[i].number # 0 /\ Reads(Alive(indicators[i]))
        /\ inside' = [kind |-> "click", menu |-> indicators[i]]
    BY DEF Click, trayState
  <1>2. TrayType' /\ TrayShape' /\ LoopTellsExit'
    BY <1>1 DEF TrayInv, TrayType, TrayShape, LoopTellsExit, Used
  <1>3. ASSUME TrayCalm
        PROVE  TrayCalm' /\ Alive(indicators[i])
    <2>1. indicators[i] \in MenuType  BY DEF TrayInv, TrayType
    <2>2. Alive(indicators[i])  BY <1>1, <1>3, <2>1 DEF TrayCalm, Alive, Used, MenuType
    <2>3. Alive(inside.menu)'  BY <1>1, <2>2 DEF Alive
    <2> QED  BY <1>1, <1>3, <2>2, <2>3 DEF TrayCalm, Used
  <1> QED  BY <1>1, <1>2, <1>3 DEF TrayInv, Reads

LEMMA ClickReturnKeepsTrayInv ==
    ASSUME TrayInv, ClickReturns
    PROVE  TrayInv' /\ (strayed' \/ desktop' = desktop)
  <1>1. /\ UNCHANGED <<strayed, trayState>> /\ inside'.kind # "click"
        /\ IsInside("click") /\ Reads(Alive(inside.menu))
    BY DEF ClickReturns, Outside
  <1>2. TrayInv'  BY <1>1, TrayFrame
  <1> QED  BY <1>1, <1>2 DEF TrayInv, TrayCalm, Reads

-----------------------------------------------------------------------------
(* Notifications.                                                          *)

LEMMA LeftStart == Opens => LeftInv
  BY ScenarioBounds DEF Opens, LeftInv

\* Something is spent: what was sent stays sent.
LEMMA SpendKeepsLeft ==
    ASSUME LeftInv, NEW sort, Spend(sort)
    PROVE  /\ LeftInv' /\ \A k \in Nat : Sent(k) => Sent(k)'
  <1> DEFINE m == left[sort] - 1
  <1>1. /\ sort \in DOMAIN left /\ left[sort] \in Nat /\ m \in Nat /\ m <= left[sort]
        /\ left' = [left EXCEPT ![sort] = m]
    BY DEF Spend, LeftInv
  <1> HIDE DEF m
  <1>2. /\ DOMAIN left' = DOMAIN left /\ left' \in [DOMAIN left -> Nat]
        /\ \A s \in DOMAIN left : left'[s] = IF s = sort THEN m ELSE left[s]
    BY <1>1 DEF LeftInv
  <1>3. "send" \in DOMAIN left =>
            left["send"] \in Nat /\ left'["send"] \in Nat /\ left'["send"] <= left["send"]
    BY <1>1, <1>2 DEF LeftInv
  <1> QED  BY <1>2, <1>3 DEF LeftInv, Sent

LEMMA NotesAre ==
    ASSUME NotesType
    PROVE  /\ \A n \in DOMAIN notes :
                  /\ notes[n] \in NoteType /\ n \in Nat /\ n # 0
                  /\ \A i \in DOMAIN notes[n].handlers : notes[n].handlers[i] \in Nat
           /\ \A j \in DOMAIN toldClosed : toldClosed[j] \in Nat
  <1>1. ASSUME NEW n \in DOMAIN notes
        PROVE  notes[n] \in NoteType /\ n \in Nat /\ n # 0
    BY DEF NotesType
  <1>2. ASSUME NEW n \in DOMAIN notes, NEW i \in DOMAIN notes[n].handlers
        PROVE  notes[n].handlers[i] \in Nat
    <2>1. notes[n].handlers \in Seq(Nat)  BY <1>1 DEF NoteType
    <2> QED  BY <2>1
  <1>3. \A j \in DOMAIN toldClosed : toldClosed[j] \in Nat  BY DEF NotesType
  <1> QED  BY <1>1, <1>2, <1>3

LEMMA NoteStart == Opens /\ DesktopInit => NoteInv
  <1> SUFFICES ASSUME Opens, DesktopInit
               PROVE  NoteInv
    OBVIOUS
  <1>1. LeftInv  BY LeftStart
  <1>2. notes = <<>> /\ toldClosed = <<>> /\ DOMAIN notes = {} /\ DOMAIN toldClosed = {}
    BY DEF DesktopInit
  <1>3. NotesType /\ InsideType
    <2>1. centers \in [Centers -> [initialized : BOOLEAN, gone : BOOLEAN]] /\ ready \in BOOLEAN
      BY DEF DesktopInit
    <2>2. notes \in Seq(NoteType) /\ toldClosed \in Seq(Nat)  BY <1>2
    <2>3. replaceIndex \in [Centers \X Keys -> Nat] /\ inside = Outside  BY DEF DesktopInit
    <2> QED  BY <2>1, <2>2, <2>3 DEF NotesType, InsideType
  <1>4. KeyInv  BY DEF DesktopInit, KeyInv
  <1>5. CenterInv /\ HandlerInv /\ ToldInv  BY <1>2 DEF CenterInv, HandlerInv, ToldInv
  <1>6. CallingInv /\ NoteCalm  BY <1>2 DEF DesktopInit, CallingInv, NoteCalm, IsInside, Outside
  <1> QED  BY <1>1, <1>3, <1>4, <1>5, <1>6 DEF NoteInv

\* Notes stay as they are, and no callback of theirs begins or ends a closing.
LEMMA NoteFrame ==
    ASSUME NoteInv, UNCHANGED noteState, strayed => strayed',
           LeftInv', \A k \in Nat : Sent(k) => Sent(k)',
           InsideType',
           (inside' = inside)
           \/ (inside.kind # "closed" /\ inside'.kind # "closed" /\ inside'.kind # "action")
    PROVE  NoteInv'
  <1>1. /\ UNCHANGED <<centers, ready, notes, replaceIndex, toldClosed>>
        /\ NotesType' /\ KeyInv' /\ CenterInv'
    BY DEF NoteInv, noteState, NotesType, KeyInv, CenterInv
  <1>2. /\ \A n \in DOMAIN notes : \A i \in DOMAIN notes[n].handlers : notes[n].handlers[i] \in Nat
        /\ \A j \in DOMAIN toldClosed : toldClosed[j] \in Nat
    BY NotesAre DEF NoteInv
  <1>3. HandlerInv'  BY <1>1, <1>2 DEF NoteInv, HandlerInv
  <1>4. /\ \A n : Calling(n)' = Calling(n)
        /\ \A k : Told(k)' = Told(k) /\ Pending(k)' = Pending(k)
        /\ IsInside("closed")' = IsInside("closed")
        /\ IsInside("closed") => inside' = inside
        /\ IsInside("action")' => inside' = inside
    BY <1>1 DEF Calling, Pending, Told, IsInside
  <1>5. ToldInv'  BY <1>1, <1>2, <1>4 DEF NoteInv, ToldInv
  <1>6. CallingInv'  BY <1>1, <1>4 DEF NoteInv, CallingInv
  <1>7. ASSUME NoteCalm
        PROVE  NoteCalm'
    BY <1>1, <1>4, <1>7 DEF NoteCalm, IsInside
  <1> QED  BY <1>1, <1>3, <1>5, <1>6, <1>7 DEF NoteInv

LEMMA Appended ==
    ASSUME NEW S, NEW s \in Seq(S), NEW x \in S, NEW r, r = Append(s, x)
    PROVE  /\ r \in Seq(S) /\ r # <<>> /\ Len(r) = Len(s) + 1
           /\ \A i \in DOMAIN r : (i = Len(s) + 1 /\ r[i] = x) \/ (i \in DOMAIN s /\ r[i] = s[i])
           /\ \A i \in DOMAIN s : i \in DOMAIN r /\ r[i] = s[i]
  OBVIOUS

LEMMA HandlersAre ==
    ASSUME NotesType, NEW n \in DOMAIN notes
    PROVE  /\ notes[n] \in NoteType /\ notes[n].center \in Centers
           /\ notes[n].key \in Keys \cup {NoKey} /\ notes[n].handlers \in Seq(Nat)
  <1>1. notes[n] \in NoteType  BY DEF NotesType
  <1> QED  BY <1>1 DEF NoteType

LEMMA Replaced ==
    ASSUME NEW S, NEW s \in Seq(S), NEW n \in DOMAIN s, NEW b \in S,
           NEW r, r = [s EXCEPT ![n] = b]
    PROVE  /\ r \in Seq(S) /\ DOMAIN r = DOMAIN s /\ Len(r) = Len(s) /\ r[n] = b
           /\ \A m \in DOMAIN s : m # n => r[m] = s[m]
  OBVIOUS

\* A note that a key stands for is there, kept, of a center that is not gone.
LEMMA NotedIs ==
    ASSUME NoteInv, NEW c \in Centers, NEW key \in Keys \cup {NoKey}, NEW n, n = Noted(c, key),
           n # 0
    PROVE  /\ n \in DOMAIN notes /\ notes[n].kept /\ key \in Keys
           /\ replaceIndex[<<c, key>>] = n
           /\ notes[n].center = c /\ notes[n].key = key
  BY DEF NoteInv, KeyInv, Noted

\* The note that a send is of, and the notes after it.
NoteFor(c, key) == IF Noted(c, key) = 0 THEN Len(notes) + 1 ELSE Noted(c, key)
NotesAfter(c, key, number, shows) ==
    [Applied(c, key, number) EXCEPT ![NoteFor(c, key)].shown = @ \/ shows]

\* Send puts its number at the end of the handlers of a note, which is there or new.
IsAfter(after, n, c, key, number) ==
    /\ after \in Seq(NoteType)
    /\ DOMAIN after = DOMAIN notes \cup {n}
    /\ \A m \in DOMAIN notes : m # n => after[m] = notes[m]
    /\ after[n].center = c /\ after[n].key = key /\ after[n].kept
    /\ after[n].actions = number
    /\ n \notin DOMAIN notes => /\ after[n].handlers = <<number>> /\ Noted(c, key) = 0
    /\ n \in DOMAIN notes =>
           /\ after[n].handlers = Append(notes[n].handlers, number)
           /\ n = Noted(c, key) /\ Noted(c, key) # 0

LEMMA SentIs ==
    ASSUME NoteInv, NEW c \in Centers, NEW key \in Keys \cup {NoKey}, NEW number \in Nat,
           NEW shows \in BOOLEAN,
           NEW n, n = NoteFor(c, key),
           NEW after, after = NotesAfter(c, key, number, shows)
    PROVE  IsAfter(after, n, c, key, number)
  <1> DEFINE a == Applied(c, key, number)
  <1>0. notes \in Seq(NoteType)  BY DEF NoteInv, NotesType
  <1>1. CASE Noted(c, key) = 0
    <2> DEFINE note == [center |-> c, key |-> key, handlers |-> <<number>>,
                        actions |-> number, shown |-> FALSE, kept |-> TRUE]
    <2>1. note \in NoteType /\ note.center = c /\ note.key = key /\ note.kept
          /\ note.actions = number /\ note.handlers = <<number>>
      BY DEF NoteType
    <2>2. a = Append(notes, note) /\ n = Len(notes) + 1  BY <1>1 DEF Applied, NoteFor
    <2> HIDE DEF note, a
    <2>3. /\ a \in Seq(NoteType) /\ DOMAIN a = DOMAIN notes \cup {n} /\ n \notin DOMAIN notes
          /\ a[n] = note /\ n \in DOMAIN a
          /\ \A m \in DOMAIN notes : a[m] = notes[m]
      BY <1>0, <2>1, <2>2
    <2> DEFINE b == [note EXCEPT !.shown = note.shown \/ shows]
    <2>4. /\ b \in NoteType /\ b.center = c /\ b.key = key /\ b.kept
          /\ b.actions = number /\ b.handlers = <<number>>
      BY <2>1 DEF NoteType
    <2>5. after = [a EXCEPT ![n] = b]  BY <2>3 DEF a, NotesAfter
    <2> HIDE DEF b
    <2>6. /\ after \in Seq(NoteType) /\ DOMAIN after = DOMAIN a /\ after[n] = b
          /\ \A m \in DOMAIN a : m # n => after[m] = a[m]
      <3>1. n \in DOMAIN a /\ a \in Seq(NoteType) /\ b \in NoteType  BY <2>3, <2>4
      <3> HIDE DEF a
      <3> QED  BY <2>5, <3>1, Replaced
    <2> QED  BY <1>1, <2>3, <2>4, <2>6 DEF IsAfter
  <1>2. CASE Noted(c, key) # 0
    <2>1. n = Noted(c, key) /\ n \in DOMAIN notes  BY <1>2, NotedIs DEF NoteFor
    <2>2. /\ notes[n].kept /\ notes[n].center = c /\ notes[n].key = key
          /\ notes[n] \in NoteType
      <3>1. NotesType  BY DEF NoteInv
      <3>2. notes[n] \in NoteType  BY <2>1, <3>1, NotesAre
      <3> QED
        <4>1. key \in Keys /\ n = replaceIndex[<<c, key>>]  BY <1>2, <2>1 DEF Noted
        <4> DEFINE at == <<c, key>>
        <4>3. at \in Centers \X Keys /\ at[1] = c /\ at[2] = key /\ replaceIndex[at] = n  BY <4>1
        <4> HIDE DEF at
        <4>4. n # 0 /\ KeyInv  BY <1>2, <2>1 DEF NoteInv
        <4>5. notes[n].kept /\ notes[n].center = c /\ notes[n].key = key  BY <4>3, <4>4 DEF KeyInv
        <4> QED  BY <3>2, <4>5
    <2> DEFINE h == Append(notes[n].handlers, number)
               d == [notes[n] EXCEPT !.handlers = h]
               e == [d EXCEPT !.actions = number]
               b == [e EXCEPT !.shown = e.shown \/ shows]
    <2>3. h \in Seq(Nat)  BY <2>2 DEF NoteType
    <2>4. a = [notes EXCEPT ![n] = e]  BY <1>2, <2>1 DEF Applied
    <2> HIDE DEF h, a
    <2>5. /\ d \in NoteType /\ d.center = c /\ d.key = key /\ d.kept /\ d.handlers = h
      BY <2>2, <2>3 DEF NoteType
    <2> HIDE DEF d
    <2>6. /\ e \in NoteType /\ e.center = c /\ e.key = key /\ e.kept /\ e.handlers = h
          /\ e.actions = number
      BY <2>5 DEF NoteType
    <2> HIDE DEF e
    <2>7. /\ b \in NoteType /\ b.center = c /\ b.key = key /\ b.kept /\ b.handlers = h
          /\ b.actions = number
      BY <2>6 DEF NoteType
    <2>8. /\ a \in Seq(NoteType) /\ DOMAIN a = DOMAIN notes /\ a[n] = e
          /\ \A m \in DOMAIN notes : m # n => a[m] = notes[m]
      BY <1>0, <2>1, <2>4, <2>6, Replaced
    <2>9. after = [a EXCEPT ![n] = b]  BY <2>1, <2>8 DEF a, NotesAfter
    <2> HIDE DEF b
    <2>10. /\ after \in Seq(NoteType) /\ DOMAIN after = DOMAIN a /\ after[n] = b
           /\ \A m \in DOMAIN a : m # n => after[m] = a[m]
      <3>1. n \in DOMAIN a  BY <2>1, <2>8
      <3> QED  BY <2>7, <2>8, <2>9, <3>1, Replaced
    <2>11. h = Append(notes[n].handlers, number)  BY DEF h
    <2> QED  BY <1>2, <2>1, <2>7, <2>8, <2>10, <2>11 DEF IsAfter
  <1> QED  BY <1>1, <1>2

LEMMA SendKeepsNoteInv ==
    ASSUME NoteInv, NEW c \in Centers, NEW key \in Keys \cup {NoKey}, Send(c, key)
    PROVE  NoteInv' /\ (strayed' \/ desktop' = desktop)
  <1> DEFINE number == left["send"]
             n == NoteFor(c, key)
             after == notes'
             at == <<c, key>>
  <1>1. /\ NotesType /\ InsideType /\ LeftInv /\ KeyInv /\ CenterInv /\ HandlerInv /\ ToldInv
        /\ CallingInv /\ (strayed \/ NoteCalm)
    BY DEF NoteInv
  <1>2. /\ Spend("send") /\ "send" \in DOMAIN left /\ number \in Nat /\ ~ centers[c].gone
        /\ left'["send"] = number - 1 /\ DOMAIN left' = DOMAIN left
    BY <1>1 DEF Send, Spend, LeftInv
  <1>3. LeftInv' /\ \A k \in Nat : Sent(k) => Sent(k)'  BY <1>1, <1>2, SpendKeepsLeft
  <1> DEFINE later(k) == "send" \in DOMAIN left' => k > left'["send"]
  <1>4. \A k \in Nat : /\ Sent(k) => k # number
                       /\ Sent(k) \/ k = number => later(k)
    <2>1. ASSUME NEW k \in Nat
          PROVE  (Sent(k) => k # number) /\ (Sent(k) \/ k = number => later(k))
      <3>1. Sent(k) <=> k > number  BY <1>2 DEF Sent
      <3>2. later(k) <=> k > number - 1  BY <1>2
      <3> HIDE DEF number, later
      <3> QED  BY <1>2, <3>1, <3>2
    <2> QED  BY <2>1
  <1>5. \E shows \in BOOLEAN : after = NotesAfter(c, key, number, shows)
    <2>1. PICK shows \in BOOLEAN :
              notes' = [Applied(c, key, number) EXCEPT
                            ![n].shown = @ \/ (shows /\ Connected(c))]
      BY DEF Send, NoteFor
    <2> DEFINE both == shows /\ Connected(c)
    <2>2. both \in BOOLEAN  OBVIOUS
    <2>3. after = NotesAfter(c, key, number, both)  BY <2>1 DEF NotesAfter
    <2> QED  BY <2>2, <2>3
  <1>6. /\ UNCHANGED <<inside, toldClosed>>
        /\ centers' = [centers EXCEPT ![c].initialized = TRUE]
        /\ ready' = Connected(c)
        /\ replaceIndex' = IF key = NoKey THEN replaceIndex
                           ELSE [replaceIndex EXCEPT ![at] = n]
        /\ desktop' = IF Connected(c) THEN desktop ELSE "aborted"
        /\ Strays(\/ ~ Connected(c)
                  \/ IsInside("closed") /\ inside.note = n
                  \/ IsInside("action") /\ inside.note = n)
    BY DEF Send, NoteFor
  <1> HIDE DEF number, n, after, later
  <1>7. n = NoteFor(c, key) /\ after = notes'  BY DEF n, after
  <1>8. /\ after \in Seq(NoteType)
        /\ DOMAIN after = DOMAIN notes \cup {n}
        /\ \A m \in DOMAIN notes : m # n => after[m] = notes[m]
        /\ after[n].center = c /\ after[n].key = key /\ after[n].kept
        /\ after[n].actions = number
        /\ n \notin DOMAIN notes => /\ after[n].handlers = <<number>> /\ Noted(c, key) = 0
        /\ n \in DOMAIN notes =>
               /\ after[n].handlers = Append(notes[n].handlers, number)
               /\ n = Noted(c, key) /\ Noted(c, key) # 0
    <2>1. PICK shows \in BOOLEAN : after = NotesAfter(c, key, number, shows)  BY <1>5
    <2>2. IsAfter(after, n, c, key, number)  BY <1>2, <1>7, <2>1, SentIs
    <2> QED  BY <2>2 DEF IsAfter
  <1>9. n \in DOMAIN notes =>
            /\ notes[n].kept /\ key \in Keys /\ replaceIndex[at] = n
            /\ notes[n].center = c /\ notes[n].key = key
    <2> SUFFICES ASSUME n \in DOMAIN notes
                 PROVE  /\ notes[n].kept /\ key \in Keys /\ replaceIndex[at] = n
                        /\ notes[n].center = c /\ notes[n].key = key
      OBVIOUS
    <2>1. n = Noted(c, key) /\ n # 0  BY <1>8
    <2>2. key \in Keys /\ replaceIndex[at] = n  BY <2>1 DEF Noted
    <2>3. at \in Centers \X Keys /\ at[1] = c /\ at[2] = key  BY <2>2
    <2> HIDE DEF at
    <2> QED  BY <1>1, <2>1, <2>2, <2>3 DEF KeyInv
  <1>10. n \in Nat /\ n # 0 /\ n \in DOMAIN after
    <2>1. after \in Seq(NoteType) /\ n \in DOMAIN after  BY <1>8
    <2> QED  BY <2>1
  <1> DEFINE last == IF n \in DOMAIN notes THEN Len(notes[n].handlers) + 1 ELSE 1
  \* The handlers of a note are those it had, and of this one the number.
  <1>11. \A m \in DOMAIN after : \A i \in DOMAIN after[m].handlers :
             \/ m = n /\ after[m].handlers[i] = number /\ i = last
             \/ /\ m \in DOMAIN notes /\ i \in DOMAIN notes[m].handlers
                /\ after[m].handlers[i] = notes[m].handlers[i]
    <2>1. ASSUME NEW m \in DOMAIN after, NEW i \in DOMAIN after[m].handlers
          PROVE  \/ m = n /\ after[m].handlers[i] = number /\ i = last
                 \/ /\ m \in DOMAIN notes /\ i \in DOMAIN notes[m].handlers
                    /\ after[m].handlers[i] = notes[m].handlers[i]
      <3>1. CASE m # n  BY <1>8, <2>1, <3>1
      <3>2. CASE m = n /\ n \notin DOMAIN notes
        <4>1. after[m].handlers = <<number>>  BY <1>8, <3>2
        <4> QED  BY <2>1, <3>2, <4>1
      <3>3. CASE m = n /\ n \in DOMAIN notes
        <4> DEFINE h == notes[n].handlers
        <4>1. h \in Seq(Nat)  BY <1>1, <3>3, HandlersAre
        <4>2. after[m].handlers = Append(h, number)  BY <1>8, <3>3
        <4> HIDE DEF h
        <4>3. \/ i = Len(h) + 1 /\ after[m].handlers[i] = number
              \/ i \in DOMAIN h /\ after[m].handlers[i] = h[i]
          BY <1>2, <2>1, <4>1, <4>2, Appended
        <4> QED  BY <3>3, <4>3 DEF h
      <3> QED  BY <3>1, <3>2, <3>3
    <2> QED  BY <2>1
  \* And they are all there.
  <1>12. \A m \in DOMAIN notes : \A i \in DOMAIN notes[m].handlers :
             i \in DOMAIN after[m].handlers /\ after[m].handlers[i] = notes[m].handlers[i]
    <2>1. ASSUME NEW m \in DOMAIN notes, NEW i \in DOMAIN notes[m].handlers
          PROVE  /\ i \in DOMAIN after[m].handlers
                 /\ after[m].handlers[i] = notes[m].handlers[i]
      <3>1. CASE m # n  BY <1>8, <2>1, <3>1
      <3>2. CASE m = n
        <4> DEFINE h == notes[n].handlers
        <4>1. h \in Seq(Nat)  BY <1>1, <3>2, HandlersAre
        <4>2. after[m].handlers = Append(h, number) /\ i \in DOMAIN h  BY <1>8, <3>2
        <4> HIDE DEF h
        <4>3. i \in DOMAIN after[m].handlers /\ after[m].handlers[i] = h[i]
          BY <1>2, <2>1, <4>1, <4>2, Appended
        <4> QED  BY <3>2, <4>3 DEF h
      <3> QED  BY <3>1, <3>2
    <2> QED  BY <2>1
  <1>13. \A m \in DOMAIN after : after[m].handlers # <<>>
    <2>1. ASSUME NEW m \in DOMAIN after
          PROVE  after[m].handlers # <<>>
      <3>1. CASE m # n  BY <1>1, <1>8, <2>1, <3>1 DEF HandlerInv
      <3>2. CASE m = n /\ n \notin DOMAIN notes
        <4>1. after[m].handlers = <<number>>  BY <1>8, <3>2
        <4> QED  BY <4>1
      <3>3. CASE m = n /\ n \in DOMAIN notes
        <4> DEFINE h == notes[n].handlers
        <4>1. h \in Seq(Nat)  BY <1>1, <3>3, HandlersAre
        <4>2. after[m].handlers = Append(h, number)  BY <1>8, <3>3
        <4> HIDE DEF h
        <4> QED  BY <1>2, <4>1, <4>2, Appended
      <3> QED  BY <3>1, <3>2, <3>3
    <2> QED  BY <2>1
  <1>14. /\ \A m \in DOMAIN notes : \A i \in DOMAIN notes[m].handlers : notes[m].handlers[i] \in Nat
         /\ \A j \in DOMAIN toldClosed : toldClosed[j] \in Nat
    BY <1>1, NotesAre
  <1>15. /\ \A x \in Centers : centers'[x].gone = centers[x].gone
         /\ \A x \in Centers : centers[x].initialized => centers'[x].initialized
         /\ centers'[c].initialized
         /\ centers' \in [Centers -> [initialized : BOOLEAN, gone : BOOLEAN]]
    BY <1>1, <1>6 DEF NotesType
  <1>16. /\ replaceIndex' \in [Centers \X Keys -> Nat]
         /\ key \in Keys => replaceIndex'[at] = n
         /\ \A x \in Centers \X Keys : x # at => replaceIndex'[x] = replaceIndex[x]
         /\ key \notin Keys => replaceIndex' = replaceIndex
    <2> HIDE DEF at
    <2>1. CASE key = NoKey  BY <1>1, <1>6, <2>1, DesktopBounds DEF NotesType
    <2>2. CASE key # NoKey
      <3>1. key \in Keys /\ at \in Centers \X Keys  BY <2>2 DEF at
      <3> QED  BY <1>1, <1>6, <1>10, <2>2, <3>1 DEF NotesType
    <2> QED  BY <2>1, <2>2
  <1>17. NotesType' /\ InsideType'
    <2>1. NotesType'  BY <1>1, <1>6, <1>7, <1>8, <1>15, <1>16 DEF NotesType, Connected
    <2>2. InsideType'  BY <1>1, <1>6, <1>7, <1>8 DEF InsideType
    <2> QED  BY <2>1, <2>2
  <1>18. KeyInv'
    <2>1. ASSUME NEW x \in Centers \X Keys, replaceIndex'[x] # 0
          PROVE  /\ replaceIndex'[x] \in DOMAIN after
                 /\ after[replaceIndex'[x]].kept
                 /\ after[replaceIndex'[x]].center = x[1] /\ after[replaceIndex'[x]].key = x[2]
      <3>1. CASE x = at
        <4>1. key \in Keys /\ x[1] = c /\ x[2] = key  BY <2>1, <3>1
        <4> QED  BY <1>8, <1>10, <1>16, <3>1, <4>1
      <3>2. CASE x # at
        <4>1. replaceIndex'[x] = replaceIndex[x]  BY <1>16, <3>2
        <4>2. /\ replaceIndex[x] \in DOMAIN notes /\ notes[replaceIndex[x]].kept
              /\ notes[replaceIndex[x]].center = x[1] /\ notes[replaceIndex[x]].key = x[2]
          BY <1>1, <2>1, <4>1 DEF KeyInv
        <4>3. CASE replaceIndex[x] = n  BY <1>8, <1>9, <4>1, <4>2, <4>3
        <4>4. CASE replaceIndex[x] # n  BY <1>8, <4>1, <4>2, <4>4
        <4> QED  BY <4>3, <4>4
      <3> QED  BY <3>1, <3>2
    <2> QED  BY <1>7, <2>1 DEF KeyInv
  <1>19. CenterInv'
    <2>1. ASSUME NEW m \in DOMAIN after
          PROVE  /\ centers'[after[m].center].initialized \/ centers'[after[m].center].gone
                 /\ centers'[after[m].center].gone => ~ after[m].shown /\ ~ after[m].kept
      <3>1. CASE m = n  BY <1>2, <1>8, <1>15, <3>1
      <3>2. CASE m # n
        <4>1. after[m] = notes[m] /\ m \in DOMAIN notes  BY <1>8, <2>1, <3>2
        <4>2. notes[m].center \in Centers  BY <1>1, <4>1, HandlersAre
        <4> QED  BY <1>1, <1>15, <4>1, <4>2 DEF CenterInv
      <3> QED  BY <3>1, <3>2
    <2> QED  BY <1>7, <2>1 DEF CenterInv
  <1>20. HandlerInv'
    <2>1. ASSUME NEW m \in DOMAIN after, NEW i \in DOMAIN after[m].handlers
          PROVE  later(after[m].handlers[i])
      <3>1. \/ after[m].handlers[i] = number
            \/ /\ m \in DOMAIN notes /\ i \in DOMAIN notes[m].handlers
               /\ after[m].handlers[i] = notes[m].handlers[i]
        BY <1>11, <2>1
      <3> QED  BY <1>1, <1>2, <1>4, <1>14, <3>1 DEF HandlerInv
    <2>2. ASSUME NEW m \in DOMAIN after, NEW k \in DOMAIN after,
                 NEW i \in DOMAIN after[m].handlers, NEW j \in DOMAIN after[k].handlers,
                 after[m].handlers[i] = after[k].handlers[j]
          PROVE  m = k /\ i = j
      BY <1>1, <1>4, <1>11, <1>14, <2>2 DEF HandlerInv
    <2> QED  BY <1>7, <1>13, <2>1, <2>2 DEF HandlerInv, Sent, later
  <1>21. ToldInv'
    <2>1. \A k : Told(k)' = Told(k) /\ \A m : Calling(m)' = Calling(m)
      BY <1>6 DEF Told, Calling, IsInside
    <2>2. ~ Told(number)  BY <1>1, <1>4, <1>14 DEF Told, ToldInv
    <2>3. ASSUME NEW m \in DOMAIN after, after[m].kept \/ (after[m].shown /\ ~ Calling(m)),
                 NEW i \in DOMAIN after[m].handlers
          PROVE  ~ Told(after[m].handlers[i])
      <3>1. m \in DOMAIN notes => notes[m].kept \/ (notes[m].shown /\ ~ Calling(m))
        BY <1>8, <1>9, <2>3
      <3> QED  BY <1>1, <1>11, <2>2, <2>3, <3>1 DEF ToldInv
    <2>4. \A j \in DOMAIN toldClosed : later(toldClosed[j])  BY <1>1, <1>4, <1>14 DEF ToldInv
    <2> QED  BY <1>1, <1>6, <1>7, <2>1, <2>3, <2>4 DEF ToldInv, Sent, later
  <1>22. CallingInv'
    <2>1. \A k : Told(k)' = Told(k)  BY <1>6 DEF Told
    <2>2. IsInside("closed") => inside.note \in DOMAIN notes
      BY <1>1 DEF InsideType, IsInside, Outside
    <2>3. ASSUME IsInside("closed"), NEW j \in DOMAIN inside.todo
          PROVE  \E i \in DOMAIN after[inside.note].handlers :
                     after[inside.note].handlers[i] = inside.todo[j]
      <3>1. PICK i \in DOMAIN notes[inside.note].handlers :
                notes[inside.note].handlers[i] = inside.todo[j]
        BY <1>1, <2>3 DEF CallingInv
      <3> QED  BY <1>12, <2>2, <2>3, <3>1
    <2> QED  BY <1>1, <1>6, <1>7, <2>1, <2>3 DEF CallingInv, IsInside
  <1>23. ASSUME NoteCalm, ~ strayed'
         PROVE  NoteCalm' /\ desktop' = desktop
    <2>1. /\ Connected(c) /\ (IsInside("closed") => inside.note # n)
          /\ IsInside("action") => inside.note # n
      BY <1>6, <1>23 DEF Strays
    <2>2. ASSUME NEW m \in DOMAIN after, after[m].kept, after[m].key # NoKey
          PROVE  replaceIndex'[<<after[m].center, after[m].key>>] = m
      <3>1. CASE m = n  BY <1>8, <1>16, <2>2, <3>1
      <3>2. CASE m # n
        <4>1. after[m] = notes[m] /\ m \in DOMAIN notes  BY <1>8, <2>2, <3>2
        <4> DEFINE x == <<notes[m].center, notes[m].key>>
        <4>2. notes[m].center \in Centers /\ notes[m].key \in Keys \cup {NoKey}
          BY <1>1, <4>1, HandlersAre
        <4>3. x \in Centers \X Keys  BY <2>2, <4>1, <4>2
        <4>4. replaceIndex[x] = m  BY <1>23, <2>2, <4>1 DEF NoteCalm
        <4>5. x # at
          <5> SUFFICES ASSUME x = at
                       PROVE  FALSE
            OBVIOUS
          <5>1. key = notes[m].key /\ key # NoKey /\ replaceIndex[at] = m  BY <2>2, <4>1, <4>4
          <5>2. Noted(c, key) = m  BY <5>1 DEF Noted
          <5>3. m # 0  BY <1>1, <4>1, NotesAre
          <5> QED  BY <1>8, <3>2, <5>2, <5>3
        <4>6. replaceIndex'[x] = replaceIndex[x]  BY <1>16, <4>3, <4>5
        <4> QED  BY <4>1, <4>4, <4>6
      <3> QED  BY <3>1, <3>2
    <2>3. /\ \A k : Told(k)' = Told(k) /\ Pending(k)' = Pending(k)
          /\ \A m : Calling(m)' = Calling(m)
          /\ IsInside("closed")' = IsInside("closed")
          /\ IsInside("action")' = IsInside("action")
      BY <1>6 DEF Told, Calling, Pending, IsInside
    <2>4. ASSUME NEW m \in DOMAIN after
          PROVE  \/ after[m].kept /\ ~ Calling(m)
                 \/ centers'[after[m].center].gone
                 \/ \A i \in DOMAIN after[m].handlers :
                        Told(after[m].handlers[i]) \/ Pending(after[m].handlers[i])
      <3>1. CASE m = n  BY <1>8, <2>1, <3>1 DEF Calling
      <3>2. CASE m # n
        <4>1. after[m] = notes[m] /\ m \in DOMAIN notes  BY <1>8, <2>4, <3>2
        <4>2. notes[m].center \in Centers  BY <1>1, <4>1, HandlersAre
        <4> QED  BY <1>15, <1>23, <4>1, <4>2 DEF NoteCalm
      <3> QED  BY <3>1, <3>2
    <2>5. IsInside("closed") \/ IsInside("action") =>
              inside.note \in DOMAIN notes /\ after[inside.note] = notes[inside.note]
      BY <1>1, <1>8, <2>1 DEF InsideType, IsInside, Outside
    <2>6. IsInside("closed") => ~ centers'[after[inside.note].center].gone
      <3> SUFFICES ASSUME IsInside("closed")
                   PROVE  ~ centers'[after[inside.note].center].gone
        OBVIOUS
      <3>1. notes[inside.note].center \in Centers  BY <1>1, <2>5, HandlersAre
      <3> QED  BY <1>15, <1>23, <2>5, <3>1 DEF NoteCalm
    <2>7. IsInside("action") => after[inside.note].actions = inside.actions
      BY <1>23, <2>5 DEF NoteCalm
    <2>8. desktop' = desktop  BY <1>6, <2>1
    <2> QED  BY <1>6, <1>7, <2>2, <2>3, <2>4, <2>6, <2>7, <2>8 DEF NoteCalm
  <1>24. strayed => strayed'  BY <1>6 DEF Strays
  <1> QED  BY <1>1, <1>3, <1>17, <1>18, <1>19, <1>20, <1>21, <1>22, <1>23, <1>24 DEF NoteInv

LEMMA ClosedKeepsNoteInv ==
    ASSUME NoteInv, NEW n \in DOMAIN notes, Closed(n)
    PROVE  NoteInv'
  <1> DEFINE h == notes[n].handlers
  <1>1. /\ NotesType /\ InsideType /\ LeftInv /\ KeyInv /\ CenterInv /\ HandlerInv /\ ToldInv
        /\ CallingInv /\ (strayed \/ NoteCalm)
    BY DEF NoteInv
  <1>2. /\ Spend("close") /\ inside = Outside /\ notes[n].shown
        /\ inside' = [kind |-> "closed", note |-> n, todo |-> h]
        /\ UNCHANGED <<strayed, centers, ready, notes, replaceIndex, toldClosed>>
    BY DEF Closed, noteState
  <1>3. LeftInv' /\ \A k \in Nat : Sent(k) => Sent(k)'  BY <1>1, <1>2, SpendKeepsLeft
  <1>4. /\ \A m \in DOMAIN notes : \A i \in DOMAIN notes[m].handlers : notes[m].handlers[i] \in Nat
        /\ \A j \in DOMAIN toldClosed : toldClosed[j] \in Nat
    BY <1>1, NotesAre
  <1>5. h \in Seq(Nat) /\ h # <<>>  BY <1>1, HandlersAre DEF HandlerInv
  <1>6. /\ ~ IsInside("closed") /\ \A m : ~ Calling(m) /\ \A k : ~ Pending(k)
        /\ \A k : Told(k)' = Told(k)
    BY <1>2 DEF IsInside, Calling, Pending, Outside, Told
  <1>7. NotesType' /\ KeyInv' /\ CenterInv'  BY <1>1, <1>2 DEF NotesType, KeyInv, CenterInv
  <1> HIDE DEF h
  <1>8. /\ InsideType' /\ IsInside("closed")' /\ ~ IsInside("action")'
        /\ inside'.todo = h /\ inside'.note = n
    BY <1>2, <1>5 DEF InsideType, IsInside
  <1>9. HandlerInv'  BY <1>1, <1>2, <1>3, <1>4 DEF HandlerInv
  <1>10. ToldInv'  BY <1>1, <1>2, <1>3, <1>4, <1>6 DEF ToldInv
  <1>11. CallingInv'
    <2>1. \A i \in DOMAIN h : ~ Told(h[i])  BY <1>1, <1>2, <1>6 DEF ToldInv, h
    <2>2. \A i, j \in DOMAIN h : h[i] = h[j] => i = j  BY <1>1 DEF HandlerInv, h
    <2>3. \A j \in DOMAIN h : \E i \in DOMAIN notes[n].handlers : notes[n].handlers[i] = h[j]
      BY DEF h
    <2> QED  BY <1>2, <1>5, <1>6, <1>8, <2>1, <2>2, <2>3 DEF CallingInv
  <1>12. ASSUME NoteCalm
         PROVE  NoteCalm'
    <2>2. ASSUME NEW m \in DOMAIN notes
          PROVE  \/ notes[m].kept /\ ~ Calling(m)'
                 \/ centers[notes[m].center].gone
                 \/ \A i \in DOMAIN notes[m].handlers :
                        Told(notes[m].handlers[i]) \/ \E j \in DOMAIN h : h[j] = notes[m].handlers[i]
      <3>1. CASE m = n  BY <3>1 DEF h
      <3>2. CASE m # n
        <4>1. ~ Calling(m)'  BY <1>8, <3>2 DEF Calling
        <4> QED  BY <1>6, <1>12, <4>1 DEF NoteCalm
      <3> QED  BY <3>1, <3>2
    <2>3. ~ centers[notes[n].center].gone  BY <1>1, <1>2 DEF CenterInv
    <2> QED  BY <1>2, <1>6, <1>8, <1>12, <2>2, <2>3 DEF NoteCalm, Told, Pending
  <1> QED  BY <1>1, <1>2, <1>3, <1>7, <1>8, <1>9, <1>10, <1>11, <1>12 DEF NoteInv

LEMMA ActKeepsNoteInv ==
    ASSUME NoteInv, NEW n \in DOMAIN notes, Act(n)
    PROVE  NoteInv'
  <1>1. /\ NotesType /\ InsideType /\ LeftInv /\ KeyInv /\ CenterInv /\ HandlerInv /\ ToldInv
        /\ CallingInv /\ (strayed \/ NoteCalm)
    BY DEF NoteInv
  <1>2. /\ Spend("act") /\ inside = Outside
        /\ inside' = [kind |-> "action", note |-> n, actions |-> notes[n].actions]
        /\ UNCHANGED <<strayed, centers, ready, notes, replaceIndex, toldClosed>>
    BY DEF Act, noteState
  <1>3. LeftInv' /\ \A k \in Nat : Sent(k) => Sent(k)'  BY <1>1, <1>2, SpendKeepsLeft
  <1>4. /\ \A m \in DOMAIN notes : \A i \in DOMAIN notes[m].handlers : notes[m].handlers[i] \in Nat
        /\ \A j \in DOMAIN toldClosed : toldClosed[j] \in Nat
    BY <1>1, NotesAre
  <1>5. /\ ~ IsInside("closed") /\ ~ IsInside("closed")'
        /\ \A m : ~ Calling(m) /\ ~ Calling(m)' /\ \A k : ~ Pending(k) /\ ~ Pending(k)'
        /\ \A k : Told(k)' = Told(k)
    BY <1>2 DEF IsInside, Calling, Pending, Outside, Told
  <1>6. notes[n].actions \in Nat  BY <1>1, HandlersAre DEF NoteType
  <1>7. NotesType' /\ KeyInv' /\ CenterInv'  BY <1>1, <1>2 DEF NotesType, KeyInv, CenterInv
  <1>8. InsideType'  BY <1>2, <1>6 DEF InsideType
  <1>9. HandlerInv'  BY <1>1, <1>2, <1>3, <1>4 DEF HandlerInv
  <1>10. ToldInv'  BY <1>1, <1>2, <1>3, <1>4, <1>5 DEF ToldInv
  <1>11. CallingInv'  BY <1>5 DEF CallingInv
  <1>12. ASSUME NoteCalm
         PROVE  NoteCalm'
    BY <1>2, <1>5, <1>12 DEF NoteCalm
  <1> QED  BY <1>1, <1>2, <1>3, <1>7, <1>8, <1>9, <1>10, <1>11, <1>12 DEF NoteInv

LEMMA ActReturnKeepsNoteInv ==
    ASSUME NoteInv, ActReturns
    PROVE  NoteInv' /\ (strayed' \/ desktop' = desktop)
  <1>1. /\ UNCHANGED <<left, strayed, noteState>> /\ IsInside("action") /\ inside' = Outside
        /\ Reads(notes[inside.note].actions = inside.actions)
    BY DEF ActReturns
  <1>2. LeftInv' /\ InsideType' /\ \A k \in Nat : Sent(k) => Sent(k)'
    BY <1>1 DEF NoteInv, LeftInv, InsideType, Sent
  <1>3. inside.kind # "closed" /\ inside'.kind # "closed" /\ inside'.kind # "action"
    BY <1>1 DEF IsInside, Outside
  <1>4. NoteInv'  BY <1>1, <1>2, <1>3, NoteFrame
  <1> QED  BY <1>1, <1>4 DEF NoteInv, NoteCalm, Reads

LEMMA FirstGone ==
    ASSUME NEW S, NEW s \in Seq(S), s # <<>>, NEW t, t = Tail(s),
           \A i, j \in DOMAIN s : s[i] = s[j] => i = j
    PROVE  /\ t \in Seq(S) /\ Head(s) \in S /\ Head(s) = s[1] /\ 1 \in DOMAIN s
           /\ \A j \in DOMAIN t : j + 1 \in DOMAIN s /\ t[j] = s[j + 1] /\ t[j] # Head(s)
           /\ \A i \in DOMAIN s : s[i] = Head(s) \/ \E j \in DOMAIN t : t[j] = s[i]
           /\ \A i, j \in DOMAIN t : t[i] = t[j] => i = j
  <1>1. /\ t \in Seq(S) /\ Head(s) \in S /\ Head(s) = s[1] /\ 1 \in DOMAIN s
        /\ Len(t) = Len(s) - 1
        /\ \A j \in DOMAIN t : j \in Nat /\ j + 1 \in DOMAIN s /\ t[j] = s[j + 1]
    OBVIOUS
  <1>2. \A j \in DOMAIN t : t[j] # Head(s)  BY <1>1
  <1>3. ASSUME NEW i \in DOMAIN s, s[i] # Head(s)
        PROVE  \E j \in DOMAIN t : t[j] = s[i]
    <2>1. i # 1 /\ i \in 1..Len(s) /\ Len(s) \in Nat  BY <1>1, <1>3
    <2>2. i - 1 \in DOMAIN t /\ (i - 1) + 1 = i  BY <1>1, <2>1
    <2> QED  BY <1>1, <2>2
  <1>4. \A i, j \in DOMAIN t : t[i] = t[j] => i = j  BY <1>1
  <1> QED  BY <1>1, <1>2, <1>3, <1>4

LEMMA StillCalling ==
    ASSUME NEW N, NEW x \in [kind : {"closed"}, note : N, todo : Seq(Nat)], NEW r
    PROVE  [x EXCEPT !.todo = r] = [kind |-> "closed", note |-> x.note, todo |-> r]
  OBVIOUS

LEMMA HandlerKeepsNoteInv ==
    ASSUME NoteInv, HandlerReturns
    PROVE  NoteInv' /\ (strayed' \/ desktop' = desktop)
  <1> DEFINE n == inside.note
             todo == inside.todo
             rest == Tail(todo)
             first == Head(todo)
             at == <<notes[n].center, notes[n].key>>
  <1>1. /\ NotesType /\ InsideType /\ LeftInv /\ KeyInv /\ CenterInv /\ HandlerInv /\ ToldInv
        /\ CallingInv /\ (strayed \/ NoteCalm)
    BY DEF NoteInv
  <1>2. /\ IsInside("closed") /\ n \in DOMAIN notes /\ todo \in Seq(Nat)
        /\ inside \in [kind : {"closed"}, note : DOMAIN notes, todo : Seq(Nat)]
    BY <1>1 DEF HandlerReturns, InsideType, IsInside, Outside
  <1>3. /\ UNCHANGED <<left, strayed, centers, ready>>
        /\ Reads(~ centers[notes[n].center].gone)
        /\ toldClosed' = Append(toldClosed, first)
        /\ replaceIndex' = Unindexed(n)
        /\ notes' = [notes EXCEPT ![n].kept = FALSE,
                                  ![n].shown = notes[n].shown /\ rest # <<>>]
        /\ inside' = IF rest = <<>> THEN Outside
                     ELSE [kind |-> "closed", note |-> n, todo |-> rest]
    <2>1. inside' = IF rest = <<>> THEN Outside ELSE [inside EXCEPT !.todo = rest]
      BY DEF HandlerReturns
    <2>2. [inside EXCEPT !.todo = rest] = [kind |-> "closed", note |-> n, todo |-> rest]
      <3> HIDE DEF rest
      <3> QED  BY <1>2, StillCalling
    <2>3. notes' = [notes EXCEPT ![n].kept = FALSE,
                                 ![n].shown = notes[n].shown /\ rest # <<>>]
      BY <1>1, HandlersAre DEF HandlerReturns, NoteType
    <2> QED  BY <2>1, <2>2, <2>3 DEF HandlerReturns
  <1>4. n \in Nat /\ n # 0 /\ notes[n] \in NoteType /\ notes \in Seq(NoteType)
    BY <1>1, <1>2, NotesAre DEF NotesType
  <1>5. /\ todo # <<>> /\ \A i, j \in DOMAIN todo : todo[i] = todo[j] => i = j
        /\ \A j \in DOMAIN todo :
               /\ ~ Told(todo[j])
               /\ \E i \in DOMAIN notes[n].handlers : notes[n].handlers[i] = todo[j]
    BY <1>1, <1>2 DEF CallingInv
  <1>6. at = <<notes[n].center, notes[n].key>>  OBVIOUS
  <1> HIDE DEF n, todo, at
  <1>7. /\ rest \in Seq(Nat) /\ first \in Nat /\ first = todo[1] /\ 1 \in DOMAIN todo
        /\ \A j \in DOMAIN rest :
               j + 1 \in DOMAIN todo /\ rest[j] = todo[j + 1] /\ rest[j] # first
        /\ \A i \in DOMAIN todo : todo[i] = first \/ \E j \in DOMAIN rest : rest[j] = todo[i]
        /\ \A i, j \in DOMAIN rest : rest[i] = rest[j] => i = j
    BY <1>2, <1>5, FirstGone
  <1> DEFINE note == [notes[n] EXCEPT !.kept = FALSE, !.shown = notes[n].shown /\ rest # <<>>]
  <1>8. /\ note \in NoteType /\ ~ note.kept /\ note.handlers = notes[n].handlers
        /\ note.center = notes[n].center /\ note.key = notes[n].key
        /\ note.actions = notes[n].actions
        /\ note.shown => notes[n].shown /\ rest # <<>>
    <2> DEFINE x == notes[n]
               some == x.shown /\ rest # <<>>
               y == [x EXCEPT !.kept = FALSE]
               z == [y EXCEPT !.shown = some]
    <2>1. x \in NoteType /\ some \in BOOLEAN /\ (some => x.shown /\ rest # <<>>)
      BY <1>4 DEF NoteType
    <2>2. note = z  OBVIOUS
    <2> HIDE DEF x, some, note
    <2>3. /\ y \in NoteType /\ ~ y.kept /\ y.handlers = x.handlers /\ y.center = x.center
          /\ y.key = x.key /\ y.actions = x.actions
      BY <2>1 DEF NoteType
    <2> HIDE DEF y
    <2>4. /\ z \in NoteType /\ ~ z.kept /\ z.handlers = x.handlers /\ z.center = x.center
          /\ z.key = x.key /\ z.actions = x.actions /\ z.shown = some
      BY <2>1, <2>3 DEF NoteType
    <2> HIDE DEF z
    <2>5. x = notes[n]  BY DEF x
    <2> QED  BY <2>1, <2>2, <2>4, <2>5
  <1>9. notes' = [notes EXCEPT ![n] = note]  BY <1>2, <1>3, <1>4
  <1> HIDE DEF note, rest, first
  <1>10. /\ notes' \in Seq(NoteType) /\ DOMAIN notes' = DOMAIN notes /\ notes'[n] = note
         /\ \A m \in DOMAIN notes : m # n => notes'[m] = notes[m]
    BY <1>2, <1>4, <1>8, <1>9, Replaced
  <1>11. \A m \in DOMAIN notes :
             /\ notes'[m].handlers = notes[m].handlers /\ notes'[m].center = notes[m].center
             /\ notes'[m].key = notes[m].key /\ notes'[m].actions = notes[m].actions
             /\ notes'[m].kept => notes[m].kept /\ m # n
             /\ notes'[m].shown => notes[m].shown /\ (m = n => rest # <<>>)
    BY <1>8, <1>10
  <1>12. /\ \A m \in DOMAIN notes : \A i \in DOMAIN notes[m].handlers : notes[m].handlers[i] \in Nat
         /\ \A j \in DOMAIN toldClosed : toldClosed[j] \in Nat
         /\ toldClosed \in Seq(Nat)
    BY <1>1, NotesAre DEF NotesType
  <1>13. /\ toldClosed' \in Seq(Nat) /\ Len(toldClosed') = Len(toldClosed) + 1
         /\ \A j \in DOMAIN toldClosed' :
                \/ j = Len(toldClosed) + 1 /\ toldClosed'[j] = first
                \/ j \in DOMAIN toldClosed /\ toldClosed'[j] = toldClosed[j]
         /\ \A j \in DOMAIN toldClosed : j \in DOMAIN toldClosed' /\ toldClosed'[j] = toldClosed[j]
    <2>1. toldClosed \in Seq(Nat) /\ first \in Nat /\ toldClosed' = Append(toldClosed, first)
      BY <1>3, <1>7, <1>12
    <2> QED  BY <2>1, Appended
  <1>14. \A k : Told(k)' <=> (Told(k) \/ k = first)
    <2>1. Len(toldClosed) + 1 \in DOMAIN toldClosed'
          /\ toldClosed'[Len(toldClosed) + 1] = first
      BY <1>3, <1>7, <1>12
    <2> QED  BY <1>13, <2>1 DEF Told
  <1>15. ~ Told(first) /\ \A k \in Nat : Sent(k)' = Sent(k)  BY <1>3, <1>5, <1>7 DEF Sent
  <1>16. PICK f \in DOMAIN notes[n].handlers : notes[n].handlers[f] = first  BY <1>5, <1>7
  <1>17. Sent(first)  BY <1>1, <1>2, <1>16 DEF HandlerInv
  <1>18. \A m \in DOMAIN notes : m # n => \A i \in DOMAIN notes[m].handlers : notes[m].handlers[i] # first
    BY <1>1, <1>2, <1>16 DEF HandlerInv
  <1>19. /\ replaceIndex' \in [Centers \X Keys -> Nat]
         /\ \A x \in Centers \X Keys :
                replaceIndex'[x] = 0 \/ (replaceIndex'[x] = replaceIndex[x] /\ replaceIndex[x] # n)
         /\ \A x \in Centers \X Keys : replaceIndex'[x] # replaceIndex[x] =>
                notes[n].kept /\ notes[n].key # NoKey /\ x = at
    <2>1. CASE notes[n].kept /\ notes[n].key # NoKey
      <3>1. replaceIndex' = [replaceIndex EXCEPT ![at] = 0]  BY <1>3, <1>6, <2>1 DEF Unindexed
      <3>2. at \in Centers \X Keys /\ replaceIndex \in [Centers \X Keys -> Nat]
        BY <1>1, <1>2, <1>6, <2>1, HandlersAre DEF NotesType
      <3>3. \A x \in Centers \X Keys : replaceIndex[x] = n => x = at
        <4>1. ASSUME NEW x \in Centers \X Keys, replaceIndex[x] = n
              PROVE  x = at
          <5>1. notes[n].center = x[1] /\ notes[n].key = x[2]  BY <1>1, <1>4, <4>1 DEF KeyInv
          <5> QED  BY <1>6, <4>1, <5>1
        <4> QED  BY <4>1
      <3> QED  BY <1>4, <2>1, <3>1, <3>2, <3>3
    <2>2. CASE ~ (notes[n].kept /\ notes[n].key # NoKey)
      <3>1. replaceIndex' = replaceIndex  BY <1>3, <2>2 DEF Unindexed
      <3>2. ASSUME NEW x \in Centers \X Keys, replaceIndex[x] = n
            PROVE  FALSE
        <4>1. notes[n].kept /\ notes[n].key = x[2] /\ x[2] \in Keys  BY <1>1, <1>4, <3>2 DEF KeyInv
        <4> QED  BY <2>2, <4>1, DesktopBounds
      <3> QED  BY <1>1, <3>1, <3>2 DEF NotesType
    <2> QED  BY <2>1, <2>2
  <1>20. NotesType' /\ LeftInv'  BY <1>1, <1>3, <1>10, <1>13, <1>19 DEF NotesType, LeftInv
  <1>21. /\ rest = <<>> => inside' = Outside
         /\ rest # <<>> => inside' = [kind |-> "closed", note |-> n, todo |-> rest]
    BY <1>3
  <1>22. InsideType'  BY <1>2, <1>7, <1>10, <1>21 DEF InsideType
  <1>23. /\ IsInside("closed")' <=> rest # <<>>
         /\ \A m : Calling(m)' <=> (rest # <<>> /\ m = n)
         /\ \A k : Pending(k)' <=> (rest # <<>> /\ \E j \in DOMAIN rest : rest[j] = k)
         /\ rest # <<>> => inside'.note = n /\ inside'.todo = rest
         /\ ~ IsInside("action")'
    BY <1>21 DEF IsInside, Calling, Pending, Outside
  <1>24. KeyInv'
    <2>1. ASSUME NEW x \in Centers \X Keys, replaceIndex'[x] # 0
          PROVE  /\ replaceIndex'[x] \in DOMAIN notes'
                 /\ notes'[replaceIndex'[x]].kept
                 /\ notes'[replaceIndex'[x]].center = x[1] /\ notes'[replaceIndex'[x]].key = x[2]
      <3>1. replaceIndex'[x] = replaceIndex[x] /\ replaceIndex[x] # n  BY <1>19, <2>1
      <3>2. /\ replaceIndex[x] \in DOMAIN notes /\ notes[replaceIndex[x]].kept
            /\ notes[replaceIndex[x]].center = x[1] /\ notes[replaceIndex[x]].key = x[2]
        BY <1>1, <2>1, <3>1 DEF KeyInv
      <3> QED  BY <1>10, <3>1, <3>2
    <2> QED  BY <2>1 DEF KeyInv
  <1>25. CenterInv'
    <2>1. UNCHANGED centers  BY <1>3
    <2> QED  BY <1>1, <1>10, <1>11, <2>1 DEF CenterInv
  <1>26. HandlerInv'
    <2>1. UNCHANGED left  BY <1>3
    <2> QED  BY <1>1, <1>10, <1>11, <2>1 DEF HandlerInv, Sent
  <1>27. ToldInv'
    <2>1. UNCHANGED left  BY <1>3
    <2>2. ASSUME NEW j \in DOMAIN toldClosed'
          PROVE  Sent(toldClosed'[j])
      BY <1>1, <1>13, <1>17, <2>2 DEF ToldInv
    <2>3. ASSUME NEW i \in DOMAIN toldClosed', NEW j \in DOMAIN toldClosed',
                 toldClosed'[i] = toldClosed'[j]
          PROVE  i = j
      BY <1>1, <1>13, <1>15, <2>3 DEF ToldInv, Told
    <2>4. ASSUME NEW m \in DOMAIN notes,
                 notes'[m].kept \/ (notes'[m].shown /\ ~ (rest # <<>> /\ m = n)),
                 NEW i \in DOMAIN notes[m].handlers
          PROVE  ~ (Told(notes[m].handlers[i]) \/ notes[m].handlers[i] = first)
      <3>1. m # n  BY <1>11, <2>4
      <3>2. notes[m].kept \/ (notes[m].shown /\ ~ Calling(m))  BY <1>11, <2>4, <3>1 DEF Calling, n
      <3> QED  BY <1>1, <1>18, <2>4, <3>1, <3>2 DEF ToldInv
    <2>5. \A m \in DOMAIN notes' :
              notes'[m].kept \/ (notes'[m].shown /\ ~ Calling(m)') =>
                  \A i \in DOMAIN notes'[m].handlers :
                      ~ (Told(notes'[m].handlers[i]) \/ notes'[m].handlers[i] = first)
      BY <1>10, <1>11, <1>23, <2>4
    <2> QED  BY <1>14, <2>1, <2>2, <2>3, <2>5 DEF ToldInv, Sent
  <1>28. CallingInv'
    <2>1. \A j \in DOMAIN rest : ~ (Told(rest[j]) \/ rest[j] = first)  BY <1>5, <1>7
    <2>2. \A j \in DOMAIN rest : \E i \in DOMAIN notes'[n].handlers : notes'[n].handlers[i] = rest[j]
      <3>1. ASSUME NEW j \in DOMAIN rest
            PROVE  \E i \in DOMAIN notes'[n].handlers : notes'[n].handlers[i] = rest[j]
        <4>1. j + 1 \in DOMAIN todo /\ todo[j + 1] = rest[j]  BY <1>7, <3>1
        <4>2. notes'[n].handlers = notes[n].handlers  BY <1>2, <1>11
        <4> QED  BY <1>5, <4>1, <4>2
      <3> QED  BY <3>1
    <2>3. CASE rest = <<>>  BY <1>23, <2>3 DEF CallingInv
    <2>4. CASE rest # <<>>
      <3>1. inside'.note = n /\ inside'.todo = rest  BY <1>23, <2>4
      <3>2. \A i, j \in DOMAIN rest : rest[i] = rest[j] => i = j  BY <1>7
      <3>3. \A j \in DOMAIN rest : ~ \E i \in DOMAIN toldClosed' : toldClosed'[i] = rest[j]
        BY <1>14, <2>1 DEF Told
      <3> QED  BY <2>2, <2>4, <3>1, <3>2, <3>3 DEF CallingInv, Told
    <2> QED  BY <2>3, <2>4
  <1>29. ASSUME NoteCalm
         PROVE  NoteCalm' /\ desktop' = desktop
    <2>1. /\ \A m \in DOMAIN notes : notes[m].kept /\ notes[m].key # NoKey =>
                 replaceIndex[<<notes[m].center, notes[m].key>>] = m
          /\ \A m \in DOMAIN notes :
                 \/ notes[m].kept /\ ~ Calling(m)
                 \/ centers[notes[m].center].gone
                 \/ \A i \in DOMAIN notes[m].handlers :
                        Told(notes[m].handlers[i]) \/ Pending(notes[m].handlers[i])
          /\ ~ centers[notes[n].center].gone
      BY <1>2, <1>29 DEF NoteCalm, n
    <2>2. desktop' = desktop /\ UNCHANGED centers  BY <1>3, <2>1 DEF Reads
    <2>3. ASSUME NEW m \in DOMAIN notes, notes'[m].kept, notes[m].key # NoKey
          PROVE  replaceIndex'[<<notes[m].center, notes[m].key>>] = m
      <3> DEFINE x == <<notes[m].center, notes[m].key>>
      <3>1. m # n /\ notes[m].kept /\ replaceIndex[x] = m  BY <1>11, <2>1, <2>3
      <3>2. x \in Centers \X Keys  BY <1>1, <2>3, HandlersAre
      <3>3. notes[n].kept /\ notes[n].key # NoKey => replaceIndex[at] = n  BY <1>2, <1>6, <2>1
      <3> HIDE DEF x
      <3>4. replaceIndex'[x] = m  BY <1>19, <3>1, <3>2, <3>3
      <3> QED  BY <3>4 DEF x
    <2>4. \A k \in Nat : Pending(k) =>
              k = first \/ (rest # <<>> /\ \E j \in DOMAIN rest : rest[j] = k)
      <3>1. ASSUME NEW k \in Nat, Pending(k)
            PROVE  k = first \/ (rest # <<>> /\ \E j \in DOMAIN rest : rest[j] = k)
        <4>1. PICK i \in DOMAIN todo : todo[i] = k  BY <3>1 DEF Pending, todo
        <4>2. CASE k # first
          <5>1. PICK j \in DOMAIN rest : rest[j] = k  BY <1>7, <4>1, <4>2
          <5>2. rest # <<>>  BY <5>1
          <5> QED  BY <5>1, <5>2
        <4> QED  BY <4>2
      <3> QED  BY <3>1
    <2>5. ASSUME NEW m \in DOMAIN notes
          PROVE  \/ notes'[m].kept /\ ~ (rest # <<>> /\ m = n)
                 \/ centers[notes[m].center].gone
                 \/ \A i \in DOMAIN notes[m].handlers :
                        \/ Told(notes[m].handlers[i]) \/ notes[m].handlers[i] = first
                        \/ rest # <<>> /\ \E j \in DOMAIN rest : rest[j] = notes[m].handlers[i]
      <3>1. CASE m = n
        <4>1. Calling(m) /\ ~ centers[notes[m].center].gone  BY <1>2, <2>1, <3>1 DEF Calling, n
        <4>2. \A i \in DOMAIN notes[m].handlers :
                  Told(notes[m].handlers[i]) \/ Pending(notes[m].handlers[i])
          BY <2>1, <4>1
        <4> QED  BY <1>12, <2>4, <4>2
      <3>2. CASE m # n
        <4>1. notes'[m].kept = notes[m].kept  BY <1>10, <3>2
        <4>2. CASE \A i \in DOMAIN notes[m].handlers :
                       Told(notes[m].handlers[i]) \/ Pending(notes[m].handlers[i])
          BY <1>12, <2>4, <4>2
        <4> QED  BY <2>1, <3>2, <4>1, <4>2
      <3> QED  BY <3>1, <3>2
    <2>6. /\ \A m \in DOMAIN notes' : notes'[m].kept /\ notes'[m].key # NoKey =>
                 replaceIndex'[<<notes'[m].center, notes'[m].key>>] = m
          /\ \A m \in DOMAIN notes' :
                 \/ notes'[m].kept /\ ~ Calling(m)'
                 \/ centers'[notes'[m].center].gone
                 \/ \A i \in DOMAIN notes'[m].handlers :
                        \/ Told(notes'[m].handlers[i]) \/ notes'[m].handlers[i] = first
                        \/ rest # <<>> /\ \E j \in DOMAIN rest : rest[j] = notes'[m].handlers[i]
      BY <1>10, <1>11, <1>23, <2>2, <2>3, <2>5
    <2>7. IsInside("closed")' => ~ centers'[notes'[inside'.note].center].gone
      BY <1>2, <1>11, <1>23, <2>1, <2>2
    <2> QED  BY <1>14, <1>23, <2>2, <2>6, <2>7 DEF NoteCalm
  <1> QED  BY <1>1, <1>3, <1>20, <1>22, <1>24, <1>25, <1>26, <1>27, <1>28, <1>29 DEF NoteInv

LEMMA DropCenterKeepsNoteInv ==
    ASSUME NoteInv, NEW c \in Centers, DropCenter(c)
    PROVE  NoteInv'
  <1>1. /\ NotesType /\ InsideType /\ LeftInv /\ KeyInv /\ CenterInv /\ HandlerInv /\ ToldInv
        /\ CallingInv /\ (strayed \/ NoteCalm)
    BY DEF NoteInv
  <1>2. /\ Spend("drop") /\ ~ centers[c].gone /\ UNCHANGED <<inside, toldClosed>>
        /\ Strays(IsInside("closed"))
        /\ ready' = (ready /\ ~ centers[c].initialized)
        /\ replaceIndex' = [at \in Centers \X Keys |-> IF at[1] = c THEN 0 ELSE replaceIndex[at]]
    BY DEF DropCenter
  <1>3. LeftInv' /\ \A k \in Nat : Sent(k) => Sent(k)'  BY <1>1, <1>2, SpendKeepsLeft
  <1>4. /\ \A m \in DOMAIN notes : \A i \in DOMAIN notes[m].handlers : notes[m].handlers[i] \in Nat
        /\ \A j \in DOMAIN toldClosed : toldClosed[j] \in Nat
    BY <1>1, NotesAre
  <1>5. /\ centers' \in [Centers -> [initialized : BOOLEAN, gone : BOOLEAN]]
        /\ centers'[c].gone /\ ~ centers'[c].initialized
        /\ \A x \in Centers : x # c => centers'[x] = centers[x]
    <2>1. centers' = [centers EXCEPT ![c] = [initialized |-> FALSE, gone |-> TRUE]]
      BY DEF DropCenter
    <2> QED  BY <1>1, <2>1 DEF NotesType
  <1> DEFINE after(m) == [notes[m] EXCEPT !.kept = notes[m].kept /\ notes[m].center # c,
                                          !.shown = notes[m].shown /\ ~ centers[c].initialized]
  <1>6. /\ notes' = [m \in DOMAIN notes |-> after(m)]
        /\ notes \in Seq(NoteType)
    <2>1. \A m \in DOMAIN notes :
              [notes[m] EXCEPT !.kept = @ /\ notes[m].center # c,
                               !.shown = @ /\ ~ centers[c].initialized] = after(m)
      BY <1>1, HandlersAre DEF NoteType
    <2> QED  BY <1>1, <2>1 DEF DropCenter, NotesType
  <1>7. ASSUME NEW m \in DOMAIN notes
        PROVE  /\ after(m) \in NoteType /\ after(m).handlers = notes[m].handlers
               /\ after(m).center = notes[m].center /\ after(m).key = notes[m].key
               /\ after(m).actions = notes[m].actions
               /\ after(m).kept <=> notes[m].kept /\ notes[m].center # c
               /\ after(m).shown <=> notes[m].shown /\ ~ centers[c].initialized
    <2> DEFINE x == notes[m]
               keeps == x.kept /\ x.center # c
               shows == x.shown /\ ~ centers[c].initialized
               y == [x EXCEPT !.kept = keeps]
               z == [y EXCEPT !.shown = shows]
    <2>1. /\ x \in NoteType /\ keeps \in BOOLEAN /\ shows \in BOOLEAN
          /\ (keeps <=> notes[m].kept /\ notes[m].center # c)
          /\ (shows <=> notes[m].shown /\ ~ centers[c].initialized)
      BY <1>1, HandlersAre
    <2>2. after(m) = z /\ x = notes[m]  OBVIOUS
    <2> HIDE DEF x, keeps, shows, after
    <2>3. /\ y \in NoteType /\ y.kept = keeps /\ y.handlers = x.handlers /\ y.center = x.center
          /\ y.key = x.key /\ y.actions = x.actions
      BY <2>1 DEF NoteType
    <2> HIDE DEF y
    <2>4. /\ z \in NoteType /\ z.kept = keeps /\ z.handlers = x.handlers /\ z.center = x.center
          /\ z.key = x.key /\ z.actions = x.actions /\ z.shown = shows
      BY <2>1, <2>3 DEF NoteType
    <2> HIDE DEF z
    <2> QED  BY <2>1, <2>2, <2>4
  <1> HIDE DEF after
  <1>8. /\ notes' \in Seq(NoteType) /\ DOMAIN notes' = DOMAIN notes
        /\ \A m \in DOMAIN notes :
               /\ notes'[m].handlers = notes[m].handlers /\ notes'[m].center = notes[m].center
               /\ notes'[m].key = notes[m].key /\ notes'[m].actions = notes[m].actions
               /\ notes'[m].kept <=> notes[m].kept /\ notes[m].center # c
               /\ notes'[m].shown <=> notes[m].shown /\ ~ centers[c].initialized
    <2>1. Len(notes) \in Nat /\ DOMAIN notes = 1..Len(notes)  BY <1>6
    <2>2. \A m \in DOMAIN notes : after(m) \in NoteType  BY <1>7
    <2>3. notes' \in Seq(NoteType) /\ DOMAIN notes' = DOMAIN notes
          /\ \A m \in DOMAIN notes : notes'[m] = after(m)
      BY <1>6, <2>1, <2>2
    <2> QED  BY <1>7, <2>3
  <1>9. /\ replaceIndex' \in [Centers \X Keys -> Nat]
        /\ \A x \in Centers \X Keys :
               replaceIndex'[x] = IF x[1] = c THEN 0 ELSE replaceIndex[x]
    BY <1>1, <1>2 DEF NotesType
  <1>10. NotesType' /\ InsideType'  BY <1>1, <1>2, <1>5, <1>8, <1>9 DEF NotesType, InsideType
  <1>11. KeyInv'  BY <1>1, <1>8, <1>9 DEF KeyInv
  <1>12. CenterInv'
    <2>1. ASSUME NEW m \in DOMAIN notes
          PROVE  /\ centers'[notes[m].center].initialized \/ centers'[notes[m].center].gone
                 /\ centers'[notes[m].center].gone => ~ notes'[m].shown /\ ~ notes'[m].kept
      <3>1. notes[m].center \in Centers  BY <1>1, HandlersAre
      <3> QED  BY <1>1, <1>2, <1>5, <1>8, <3>1 DEF CenterInv
    <2> QED  BY <1>8, <2>1 DEF CenterInv
  <1>13. HandlerInv'
    <2>1. \A m \in DOMAIN notes : \A i \in DOMAIN notes[m].handlers :
              Sent(notes[m].handlers[i]) /\ notes[m].handlers[i] \in Nat
      BY <1>1, <1>4 DEF HandlerInv
    <2>2. \A k \in Nat : Sent(k) => ("send" \in DOMAIN left' => k > left'["send"])  BY <1>3 DEF Sent
    <2>3. \A m \in DOMAIN notes : \A i \in DOMAIN notes[m].handlers :
              "send" \in DOMAIN left' => notes[m].handlers[i] > left'["send"]
      BY <2>1, <2>2
    <2> QED  BY <1>1, <1>8, <2>3 DEF HandlerInv, Sent
  <1>14. ToldInv'
    <2>1. \A j \in DOMAIN toldClosed : Sent(toldClosed[j])'
      BY <1>1, <1>2, <1>3, <1>4 DEF ToldInv, Sent
    <2> QED  BY <1>1, <1>2, <1>8, <2>1 DEF ToldInv, Told, Calling, IsInside
  <1>15. CallingInv'
    <2>1. IsInside("closed") => inside.note \in DOMAIN notes
      BY <1>1 DEF InsideType, IsInside, Outside
    <2> QED  BY <1>1, <1>2, <1>8, <2>1 DEF CallingInv, Told, IsInside
  <1>16. ASSUME NoteCalm, ~ strayed'
         PROVE  NoteCalm'
    <2>1. ~ IsInside("closed")  BY <1>2, <1>16 DEF Strays
    <2>2. ASSUME NEW m \in DOMAIN notes, notes'[m].kept, notes[m].key # NoKey
          PROVE  replaceIndex'[<<notes[m].center, notes[m].key>>] = m
      <3> DEFINE x == <<notes[m].center, notes[m].key>>
      <3>1. x \in Centers \X Keys /\ x[1] # c  BY <1>1, <1>8, <2>2, HandlersAre
      <3>2. replaceIndex[x] = m  BY <1>8, <1>16, <2>2 DEF NoteCalm
      <3> HIDE DEF x
      <3>3. replaceIndex'[x] = m  BY <1>9, <3>1, <3>2
      <3> QED  BY <3>3 DEF x
    <2>3. ASSUME NEW m \in DOMAIN notes
          PROVE  \/ notes'[m].kept /\ ~ Calling(m)
                 \/ centers'[notes[m].center].gone
                 \/ \A i \in DOMAIN notes[m].handlers :
                        Told(notes[m].handlers[i]) \/ Pending(notes[m].handlers[i])
      <3>1. notes[m].center \in Centers  BY <1>1, HandlersAre
      <3> QED  BY <1>5, <1>8, <1>16, <3>1 DEF NoteCalm
    <2>4. IsInside("action") => notes'[inside.note].actions = inside.actions
      <3>1. IsInside("action") => inside.note \in DOMAIN notes
        BY <1>1 DEF InsideType, IsInside, Outside
      <3> QED  BY <1>8, <1>16, <3>1 DEF NoteCalm
    <2>5. /\ ~ IsInside("closed")' /\ IsInside("action")' = IsInside("action")
          /\ \A m : Calling(m)' = Calling(m)
          /\ \A k : Told(k)' = Told(k) /\ Pending(k)' = Pending(k)
      BY <1>2, <2>1 DEF IsInside, Calling, Told, Pending
    <2> QED  BY <1>2, <1>8, <2>2, <2>3, <2>4, <2>5 DEF NoteCalm
  <1>17. strayed => strayed'  BY <1>2 DEF Strays
  <1> QED  BY <1>1, <1>3, <1>10, <1>11, <1>12, <1>13, <1>14, <1>15, <1>16, <1>17 DEF NoteInv

-----------------------------------------------------------------------------
(* All of the desktop.                                                     *)

LEMMA DesktopStart == Opens /\ DesktopInit => DesktopInv
  <1>1. DesktopInit => strayed \in BOOLEAN /\ NothingFreedIsUsed
    BY DEF DesktopInit, NothingFreedIsUsed
  <1> QED  BY <1>1, TrayStart, NoteStart, WatchStart DEF DesktopInv


\* What is not of the tray, and what is not of notifications.
LEMMA TraySteps ==
    ASSUME DesktopInv, NEW h \in Trays,
           \/ CreateTray(h) \/ StartTray(h) \/ ExitTray(h) \/ DropTray(h)
           \/ \E spec \in {"none", "headless", "torn", "whole"} : UpdateTray(h, spec)
    PROVE  DesktopInv'
  <1>1. /\ TrayInv /\ NoteInv /\ WatchInv /\ InsideType /\ LeftInv /\ strayed \in BOOLEAN
        /\ NothingFreedIsUsed
    BY DEF DesktopInv, NoteInv
  <1>2. /\ Spend("tray") /\ UNCHANGED <<inside, noteState, watchState>>
        /\ strayed' \in BOOLEAN /\ (strayed => strayed')
    <2>1. CASE CreateTray(h) \/ ExitTray(h)  BY <1>1, <2>1 DEF CreateTray, ExitTray
    <2>2. CASE StartTray(h)  BY <1>1, <2>2 DEF StartTray, Strays
    <2>3. CASE DropTray(h)  BY <1>1, <2>3 DEF DropTray, Strays
    <2>4. ASSUME NEW spec \in {"none", "headless", "torn", "whole"}, UpdateTray(h, spec)
          PROVE  /\ Spend("tray") /\ UNCHANGED <<inside, noteState, watchState>>
                 /\ strayed' \in BOOLEAN /\ (strayed => strayed')
      BY <1>1, <2>4 DEF UpdateTray, Strays
    <2> QED  BY <2>1, <2>2, <2>3, <2>4
  <1>3. LeftInv' /\ \A k \in Nat : Sent(k) => Sent(k)'  BY <1>1, <1>2, SpendKeepsLeft
  <1>4. InsideType'  BY <1>1, <1>2 DEF InsideType, noteState
  <1>5. NoteInv' /\ WatchInv'  BY <1>1, <1>2, <1>3, <1>4, NoteFrame, WatchFrame
  <1>6. TrayInv' /\ (strayed' \/ desktop' = desktop)
    <2>1. CASE CreateTray(h)  BY <1>1, <2>1, CreateKeepsTrayInv DEF CreateTray
    <2>2. CASE StartTray(h)  BY <1>1, <2>2, StartKeepsTrayInv
    <2>3. CASE ExitTray(h)  BY <1>1, <2>3, ExitKeepsTrayInv DEF ExitTray
    <2>4. CASE DropTray(h)  BY <1>1, <2>4, DropTrayKeepsTrayInv DEF DropTray
    <2>5. ASSUME NEW spec \in {"none", "headless", "torn", "whole"}, UpdateTray(h, spec)
          PROVE  TrayInv' /\ (strayed' \/ desktop' = desktop)
      BY <1>1, <2>5, UpdateKeepsTrayInv
    <2> QED  BY <2>1, <2>2, <2>3, <2>4, <2>5
  <1> QED  BY <1>1, <1>2, <1>5, <1>6 DEF DesktopInv, NothingFreedIsUsed

LEMMA ClickSteps ==
    ASSUME DesktopInv, (\E i \in DOMAIN indicators : Click(i)) \/ ClickReturns
    PROVE  DesktopInv'
  <1>1. /\ TrayInv /\ NoteInv /\ WatchInv /\ InsideType /\ LeftInv /\ strayed \in BOOLEAN
        /\ NothingFreedIsUsed
    BY DEF DesktopInv, NoteInv
  <1>2. ASSUME NEW i \in DOMAIN indicators, Click(i)
        PROVE  DesktopInv'
    <2>1. /\ Spend("click") /\ inside = Outside /\ UNCHANGED <<strayed, noteState, watchState>>
          /\ inside' = [kind |-> "click", menu |-> indicators[i]]
      BY <1>2 DEF Click
    <2>2. LeftInv' /\ \A k \in Nat : Sent(k) => Sent(k)'  BY <1>1, <2>1, SpendKeepsLeft
    <2>3. InsideType'  BY <1>1, <2>1 DEF InsideType, TrayInv, TrayType
    <2>4. inside.kind # "closed" /\ inside'.kind # "closed" /\ inside'.kind # "action"
      BY <2>1 DEF Outside
    <2>5. NoteInv' /\ WatchInv'  BY <1>1, <2>1, <2>2, <2>3, <2>4, NoteFrame, WatchFrame
    <2>6. TrayInv' /\ (strayed' \/ desktop' = desktop)  BY <1>1, <1>2, ClickKeepsTrayInv
    <2> QED  BY <1>1, <2>1, <2>5, <2>6 DEF DesktopInv, NothingFreedIsUsed
  <1>3. CASE ClickReturns
    <2>1. /\ IsInside("click") /\ inside' = Outside
          /\ UNCHANGED <<left, strayed, noteState, watchState>>
      BY <1>3 DEF ClickReturns
    <2>2. LeftInv' /\ InsideType' /\ \A k \in Nat : Sent(k) => Sent(k)'
      BY <1>1, <2>1 DEF LeftInv, InsideType, Sent
    <2>3. inside.kind # "closed" /\ inside'.kind # "closed" /\ inside'.kind # "action"
      BY <2>1 DEF IsInside, Outside
    <2>4. NoteInv' /\ WatchInv'  BY <1>1, <2>1, <2>2, <2>3, NoteFrame, WatchFrame
    <2>5. TrayInv' /\ (strayed' \/ desktop' = desktop)  BY <1>1, <1>3, ClickReturnKeepsTrayInv
    <2> QED  BY <1>1, <2>1, <2>4, <2>5 DEF DesktopInv, NothingFreedIsUsed
  <1> QED  BY <1>2, <1>3

LEMMA NoteSteps ==
    ASSUME DesktopInv,
           \/ HandlerReturns \/ ActReturns
           \/ \E c \in Centers :
                 \/ SendFails(c) \/ DropCenter(c)
                 \/ \E key \in Keys \cup {NoKey} : Send(c, key)
           \/ \E n \in DOMAIN notes : Closed(n) \/ Act(n)
    PROVE  DesktopInv'
  <1>1. /\ TrayInv /\ NoteInv /\ WatchInv /\ InsideType /\ LeftInv /\ strayed \in BOOLEAN
        /\ NothingFreedIsUsed
    BY DEF DesktopInv, NoteInv
  <1>2. /\ UNCHANGED <<trayState, watchState>> /\ strayed' \in BOOLEAN /\ (strayed => strayed')
        /\ inside' = inside \/ inside'.kind # "click"
    <2>1. CASE HandlerReturns
      <3>1. UNCHANGED <<trayState, watchState, strayed>>  BY <2>1 DEF HandlerReturns
      <3>2. \/ inside' = Outside
            \/ inside' = [inside EXCEPT !.todo = Tail(inside.todo)]
        BY <2>1 DEF HandlerReturns
      <3>3. inside \in [kind : {"closed"}, note : DOMAIN notes, todo : Seq(Nat)]
        BY <1>1, <2>1 DEF HandlerReturns, IsInside, InsideType, Outside
      <3>4. [inside EXCEPT !.todo = Tail(inside.todo)].kind = "closed"  BY <3>3
      <3>5. Outside.kind # "click"  BY DEF Outside
      <3>6. inside'.kind # "click"  BY <3>2, <3>4, <3>5
      <3> QED  BY <1>1, <3>1, <3>6
    <2>2. CASE ActReturns  BY <1>1, <2>2 DEF ActReturns, Outside
    <2>3. ASSUME NEW c \in Centers, SendFails(c) \/ DropCenter(c)
          PROVE  /\ UNCHANGED <<trayState, watchState, inside>>
                 /\ strayed' \in BOOLEAN /\ (strayed => strayed')
      BY <1>1, <2>3 DEF SendFails, DropCenter, Strays
    <2>4. ASSUME NEW c \in Centers, NEW key \in Keys \cup {NoKey}, Send(c, key)
          PROVE  /\ UNCHANGED <<trayState, watchState, inside>>
                 /\ strayed' \in BOOLEAN /\ (strayed => strayed')
      BY <1>1, <2>4 DEF Send, Strays
    <2>5. ASSUME NEW n \in DOMAIN notes, Closed(n) \/ Act(n)
          PROVE  /\ UNCHANGED <<trayState, watchState, strayed>> /\ inside'.kind # "click"
      BY <2>5 DEF Closed, Act
    <2> QED  BY <1>1, <2>1, <2>2, <2>3, <2>4, <2>5
  <1>3. TrayInv' /\ WatchInv'  BY <1>1, <1>2, TrayFrame, WatchFrame
  <1>4. NoteInv' /\ (strayed' \/ desktop' = desktop)
    <2>1. CASE HandlerReturns  BY <1>1, <2>1, HandlerKeepsNoteInv
    <2>2. CASE ActReturns  BY <1>1, <2>2, ActReturnKeepsNoteInv
    <2>3. ASSUME NEW c \in Centers, SendFails(c)
          PROVE  NoteInv' /\ (strayed' \/ desktop' = desktop)
      <3>1. Spend("send") /\ UNCHANGED <<desktop, inside, strayed, noteState>>
        BY <2>3 DEF SendFails
      <3>2. LeftInv' /\ \A k \in Nat : Sent(k) => Sent(k)'  BY <1>1, <3>1, SpendKeepsLeft
      <3>3. InsideType'  BY <1>1, <3>1 DEF InsideType, noteState
      <3> QED  BY <1>1, <3>1, <3>2, <3>3, NoteFrame
    <2>4. ASSUME NEW c \in Centers, DropCenter(c)
          PROVE  NoteInv' /\ (strayed' \/ desktop' = desktop)
      BY <1>1, <2>4, DropCenterKeepsNoteInv DEF DropCenter
    <2>5. ASSUME NEW c \in Centers, NEW key \in Keys \cup {NoKey}, Send(c, key)
          PROVE  NoteInv' /\ (strayed' \/ desktop' = desktop)
      BY <1>1, <2>5, SendKeepsNoteInv
    <2>6. ASSUME NEW n \in DOMAIN notes, Closed(n)
          PROVE  NoteInv' /\ (strayed' \/ desktop' = desktop)
      BY <1>1, <2>6, ClosedKeepsNoteInv DEF Closed
    <2>7. ASSUME NEW n \in DOMAIN notes, Act(n)
          PROVE  NoteInv' /\ (strayed' \/ desktop' = desktop)
      BY <1>1, <2>7, ActKeepsNoteInv DEF Act
    <2> QED  BY <2>1, <2>2, <2>3, <2>4, <2>5, <2>6, <2>7
  <1> QED  BY <1>1, <1>2, <1>3, <1>4 DEF DesktopInv, NothingFreedIsUsed

LEMMA WatchSteps ==
    ASSUME DesktopInv,
           \/ \E id \in Watches : AddWatch(id) \/ RemoveWatch(id)
           \/ Notice \/ Queue \/ PollWatches \/ DropWatches
    PROVE  DesktopInv'
  <1>1. /\ TrayInv /\ NoteInv /\ WatchInv /\ InsideType /\ LeftInv /\ strayed \in BOOLEAN
        /\ NothingFreedIsUsed
    BY DEF DesktopInv, NoteInv
  <1>2. /\ UNCHANGED <<desktop, inside, strayed, trayState, noteState>>
        /\ UNCHANGED left \/ Spend("watch") \/ Spend("notice")
    BY DEF AddWatch, RemoveWatch, Notice, Queue, PollWatches, DropWatches
  <1>3. LeftInv' /\ \A k \in Nat : Sent(k) => Sent(k)'
    <2>1. CASE UNCHANGED left  BY <1>1, <2>1 DEF LeftInv, Sent
    <2>2. CASE Spend("watch")  BY <1>1, <2>2, SpendKeepsLeft
    <2>3. CASE Spend("notice")  BY <1>1, <2>3, SpendKeepsLeft
    <2> QED  BY <1>2, <2>1, <2>2, <2>3
  <1>4. InsideType'  BY <1>1, <1>2 DEF InsideType, noteState
  <1>5. TrayInv' /\ NoteInv'  BY <1>1, <1>2, <1>3, <1>4, TrayFrame, NoteFrame
  <1>6. WatchInv'
    BY <1>1, ChoiceKeepsWatchInv, NoticeKeepsWatchInv, QueueKeepsWatchInv, PollKeepsWatchInv,
       DropKeepsWatchInv
  <1> QED  BY <1>1, <1>2, <1>5, <1>6 DEF DesktopInv, NothingFreedIsUsed

LEMMA DesktopStep == DesktopInv /\ [DesktopNext]_<<left, desktopVars>> => DesktopInv'
  <1> SUFFICES ASSUME DesktopInv, [DesktopNext]_<<left, desktopVars>>
               PROVE  DesktopInv'
    OBVIOUS
  <1>1. CASE DesktopNext  BY <1>1, TraySteps, ClickSteps, NoteSteps, WatchSteps DEF DesktopNext
  <1>2. CASE UNCHANGED <<left, desktopVars>>
    <2>1. /\ TrayInv /\ NoteInv /\ WatchInv /\ InsideType /\ LeftInv /\ strayed \in BOOLEAN
          /\ NothingFreedIsUsed
      BY DEF DesktopInv, NoteInv
    <2>2. UNCHANGED <<left, desktop, inside, strayed, trayState, noteState, watchState>>
      BY <1>2 DEF desktopVars
    <2>3. LeftInv' /\ InsideType' /\ \A k \in Nat : Sent(k) => Sent(k)'
      BY <2>1, <2>2 DEF LeftInv, Sent, InsideType, noteState
    <2>4. TrayInv' /\ NoteInv' /\ WatchInv'  BY <2>1, <2>2, <2>3, TrayFrame, NoteFrame, WatchFrame
    <2> QED  BY <2>1, <2>2, <2>4 DEF DesktopInv, NothingFreedIsUsed
  <1> QED  BY <1>1, <1>2

LEMMA DesktopInvMeans == DesktopInv => DesktopAgrees
  <1> SUFFICES ASSUME DesktopInv
               PROVE  DesktopAgrees
    OBVIOUS
  <1>1. TrayInv /\ NoteInv /\ WatchInv /\ NothingFreedIsUsed  BY DEF DesktopInv
  <1>2. ClicksReachTheLastMenu /\ LoopTellsExit
    BY <1>1 DEF TrayInv, TrayCalm, ClicksReachTheLastMenu
  <1>3. KeysReplace
    <2>1. ASSUME NEW at \in Centers \X Keys, replaceIndex[at] # 0
          PROVE  /\ notes[replaceIndex[at]].kept
                 /\ <<notes[replaceIndex[at]].center, notes[replaceIndex[at]].key>> = at
      <3>1. /\ notes[replaceIndex[at]].kept /\ notes[replaceIndex[at]].center = at[1]
            /\ notes[replaceIndex[at]].key = at[2]
        BY <1>1, <2>1 DEF NoteInv, KeyInv
      <3> QED  BY <3>1
    <2>2. strayed \/ \A n \in DOMAIN notes : notes[n].kept /\ notes[n].key # NoKey =>
              replaceIndex[<<notes[n].center, notes[n].key>>] = n
      BY <1>1 DEF NoteInv, NoteCalm
    <2>3. \A i, j \in DOMAIN toldClosed : toldClosed[i] = toldClosed[j] => i = j
      BY <1>1 DEF NoteInv, ToldInv
    <2> QED  BY <2>1, <2>2, <2>3 DEF KeysReplace
  <1>4. ClosedIsTold
    <2>1. \A k : Pending(k) => inside # Outside  BY DEF Pending, IsInside, Outside
    <2> QED  BY <1>1, <2>1 DEF ClosedIsTold, NoteInv, NoteCalm, Told
  <1>5. WatchesTellInOrder  BY <1>1, WatchesInOrder
  <1> QED  BY <1>1, <1>2, <1>3, <1>4, <1>5 DEF DesktopAgrees

\* As long as scripts do what the bindings withstand, nothing freed is used, a click
\* reaches the menu of the last update and every on-close of a closed note is told;
\* and whatever they do, a key stands for a note of its own, no on-close is told
\* twice, an exit is told by the loop and watches tell in order (lua_tray.cpp,
\* lua_notify.cpp, lua_file_watch.cpp).
THEOREM DesktopAlwaysAgrees == DesktopSpec => []DesktopAgrees
  <1>1. DesktopInv => DesktopAgrees  BY DesktopInvMeans
  <1> QED  BY <1>1, DesktopStart, DesktopStep, PTL DEF DesktopSpec
=============================================================================
