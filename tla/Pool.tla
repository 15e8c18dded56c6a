-------------------------------- MODULE Pool --------------------------------
(***************************************************************************)
(* wuy_pool.c: memory that is freed all at once.  Small pieces are carved  *)
(* from the head block; big ones are allocations of their own, each noted  *)
(* in a piece of a block, as the handlers are that the pool calls before   *)
(* it frees anything.                                                      *)
(*                                                                         *)
(* Memory from calloc() is numbered in the order it was given; the pool's  *)
(* own struct is number 0.  calloc() and realloc() are taken to succeed:   *)
(* the code has no other path.                                             *)
(***************************************************************************)
EXTENDS Naturals, SequencesExt

CONSTANTS
  BlockSizes,           \* what pools are made with
  Sizes, Aligns,        \* the callers' requests
  BlockHeader,          \* sizeof(struct wuy_pool_block)
  BigNote, FreeNote,    \* sizeof(struct wuy_pool_big) and wuy_pool_free
  Pointer,              \* sizeof(void *)
  MaxMemory, MaxPieces  \* bounds of the model

\* A piece below half a block fits a block of its own, and a note of a big one
\* is no big one itself.
ASSUME PoolAssumption ==
  /\ BlockSizes \subseteq Nat /\ Sizes \subseteq Nat /\ Aligns \subseteq Nat \ {0}
  /\ BlockHeader \in Nat /\ BigNote \in Nat /\ FreeNote \in Nat /\ Pointer \in Nat \ {0}
  /\ \A b \in BlockSizes : BlockHeader + (b \div 2) =< b + 1 /\ BigNote < b \div 2

VARIABLES
  blockSize,
  given,     \* how often calloc() gave memory
  freed,     \* which of it was freed
  blocks,    \* block_head and the blocks behind it
  offset,    \* of the head block; no other's is looked at
  pieces,    \* carved from the blocks so far
  bigs,      \* big_head: notes of big allocations
  reallocs,  \* realloc_head
  frees,     \* free_head: notes of handlers
  doing      \* "open", or what wuy_pool_destroy() is at

poolVars == <<blockSize, given, freed, blocks, offset, pieces, bigs, reallocs, frees, doing>>

PoolInit ==
  /\ blockSize \in BlockSizes
  /\ given = 0 /\ freed = {} /\ blocks = <<>> /\ offset = 0 /\ pieces = <<>>
  /\ bigs = <<>> /\ reallocs = <<>> /\ frees = <<>> /\ doing = "open"

-----------------------------------------------------------------------------
IsBig(size) == size >= blockSize \div 2

RoundUp(n, align) == IF n % align = 0 THEN n ELSE n + (align - (n % align))

Fits(size, align) == blocks # <<>> /\ RoundUp(offset, align) + size =< blockSize

\* The piece a small request gets, in the head block or in a new one, which is
\* the next memory after the first g.
Piece(size, align, g) ==
  IF Fits(size, align)
  THEN [block |-> blocks[1], from |-> RoundUp(offset, align), size |-> size]
  ELSE [block |-> g + 1, from |-> BlockHeader, size |-> size]

\* Mutant: the offset grows by the size alone.
CarveUnaligned(size, align, g) ==
  LET p == Piece(size, align, g) IN
  /\ pieces' = Append(pieces, p)
  /\ blocks' = IF Fits(size, align) THEN blocks ELSE <<p.block>> \o blocks
  /\ offset' = (IF Fits(size, align) THEN offset ELSE BlockHeader) + size
  /\ given' = IF Fits(size, align) THEN g ELSE g + 1

Carve(size, align, g) ==
  LET p == Piece(size, align, g) IN
  /\ pieces' = Append(pieces, p)
  /\ blocks' = IF Fits(size, align) THEN blocks ELSE <<p.block>> \o blocks
  /\ offset' = p.from + size
  /\ given' = IF Fits(size, align) THEN g ELSE g + 1

\* A note of data that is the next memory; so the block it may take is the one
\* after.
Note == [at |-> Piece(BigNote, Pointer, given + 1).block, data |-> given + 1]

-----------------------------------------------------------------------------
\* A call on an open pool, within the bounds of the model.
Called ==
  /\ doing = "open" /\ given + 2 =< MaxMemory /\ Len(pieces) < MaxPieces
  /\ UNCHANGED <<blockSize, doing>>

\* wuy_pool_alloc_align(), and so wuy_pool_alloc(), wuy_pool_strndup().
AllocSmall(size, align) ==
  /\ Called /\ ~IsBig(size)
  /\ Carve(size, align, given)
  /\ UNCHANGED <<freed, bigs, reallocs, frees>>

AllocBig(size) ==
  /\ Called /\ IsBig(size)
  /\ bigs' = <<Note>> \o bigs
  /\ Carve(BigNote, Pointer, given + 1)
  /\ UNCHANGED <<freed, reallocs, frees>>

\* wuy_pool_realloc(): of NULL, and of what it returned before.
ReallocFirst ==
  /\ Called
  /\ reallocs' = <<Note>> \o reallocs
  /\ Carve(BigNote, Pointer, given + 1)
  /\ UNCHANGED <<freed, bigs, frees>>

Realloc(k) ==
  /\ Called
  /\ given' = given + 1 /\ freed' = freed \cup {reallocs[k].data}
  /\ reallocs' = [reallocs EXCEPT ![k].data = given + 1]
  /\ UNCHANGED <<blocks, offset, pieces, bigs, frees>>

\* The data of a handler: a struct that is itself from the pool, or 0 for one
\* from elsewhere.
OwnData == {0} \cup ToSet(blocks) \cup {bigs[k].data : k \in DOMAIN bigs}

AddFree(data) ==
  /\ Called
  /\ IF IsBig(FreeNote)
     THEN /\ frees' = <<[at |-> given + 1, data |-> data]>> \o frees
          /\ bigs' = <<Note>> \o bigs
          /\ Carve(BigNote, Pointer, given + 1)
     ELSE /\ frees' = <<[at |-> Piece(FreeNote, Pointer, given).block, data |-> data]>> \o frees
          /\ Carve(FreeNote, Pointer, given)
          /\ UNCHANGED bigs
  /\ UNCHANGED <<freed, reallocs>>

-----------------------------------------------------------------------------
(* wuy_pool_destroy(), loop by loop.                                       *)

chains == <<blocks, bigs, reallocs, frees>>

Destroy ==
  /\ doing = "open" /\ doing' = "frees"
  /\ UNCHANGED <<blockSize, given, freed, offset, pieces, chains>>

\* Mutant: the blocks go before the notes in them.
ThenWrong == [frees |-> "blocks", blocks |-> "bigs", bigs |-> "reallocs", reallocs |-> "pool"]

\* The order of the loops.
Then == [frees |-> "bigs", bigs |-> "reallocs", reallocs |-> "blocks", blocks |-> "pool"]

\* What the loop has left of its list, and the memory that its next step needs
\* and that it frees.
Left == CASE doing = "frees" -> frees [] doing = "bigs" -> bigs
          [] doing = "reallocs" -> reallocs [] doing = "blocks" -> blocks [] OTHER -> <<>>

Needs ==
  IF Left = <<>> THEN {}
  ELSE IF doing = "blocks" THEN {Left[1]} ELSE {Left[1].at, Left[1].data}

Frees ==
  IF Left = <<>> \/ doing = "frees" THEN {}
  ELSE IF doing = "blocks" THEN {Left[1]} ELSE {Left[1].data}

DestroyStep ==
  /\ doing \in DOMAIN Then /\ Left # <<>>
  /\ freed' = freed \cup Frees
  /\ frees' = IF doing = "frees" THEN Tail(frees) ELSE frees
  /\ bigs' = IF doing = "bigs" THEN Tail(bigs) ELSE bigs
  /\ reallocs' = IF doing = "reallocs" THEN Tail(reallocs) ELSE reallocs
  /\ blocks' = IF doing = "blocks" THEN Tail(blocks) ELSE blocks
  /\ UNCHANGED <<blockSize, given, offset, pieces, doing>>

DestroyThen ==
  /\ doing \in DOMAIN Then /\ Left = <<>>
  /\ doing' = Then[doing]
  /\ UNCHANGED <<blockSize, given, freed, offset, pieces, chains>>

-----------------------------------------------------------------------------
PoolNext ==
  \/ \E size \in Sizes : AllocBig(size) \/ \E align \in Aligns : AllocSmall(size, align)
  \/ ReallocFirst \/ \E k \in DOMAIN reallocs : Realloc(k)
  \/ \E data \in OwnData : AddFree(data)
  \/ Destroy \/ DestroyStep \/ DestroyThen

PoolSpec == PoolInit /\ [][PoolNext]_poolVars

-----------------------------------------------------------------------------
\* A piece lies within its block, behind the header and behind every piece that
\* was carved from the block before it: no two share a byte.
Separate ==
  \A k \in DOMAIN pieces :
    LET p == pieces[k] IN
    /\ BlockHeader =< p.from /\ p.from + p.size =< blockSize
    /\ \A j \in 1 .. k - 1 :
         pieces[j].block = p.block => pieces[j].from + pieces[j].size =< p.from

\* Destroying the pool needs no memory it has freed, frees nothing twice, and
\* has freed everything at its end.
DestroyFreesAll ==
  /\ Needs \cap freed = {}
  /\ doing = "pool" => freed = 1 .. given
=============================================================================
