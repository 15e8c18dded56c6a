------------------------------ MODULE MCLists -------------------------------
(***************************************************************************)
(* The five kinds of lists side by side, and the shared memory that two of *)
(* them are made for: `part' says which.  Each kind of list has its own    *)
(* module; a variable here stands for the one of that role in each.        *)
(***************************************************************************)
EXTENDS NodeLists, Shmpool

CONSTANTS l1, l2, n1, n2, n3, r1, r2

ASSUME ListsAssumption == l1 \in Heads

VARIABLES
  part,
  next,
  prev,     \* pprev of an HList, last of an SList
  reverse,
  safe      \* pprev of an SList

listPartVars == <<lists, iter, node, visited, stayed, next, prev, reverse, safe>>

L == INSTANCE List WITH Cleared <- Null
\* The base of the offsets is the list itself.
NL == INSTANCE NopList WITH Base <- l1
SL == INSTANCE SList WITH last <- prev, pprev <- safe
HL == INSTANCE HList WITH pprev <- prev, Front <- [l \in Heads |-> l]
NHL == INSTANCE NopHList WITH pprev <- prev, Base <- l1

\* The constants give two pools, each for two requests, small ones and big ones, and
\* a failure.  Again, a pool follows another of its name; At odds, processes ask for
\* different sizes; Small, three small pieces do not fit every pool.
Again == INSTANCE Shmpool WITH Requests <- {9}, BigMax <- 1, MaxPools <- 3, MaxAsked <- 1,
                               MaxFailures <- 0
AtOdds == INSTANCE Shmpool WITH SmallSizes <- {8, 16}, Requests <- {9, 17}, BigMax <- 1,
                                MaxAsked <- 1, MaxFailures <- 0
Small == INSTANCE Shmpool WITH SmallSizes <- {20, 24}, Requests <- {3}, MaxAsked <- 3

\* Lasting, a process asks for memory before it makes a pool and after.
Lasting == INSTANCE Shmpool WITH Procs <- {r1}, PageSize <- 24, MaxPools <- 1, MaxAsked <- 1,
                                 MaxPermanent <- 4, MaxFailures <- 0

ListParts == {"list", "nop_list", "slist", "hlist", "nop_hlist"}
ShmParts == {"shmpool", "again", "at odds", "small", "lasting"}

ListPartInit ==
  \/ part = "list" /\ L!Init
  \/ part = "nop_list" /\ NL!NopInit
  \/ part = "slist" /\ SL!SInit /\ reverse = FALSE
  \/ part = "nop_hlist" /\ NHL!NopHInit /\ reverse = FALSE
  \/ part \notin ListParts \ {"hlist"} /\ HL!HInit /\ reverse = FALSE

\* What is iterated over is l1: nothing distinguishes the two lists of this part.
ListPartNext ==
  \/ part = "list" /\ L!Next /\ iter' \in {None, l1}
  \/ part = "nop_list" /\ NL!NopNext
  \/ part = "slist" /\ SL!SNext /\ UNCHANGED reverse
  \/ part = "hlist" /\ HL!HNext /\ UNCHANGED reverse
  \/ part = "nop_hlist" /\ NHL!NopHNext /\ UNCHANGED reverse

ShmPartInit == IF part = "lasting" THEN Lasting!ShmInit ELSE ShmInit

ShmPartNext ==
  \/ part = "shmpool" /\ ShmNext
  \/ part = "again" /\ Again!ShmNext
  \/ part = "at odds" /\ AtOdds!ShmNext
  \/ part = "small" /\ Small!ShmNext
  \/ part = "lasting" /\ Lasting!ShmNext

-----------------------------------------------------------------------------
\* Chained, SChained and HChained of wuy_list.h, wuy_slist.h, wuy_hlist.h and the two
\* on offsets: the pointers of every list lead through its nodes in order, and
\* what a node or a list knows of the way back is right.
ListsChained ==
  /\ part = "list" => L!Chained
  /\ part = "nop_list" => NL!O!Chained
  /\ part = "slist" => SL!SChained
  /\ part = "hlist" => HL!HChained
  /\ part = "nop_hlist" => NHL!O!HChained

\* SameView, Whole and PiecesApart of wuy_shmpool.c: processes that ask for the same
\* get the same memory, what is in a segment is there, and no two pieces of a pool
\* share a byte.  SameView and Whole say where that ends: big pieces after a pool of
\* the name was destroyed or where one was not mapped, and segments that two processes
\* gave different lengths.  A pool without a segment gives offsets from NULL.
MemoryShared ==
  /\ part = "shmpool" => SameView /\ Whole /\ PiecesApart
  /\ part = "again" => Again!SameView /\ Again!Whole
  /\ part = "at odds" => AtOdds!SameView /\ AtOdds!Whole
  /\ part = "small" => Small!SameView /\ Small!Whole /\ Small!PiecesApart
  /\ part = "lasting" => Lasting!Whole /\ Lasting!PiecesApart

\* NamesOwned of wuy_shmpool.c: no name stays when the last pool has gone.
NamesGo ==
  /\ part = "shmpool" => NamesOwned
  /\ part = "again" => Again!NamesOwned
  /\ part = "at odds" => AtOdds!NamesOwned
  /\ part = "small" => Small!NamesOwned
  /\ part = "lasting" => Lasting!NamesOwned
=============================================================================
