------------------------------ MODULE Shmpool -------------------------------
(***************************************************************************)
(* wuy_shmpool.c: pools of shared memory by name.  Processes that make a   *)
(* pool of the same name and then the same allocations find each other's   *)
(* objects: small ones in one segment, each big one in a segment with the  *)
(* index of the allocation in its name.                                    *)
(*                                                                         *)
(* Segments are numbered as shm_open() creates them, 0 is NULL.  The       *)
(* statics of the file are per process.  shm_open() and mmap() are taken   *)
(* to succeed.  What is asked for when no pool is current comes from       *)
(* anonymous mappings of the process, and stays.                           *)
(***************************************************************************)
EXTENDS Naturals, Sequences, Functions

CONSTANTS
  Procs, Names,
  SmallSizes,   \* small_size of wuy_shmpool_new()
  BigSize,      \* big_size: what is larger is a big allocation
  BigMax,       \* big_max
  Requests,     \* the sizes asked for
  PageSize,     \* WUY_SHMPOOL_PAGE_SIZE
  MaxPools,     \* bounds: on the pools that are made,
  MaxAsked,     \* on the allocations from one,
  MaxPermanent, \* on the permanent ones of a process,
  MaxFailures   \* on the calls of ftruncate() that fail

ASSUME ShmpoolAssumption ==
  /\ SmallSizes \subseteq Nat \ {0} /\ Requests \subseteq Nat \ {0}
  /\ BigSize \in Nat /\ BigMax \in Nat
  /\ PageSize \in Nat \ {0} /\ MaxPools \in Nat
  /\ MaxAsked \in Nat /\ MaxPermanent \in Nat /\ MaxFailures \in Nat

VARIABLES
  link,      \* the segment a name stands for
  length,    \* of each segment; 0 when it has just been created
  pools,     \* those a process has made, in wuy_shmpool_head's order
  current,   \* wuy_shmpool_current, as a position in pools; 0 for NULL
  busy,      \* the call a process is in
  permanent, \* of each process: the mapping in use, where last_addr is in it,
             \* last_size; and, specification only, the pieces given
  failures,  \* of ftruncate()
  truncated, \* specification only: the lengths ftruncate() gave each segment
  disturbed  \* specification only: segments whose pools were open when big
             \* segments of their name were unlinked

shmVars == <<link, length, pools, current, busy, permanent, truncated, disturbed, failures>>

BigName(n, i) == <<n, i>>
SmallName(n) == <<n>>
AllNames == {SmallName(n) : n \in Names} \cup {BigName(n, i) : n \in Names, i \in 0 .. BigMax - 1}

Idle == [call |-> "none", at |-> "none", seg |-> 0, size |-> 0, pool |-> 0, index |-> 0]

ShmInit ==
  /\ link = [m \in AllNames |-> 0] /\ length = <<>>
  /\ truncated = <<>> /\ disturbed = {} /\ failures = 0
  /\ pools = [r \in Procs |-> <<>>] /\ current = [r \in Procs |-> 0]
  /\ busy = [r \in Procs |-> Idle]
  /\ permanent = [r \in Procs |-> [map |-> 0, from |-> 0, left |-> 0, pieces |-> <<>>]]

Free(r) == busy[r].call = "none"
Pool(r, k) == pools[r][k]
AllPools == UNION {{Pool(r, k) : k \in 1 .. Len(pools[r])} : r \in Procs}

PoolsMade == SumFunction([r \in Procs |-> Len(pools[r])])

-----------------------------------------------------------------------------
(* wuy_shmpool_open_mmap(), a system call per step.                        *)

\* shm_open(O_CREAT) for a call that goes on with fstat().
ShmOpen(r, call, k, name, size) ==
  LET new == link[name] = 0
      seg == IF new THEN Len(length) + 1 ELSE link[name]
  IN  /\ busy' = [busy EXCEPT ![r] = [call |-> call, at |-> "stat", seg |-> seg,
                                        size |-> size, pool |-> k, index |-> 0]]
      /\ link' = [link EXCEPT ![name] = seg]
      /\ length' = IF new THEN Append(length, 0) ELSE length
      /\ truncated' = IF new THEN Append(truncated, {}) ELSE truncated

\* Mutant: a big allocation that fails leaves its index to the next.
OpenedUncounted(r, seg) ==
  LET k == busy[r].pool IN
  /\ busy' = [busy EXCEPT ![r] = Idle]
  /\ IF busy[r].call = "new"
     THEN pools' = [pools EXCEPT ![r][k].segment = seg] /\ current' = [current EXCEPT ![r] = k]
     ELSE /\ pools' = [pools EXCEPT ![r][k] =
               [@ EXCEPT !.got = Append(@, [seg |-> seg, from |-> 0, size |-> busy[r].size]),
                         !.bigIndex = IF seg = 0 THEN @ - 1 ELSE @]]
          /\ UNCHANGED current

\* It returns, and with it the call it is made for: the new pool is current,
\* whether it has a segment or not, or the big allocation has an address.
Opened(r, seg) ==
  LET k == busy[r].pool IN
  /\ busy' = [busy EXCEPT ![r] = Idle]
  /\ IF busy[r].call = "new"
     THEN pools' = [pools EXCEPT ![r][k].segment = seg] /\ current' = [current EXCEPT ![r] = k]
     ELSE /\ pools' = [pools EXCEPT
               ![r][k].got = Append(@, [seg |-> seg, from |-> 0, size |-> busy[r].size])]
          /\ UNCHANGED current

\* Mutant: the length of a segment that is there is not compared.
StatUnchecked(r) ==
  LET is == length[busy[r].seg] IN
  /\ busy[r].at = "stat"
  /\ \/ is = 0 /\ busy' = [busy EXCEPT ![r].at = "resize"] /\ UNCHANGED <<pools, current>>
     \/ is # 0 /\ Opened(r, busy[r].seg)
  /\ UNCHANGED <<length, truncated, failures>>

Stat(r) ==
  LET is == length[busy[r].seg] IN
  /\ busy[r].at = "stat"
  /\ \/ is = 0 /\ busy' = [busy EXCEPT ![r].at = "resize"] /\ UNCHANGED <<pools, current>>
     \/ is # 0 /\ Opened(r, IF is = busy[r].size THEN busy[r].seg ELSE 0)
  /\ UNCHANGED <<length, truncated, failures>>

\* ftruncate() makes the segment as long as asked for, or fails.
Resize(r) ==
  /\ busy[r].at = "resize"
  /\ \/ /\ length' = [length EXCEPT ![busy[r].seg] = busy[r].size]
        /\ truncated' = [truncated EXCEPT ![busy[r].seg] = @ \cup {busy[r].size}]
        /\ Opened(r, busy[r].seg)
        /\ UNCHANGED failures
     \/ /\ failures < MaxFailures /\ failures' = failures + 1
        /\ Opened(r, 0)
        /\ UNCHANGED <<length, truncated>>

OpenStep(r) ==
  /\ Stat(r) \/ Resize(r)
  /\ UNCHANGED <<link, permanent, disturbed>>

-----------------------------------------------------------------------------
\* wuy_shmpool_new(), up to the shm_open().  The pool is put on the list at the
\* end of the call; nothing looks at the list before that.
ShmNew(r, n, size) ==
  /\ Free(r) /\ PoolsMade < MaxPools
  /\ pools' = [pools EXCEPT ![r] = Append(@,
       [name |-> n, smallSize |-> size, segment |-> 0, smallPos |-> 0, bigIndex |-> 0,
        listed |-> TRUE, freed |-> FALSE,
        asked |-> <<>>, got |-> <<>>])]  \* asked, got: specification only
  /\ ShmOpen(r, "new", Len(pools[r]) + 1, SmallName(n), size)
  /\ UNCHANGED <<current, permanent, disturbed, failures>>

RoundedUp(size) == ((size + 7) \div 8) * 8

\* A pool that was freed is used: what the process does from here is undefined.
Undefined(r) == busy' = [busy EXCEPT ![r].call = "undefined"]

\* Mutant: a piece is given where it can begin.
SmallBegins(p, size) == p.smallPos < p.smallSize

SmallFits(p, size) == p.smallSize - p.smallPos >= size

\* What wuy_shmpool_alloc_small() returns: when the segment could not be had it
\* is an offset from NULL.
ShmAllocSmall(r, size) ==
  LET k == current[r]
      p == Pool(r, k)
      fits == SmallFits(p, size)
  IN  /\ pools' = [pools EXCEPT ![r][k] =
           [p EXCEPT !.asked = Append(@, size),
                     !.smallPos = IF fits THEN @ + size ELSE @,
                     !.got = Append(@, [seg  |-> IF fits THEN p.segment ELSE 0,
                                        from |-> IF fits THEN p.smallPos ELSE 0,
                                        size |-> size])]]
      /\ UNCHANGED <<busy, link, length, truncated>>

ShmAllocBig(r, size) ==
  LET k == current[r]
      p == Pool(r, k)
  IN  \/ /\ p.bigIndex >= BigMax
         /\ pools' = [pools EXCEPT ![r][k] =
              [p EXCEPT !.asked = Append(@, size),
                        !.got = Append(@, [seg |-> 0, from |-> 0, size |-> size])]]
         /\ UNCHANGED <<busy, link, length, truncated>>
      \/ /\ p.bigIndex < BigMax
         /\ pools' = [pools EXCEPT ![r][k] =
              [p EXCEPT !.asked = Append(@, size), !.bigIndex = @ + 1]]
         /\ ShmOpen(r, "big", k, BigName(p.name, p.bigIndex), size)

\* A process's permanent memory after a piece of it is given, from a new mapping
\* of a page or more or from what is left of the last.
PermanentFrom(p, size, fresh) ==
  LET map  == IF fresh THEN p.map + 1 ELSE p.map
      from == IF fresh THEN 0 ELSE p.from
      room == IF ~fresh THEN p.left ELSE IF size > PageSize THEN size ELSE PageSize
  IN  [map |-> map, from |-> from + size, left |-> room - size,
       pieces |-> Append(p.pieces, [seg |-> map, from |-> from, size |-> size])]

\* Mutant: a mapping is used until nothing is left of it.
PermanentToTheLast(p, size) == PermanentFrom(p, size, p.left = 0)

Permanent(p, size) == PermanentFrom(p, size, size > p.left)

\* wuy_shmpool_alloc() when no pool is current.
AllocPermanent(r, asked) ==
  /\ Free(r) /\ current[r] = 0
  /\ Len(permanent[r].pieces) < MaxPermanent
  /\ permanent' = [permanent EXCEPT ![r] = Permanent(@, RoundedUp(asked))]
  /\ UNCHANGED <<link, length, pools, current, busy, truncated, disturbed, failures>>

\* wuy_shmpool_alloc() from the current pool.
Alloc(r, asked) ==
  LET size == RoundedUp(asked)
      k    == current[r]
  IN  /\ Free(r) /\ k # 0
      /\ \/ /\ Pool(r, k).freed
            /\ Undefined(r)
            /\ UNCHANGED <<pools, link, length, truncated>>
         \/ /\ ~Pool(r, k).freed /\ Len(Pool(r, k).asked) < MaxAsked
            /\ IF size > BigSize THEN ShmAllocBig(r, size) ELSE ShmAllocSmall(r, size)
      /\ UNCHANGED <<current, permanent, disturbed, failures>>

Finish(r) ==
  /\ Free(r) /\ current[r] # 0
  /\ current' = [current EXCEPT ![r] = 0]
  /\ UNCHANGED <<link, length, pools, busy, permanent, truncated, disturbed, failures>>

-----------------------------------------------------------------------------
(* wuy_shmpool_destroy(), and wuy_shmpool_cleanup() which calls it for     *)
(* every pool of the list; a name per step.                                *)

Listed(r) == {k \in 1 .. Len(pools[r]) : Pool(r, k).listed}

\* It unlinks the name of the small segment; wuy_shmpool_current is left as it is.
UnlinkSmall(r, call, k) ==
  /\ busy' = [busy EXCEPT ![r] = [call |-> call, at |-> "unlink", seg |-> 0, size |-> 0,
                                   pool |-> k, index |-> 0]]
  /\ link' = [link EXCEPT ![SmallName(Pool(r, k).name)] = 0]

\* The caller destroys a pool, which stays on the list.
ShmDestroy(r, k) ==
  /\ Free(r) /\ ~Pool(r, k).freed
  /\ UnlinkSmall(r, "destroy", k)
  /\ UNCHANGED <<pools, length, current, permanent, truncated, disturbed, failures>>

\* The next pool is taken off the list and destroyed.
CleanupNext(r) ==
  LET k == CHOOSE j \in Listed(r) : \A i \in Listed(r) : j =< i IN
  /\ pools' = [pools EXCEPT ![r][k].listed = FALSE]
  /\ IF Pool(r, k).freed THEN Undefined(r) /\ UNCHANGED link ELSE UnlinkSmall(r, "cleanup", k)

Cleanup(r) ==
  /\ Free(r) /\ Listed(r) # {}
  /\ CleanupNext(r)
  /\ UNCHANGED <<length, current, permanent, truncated, disturbed, failures>>

\* Mutant: the last one is forgotten.
BigLeftButLast(p, i) == i + 1 < p.bigIndex

BigLeft(p, i) == i < p.bigIndex

UnlinkBig(r) ==
  LET d == busy[r]
      p == Pool(r, d.pool)
  IN  /\ d.at = "unlink" /\ BigLeft(p, d.index)
      /\ link' = [link EXCEPT ![BigName(p.name, d.index)] = 0]
      /\ busy' = [busy EXCEPT ![r].index = @ + 1]
      /\ disturbed' = disturbed \cup {link[SmallName(p.name)]}
      /\ UNCHANGED <<pools, length, current, permanent, truncated, failures>>

Destroyed(r) ==
  LET d == busy[r] IN
  /\ d.at = "unlink" /\ ~BigLeft(Pool(r, d.pool), d.index)
  /\ pools' = [pools EXCEPT ![r][d.pool] =
       [@ EXCEPT !.freed = TRUE, !.segment = 0, !.bigIndex = 0, !.smallPos = 0,
                 !.asked = <<>>, !.got = <<>>]]
  /\ busy' = [busy EXCEPT ![r] =
       IF d.call = "cleanup" /\ Listed(r) # {} THEN [Idle EXCEPT !.call = "cleanup"] ELSE Idle]
  /\ UNCHANGED <<link, length, current, permanent, truncated, disturbed, failures>>

CleanupGoesOn(r) ==
  /\ busy[r].call = "cleanup" /\ busy[r].at = "none"
  /\ CleanupNext(r)
  /\ UNCHANGED <<length, current, permanent, truncated, disturbed, failures>>

-----------------------------------------------------------------------------
ShmNext ==
  \E r \in Procs :
    \/ \E n \in Names, size \in SmallSizes : ShmNew(r, n, size)
    \/ \E size \in Requests : Alloc(r, size) \/ AllocPermanent(r, size)
    \/ Finish(r)
    \/ OpenStep(r)
    \/ \E k \in 1 .. Len(pools[r]) : ShmDestroy(r, k)
    \/ Cleanup(r) \/ UnlinkBig(r) \/ Destroyed(r) \/ CleanupGoesOn(r)

ShmSpec == ShmInit /\ [][ShmNext]_shmVars

-----------------------------------------------------------------------------
\* The names of a pool's big segments are still those its segment came with: its
\* name stands for it, and no older pool of that name has taken away a big one.
NamesKept(p) == link[SmallName(p.name)] = p.segment /\ p.segment \notin disturbed

MadeAlike(p, q) ==
  /\ p.segment # 0 /\ p.segment = q.segment
  /\ p.name = q.name /\ p.smallSize = q.smallSize

\* Pools made alike in one segment give the same small pieces to the same requests in
\* the same order, and refuse the same.  They give the same big ones where neither has
\* failed to map one, while NamesKept.
SameView ==
  \A p, q \in AllPools : MadeAlike(p, q) =>
    \A k \in 1 .. Len(p.got) :
      k =< Len(q.got) /\ SubSeq(p.asked, 1, k) = SubSeq(q.asked, 1, k) =>
        \/ p.got[k] = q.got[k]
        \/ p.asked[k] > BigSize /\ (0 \in {p.got[k].seg, q.got[k].seg} \/ ~NamesKept(p))

There(g) == g.from + g.size =< length[g.seg]

\* A piece in a segment is there to its last byte, unless two processes that both
\* saw the segment without a length have given it two (line 77): the second cuts it
\* under the mapping of the first.
Whole ==
  \A p \in AllPools : \A k \in 1 .. Len(p.got) :
    LET g == p.got[k] IN
    g.seg # 0 /\ (\A a, b \in truncated[g.seg] : a = b) => There(g)

\* No two pieces that a pool or a process's permanent memory has given share a
\* byte; a permanent one lies in its mapping, which is a page or was made for it.
Apart(got) ==
  \A i, j \in 1 .. Len(got) :
    i < j /\ got[i].seg # 0 /\ got[i].seg = got[j].seg =>
      \/ got[i].from + got[i].size =< got[j].from
      \/ got[j].from + got[j].size =< got[i].from

PiecesApart ==
  /\ \A p \in AllPools : Apart(p.got)
  /\ \A r \in Procs : LET given == permanent[r].pieces IN
       /\ Apart(given)
       /\ \A k \in 1 .. Len(given) :
            given[k].from + given[k].size =< PageSize \/ given[k].from = 0

\* A name that is in the system belongs to a pool that will unlink it: when the
\* last pool of a name is destroyed, nothing is left of it.
Ending(r, k) == busy[r].at = "unlink" /\ busy[r].pool = k

UnlinksSmall(r, k, n) == Pool(r, k).name = n /\ ~Pool(r, k).freed /\ ~Ending(r, k)

UnlinksBig(r, k, n, i) ==
  /\ Pool(r, k).name = n /\ i < Pool(r, k).bigIndex
  /\ Ending(r, k) => i >= busy[r].index

NamesOwned ==
  \A n \in Names :
    /\ link[SmallName(n)] # 0 =>
         \E r \in Procs : \E k \in 1 .. Len(pools[r]) : UnlinksSmall(r, k, n)
    /\ \A i \in 0 .. BigMax - 1 : link[BigName(n, i)] # 0 =>
         \E r \in Procs : \E k \in 1 .. Len(pools[r]) : UnlinksBig(r, k, n, i)
=============================================================================
