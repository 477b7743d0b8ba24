-------------------------------- MODULE Slab --------------------------------
(***************************************************************************)
(* The slab allocator of the kernel, core/mm/slab.cc, on top of the page   *)
(* lists: caches of one object size, slabs of one run of pages, and the    *)
(* kmalloc and kfree that operator new and delete call.                    *)
(*                                                                         *)
(* An address is a number; page frame f starts at f * PageSize.  Sizes are *)
(* scaled down together with the page.                                     *)
(***************************************************************************)
EXTENDS Lists, PageRuns

CONSTANTS
  PageSize,    \* ARCH_PAGE_SIZE
  HeaderSize,  \* sizeof(slab_t)
  CtlSize,     \* sizeof(kmem_objctl_t)
  CacheSize,   \* sizeof(slabcache_t)
  ColourSize,  \* the 64 bytes of a colour
  MaxSlack,    \* SLAB_MAX_SIZE
  MaxOrder,    \* bound: the largest order a cache may need
  Frames,      \* page frames the page allocator owns
  TakenFrames, \* those the boot took before, frame 0 among them
  Sizes,       \* object sizes kmalloc is asked for, after next_pow2l
  MaxLive      \* bound: objects callers hold at a time

(* 1 << order pages; every size has an order within the bound.             *)
PageCount[order \in 0 .. MaxOrder] == IF order = 0 THEN 1 ELSE 2 * PageCount[order - 1]

Room(order) == PageSize * PageCount[order]

ASSUME SlabAssumption ==
  /\ PageSize \in Nat \ {0} /\ HeaderSize \in Nat /\ CtlSize \in Nat \ {0}
  /\ CacheSize \in Nat \ {0} /\ ColourSize \in Nat \ {0} /\ MaxSlack \in Nat
  /\ MaxOrder \in Nat /\ Frames \in Nat /\ MaxLive \in Nat
  /\ Sizes \subseteq Nat \ {0} /\ 0 \in TakenFrames /\ TakenFrames \subseteq 0 .. Frames - 1
  /\ \A s \in Sizes \cup {CacheSize} : Room(MaxOrder) >= s + CtlSize + HeaderSize

VARIABLES
  caches,   \* slabcache_t: the root cache, then the others in order of birth
  slabs,    \* slab_t, in order of birth
  used,     \* the frames the page allocator gave away
  live,     \* the objects callers hold
  structs,  \* the objects that hold the cache structures
  lost,     \* history: objects kfree was given and did not find
  broken,   \* a store has hit memory of somebody else
  pc,       \* what a running kmalloc does next
  size      \* its argument

vars == <<caches, slabs, used, live, structs, lost, broken, pc, size>>

-----------------------------------------------------------------------------
(* init_cache *)

Order(s) ==
  CHOOSE o \in 0 .. MaxOrder :
    /\ Room(o) >= s + CtlSize + HeaderSize
    /\ \A p \in 0 .. o - 1 : Room(p) < s + CtlSize + HeaderSize

Cache(s) ==
  LET room == Room(Order(s)) - HeaderSize
  IN [size |-> s,
      order |-> Order(s),
      objects |-> room \div (s + CtlSize),
      colours |-> (room % (s + CtlSize)) \div ColourSize,
      colour |-> 0,
      full |-> <<>>, partial |-> <<>>, free |-> <<>>]

(* The order of the list of caches: list_append puts a new one right after *)
(* the root.                                                               *)
CacheList == <<1>> \o [i \in 1 .. Len(caches) - 1 |-> Len(caches) + 1 - i]

(* get_cache: of the caches that waste least the one that comes last in    *)
(* the list; none when every cache wastes more than SLAB_MAX_SIZE.         *)
Candidates(s) ==
  {i \in DOMAIN CacheList :
     LET c == caches[CacheList[i]] IN c.size >= s /\ c.size - s <= MaxSlack}

GetCache(s) ==
  LET best == CHOOSE i \in Candidates(s) :
                \A j \in Candidates(s) :
                  LET a == caches[CacheList[i]].size
                      b == caches[CacheList[j]].size
                  IN a < b \/ (a = b /\ j <= i)
  IN IF Candidates(s) = {} THEN 0 ELSE CacheList[best]

-----------------------------------------------------------------------------
(* cache_alloc *)

(* What allocate_contiguous finds for the cache; when it finds nothing the *)
(* page pointer stays NULL and get_phys turns that into address 0.         *)
Runs(k) == FoundRuns(used, Frames, PageCount[caches[k].order])

FirstRun(k) == CHOOSE f \in Runs(k) : \A g \in Runs(k) : f <= g

(* The objects lie behind the slab_t, the control words and the colour;    *)
(* the mutant forgets the control words.                                   *)
ObjectsNoCtl(base, cache) == base + HeaderSize + cache.colour * ColourSize
ObjectsAt(base, cache) ==
  base + HeaderSize + cache.objects * CtlSize + cache.colour * ColourSize

(* bufctl[i] = i + 1; the mutant links each object to itself.              *)
ChainToSelf(n) == [i \in 0 .. n - 1 |-> i]
Chain(n) == [i \in 0 .. n - 1 |-> i + 1]

NewSlab(k, base) ==
  [parent |-> k, base |-> base, objects |-> ObjectsAt(base, caches[k]),
   free |-> 0, inuse |-> 0, ctl |-> Chain(caches[k].objects)]

(* Where a slab goes after an object was taken: it came from no list or    *)
(* was removed from the front of one.  The mutant calls it full one early. *)
PutEarly(cache, s, inuse) ==
  IF inuse >= cache.objects - 1 THEN [cache EXCEPT !.full = ListAppend(@, s)]
                                ELSE [cache EXCEPT !.partial = ListAppend(@, s)]
Put(cache, s, inuse) ==
  IF inuse = cache.objects THEN [cache EXCEPT !.full = ListAppend(@, s)]
                           ELSE [cache EXCEPT !.partial = ListAppend(@, s)]

(* The object taken from slab sl of cache k, and the slab without it.      *)
Object(k, sl) == sl.objects + sl.free * caches[k].size

Taken(sl) == [sl EXCEPT !.free = sl.ctl[sl.free], !.inuse = @ + 1]

(* The colour of the next slab.                                            *)
NextColour(c) == (c.colour + 1) % (c.colours + 1)

(* The pages of the new slab.                                              *)
NewFrames(k) == FirstRun(k) .. FirstRun(k) + PageCount[caches[k].order] - 1

Grow(k) ==
  /\ caches[k].free = <<>> /\ caches[k].partial = <<>>
  /\ Runs(k) # {}
  /\ LET s == Len(slabs) + 1
         sl == NewSlab(k, FirstRun(k) * PageSize)
         c == [caches[k] EXCEPT !.colour = NextColour(caches[k])]
     IN /\ used' = used \cup NewFrames(k)
        /\ slabs' = Append(slabs, Taken(sl))
        /\ caches' = [caches EXCEPT ![k] = Put(c, s, Taken(sl).inuse)]

(* Partial slabs first, then free ones.                                    *)
FromPartial(k) ==
  /\ caches[k].partial # <<>>
  /\ LET s == Head(caches[k].partial)
         c == [caches[k] EXCEPT !.partial = Tail(@)]
     IN /\ slabs' = [slabs EXCEPT ![s] = Taken(@)]
        /\ caches' = [caches EXCEPT ![k] = Put(c, s, Taken(slabs[s]).inuse)]
  /\ UNCHANGED used

FromFree(k) ==
  /\ caches[k].partial = <<>> /\ caches[k].free # <<>>
  /\ LET s == Head(caches[k].free)
         c == [caches[k] EXCEPT !.free = Tail(@)]
     IN /\ slabs' = [slabs EXCEPT ![s] = Taken(@)]
        /\ caches' = [caches EXCEPT ![k] = Put(c, s, Taken(slabs[s]).inuse)]
  /\ UNCHANGED used

CacheAlloc(k) == Grow(k) \/ FromPartial(k) \/ FromFree(k)

(* The slab the object comes from, and so the address returned.            *)
Returned(k) ==
  IF caches[k].partial # <<>> THEN Object(k, slabs[Head(caches[k].partial)])
  ELSE IF caches[k].free # <<>> THEN Object(k, slabs[Head(caches[k].free)])
  ELSE Object(k, NewSlab(k, FirstRun(k) * PageSize))

(* Without a run of pages the slab is laid out over frame 0.               *)
OutOfPages(k) ==
  /\ caches[k].free = <<>> /\ caches[k].partial = <<>>
  /\ Runs(k) = {}
  /\ broken' = TRUE
  /\ UNCHANGED <<caches, slabs, used, live, structs, lost, pc, size>>

-----------------------------------------------------------------------------
Init ==
  /\ caches = <<Cache(CacheSize)>>
  /\ slabs = <<>>
  /\ used = TakenFrames
  /\ live = {} /\ structs = {} /\ lost = {}
  /\ broken = FALSE
  /\ pc = "idle"
  /\ size = 0

(* kmalloc: a cache of exactly the size is made first if there is none.    *)
Kmalloc(j) ==
  /\ ~broken /\ pc = "idle"
  /\ Cardinality(live) < MaxLive
  /\ size' = j
  /\ pc' = IF GetCache(j) # 0 /\ caches[GetCache(j)].size = j THEN "object" ELSE "struct"
  /\ UNCHANGED <<caches, slabs, used, live, structs, lost, broken>>

(* new_cache: the structure is an object of a cache itself.                *)
AllocStruct ==
  /\ ~broken /\ pc = "struct"
  /\ LET k == GetCache(CacheSize)
     IN \/ OutOfPages(k)
        \/ /\ CacheAlloc(k)
           /\ structs' = structs \cup {[addr |-> Returned(k), size |-> CacheSize]}
           /\ pc' = "init"
           /\ UNCHANGED <<live, lost, broken, size>>

NewCache ==
  /\ ~broken /\ pc = "init"
  /\ caches' = Append(caches, Cache(size))
  /\ pc' = "object"
  /\ UNCHANGED <<slabs, used, live, structs, lost, broken, size>>

AllocObject ==
  /\ ~broken /\ pc = "object"
  /\ LET k == GetCache(size)
     IN \/ OutOfPages(k)
        \/ /\ CacheAlloc(k)
           /\ live' = live \cup {[addr |-> Returned(k), size |-> size]}
           /\ pc' = "idle"
           /\ UNCHANGED <<structs, lost, broken, size>>

(* IS_OBJECT_IN_SLAB holds of every address up to the slab's first object. *)
IsObjectInSlab(s, o) == slabs[s].objects >= o.addr

(* find_cache_kmalloc and the search of cache_free: both take the first    *)
(* slab that seems to hold the object, in the order of the caches and, in  *)
(* each, of its full and partial slabs.  The root cache has no kmalloc     *)
(* name.                                                                   *)
Searched(i) == caches[CacheList[i]].full \o caches[CacheList[i]].partial

Places == UNION {{i} \X DOMAIN Searched(i) : i \in 2 .. Len(CacheList)}

Hits(o) == {p \in Places : IsObjectInSlab(Searched(p[1])[p[2]], o)}

Found(o) ==
  LET first == CHOOSE p \in Hits(o) :
                 \A q \in Hits(o) : p[1] < q[1] \/ (p[1] = q[1] /\ p[2] <= q[2])
  IN Searched(first[1])[first[2]]

KfreeLost(o) ==
  /\ Hits(o) = {}
  /\ live' = live \ {o}
  /\ lost' = lost \cup {o}
  /\ UNCHANGED <<caches, slabs, used, structs, broken, pc, size>>

(* In a slab of higher addresses the index is the unsigned quotient of a   *)
(* negative difference: bufctl[id] is far outside of the slab.             *)
KfreeWild(o) ==
  /\ Hits(o) # {}
  /\ slabs[Found(o)].objects # o.addr
  /\ broken' = TRUE
  /\ UNCHANGED <<caches, slabs, used, live, structs, lost, pc, size>>

(* cache_free of the slab's first object.  The mutant leaves a slab with   *)
(* nothing in use where it is.                                             *)
RemovedKept(c, s, inuse) ==
  IF s \in ToSet(c.full)
  THEN [c EXCEPT !.full = ListRemove(@, s), !.partial = ListAppend(@, s)]
  ELSE c
Removed(c, s, inuse) ==
  IF s \in ToSet(c.full)
  THEN [c EXCEPT !.full = ListRemove(@, s), !.partial = ListAppend(@, s)]
  ELSE IF inuse = 0
       THEN [c EXCEPT !.partial = ListRemove(@, s), !.free = ListAppend(@, s)]
       ELSE c

KfreeFound(o) ==
  /\ Hits(o) # {}
  /\ LET s == Found(o)
     IN /\ slabs[s].objects = o.addr
        /\ slabs' = [slabs EXCEPT ![s].ctl[0] = slabs[s].free, ![s].free = 0, ![s].inuse = @ - 1]
        /\ caches' = [caches EXCEPT ![slabs[s].parent] = Removed(@, s, slabs[s].inuse - 1)]
  /\ live' = live \ {o}
  /\ UNCHANGED <<used, structs, lost, broken, pc, size>>

Kfree(o) ==
  /\ ~broken /\ pc = "idle"
  /\ KfreeLost(o) \/ KfreeWild(o) \/ KfreeFound(o)

(* After a store into foreign memory nothing is promised any more.         *)
Stopped == broken /\ UNCHANGED vars

Next ==
  \/ \E j \in Sizes : Kmalloc(j)
  \/ AllocStruct \/ NewCache \/ AllocObject
  \/ \E o \in live : Kfree(o)
  \/ Stopped

Spec == Init /\ [][Next]_vars
=============================================================================
