----------------------------- MODULE SlabProps -----------------------------
(* What the slab allocator owes while no store has gone astray.            *)
EXTENDS Slab

SlabIds == DOMAIN slabs

(* The objects of a slab that somebody has: callers, a cache structure, or *)
(* nobody any more because kfree did not find them.                        *)
Out(s) ==
  {i \in 0 .. caches[slabs[s].parent].objects - 1 :
     \E o \in live \cup structs \cup lost :
       o.addr = slabs[s].objects + i * caches[slabs[s].parent].size}

(* Every variable keeps its type; a slab is the child of a cache.          *)
TypeOK ==
  /\ \A k \in DOMAIN caches :
       LET c == caches[k]
       IN /\ c.objects >= 1 /\ c.colour \in 0 .. c.colours
          /\ ToSet(c.full) \cup ToSet(c.partial) \cup ToSet(c.free) \subseteq SlabIds
  /\ \A s \in SlabIds : slabs[s].parent \in DOMAIN caches
  /\ used \subseteq 0 .. Frames - 1
  /\ pc \in {"idle", "struct", "init", "object"} /\ broken \in BOOLEAN

(* The memory of an object somebody has is inside the pages of one slab,   *)
(* behind its header and control words, whatever the colour; and no two    *)
(* objects share a byte, those of different caches included.  And slabs of *)
(* different caches never share a page frame, nor lies one over the frames *)
(* of somebody else.                                                       *)
Bytes(o) == o.addr .. o.addr + o.size - 1

InASlab(o) ==
  \E s \in SlabIds :
    LET c == caches[slabs[s].parent]
    IN Bytes(o) \subseteq slabs[s].base + HeaderSize + c.objects * CtlSize
                            .. slabs[s].base + Room(c.order) - 1

SlabsOwnFrames ==
  LET frames(s) == {f \in 0 .. Frames : f * PageSize \in
                      slabs[s].base .. slabs[s].base + Room(caches[slabs[s].parent].order) - 1}
  IN /\ \A s \in SlabIds : frames(s) \subseteq used \ TakenFrames
     /\ \A s, t \in SlabIds : s # t => frames(s) \cap frames(t) = {}

ObjectsApart ==
  LET all == live \cup structs \cup lost
  IN /\ \A o \in all : InASlab(o)
     /\ \A o, p \in all : o # p => Bytes(o) \cap Bytes(p) = {}
     /\ SlabsOwnFrames

(* The control words chain exactly the objects nobody has, each once, and  *)
(* inuse counts the others: an object is neither handed out twice nor      *)
(* forgotten by its slab.                                                  *)
Links(s) ==
  LET at[n \in 0 .. caches[slabs[s].parent].objects] ==
        IF n = 0 THEN slabs[s].free
        ELSE IF at[n - 1] \in DOMAIN slabs[s].ctl THEN slabs[s].ctl[at[n - 1]] ELSE at[n - 1]
  IN at

ChainExact ==
  \A s \in SlabIds :
    LET n == caches[slabs[s].parent].objects
        left == n - slabs[s].inuse
    IN /\ left \in 0 .. n
       /\ {Links(s)[i] : i \in 0 .. left - 1} = (0 .. n - 1) \ Out(s)
       /\ slabs[s].inuse = Cardinality(Out(s))

SlabInv == TypeOK /\ ChainExact

(* A slab of two or more objects is on exactly one list of its cache, the  *)
(* one its number of used objects calls for (slab.cc:244 to 257, with the  *)
(* comment "We should guarantee at least 2 objects per slab").             *)
ListsExact ==
  \A s \in SlabIds :
    LET c == caches[slabs[s].parent]
        n == slabs[s].inuse
    IN c.objects > 1 =>
         /\ s \in ToSet(c.full) <=> n = c.objects
         /\ s \in ToSet(c.free) <=> n = 0
         /\ s \in ToSet(c.partial) <=> n > 0 /\ n < c.objects
         /\ IsInjective(c.full \o c.partial \o c.free)

(* slab.cc:247, "Full slabs must become partial": kfree of an object of a  *)
(* full slab moves the slab.                                               *)
FullBecomesPartial ==
  [][\A s \in SlabIds, o \in live :
       /\ s \in ToSet(caches[slabs[s].parent].full)
       /\ o.addr \in slabs[s].base .. slabs[s].base + Room(caches[slabs[s].parent].order) - 1
       /\ o \notin live'
       => s \in ToSet(caches'[slabs[s].parent].partial)]_vars
=============================================================================
