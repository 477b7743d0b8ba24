----------------------------- MODULE SlabProofs -----------------------------
(***************************************************************************)
(* Proofs about the slab allocator, for any sizes of pages, headers,       *)
(* control words, colours and objects, and any number of page frames:      *)
(* objects never share a byte and slabs never a frame, the control words   *)
(* of each slab chain exactly the objects nobody has, and each slab is on  *)
(* the list of its cache that the number of its used objects calls for.    *)
(***************************************************************************)
EXTENDS SlabProps, ListLemmas, FiniteSetTheorems

All == live \cup structs \cup lost

-----------------------------------------------------------------------------
(* The inductive invariant.  cs and ss are caches and slabs, us the frames *)
(* in use, all the objects that somebody has or kfree has lost; "off" is   *)
(* the slab that cache_alloc holds in its hand, which is on no list, 0 for *)
(* none.                                                                   *)

CacheSet ==
  [size : Nat \ {0}, order : 0 .. MaxOrder, objects : Nat \ {0}, colours : Nat, colour : Nat,
   full : Seq(Nat), partial : Seq(Nat), free : Seq(Nat)]

(* Header, control words, colours and objects fit into the pages.          *)
CacheFits(c) ==
  /\ HeaderSize + c.objects * CtlSize + c.colours * ColourSize + c.objects * c.size <= Room(c.order)
  /\ c.colour <= c.colours

CachesRight(cs) ==
  /\ cs \in Seq(CacheSet) /\ cs # <<>>
  /\ \A k \in 1 .. Len(cs) : CacheFits(cs[k])

CtlSet == UNION {[0 .. n - 1 -> Nat] : n \in Nat}

SlabSet == [parent : Nat, base : Nat, objects : Nat, free : Nat, inuse : Nat, ctl : CtlSet]

SlabsTyped(cs, ss) ==
  /\ ss \in Seq(SlabSet)
  /\ \A s \in 1 .. Len(ss) :
       /\ ss[s].parent \in 1 .. Len(cs)
       /\ ss[s].ctl \in [0 .. cs[ss[s].parent].objects - 1 -> Nat]

(* What never changes of a slab: its frames, where its objects lie, how    *)
(* many there are and how large.                                           *)
ViewOf(c, sl) ==
  [first |-> sl.base \div PageSize, base |-> sl.base, pages |-> PageCount[c.order],
   objects |-> sl.objects, count |-> c.objects, size |-> c.size]

View(cs, ss) == [s \in 1 .. Len(ss) |-> ViewOf(cs[ss[s].parent], ss[s])]

Own(v) == v.first .. v.first + v.pages - 1

ViewSet ==
  [first : Nat, base : Nat, pages : Nat \ {0}, objects : Nat, count : Nat \ {0}, size : Nat \ {0}]

ViewFits(v) ==
  /\ v \in ViewSet
  /\ v.base = v.first * PageSize
  /\ v.base + HeaderSize + v.count * CtlSize <= v.objects
  /\ v.objects + v.count * v.size <= v.base + PageSize * v.pages

ViewsRight(vw, us) ==
  /\ \A s \in DOMAIN vw : ViewFits(vw[s]) /\ Own(vw[s]) \subseteq us \ TakenFrames
  /\ \A s, t \in DOMAIN vw : s # t => Own(vw[s]) \cap Own(vw[t]) = {}

Slot(v, i) == v.objects + i * v.size

Placed(vw, o) ==
  \E s \in DOMAIN vw : \E i \in 0 .. vw[s].count - 1 :
    o = [addr |-> Slot(vw[s], i), size |-> vw[s].size]

Given(v, all) == {i \in 0 .. v.count - 1 : \E o \in all : o.addr = Slot(v, i)}

(* The chain of the objects of a slab that nobody has.                     *)
IsChain(ch, sl, n, given) ==
  LET left == n - sl.inuse
  IN /\ ch \in [0 .. left - 1 -> 0 .. n - 1]
     /\ \A i, j \in 0 .. left - 1 : ch[i] = ch[j] => i = j
     /\ \A x \in 0 .. n - 1 : x \notin given <=> \E i \in 0 .. left - 1 : ch[i] = x
     /\ left > 0 => ch[0] = sl.free
     /\ \A i \in 0 .. left - 2 : ch[i + 1] = sl.ctl[ch[i]]

HasChain(sl, n, given) ==
  /\ given \in SUBSET (0 .. n - 1)
  /\ sl.inuse \in 0 .. n /\ sl.inuse = Cardinality(given)
  /\ \E ch \in [0 .. n - sl.inuse - 1 -> 0 .. n - 1] : IsChain(ch, sl, n, given)

(* The lists of a cache.                                                   *)
OnFull(cs, ss, k, off) ==
  {s \in 1 .. Len(ss) : s # off /\ ss[s].parent = k /\ ss[s].inuse = cs[k].objects}
OnPartial(cs, ss, k, off) ==
  {s \in 1 .. Len(ss) : s # off /\ ss[s].parent = k /\ ss[s].inuse < cs[k].objects
                        /\ (ss[s].inuse > 0 \/ cs[k].objects = 1)}
OnFree(cs, ss, k, off) ==
  {s \in 1 .. Len(ss) : s # off /\ ss[s].parent = k /\ ss[s].inuse = 0 /\ cs[k].objects > 1}

IsListOf(list, nodes) == list \in Seq(Nat) /\ IsInjective(list) /\ ToSet(list) = nodes

ListsRight(cs, ss, off) ==
  \A k \in 1 .. Len(cs) :
    /\ IsListOf(cs[k].full, OnFull(cs, ss, k, off))
    /\ IsListOf(cs[k].partial, OnPartial(cs, ss, k, off))
    /\ IsListOf(cs[k].free, OnFree(cs, ss, k, off))

MemInv(cs, ss, us, all, off) ==
  /\ CachesRight(cs)
  /\ SlabsTyped(cs, ss)
  /\ ViewsRight(View(cs, ss), us)
  /\ \A o \in all : Placed(View(cs, ss), o)
  /\ \A s \in 1 .. Len(ss) : HasChain(ss[s], cs[ss[s].parent].objects, Given(View(cs, ss)[s], all))
  /\ ListsRight(cs, ss, off)
  /\ us \in SUBSET (0 .. Frames - 1) /\ TakenFrames \subseteq us

(* What a running kmalloc knows, and that an object has one holder.        *)
CallInv ==
  /\ pc \in {"idle", "struct", "init", "object"} /\ broken \in BOOLEAN
  /\ pc # "idle" => size \in Sizes
  /\ pc = "object" => \E m \in 1 .. Len(caches) : caches[m].size = size
  /\ caches[1].size = CacheSize
  /\ live \cap (structs \cup lost) = {}

SlabIInv == MemInv(caches, slabs, used, All, 0) /\ CallInv

-----------------------------------------------------------------------------
(* Pages, orders, caches.                                                  *)

(* A recursive function exists: the loop that doubles.                     *)
LEMMA PageCountIs ==
  /\ PageCount \in [0 .. MaxOrder -> Nat \ {0}]
  /\ \A o \in 0 .. MaxOrder : PageCount[o] = IF o = 0 THEN 1 ELSE 2 * PageCount[o - 1]
<1> DEFINE S == Nat \ {0}
           step == [i \in 1 .. MaxOrder |-> [x \in S |-> 2 * x]]
           run == LoopRun(MaxOrder, S, 1, step)
           f == [o \in 0 .. MaxOrder |-> IF o = 0 THEN 1 ELSE 2 * run[o - 1]]
           IsCount(g) == g = [o \in 0 .. MaxOrder |-> IF o = 0 THEN 1 ELSE 2 * g[o - 1]]
<1>1. MaxOrder \in Nat
  BY SlabAssumption
<1>2. 1 \in S /\ step \in [1 .. MaxOrder -> [S -> S]]
  OBVIOUS
<1>3. /\ run \in [0 .. MaxOrder -> S] /\ run[0] = 1
      /\ \A o \in 1 .. MaxOrder : run[o] = step[o][run[o - 1]]
  <2> HIDE DEF S, step
  <2> QED
    BY <1>1, <1>2, RunExists
<1>4. ASSUME NEW o \in 1 .. MaxOrder PROVE run[o] = 2 * run[o - 1]
  <2>1. o - 1 \in 0 .. MaxOrder
    BY <1>1
  <2>2. run[o - 1] \in S
    <3> HIDE DEF S, run
    <3> QED
      BY <1>3, <2>1
  <2> QED
    BY <1>3, <2>2
<1> HIDE DEF run, step
<1>5. \A o \in 0 .. MaxOrder : f[o] = run[o]
  BY <1>1, <1>3, <1>4
<1>6. IsCount(f)
  <2>1. \A o \in 0 .. MaxOrder : (o # 0 => o - 1 \in 0 .. MaxOrder)
    BY <1>1
  <2>2. \A o \in 0 .. MaxOrder : (IF o = 0 THEN 1 ELSE 2 * run[o - 1]) = (IF o = 0 THEN 1 ELSE 2 * f[o - 1])
    <3> HIDE DEF f
    <3> QED
      BY <1>5, <2>1
  <2> QED
    BY <2>2
<1> HIDE DEF f
<1>7. IsCount(PageCount)
  BY <1>6 DEF PageCount
<1>8. PageCount = [o \in 0 .. MaxOrder |-> IF o = 0 THEN 1 ELSE 2 * PageCount[o - 1]]
  BY <1>7
<1>9. \A o \in 0 .. MaxOrder : PageCount[o] = IF o = 0 THEN 1 ELSE 2 * PageCount[o - 1]
  BY <1>8, Zenon
<1> DEFINE T == {o \in 0 .. MaxOrder : PageCount[o] \in S}
<1>10. 0 \in T /\ \A o \in 1 .. MaxOrder : o - 1 \in T => o \in T
  <2>1. 0 \in T
    BY <1>1, <1>9
  <2>2. ASSUME NEW o \in 1 .. MaxOrder, o - 1 \in T PROVE o \in T
    <3>1. PageCount[o] = 2 * PageCount[o - 1]
      BY <1>1, <1>9
    <3> QED
      BY <1>1, <2>2, <3>1
  <2> QED
    BY <2>1, <2>2
<1>11. \A o \in 0 .. MaxOrder : o \in T
  <2> HIDE DEF T
  <2> QED
    BY <1>1, <1>10, UpTo
<1>12. PageCount = [o \in 0 .. MaxOrder |-> PageCount[o]]
  BY <1>8, Zenon
<1> QED
  BY <1>9, <1>11, <1>12

LEMMA RoomNat == \A o \in 0 .. MaxOrder : Room(o) \in Nat
<1> SUFFICES ASSUME NEW o \in 0 .. MaxOrder PROVE Room(o) \in Nat
  OBVIOUS
<1>1. PICK n \in Nat : n = PageCount[o]
  BY PageCountIs
<1>2. PageSize \in Nat
  BY SlabAssumption
<1> QED
  BY <1>1, <1>2, TimesNat DEF Room

(* Every size has an order whose pages hold an object of it.               *)
LEMMA OrderIs ==
  ASSUME NEW s \in Sizes \cup {CacheSize}
  PROVE  Order(s) \in 0 .. MaxOrder /\ Room(Order(s)) >= s + CtlSize + HeaderSize
<1> DEFINE Holds == {o \in 0 .. MaxOrder : Room(o) >= s + CtlSize + HeaderSize}
<1>1. MaxOrder \in Holds
  BY SlabAssumption
<1>2. Holds \in SUBSET Nat
  BY SlabAssumption
<1>3. PICK o \in Holds : \A p \in Holds : o <= p
  <2> HIDE DEF Holds
  <2> QED
    BY <1>1, <1>2, HasLeast
<1>4. ASSUME NEW p \in 0 .. o - 1 PROVE Room(p) < s + CtlSize + HeaderSize
  <2>1. p \in 0 .. MaxOrder /\ ~(o <= p)
    BY <1>2, SlabAssumption
  <2>2. p \notin Holds
    BY <1>3, <2>1
  <2>3. ~(Room(p) >= s + CtlSize + HeaderSize)
    BY <2>1, <2>2
  <2>4. PICK r \in Nat : r = Room(p)
    BY <2>1, RoomNat
  <2>5. PICK q \in Nat : q = s + CtlSize + HeaderSize
    BY SlabAssumption
  <2> QED
    BY <2>3, <2>4, <2>5
<1>5. o \in 0 .. MaxOrder /\ Room(o) >= s + CtlSize + HeaderSize
  BY <1>3
<1> HIDE DEF Holds
<1> QED
  BY <1>4, <1>5 DEF Order

(* A new cache fits, with at least one object.                             *)
LEMMA CacheIs ==
  ASSUME NEW s \in Sizes \cup {CacheSize}
  PROVE  /\ Cache(s) \in CacheSet /\ CacheFits(Cache(s)) /\ Cache(s).size = s
         /\ Cache(s).full = <<>> /\ Cache(s).partial = <<>> /\ Cache(s).free = <<>>
<1>1. /\ s \in Nat \ {0} /\ CtlSize \in Nat \ {0} /\ HeaderSize \in Nat
      /\ ColourSize \in Nat \ {0} /\ MaxOrder \in Nat
  BY SlabAssumption
<1>2. Order(s) \in 0 .. MaxOrder /\ Room(Order(s)) \in Nat /\ Room(Order(s)) >= s + CtlSize + HeaderSize
  BY OrderIs, RoomNat
<1> DEFINE room == Room(Order(s)) - HeaderSize
           each == s + CtlSize
           n == room \div each
           rest == room % each
           colours == rest \div ColourSize
<1>3. room \in Nat /\ each \in Nat \ {0} /\ room >= each /\ Room(Order(s)) = room + HeaderSize
  <2>1. PICK r \in Nat : r = Room(Order(s))
    BY <1>2
  <2>2. r >= s + CtlSize + HeaderSize
    BY <1>2, <2>1
  <2> QED
    BY <1>1, <2>1, <2>2
<1> HIDE DEF room, each
<1>4. n \in Nat /\ rest \in Nat /\ room = n * each + rest /\ rest < each
  <2>1. n \in Nat /\ rest \in 0 .. each - 1 /\ room = n * each + rest
    BY <1>3, DivMod
  <2> QED
    BY <1>3, <2>1
<1>5. n # 0
  <2>1. n = 0 => n * each = 0
    BY <1>3
  <2> QED
    BY <1>3, <1>4, <2>1
<1> HIDE DEF n, rest
<1>6. colours \in Nat /\ rest = colours * ColourSize + (rest % ColourSize) /\ rest % ColourSize \in 0 .. ColourSize - 1
  BY <1>1, <1>4, DivMod
<1>7. colours * ColourSize <= rest
  <2>1. PICK q \in 0 .. ColourSize - 1 : q = rest % ColourSize
    BY <1>6
  <2>2. PICK m \in Nat : m = colours * ColourSize
    BY <1>1, <1>6, TimesNat
  <2>3. rest = m + q
    BY <1>6, <2>1, <2>2
  <2> QED
    BY <1>4, <2>1, <2>2, <2>3
<1> HIDE DEF colours
<1>8. n * each = n * CtlSize + n * s
  BY <1>1, <1>4 DEF each
<1>9. HeaderSize + n * CtlSize + colours * ColourSize + n * s <= Room(Order(s))
  <2>1. PICK a \in Nat : a = n * CtlSize
    BY <1>1, <1>4, TimesNat
  <2>2. PICK b \in Nat : b = n * s
    BY <1>1, <1>4, TimesNat
  <2>3. PICK d \in Nat : d = colours * ColourSize
    BY <1>1, <1>6, TimesNat
  <2>4. room = a + b + rest /\ d <= rest
    BY <1>4, <1>7, <1>8, <2>1, <2>2, <2>3
  <2>5. HeaderSize + a + d + b <= room + HeaderSize
    BY <1>1, <1>4, <2>4
  <2> QED
    BY <1>3, <2>1, <2>2, <2>3, <2>5
<1>10. Cache(s) = [size |-> s, order |-> Order(s), objects |-> n, colours |-> colours, colour |-> 0,
                   full |-> <<>>, partial |-> <<>>, free |-> <<>>]
  BY DEF Cache, n, colours, rest, room, each
<1>11. <<>> \in Seq(Nat)
  OBVIOUS
<1> QED
  BY <1>1, <1>2, <1>4, <1>5, <1>6, <1>9, <1>10, <1>11 DEF CacheSet, CacheFits

-----------------------------------------------------------------------------
(* Searches among the caches.                                              *)

(* new_cache puts a cache behind the root: the list has each cache once.   *)
LEMMA CacheListIs ==
  ASSUME CachesRight(caches)
  PROVE  /\ Len(caches) \in Nat \ {0} /\ DOMAIN caches = 1 .. Len(caches)
         /\ Len(CacheList) = Len(caches) /\ DOMAIN CacheList = 1 .. Len(caches)
         /\ \A i \in 1 .. Len(caches) : CacheList[i] = IF i = 1 THEN 1 ELSE Len(caches) + 2 - i
<1>1. caches \in Seq(CacheSet) /\ caches # <<>>
  BY DEF CachesRight
<1>2. Len(caches) \in Nat \ {0} /\ DOMAIN caches = 1 .. Len(caches)
  BY <1>1
<1> DEFINE n == Len(caches)
           root == <<1>>
           rest == [i \in 1 .. n - 1 |-> n + 1 - i]
<1>3. root \in Seq(Nat) /\ Len(root) = 1 /\ root[1] = 1
  OBVIOUS
<1>4. rest \in Seq(Nat) /\ Len(rest) = n - 1 /\ \A i \in 1 .. n - 1 : rest[i] = n + 1 - i
  <2>1. rest \in [1 .. n - 1 -> Nat] /\ n - 1 \in Nat
    BY <1>2
  <2> HIDE DEF rest
  <2>2. rest \in Seq(Nat) /\ Len(rest) = n - 1
    BY <2>1, FunctionList
  <2> QED
    BY <2>2 DEF rest
<1>5. CacheList = root \o rest
  BY DEF CacheList
<1> HIDE DEF root, rest
<1>6. /\ root \o rest \in Seq(Nat) /\ Len(root \o rest) = 1 + (n - 1)
      /\ \A i \in 1 .. 1 + (n - 1) : (root \o rest)[i] = IF i <= 1 THEN root[i] ELSE rest[i - 1]
  <2>1. /\ root \o rest \in Seq(Nat) /\ Len(root \o rest) = Len(root) + Len(rest)
        /\ \A i \in 1 .. Len(root) + Len(rest) :
             (root \o rest)[i] = IF i <= Len(root) THEN root[i] ELSE rest[i - Len(root)]
    BY <1>3, <1>4, ConcatProperties
  <2> QED
    BY <1>3, <1>4, <2>1
<1>7. CacheList \in Seq(Nat) /\ Len(CacheList) = n
  BY <1>2, <1>5, <1>6
<1>8. ASSUME NEW i \in 1 .. n PROVE CacheList[i] = IF i = 1 THEN 1 ELSE n + 2 - i
  <2>1. CacheList[i] = IF i <= 1 THEN root[i] ELSE rest[i - 1]
    BY <1>2, <1>5, <1>6
  <2>2. CASE i = 1
    BY <1>3, <2>1, <2>2
  <2>3. CASE i # 1
    <3>1. i - 1 \in 1 .. n - 1 /\ n + 1 - (i - 1) = n + 2 - i /\ ~(i <= 1)
      BY <1>2, <2>3
    <3> QED
      BY <1>4, <2>1, <2>3, <3>1
  <2> QED
    BY <2>2, <2>3
<1> QED
  BY <1>2, <1>7, <1>8

LEMMA CacheListAll ==
  ASSUME CachesRight(caches)
  PROVE  /\ \A i \in 1 .. Len(caches) : CacheList[i] \in 1 .. Len(caches)
         /\ \A k \in 1 .. Len(caches) : \E i \in 1 .. Len(caches) : CacheList[i] = k
         /\ \A i \in 2 .. Len(caches) : CacheList[i] \in 2 .. Len(caches)
<1>1. /\ Len(caches) \in Nat \ {0}
      /\ \A i \in 1 .. Len(caches) : CacheList[i] = IF i = 1 THEN 1 ELSE Len(caches) + 2 - i
  BY CacheListIs
<1>2. ASSUME NEW k \in 1 .. Len(caches) PROVE \E i \in 1 .. Len(caches) : CacheList[i] = k
  <2>1. CASE k = 1
    BY <1>1, <2>1
  <2>2. CASE k # 1
    <3>1. Len(caches) + 2 - k \in 1 .. Len(caches) /\ Len(caches) + 2 - k # 1
          /\ Len(caches) + 2 - (Len(caches) + 2 - k) = k
      BY <1>1, <2>2
    <3> QED
      BY <1>1, <3>1
  <2> QED
    BY <2>1, <2>2
<1>3. ASSUME NEW i \in 1 .. Len(caches) PROVE CacheList[i] \in 1 .. Len(caches)
  BY <1>1
<1>4. ASSUME NEW i \in 2 .. Len(caches) PROVE CacheList[i] \in 2 .. Len(caches)
  <2>1. CacheList[i] = Len(caches) + 2 - i
    BY <1>1
  <2> QED
    BY <1>1, <2>1
<1> QED
  BY <1>2, <1>3, <1>4

(* The least of a set of pairs, by the first number, then the second.      *)
LEMMA FirstPair ==
  ASSUME NEW T \in SUBSET (Nat \X Nat), T # {}
  PROVE  \E p \in T : \A q \in T : p[1] < q[1] \/ (p[1] = q[1] /\ p[2] <= q[2])
<1> DEFINE Firsts == {p[1] : p \in T}
<1>1. Firsts \in SUBSET Nat /\ Firsts # {}
  OBVIOUS
<1>2. PICK a \in Firsts : \A b \in Firsts : a <= b
  <2> HIDE DEF Firsts
  <2> QED
    BY <1>1, HasLeast
<1> DEFINE Seconds == {p[2] : p \in {q \in T : q[1] = a}}
<1>3. Seconds \in SUBSET Nat /\ Seconds # {}
  BY <1>2
<1>4. PICK c \in Seconds : \A d \in Seconds : c <= d
  <2> HIDE DEF Seconds
  <2> QED
    BY <1>3, HasLeast
<1>5. PICK p \in T : p[1] = a /\ p[2] = c
  BY <1>4
<1>6. ASSUME NEW q \in T PROVE p[1] < q[1] \/ (p[1] = q[1] /\ p[2] <= q[2])
  <2>1. a \in Nat /\ q[1] \in Nat /\ a <= q[1]
    BY <1>1, <1>2
  <2>2. CASE q[1] = a
    <3>1. q[2] \in Seconds
      BY <2>2
    <3>2. c <= q[2]
      BY <1>4, <3>1
    <3> QED
      BY <1>5, <2>2, <3>2
  <2>3. CASE q[1] # a
    BY <1>5, <2>1, <2>3
  <2> QED
    BY <2>2, <2>3
<1> QED
  BY <1>6

(* get_cache: what it returns is a cache, and one of exactly the size when *)
(* there is one.                                                           *)
LEMMA BestExists ==
  ASSUME CachesRight(caches), NEW s \in Nat, Candidates(s) # {}
  PROVE  \E i \in Candidates(s) :
           \A j \in Candidates(s) :
             LET a == caches[CacheList[i]].size
                 b == caches[CacheList[j]].size
             IN a < b \/ (a = b /\ j <= i)
<1>1. /\ Len(caches) \in Nat \ {0} /\ DOMAIN CacheList = 1 .. Len(caches)
      /\ \A i \in 1 .. Len(caches) : CacheList[i] \in 1 .. Len(caches)
  BY CacheListIs, CacheListAll
<1> DEFINE n == Len(caches)
           sz == [i \in 1 .. n |-> caches[CacheList[i]].size]
<1>2. \A i \in 1 .. n : sz[i] \in Nat
  <2> SUFFICES ASSUME NEW i \in 1 .. n PROVE caches[CacheList[i]].size \in Nat
    OBVIOUS
  <2>1. caches[CacheList[i]] \in CacheSet
    BY <1>1, ElementOfSeq DEF CachesRight
  <2> QED
    BY <2>1 DEF CacheSet
<1>3. Candidates(s) \in SUBSET (1 .. n)
  BY <1>1 DEF Candidates
<1>4. \A i \in 1 .. n : sz[i] = caches[CacheList[i]].size
  OBVIOUS
<1> HIDE DEF sz
<1> DEFINE T == {<<sz[i], n - i>> : i \in Candidates(s)}
<1>5. T \in SUBSET (Nat \X Nat) /\ T # {}
  <2>1. ASSUME NEW i \in Candidates(s) PROVE <<sz[i], n - i>> \in Nat \X Nat
    <3>1. i \in 1 .. n /\ n - i \in Nat
      BY <1>1, <1>3
    <3>2. sz[i] \in Nat
      BY <1>2, <3>1
    <3> QED
      BY <3>1, <3>2
  <2> QED
    BY <2>1
<1>6. PICK p \in T : \A q \in T : p[1] < q[1] \/ (p[1] = q[1] /\ p[2] <= q[2])
  <2> HIDE DEF T
  <2> QED
    BY <1>5, FirstPair
<1>7. PICK i \in Candidates(s) : p = <<sz[i], n - i>>
  OBVIOUS
<1>8. ASSUME NEW j \in Candidates(s) PROVE sz[i] < sz[j] \/ (sz[i] = sz[j] /\ j <= i)
  <2>1. <<sz[j], n - j>> \in T
    OBVIOUS
  <2>2. sz[i] < sz[j] \/ (sz[i] = sz[j] /\ n - i <= n - j)
    <3> HIDE DEF T
    <3>1. \A q \in T : sz[i] < q[1] \/ (sz[i] = q[1] /\ n - i <= q[2])
      BY <1>6, <1>7
    <3> QED
      BY <2>1, <3>1
  <2>3. i \in 1 .. n /\ j \in 1 .. n
    BY <1>3
  <2>4. n - i <= n - j => j <= i
    BY <1>1, <2>3
  <2> QED
    BY <2>2, <2>4
<1>9. \A j \in Candidates(s) :
        \/ caches[CacheList[i]].size < caches[CacheList[j]].size
        \/ (caches[CacheList[i]].size = caches[CacheList[j]].size /\ j <= i)
  BY <1>3, <1>4, <1>8
<1> QED
  BY <1>9

LEMMA GetCacheIs ==
  ASSUME CachesRight(caches), NEW s \in Nat
  PROVE  /\ GetCache(s) # 0 => GetCache(s) \in 1 .. Len(caches)
         /\ (\E m \in 1 .. Len(caches) : caches[m].size = s) =>
              GetCache(s) \in 1 .. Len(caches) /\ caches[GetCache(s)].size = s
<1> DEFINE Best(i) ==
             \A j \in Candidates(s) :
               LET a == caches[CacheList[i]].size
                   b == caches[CacheList[j]].size
               IN a < b \/ (a = b /\ j <= i)
           best == CHOOSE i \in Candidates(s) : Best(i)
<1>1. /\ Len(caches) \in Nat \ {0} /\ DOMAIN CacheList = 1 .. Len(caches)
      /\ \A i \in 1 .. Len(caches) : CacheList[i] \in 1 .. Len(caches)
  BY CacheListIs, CacheListAll
<1>2. GetCache(s) = IF Candidates(s) = {} THEN 0 ELSE CacheList[best]
  BY DEF GetCache
<1>3. ASSUME Candidates(s) # {} PROVE best \in Candidates(s) /\ Best(best)
  <2>1. \E i \in Candidates(s) : Best(i)
    BY <1>3, BestExists
  <2> HIDE DEF Best
  <2> QED
    BY <2>1
<1> HIDE DEF best
<1>4. Candidates(s) \in SUBSET (1 .. Len(caches))
  BY <1>1 DEF Candidates
<1>5. GetCache(s) # 0 => GetCache(s) \in 1 .. Len(caches)
  BY <1>1, <1>2, <1>3, <1>4
<1>6. ASSUME NEW m \in 1 .. Len(caches), caches[m].size = s
      PROVE  GetCache(s) \in 1 .. Len(caches) /\ caches[GetCache(s)].size = s
  <2>1. PICK i \in 1 .. Len(caches) : CacheList[i] = m
    BY CacheListAll
  <2>2. i \in Candidates(s)
    <3>1. s >= s /\ s - s <= MaxSlack
      BY SlabAssumption
    <3> QED
      BY <1>1, <1>6, <2>1, <3>1 DEF Candidates
  <2>3. Candidates(s) # {} /\ best \in Candidates(s) /\ Best(best)
    BY <1>3, <2>2
  <2>4. caches[CacheList[best]].size >= s
    BY <2>3 DEF Candidates
  <2>5. caches[CacheList[best]].size < s \/ caches[CacheList[best]].size = s
    BY <1>6, <2>1, <2>2, <2>3
  <2>6. caches[CacheList[best]] \in CacheSet
    BY <1>1, <1>4, <2>3, ElementOfSeq DEF CachesRight
  <2>7. caches[CacheList[best]].size \in Nat
    BY <2>6 DEF CacheSet
  <2>8. caches[CacheList[best]].size = s
    BY <2>4, <2>5, <2>7
  <2> QED
    BY <1>1, <1>2, <1>4, <2>3, <2>8
<1> QED
  BY <1>5, <1>6

(* Whatever kfree takes for the slab of an object is a slab.               *)
LEMMA ListIn ==
  ASSUME NEW cs, NEW ss, NEW off, CachesRight(cs), SlabsTyped(cs, ss), ListsRight(cs, ss, off),
         NEW k \in 1 .. Len(cs)
  PROVE  /\ cs[k] \in CacheSet /\ ToSet(cs[k].full) \subseteq 1 .. Len(ss)
         /\ ToSet(cs[k].partial) \subseteq 1 .. Len(ss) /\ ToSet(cs[k].free) \subseteq 1 .. Len(ss)
<1>1. cs[k] \in CacheSet
  BY ElementOfSeq DEF CachesRight
<1>2. /\ IsListOf(cs[k].full, OnFull(cs, ss, k, off))
      /\ IsListOf(cs[k].partial, OnPartial(cs, ss, k, off))
      /\ IsListOf(cs[k].free, OnFree(cs, ss, k, off))
  BY DEF ListsRight
<1> QED
  BY <1>1, <1>2 DEF IsListOf, OnFull, OnPartial, OnFree

LEMMA FoundIs ==
  ASSUME CachesRight(caches), SlabsTyped(caches, slabs), ListsRight(caches, slabs, 0),
         NEW o, Hits(o) # {}
  PROVE  Found(o) \in 1 .. Len(slabs)
<1>1. /\ Len(caches) \in Nat \ {0} /\ Len(CacheList) = Len(caches)
      /\ \A i \in 1 .. Len(caches) : CacheList[i] \in 1 .. Len(caches)
  BY CacheListIs, CacheListAll
<1>2. ASSUME NEW i \in 1 .. Len(caches), NEW j \in DOMAIN Searched(i)
      PROVE  j \in Nat /\ Searched(i)[j] \in 1 .. Len(slabs)
  <2> DEFINE c == caches[CacheList[i]]
             f == c.full
             p == c.partial
  <2>1. c \in CacheSet /\ ToSet(f) \subseteq 1 .. Len(slabs) /\ ToSet(p) \subseteq 1 .. Len(slabs)
    BY <1>1, ListIn, Zenon
  <2>2. f \in Seq(Nat) /\ p \in Seq(Nat)
    BY <2>1 DEF CacheSet
  <2>3. Searched(i) = f \o p
    BY DEF Searched
  <2> HIDE DEF f, p
  <2>4. /\ f \o p \in Seq(Nat) /\ Len(f \o p) = Len(f) + Len(p)
        /\ \A a \in 1 .. Len(f) + Len(p) : (f \o p)[a] = IF a <= Len(f) THEN f[a] ELSE p[a - Len(f)]
    BY <2>2, ConcatProperties
  <2>5. j \in 1 .. Len(f) + Len(p)
    BY <2>3, <2>4
  <2>6. Len(f) \in Nat /\ Len(p) \in Nat
    BY <2>2
  <2>7. CASE j <= Len(f)
    <3>1. j \in 1 .. Len(f) /\ Searched(i)[j] = f[j]
      BY <2>3, <2>4, <2>5, <2>6, <2>7
    <3> QED
      BY <2>1, <2>2, <3>1 DEF ToSet
  <2>8. CASE ~(j <= Len(f))
    <3>1. j - Len(f) \in 1 .. Len(p) /\ Searched(i)[j] = p[j - Len(f)]
      BY <2>3, <2>4, <2>5, <2>6, <2>8
    <3> QED
      BY <2>1, <2>2, <2>5, <3>1 DEF ToSet
  <2> QED
    BY <2>7, <2>8
<1>3. ASSUME NEW p \in Hits(o)
      PROVE  p \in Nat \X Nat /\ p[1] \in 1 .. Len(caches) /\ p[2] \in DOMAIN Searched(p[1])
  <2>1. PICK i \in 2 .. Len(CacheList) : p \in {i} \X DOMAIN Searched(i)
    BY DEF Hits, Places
  <2>2. p[1] = i /\ p[2] \in DOMAIN Searched(i) /\ p = <<p[1], p[2]>>
    BY <2>1
  <2>3. i \in 1 .. Len(caches) /\ i \in Nat
    BY <1>1
  <2>4. p[2] \in Nat
    BY <1>2, <2>2, <2>3
  <2> QED
    BY <2>2, <2>3, <2>4
<1> DEFINE first == CHOOSE p \in Hits(o) :
                      \A q \in Hits(o) : p[1] < q[1] \/ (p[1] = q[1] /\ p[2] <= q[2])
<1>4. first \in Hits(o)
  <2>1. Hits(o) \in SUBSET (Nat \X Nat)
    BY <1>3
  <2>2. \E p \in Hits(o) : \A q \in Hits(o) : p[1] < q[1] \/ (p[1] = q[1] /\ p[2] <= q[2])
    BY <2>1, FirstPair
  <2> QED
    BY <2>2
<1>5. Found(o) = Searched(first[1])[first[2]]
  BY DEF Found
<1> HIDE DEF first
<1> QED
  BY <1>2, <1>3, <1>4, <1>5

-----------------------------------------------------------------------------
(* The chain of free objects.                                              *)

LEMMA IntervalPart == ASSUME NEW n \in Nat, NEW S \in SUBSET (0 .. n - 1) PROVE IsFiniteSet(S)
<1>1. 0 \in Int /\ n - 1 \in Int
  OBVIOUS
<1>2. IsFiniteSet(0 .. n - 1)
  BY <1>1, FS_Interval
<1> QED
  BY <1>2, FS_Subset

(* bufctl[i] = i + 1 chains all objects of a new slab.                     *)
LEMMA NewChain ==
  ASSUME NEW n \in Nat \ {0}, NEW sl \in SlabSet, sl.free = 0, sl.inuse = 0, sl.ctl = Chain(n)
  PROVE  HasChain(sl, n, {})
<1> DEFINE ch == [i \in 0 .. n - 0 - 1 |-> i]
<1>1. ch \in [0 .. n - sl.inuse - 1 -> 0 .. n - 1] /\ \A i \in 0 .. n - 1 : ch[i] = i
  BY n - 0 - 1 = n - 1, n - sl.inuse - 1 = n - 0 - 1
<1> HIDE DEF ch
<1>2. n - sl.inuse = n
  OBVIOUS
<1>3. ch[0] = 0
  BY <1>1
<1>4. ASSUME NEW i \in 0 .. n - 2 PROVE ch[i + 1] = sl.ctl[ch[i]]
  <2>1. i \in 0 .. n - 1 /\ i + 1 \in 0 .. n - 1
    OBVIOUS
  <2>2. sl.ctl[i] = i + 1
    BY <2>1 DEF Chain
  <2> QED
    BY <1>1, <2>1, <2>2
<1>5. IsChain(ch, sl, n, {})
  BY <1>1, <1>2, <1>3, <1>4 DEF IsChain
<1> QED
  BY <1>1, <1>5, FS_EmptySet DEF HasChain

(* What cache_alloc takes nobody has, and the chain goes on behind it.     *)
LEMMA TakeChain ==
  ASSUME NEW n \in Nat \ {0}, NEW sl \in SlabSet, NEW given, HasChain(sl, n, given), sl.inuse < n
  PROVE  /\ sl.free \in 0 .. n - 1 /\ sl.free \notin given
         /\ \A new : (new.inuse = sl.inuse + 1 /\ new.ctl = sl.ctl /\ new.free = sl.ctl[sl.free]) =>
              HasChain(new, n, given \cup {sl.free})
<1>1. /\ given \in SUBSET (0 .. n - 1)
      /\ sl.inuse \in 0 .. n /\ sl.inuse = Cardinality(given)
  BY DEF HasChain
<1>2. PICK ch \in [0 .. n - sl.inuse - 1 -> 0 .. n - 1] : IsChain(ch, sl, n, given)
  BY DEF HasChain
<1> DEFINE left == n - sl.inuse
<1>3. left \in 1 .. n /\ 0 \in 0 .. left - 1
  BY <1>1
<1>4. /\ ch \in [0 .. left - 1 -> 0 .. n - 1]
      /\ \A i, j \in 0 .. left - 1 : ch[i] = ch[j] => i = j
      /\ \A x \in 0 .. n - 1 : x \notin given <=> \E i \in 0 .. left - 1 : ch[i] = x
      /\ ch[0] = sl.free
      /\ \A i \in 0 .. left - 2 : ch[i + 1] = sl.ctl[ch[i]]
  BY <1>2, <1>3 DEF IsChain
<1>5. sl.free \in 0 .. n - 1 /\ sl.free \notin given
  BY <1>3, <1>4
<1>6. ASSUME NEW new, new.inuse = sl.inuse + 1, new.ctl = sl.ctl, new.free = sl.ctl[sl.free]
      PROVE  HasChain(new, n, given \cup {sl.free})
  <2> DEFINE rest == n - new.inuse
             nch == [i \in 0 .. rest - 1 |-> ch[i + 1]]
  <2>1. rest = left - 1 /\ new.inuse \in 0 .. n /\ rest \in Nat
    BY <1>1, <1>3, <1>6
  <2> HIDE DEF left
  <2>2. \A i \in 0 .. rest - 1 : i + 1 \in 0 .. left - 1
    BY <1>3, <2>1
  <2>3. nch \in [0 .. rest - 1 -> 0 .. n - 1] /\ \A i \in 0 .. rest - 1 : nch[i] = ch[i + 1]
    BY <1>4, <2>2
  <2> HIDE DEF nch, rest
  <2>4. ASSUME NEW i \in 0 .. rest - 1, NEW j \in 0 .. rest - 1, nch[i] = nch[j] PROVE i = j
    <3>1. i + 1 = j + 1
      BY <1>4, <2>2, <2>3, <2>4
    <3> QED
      BY <3>1
  <2>5. ASSUME NEW x \in 0 .. n - 1
        PROVE  x \notin given \cup {sl.free} <=> \E i \in 0 .. rest - 1 : nch[i] = x
    <3>1. ASSUME x \notin given, x # sl.free PROVE \E i \in 0 .. rest - 1 : nch[i] = x
      <4>1. PICK i \in 0 .. left - 1 : ch[i] = x
        BY <1>4, <3>1
      <4>2. i # 0
        BY <1>4, <3>1, <4>1
      <4>3. i - 1 \in 0 .. rest - 1 /\ (i - 1) + 1 = i
        BY <1>3, <2>1, <4>2
      <4> QED
        BY <2>3, <4>1, <4>3
    <3>2. ASSUME NEW i \in 0 .. rest - 1, nch[i] = x PROVE x \notin given /\ x # sl.free
      <4>1. i + 1 \in 0 .. left - 1 /\ ch[i + 1] = x
        BY <2>2, <2>3, <3>2
      <4>2. i + 1 # 0
        OBVIOUS
      <4> QED
        BY <1>3, <1>4, <4>1, <4>2
    <3> QED
      BY <3>1, <3>2
  <2>6. ASSUME rest > 0 PROVE nch[0] = new.free
    <3>1. 0 \in 0 .. rest - 1 /\ 0 \in 0 .. left - 2 /\ 0 + 1 = 1
      BY <1>3, <2>1, <2>6
    <3>2. nch[0] = ch[1]
      BY <2>3, <3>1
    <3>3. ch[1] = sl.ctl[ch[0]]
      BY <1>4, <3>1
    <3> QED
      BY <1>4, <1>6, <3>2, <3>3
  <2>7. ASSUME NEW i \in 0 .. rest - 2 PROVE nch[i + 1] = new.ctl[nch[i]]
    <3>1. i \in 0 .. rest - 1 /\ i + 1 \in 0 .. rest - 1 /\ i + 1 \in 0 .. left - 2
      BY <1>3, <2>1
    <3>2. ch[(i + 1) + 1] = sl.ctl[ch[i + 1]]
      BY <1>4, <3>1
    <3> QED
      BY <1>6, <2>3, <3>1, <3>2
  <2>8. IsChain(nch, new, n, given \cup {sl.free})
    BY <2>3, <2>4, <2>5, <2>6, <2>7 DEF IsChain, rest
  <2>9. given \cup {sl.free} \in SUBSET (0 .. n - 1)
    BY <1>1, <1>5
  <2>10. Cardinality(given \cup {sl.free}) = Cardinality(given) + 1
    <3>1. IsFiniteSet(given)
      BY <1>1, IntervalPart
    <3> QED
      BY <1>5, <3>1, FS_AddElement
  <2> QED
    BY <1>1, <1>6, <2>1, <2>3, <2>8, <2>9, <2>10 DEF HasChain, rest
<1> QED
  BY <1>5, <1>6

(* cache_free of the first object puts it in front of the chain.           *)
LEMMA FreeChain ==
  ASSUME NEW n \in Nat \ {0}, NEW sl \in SlabSet, sl.ctl \in [0 .. n - 1 -> Nat],
         NEW given, HasChain(sl, n, given), 0 \in given,
         NEW new, new.inuse = sl.inuse - 1, new.free = 0, new.ctl = [sl.ctl EXCEPT ![0] = sl.free]
  PROVE  sl.inuse >= 1 /\ HasChain(new, n, given \ {0})
<1>1. /\ given \in SUBSET (0 .. n - 1)
      /\ sl.inuse \in 0 .. n /\ sl.inuse = Cardinality(given)
  BY DEF HasChain
<1>2. PICK ch \in [0 .. n - sl.inuse - 1 -> 0 .. n - 1] : IsChain(ch, sl, n, given)
  BY DEF HasChain
<1>3. Cardinality(given \ {0}) = sl.inuse - 1 /\ sl.inuse >= 1 /\ Cardinality(given \ {0}) \in Nat
  <2>1. IsFiniteSet(given)
    BY <1>1, IntervalPart
  <2>2. IsFiniteSet(given \ {0}) /\ Cardinality(given \ {0}) = Cardinality(given) - 1
    BY <2>1, FS_RemoveElement
  <2>3. Cardinality(given \ {0}) \in Nat
    BY <2>2, FS_CardinalityType
  <2> QED
    BY <1>1, <2>2, <2>3
<1> DEFINE left == n - sl.inuse
           rest == n - new.inuse
           nch == [i \in 0 .. rest - 1 |-> IF i = 0 THEN 0 ELSE ch[i - 1]]
<1>4. /\ ch \in [0 .. left - 1 -> 0 .. n - 1]
      /\ \A i, j \in 0 .. left - 1 : ch[i] = ch[j] => i = j
      /\ \A x \in 0 .. n - 1 : x \notin given <=> \E i \in 0 .. left - 1 : ch[i] = x
      /\ left > 0 => ch[0] = sl.free
      /\ \A i \in 0 .. left - 2 : ch[i + 1] = sl.ctl[ch[i]]
  BY <1>2 DEF IsChain
<1>5. left \in Nat /\ rest = left + 1 /\ new.inuse \in 0 .. n
  BY <1>1, <1>3
<1> HIDE DEF left
<1>6. \A i \in 0 .. rest - 1 : i # 0 => i - 1 \in 0 .. left - 1
  BY <1>5
<1> HIDE DEF rest
<1>7. nch \in [0 .. rest - 1 -> 0 .. n - 1]
      /\ \A i \in 0 .. rest - 1 : nch[i] = IF i = 0 THEN 0 ELSE ch[i - 1]
  <2>1. ASSUME NEW i \in 0 .. rest - 1 PROVE (IF i = 0 THEN 0 ELSE ch[i - 1]) \in 0 .. n - 1
    <3>1. CASE i = 0
      BY <3>1
    <3>2. CASE i # 0
      <4>1. i - 1 \in 0 .. left - 1
        BY <1>6, <3>2
      <4> QED
        BY <1>4, <3>2, <4>1
    <3> QED
      BY <3>1, <3>2
  <2> QED
    BY <2>1
<1> HIDE DEF nch
<1>8. \A i \in 0 .. left - 1 : ch[i] # 0 /\ ch[i] \in 0 .. n - 1
  BY <1>1, <1>4
<1>9. ASSUME NEW i \in 0 .. rest - 1, NEW j \in 0 .. rest - 1, nch[i] = nch[j] PROVE i = j
  <2>1. CASE i = 0 \/ j = 0
    BY <1>6, <1>7, <1>8, <1>9, <2>1
  <2>2. CASE i # 0 /\ j # 0
    <3>1. i - 1 \in 0 .. left - 1 /\ j - 1 \in 0 .. left - 1 /\ ch[i - 1] = ch[j - 1]
      BY <1>6, <1>7, <1>9, <2>2
    <3>2. i - 1 = j - 1
      BY <1>4, <3>1
    <3> QED
      BY <3>2
  <2> QED
    BY <2>1, <2>2
<1>10. ASSUME NEW x \in 0 .. n - 1
       PROVE  x \notin given \ {0} <=> \E i \in 0 .. rest - 1 : nch[i] = x
  <2>0. 0 \in 0 .. rest - 1
    BY <1>5
  <2>1. CASE x = 0
    BY <1>7, <2>0, <2>1
  <2>2. CASE x # 0
    <3>1. ASSUME x \notin given PROVE \E i \in 0 .. rest - 1 : nch[i] = x
      <4>1. PICK i \in 0 .. left - 1 : ch[i] = x
        BY <1>4, <3>1
      <4>2. i + 1 \in 0 .. rest - 1 /\ i + 1 # 0 /\ (i + 1) - 1 = i
        <5>1. left \in Int /\ rest = left + 1 /\ i \in Int /\ 0 <= i /\ i <= left - 1
          BY <1>5
        <5> QED
          BY <5>1
      <4> QED
        BY <1>7, <4>1, <4>2
    <3>2. ASSUME NEW i \in 0 .. rest - 1, nch[i] = x PROVE x \notin given
      <4>1. i # 0 /\ ch[i - 1] = x
        BY <1>7, <2>2, <3>2
      <4> QED
        BY <1>4, <1>6, <4>1
    <3> QED
      BY <2>2, <3>1, <3>2
  <2> QED
    BY <2>1, <2>2
<1>11. nch[0] = new.free
  BY <1>5, <1>7
<1>12. ASSUME NEW i \in 0 .. rest - 2 PROVE nch[i + 1] = new.ctl[nch[i]]
  <2>1. i \in 0 .. rest - 1 /\ i + 1 \in 0 .. rest - 1 /\ i + 1 # 0 /\ (i + 1) - 1 = i /\ i \in 0 .. left - 1
    BY <1>5
  <2>2. nch[i + 1] = ch[i]
    BY <1>7, <2>1
  <2>3. CASE i = 0
    <3>1. new.ctl[0] = sl.free /\ nch[i] = 0
      BY <1>7, <2>1, <2>3
    <3>2. ch[0] = sl.free
      BY <1>4, <1>5, <2>1, <2>3
    <3> QED
      BY <2>2, <2>3, <3>1, <3>2
  <2>4. CASE i # 0
    <3>1. nch[i] = ch[i - 1] /\ i - 1 \in 0 .. left - 2 /\ (i - 1) + 1 = i /\ i - 1 \in 0 .. left - 1
      BY <1>5, <1>7, <2>1, <2>4
    <3>2. ch[i] = sl.ctl[ch[i - 1]]
      BY <1>4, <3>1
    <3>3. new.ctl[ch[i - 1]] = sl.ctl[ch[i - 1]]
      BY <1>8, <3>1
    <3> QED
      BY <2>2, <3>1, <3>2, <3>3
  <2> QED
    BY <2>3, <2>4
<1>13. IsChain(nch, new, n, given \ {0})
  BY <1>7, <1>9, <1>10, <1>11, <1>12 DEF IsChain, rest
<1>14. given \ {0} \in SUBSET (0 .. n - 1)
  BY <1>1
<1> QED
  BY <1>1, <1>3, <1>5, <1>7, <1>13, <1>14 DEF HasChain, rest

-----------------------------------------------------------------------------
(* Where objects and slabs lie.                                            *)

LEMMA SlotInside ==
  ASSUME NEW v, ViewFits(v), NEW i \in 0 .. v.count - 1
  PROVE  /\ Slot(v, i) \in Nat /\ v.base \in Nat /\ PageSize * v.pages \in Nat
         /\ v.base + HeaderSize + v.count * CtlSize <= Slot(v, i)
         /\ v.base <= Slot(v, i)
         /\ Slot(v, i) + v.size <= v.base + PageSize * v.pages
<1>1. /\ v.base \in Nat /\ v.objects \in Nat /\ v.count \in Nat /\ v.size \in Nat /\ v.pages \in Nat
      /\ v.base + HeaderSize + v.count * CtlSize <= v.objects
      /\ v.objects + v.count * v.size <= v.base + PageSize * v.pages
  BY DEF ViewFits, ViewSet
<1>2. HeaderSize \in Nat /\ CtlSize \in Nat /\ PageSize \in Nat
  BY SlabAssumption
<1>3. PICK a \in Nat : a = v.count * CtlSize
  BY <1>1, <1>2, TimesNat
<1>4. PICK b \in Nat : b = v.count * v.size
  BY <1>1, TimesNat
<1>5. PICK p \in Nat : p = PageSize * v.pages
  BY <1>1, <1>2, TimesNat
<1>6. PICK d \in Nat : d = i * v.size
  BY <1>1, TimesNat
<1>7. d + v.size <= b
  <2>0. PICK n \in Nat, z \in Nat : n = v.count /\ z = v.size
    BY <1>1
  <2>1. i \in Int /\ i + 1 \in Int /\ i + 1 <= n
    BY <2>0
  <2>2. (i + 1) * z <= n * z /\ (i + 1) * z = i * z + z
    BY <2>1, TimesMonotone, TimesNext
  <2> QED
    BY <1>4, <1>6, <2>0, <2>2
<1>8. v.base + HeaderSize + a <= v.objects /\ v.objects + b <= v.base + p
  BY <1>1, <1>3, <1>4, <1>5
<1>9. Slot(v, i) = v.objects + d
  BY <1>6 DEF Slot
<1>10. v.base + HeaderSize + a <= v.objects + d /\ v.base <= v.objects + d
       /\ (v.objects + d) + v.size <= v.base + p /\ v.objects + d \in Nat
  BY <1>1, <1>2, <1>7, <1>8
<1> QED
  BY <1>1, <1>3, <1>5, <1>9, <1>10

(* Slabs without a common frame lie one behind the other.                  *)
LEMMA PagesApart ==
  ASSUME NEW v, NEW w, ViewFits(v), ViewFits(w), Own(v) \cap Own(w) = {}
  PROVE  v.base + PageSize * v.pages <= w.base \/ w.base + PageSize * w.pages <= v.base
<1>1. /\ v.first \in Nat /\ v.pages \in Nat \ {0} /\ v.base = v.first * PageSize
      /\ w.first \in Nat /\ w.pages \in Nat \ {0} /\ w.base = w.first * PageSize
      /\ PageSize \in Nat
  BY SlabAssumption DEF ViewFits, ViewSet
<1>2. v.first + v.pages <= w.first \/ w.first + w.pages <= v.first
  <2>1. ASSUME v.first <= w.first, w.first < v.first + v.pages PROVE FALSE
    <3>1. w.first \in Own(v) /\ w.first \in Own(w)
      BY <1>1, <2>1 DEF Own
    <3> QED
      BY <3>1
  <2>2. ASSUME w.first <= v.first, v.first < w.first + w.pages PROVE FALSE
    <3>1. v.first \in Own(v) /\ v.first \in Own(w)
      BY <1>1, <2>2 DEF Own
    <3> QED
      BY <3>1
  <2> QED
    BY <1>1, <2>1, <2>2
<1>3. ASSUME NEW a \in Nat, NEW p \in Nat, NEW b \in Nat, a + p <= b
      PROVE  a * PageSize + PageSize * p <= b * PageSize
  <2>1. (a + p) * PageSize <= b * PageSize
    BY <1>1, <1>3, TimesMonotone
  <2>2. (a + p) * PageSize = a * PageSize + PageSize * p
    BY <1>1
  <2> QED
    BY <2>1, <2>2
<1> QED
  BY <1>1, <1>2, <1>3

(* An address is one object of one slab.                                   *)
LEMMA SlotOnce ==
  ASSUME NEW vw, NEW us, ViewsRight(vw, us), NEW s \in DOMAIN vw, NEW t \in DOMAIN vw,
         NEW i \in 0 .. vw[s].count - 1, NEW j \in 0 .. vw[t].count - 1,
         Slot(vw[s], i) = Slot(vw[t], j)
  PROVE  s = t /\ i = j
<1> DEFINE v == vw[s]
           w == vw[t]
<1>1. ViewFits(v) /\ ViewFits(w)
  BY DEF ViewsRight
<1>2. v.size \in Nat \ {0} /\ w.size \in Nat \ {0} /\ v.count \in Nat /\ w.count \in Nat /\ v.objects \in Nat
  BY <1>1 DEF ViewFits, ViewSet
<1>3. s = t
  <2> SUFFICES ASSUME s # t PROVE FALSE
    OBVIOUS
  <2>1. Own(v) \cap Own(w) = {}
    BY DEF ViewsRight
  <2> HIDE DEF v, w
  <2>2. v.base + PageSize * v.pages <= w.base \/ w.base + PageSize * w.pages <= v.base
    BY <1>1, <2>1, PagesApart
  <2>3. /\ Slot(v, i) \in Nat /\ v.base \in Nat /\ PageSize * v.pages \in Nat
        /\ v.base <= Slot(v, i) /\ Slot(v, i) + v.size <= v.base + PageSize * v.pages
    BY <1>1, SlotInside DEF v
  <2>4. /\ Slot(w, j) \in Nat /\ w.base \in Nat /\ PageSize * w.pages \in Nat
        /\ w.base <= Slot(w, j) /\ Slot(w, j) + w.size <= w.base + PageSize * w.pages
    BY <1>1, SlotInside DEF w
  <2>5. Slot(v, i) = Slot(w, j)
    BY DEF v, w
  <2> QED
    BY <1>2, <2>2, <2>3, <2>4, <2>5
<1>4. i = j
  <2>1. i * v.size = j * v.size
    <3>1. PICK a \in Nat : a = i * v.size
      BY <1>2, TimesNat
    <3>2. PICK b \in Nat : b = j * v.size
      BY <1>2, <1>3, TimesNat
    <3>3. v.objects + a = v.objects + b
      BY <1>3, <3>1, <3>2 DEF Slot
    <3> QED
      BY <1>2, <3>1, <3>2, <3>3
  <2>2. i \in Nat /\ j \in Nat
    BY <1>2
  <2>3. ASSUME NEW a \in Nat, NEW b \in Nat, a < b PROVE a * v.size # b * v.size
    <3>1. (a + 1) * v.size <= b * v.size /\ (a + 1) * v.size = a * v.size + v.size
      BY <1>2, <2>3, TimesMonotone, TimesNext
    <3>2. PICK x \in Nat : x = a * v.size
      BY <1>2, TimesNat
    <3>3. PICK y \in Nat : y = b * v.size
      BY <1>2, TimesNat
    <3>4. x + v.size <= y
      BY <3>1, <3>2, <3>3
    <3> QED
      BY <1>2, <3>2, <3>3, <3>4
  <2> QED
    BY <2>1, <2>2, <2>3
<1> QED
  BY <1>3, <1>4

(* One more object is given out, one less.                                 *)
ObjectAt(vw, s, i, r) ==
  /\ s \in DOMAIN vw /\ i \in 0 .. vw[s].count - 1
  /\ r = [addr |-> Slot(vw[s], i), size |-> vw[s].size]

GivenMore(vw, all, s, i, r) ==
  /\ Placed(vw, r)
  /\ Given(vw[s], all \cup {r}) = Given(vw[s], all) \cup {i}
  /\ \A t \in DOMAIN vw : t # s => Given(vw[t], all \cup {r}) = Given(vw[t], all)
  /\ i \notin Given(vw[s], all) => r \notin all

LEMMA GivenAdd ==
  ASSUME NEW vw, NEW us, NEW all, NEW s, NEW i, NEW r, ViewsRight(vw, us), ObjectAt(vw, s, i, r)
  PROVE  GivenMore(vw, all, s, i, r)
<1>0. s \in DOMAIN vw /\ i \in 0 .. vw[s].count - 1
  BY DEF ObjectAt
<1>1. r.addr = Slot(vw[s], i)
  BY DEF ObjectAt
<1>2. Placed(vw, r)
  BY DEF Placed, ObjectAt
<1>3. ASSUME NEW t \in DOMAIN vw, NEW j \in 0 .. vw[t].count - 1
      PROVE  (\E o \in all \cup {r} : o.addr = Slot(vw[t], j)) <=>
               \/ \E o \in all : o.addr = Slot(vw[t], j)
               \/ t = s /\ j = i
  <2>1. r.addr = Slot(vw[t], j) <=> t = s /\ j = i
    <3>1. ASSUME r.addr = Slot(vw[t], j) PROVE t = s /\ j = i
      <4>1. Slot(vw[s], i) = Slot(vw[t], j)
        BY <1>1, <3>1
      <4>2. s = t /\ i = j
        BY <1>0, <4>1, SlotOnce
      <4> QED
        BY <4>2
    <3> QED
      BY <1>1, <3>1
  <2> QED
    BY <2>1
<1>4. ASSUME i \notin Given(vw[s], all) PROVE r \notin all
  BY <1>0, <1>1, <1>4 DEF Given
<1>5. Given(vw[s], all \cup {r}) = Given(vw[s], all) \cup {i}
  BY <1>0, <1>3 DEF Given
<1>6. \A t \in DOMAIN vw : t # s => Given(vw[t], all \cup {r}) = Given(vw[t], all)
  BY <1>0, <1>3 DEF Given
<1> QED
  BY <1>2, <1>4, <1>5, <1>6 DEF GivenMore

GivenLess(vw, all, s, o) ==
  /\ 0 \in Given(vw[s], all)
  /\ Given(vw[s], all \ {o}) = Given(vw[s], all) \ {0}
  /\ \A t \in DOMAIN vw : t # s => Given(vw[t], all \ {o}) = Given(vw[t], all)

LEMMA GivenRemove ==
  ASSUME NEW vw, NEW us, NEW all, ViewsRight(vw, us), \A q \in all : Placed(vw, q),
         NEW s \in DOMAIN vw, NEW o \in all, o.addr = vw[s].objects
  PROVE  GivenLess(vw, all, s, o)
<1>1. ViewFits(vw[s])
  BY DEF ViewsRight
<1>2. vw[s].count \in Nat \ {0} /\ vw[s].size \in Nat /\ vw[s].objects \in Nat
  BY <1>1 DEF ViewFits, ViewSet
<1>3. 0 \in 0 .. vw[s].count - 1 /\ o.addr = Slot(vw[s], 0)
  BY <1>2 DEF Slot
<1>4. ASSUME NEW q \in all, q.addr = o.addr PROVE q = o
  <2>1. PICK t \in DOMAIN vw : \E j \in 0 .. vw[t].count - 1 :
          q = [addr |-> Slot(vw[t], j), size |-> vw[t].size]
    BY DEF Placed
  <2>2. PICK j \in 0 .. vw[t].count - 1 : q = [addr |-> Slot(vw[t], j), size |-> vw[t].size]
    BY <2>1
  <2>3. PICK u \in DOMAIN vw : \E l \in 0 .. vw[u].count - 1 :
          o = [addr |-> Slot(vw[u], l), size |-> vw[u].size]
    BY DEF Placed
  <2>4. PICK l \in 0 .. vw[u].count - 1 : o = [addr |-> Slot(vw[u], l), size |-> vw[u].size]
    BY <2>3
  <2>5. Slot(vw[t], j) = Slot(vw[u], l)
    BY <1>4, <2>2, <2>4
  <2>6. t = u /\ j = l
    BY <2>5, SlotOnce
  <2> QED
    BY <2>2, <2>4, <2>6
<1>5. ASSUME NEW t \in DOMAIN vw, NEW j \in 0 .. vw[t].count - 1
      PROVE  (\E q \in all \ {o} : q.addr = Slot(vw[t], j)) <=>
               /\ \E q \in all : q.addr = Slot(vw[t], j)
               /\ ~(t = s /\ j = 0)
  <2>1. o.addr = Slot(vw[t], j) => t = s /\ j = 0
    BY <1>3, SlotOnce
  <2>2. ASSUME NEW q \in all \ {o}, q.addr = Slot(vw[t], j), t = s, j = 0 PROVE FALSE
    BY <1>3, <1>4, <2>2
  <2> QED
    BY <2>1, <2>2
<1>6. 0 \in Given(vw[s], all)
  BY <1>3 DEF Given
<1>7. Given(vw[s], all \ {o}) = Given(vw[s], all) \ {0}
  BY <1>5 DEF Given
<1>8. \A t \in DOMAIN vw : t # s => Given(vw[t], all \ {o}) = Given(vw[t], all)
  BY <1>5 DEF Given
<1> QED
  BY <1>6, <1>7, <1>8 DEF GivenLess

-----------------------------------------------------------------------------
(* The lists of a cache.                                                   *)

LEMMA NodePut ==
  ASSUME NEW list, NEW nodes, IsListOf(list, nodes), NEW s \in Nat, s \notin nodes
  PROVE  IsListOf(ListAppend(list, s), nodes \cup {s})
<1> DEFINE r == ListAppend(list, s)
<1>1. list \in Seq(Nat) /\ IsInjective(list) /\ ToSet(list) = nodes
  BY DEF IsListOf
<1>2. r \in Seq(Nat) /\ ToSet(r) = ToSet(list) \cup {s} /\ IsInjective(r)
  BY <1>1, AppendOnce
<1> QED
  BY <1>1, <1>2 DEF IsListOf

LEMMA NodePop ==
  ASSUME NEW list, NEW nodes, IsListOf(list, nodes), list # <<>>
  PROVE  Head(list) \in nodes /\ IsListOf(Tail(list), nodes \ {Head(list)})
BY PopList DEF IsListOf

LEMMA NodeDrop ==
  ASSUME NEW list, NEW nodes, IsListOf(list, nodes), NEW s \in nodes
  PROVE  IsListOf(ListRemove(list, s), nodes \ {s})
<1> DEFINE r == ListRemove(list, s)
<1>1. list \in Seq(Nat) /\ IsInjective(list) /\ ToSet(list) = nodes /\ s \in ToSet(list)
  BY DEF IsListOf
<1>2. r \in Seq(Nat) /\ ToSet(r) = ToSet(list) \ {s} /\ IsInjective(r)
  BY <1>1, RemoveOnce
<1> QED
  BY <1>1, <1>2 DEF IsListOf

LEMMA NoNode == \A nodes : IsListOf(<<>>, nodes) <=> nodes = {}
BY EmptyList DEF IsListOf

(* What the lists do to a cache leaves its numbers alone.                  *)
SameShape(d, c) ==
  /\ d.size = c.size /\ d.order = c.order /\ d.objects = c.objects
  /\ d.colours = c.colours

CacheLists(c, full, partial, free) ==
  IsListOf(c.full, full) /\ IsListOf(c.partial, partial) /\ IsListOf(c.free, free)

LEMMA ShapeFits ==
  ASSUME NEW c, NEW d, SameShape(d, c), d.colour = c.colour
  PROVE  CacheFits(c) <=> CacheFits(d)
BY DEF SameShape, CacheFits

LEMMA PutCache ==
  ASSUME NEW c \in CacheSet, NEW s \in Nat, NEW m, NEW full, NEW partial, NEW free,
         CacheLists(c, full, partial, free), s \notin full, s \notin partial,
         NEW d, d = Put(c, s, m)
  PROVE  /\ d \in CacheSet /\ SameShape(d, c) /\ d.colour = c.colour
         /\ m = c.objects => CacheLists(d, full \cup {s}, partial, free)
         /\ m # c.objects => CacheLists(d, full, partial \cup {s}, free)
<1>1. /\ IsListOf(ListAppend(c.full, s), full \cup {s})
      /\ IsListOf(ListAppend(c.partial, s), partial \cup {s})
  BY NodePut DEF CacheLists
<1>2. ListAppend(c.full, s) \in Seq(Nat) /\ ListAppend(c.partial, s) \in Seq(Nat)
  BY <1>1 DEF IsListOf
<1>3. CASE m = c.objects
  <2>1. d = [c EXCEPT !.full = ListAppend(c.full, s)]
    BY <1>3 DEF Put
  <2>2. d \in CacheSet
    BY <1>2, <2>1 DEF CacheSet
  <2>3. /\ d.full = ListAppend(c.full, s) /\ d.partial = c.partial /\ d.free = c.free
        /\ SameShape(d, c) /\ d.colour = c.colour
    BY <2>1 DEF CacheSet, SameShape
  <2> QED
    BY <1>1, <1>3, <2>2, <2>3 DEF CacheLists
<1>4. CASE m # c.objects
  <2>1. d = [c EXCEPT !.partial = ListAppend(c.partial, s)]
    BY <1>4 DEF Put
  <2>2. d \in CacheSet
    BY <1>2, <2>1 DEF CacheSet
  <2>3. /\ d.full = c.full /\ d.partial = ListAppend(c.partial, s) /\ d.free = c.free
        /\ SameShape(d, c) /\ d.colour = c.colour
    BY <2>1 DEF CacheSet, SameShape
  <2> QED
    BY <1>1, <1>4, <2>2, <2>3 DEF CacheLists
<1> QED
  BY <1>3, <1>4

(* cache_free, when the slab is on the full or the partial list.           *)
RemovedFrom(c, s, m, full, partial, free, d) ==
  /\ c \in CacheSet /\ s \in Nat /\ CacheLists(c, full, partial, free)
  /\ s \in full => s \notin partial
  /\ s \notin free /\ s \in full \cup partial
  /\ d = Removed(c, s, m)

Moved(c, s, m, full, partial, free, d) ==
  /\ d \in CacheSet /\ SameShape(d, c) /\ d.colour = c.colour
  /\ s \in full => CacheLists(d, full \ {s}, partial \cup {s}, free)
  /\ (s \notin full /\ m = 0) => CacheLists(d, full, partial \ {s}, free \cup {s})
  /\ (s \notin full /\ m # 0) => CacheLists(d, full, partial, free)

LEMMA RemovedCache ==
  ASSUME NEW c, NEW s, NEW m, NEW full, NEW partial, NEW free, NEW d,
         RemovedFrom(c, s, m, full, partial, free, d)
  PROVE  Moved(c, s, m, full, partial, free, d)
<1> USE DEF RemovedFrom, Moved
<1>0. ToSet(c.full) = full
  BY DEF CacheLists, IsListOf
<1>1. CASE s \in full
  <2>1. /\ IsListOf(ListRemove(c.full, s), full \ {s})
        /\ IsListOf(ListAppend(c.partial, s), partial \cup {s})
    BY <1>1, NodeDrop, NodePut DEF CacheLists
  <2>2. ListRemove(c.full, s) \in Seq(Nat) /\ ListAppend(c.partial, s) \in Seq(Nat)
    BY <2>1 DEF IsListOf
  <2>3. d = [c EXCEPT !.full = ListRemove(c.full, s), !.partial = ListAppend(c.partial, s)]
    BY <1>0, <1>1 DEF Removed, CacheSet
  <2>4. d \in CacheSet
    BY <2>2, <2>3 DEF CacheSet
  <2>5. /\ d.full = ListRemove(c.full, s) /\ d.partial = ListAppend(c.partial, s) /\ d.free = c.free
        /\ SameShape(d, c) /\ d.colour = c.colour
    BY <2>3 DEF CacheSet, SameShape
  <2> QED
    BY <1>1, <2>1, <2>4, <2>5 DEF CacheLists
<1>2. CASE s \notin full /\ m = 0
  <2>1. /\ IsListOf(ListRemove(c.partial, s), partial \ {s})
        /\ IsListOf(ListAppend(c.free, s), free \cup {s})
    BY <1>2, NodeDrop, NodePut DEF CacheLists
  <2>2. ListRemove(c.partial, s) \in Seq(Nat) /\ ListAppend(c.free, s) \in Seq(Nat)
    BY <2>1 DEF IsListOf
  <2>3. d = [c EXCEPT !.partial = ListRemove(c.partial, s), !.free = ListAppend(c.free, s)]
    BY <1>0, <1>2 DEF Removed, CacheSet
  <2>4. d \in CacheSet
    BY <2>2, <2>3 DEF CacheSet
  <2>5. /\ d.full = c.full /\ d.partial = ListRemove(c.partial, s) /\ d.free = ListAppend(c.free, s)
        /\ SameShape(d, c) /\ d.colour = c.colour
    BY <2>3 DEF CacheSet, SameShape
  <2> QED
    BY <1>2, <2>1, <2>4, <2>5 DEF CacheLists
<1>3. CASE s \notin full /\ m # 0
  <2>1. d = c
    BY <1>0, <1>3 DEF Removed
  <2> QED
    BY <1>3, <2>1 DEF SameShape
<1> QED
  BY <1>1, <1>2, <1>3

(* Taking a slab off a list.                                               *)
LEMMA PopCache ==
  ASSUME NEW c \in CacheSet, NEW full, NEW partial, NEW free, CacheLists(c, full, partial, free)
  PROVE  /\ c.partial # <<>> =>
              \A d : d = [c EXCEPT !.partial = Tail(@)] =>
                /\ d \in CacheSet /\ SameShape(d, c) /\ d.colour = c.colour
                /\ Head(c.partial) \in partial
                /\ CacheLists(d, full, partial \ {Head(c.partial)}, free)
         /\ c.free # <<>> =>
              \A d : d = [c EXCEPT !.free = Tail(@)] =>
                /\ d \in CacheSet /\ SameShape(d, c) /\ d.colour = c.colour
                /\ Head(c.free) \in free
                /\ CacheLists(d, full, partial, free \ {Head(c.free)})
<1>1. ASSUME c.partial # <<>>, NEW d, d = [c EXCEPT !.partial = Tail(@)]
      PROVE  /\ d \in CacheSet /\ SameShape(d, c) /\ d.colour = c.colour
             /\ Head(c.partial) \in partial
             /\ CacheLists(d, full, partial \ {Head(c.partial)}, free)
  <2>1. Head(c.partial) \in partial /\ IsListOf(Tail(c.partial), partial \ {Head(c.partial)})
    BY <1>1, NodePop DEF CacheLists
  <2>2. Tail(c.partial) \in Seq(Nat)
    BY <2>1 DEF IsListOf
  <2>3. d \in CacheSet
    BY <1>1, <2>2 DEF CacheSet
  <2>4. /\ d.full = c.full /\ d.partial = Tail(c.partial) /\ d.free = c.free
        /\ SameShape(d, c) /\ d.colour = c.colour
    BY <1>1 DEF CacheSet, SameShape
  <2> QED
    BY <2>1, <2>3, <2>4 DEF CacheLists
<1>2. ASSUME c.free # <<>>, NEW d, d = [c EXCEPT !.free = Tail(@)]
      PROVE  /\ d \in CacheSet /\ SameShape(d, c) /\ d.colour = c.colour
             /\ Head(c.free) \in free
             /\ CacheLists(d, full, partial, free \ {Head(c.free)})
  <2>1. Head(c.free) \in free /\ IsListOf(Tail(c.free), free \ {Head(c.free)})
    BY <1>2, NodePop DEF CacheLists
  <2>2. Tail(c.free) \in Seq(Nat)
    BY <2>1 DEF IsListOf
  <2>3. d \in CacheSet
    BY <1>2, <2>2 DEF CacheSet
  <2>4. /\ d.full = c.full /\ d.partial = c.partial /\ d.free = Tail(c.free)
        /\ SameShape(d, c) /\ d.colour = c.colour
    BY <1>2 DEF CacheSet, SameShape
  <2> QED
    BY <2>1, <2>3, <2>4 DEF CacheLists
<1> QED
  BY <1>1, <1>2

-----------------------------------------------------------------------------
(* One cache, one slab changes.                                            *)

Shapes(d, c) == Len(d) = Len(c) /\ \A k \in 1 .. Len(c) : SameShape(d[k], c[k])

CacheChange(cs, k, d, cs2) ==
  /\ CachesRight(cs) /\ k \in 1 .. Len(cs)
  /\ d \in CacheSet /\ SameShape(d, cs[k]) /\ CacheFits(d)
  /\ cs2 = [cs EXCEPT ![k] = d]

LEMMA CacheUpdate ==
  ASSUME NEW cs, NEW k, NEW d, NEW cs2, CacheChange(cs, k, d, cs2)
  PROVE  /\ CachesRight(cs2) /\ Shapes(cs2, cs) /\ Len(cs2) = Len(cs)
         /\ cs2[k] = d /\ \A j \in 1 .. Len(cs) : j # k => cs2[j] = cs[j]
<1> USE DEF CacheChange
<1>1. cs \in Seq(CacheSet) /\ cs # <<>> /\ \A j \in 1 .. Len(cs) : CacheFits(cs[j])
  BY DEF CachesRight
<1>2. cs2 \in Seq(CacheSet) /\ Len(cs2) = Len(cs) /\ cs2 # <<>>
  BY <1>1
<1>3. cs2[k] = d /\ \A j \in 1 .. Len(cs) : j # k => cs2[j] = cs[j]
  BY <1>1
<1>4. \A j \in 1 .. Len(cs) : SameShape(cs2[j], cs[j])
  BY <1>3 DEF SameShape
<1>5. \A j \in 1 .. Len(cs) : CacheFits(cs2[j])
  BY <1>1, <1>3
<1> QED
  BY <1>2, <1>3, <1>4, <1>5 DEF CachesRight, Shapes

SlabChange(cs, ss, s, new, ss2) ==
  /\ SlabsTyped(cs, ss) /\ s \in 1 .. Len(ss)
  /\ new \in SlabSet /\ new.parent = ss[s].parent /\ new.base = ss[s].base
  /\ new.objects = ss[s].objects
  /\ new.ctl \in [0 .. cs[ss[s].parent].objects - 1 -> Nat]
  /\ ss2 = [ss EXCEPT ![s] = new]

LEMMA SlabUpdate ==
  ASSUME NEW cs, NEW cs2, NEW ss, NEW s, NEW new, NEW ss2,
         SlabChange(cs, ss, s, new, ss2), Shapes(cs2, cs)
  PROVE  /\ SlabsTyped(cs2, ss2) /\ Len(ss2) = Len(ss) /\ View(cs2, ss2) = View(cs, ss)
         /\ ss2[s] = new /\ \A t \in 1 .. Len(ss) : t # s => ss2[t] = ss[t]
<1> USE DEF SlabChange
<1>1. /\ ss \in Seq(SlabSet)
      /\ \A t \in 1 .. Len(ss) :
           /\ ss[t].parent \in 1 .. Len(cs)
           /\ ss[t].ctl \in [0 .. cs[ss[t].parent].objects - 1 -> Nat]
  BY DEF SlabsTyped
<1>2. ss2 \in Seq(SlabSet) /\ Len(ss2) = Len(ss)
  BY <1>1
<1>3. ss2[s] = new /\ \A t \in 1 .. Len(ss) : t # s => ss2[t] = ss[t]
  BY <1>1
<1>4. ASSUME NEW t \in 1 .. Len(ss)
      PROVE  /\ ss2[t].parent = ss[t].parent /\ ss2[t].base = ss[t].base
             /\ ss2[t].objects = ss[t].objects
             /\ ss2[t].ctl \in [0 .. cs[ss[t].parent].objects - 1 -> Nat]
  BY <1>1, <1>3
<1>5. \A k \in 1 .. Len(cs) : cs2[k].objects = cs[k].objects /\ cs2[k].size = cs[k].size /\ cs2[k].order = cs[k].order
  BY DEF Shapes, SameShape
<1>6. SlabsTyped(cs2, ss2)
  <2>1. ASSUME NEW t \in 1 .. Len(ss2)
        PROVE  /\ ss2[t].parent \in 1 .. Len(cs2)
               /\ ss2[t].ctl \in [0 .. cs2[ss2[t].parent].objects - 1 -> Nat]
    <3>1. ss[t].parent \in 1 .. Len(cs) /\ Len(cs2) = Len(cs)
      BY <1>1, <1>2 DEF Shapes
    <3> QED
      BY <1>2, <1>4, <1>5, <3>1
  <2> QED
    BY <1>2, <2>1 DEF SlabsTyped
<1>7. View(cs2, ss2) = View(cs, ss)
  <2>1. ASSUME NEW t \in 1 .. Len(ss)
        PROVE  ViewOf(cs2[ss2[t].parent], ss2[t]) = ViewOf(cs[ss[t].parent], ss[t])
    BY <1>1, <1>4, <1>5 DEF ViewOf
  <2> QED
    BY <1>2, <2>1 DEF View
<1> QED
  BY <1>2, <1>3, <1>6, <1>7

LEMMA ViewIs ==
  ASSUME NEW cs, NEW ss, SlabsTyped(cs, ss)
  PROVE  /\ DOMAIN View(cs, ss) = 1 .. Len(ss)
         /\ \A s \in 1 .. Len(ss) :
              LET c == cs[ss[s].parent]
                  v == View(cs, ss)[s]
              IN /\ v.base = ss[s].base /\ v.objects = ss[s].objects /\ v.count = c.objects
                 /\ v.size = c.size /\ v.pages = PageCount[c.order]
                 /\ v.first = ss[s].base \div PageSize
BY DEF View, ViewOf

(* The slab in the hand goes to the list its count calls for.              *)
OnlySlab(ss, ss2, s) ==
  /\ s \in 1 .. Len(ss) /\ Len(ss2) = Len(ss) /\ ss2[s].parent = ss[s].parent
  /\ \A t \in 1 .. Len(ss) : t # s => ss2[t] = ss[t]

LEMMA ListsBack ==
  ASSUME NEW cs, NEW cs2, NEW ss, NEW ss2, NEW s, OnlySlab(ss, ss2, s), Shapes(cs2, cs),
         NEW j \in 1 .. Len(cs)
  PROVE  /\ j # ss[s].parent =>
              /\ OnFull(cs2, ss2, j, 0) = OnFull(cs, ss, j, s)
              /\ OnPartial(cs2, ss2, j, 0) = OnPartial(cs, ss, j, s)
              /\ OnFree(cs2, ss2, j, 0) = OnFree(cs, ss, j, s)
         /\ LET m == ss2[s].inuse
                n == cs[j].objects
            IN j = ss[s].parent =>
                 /\ OnFull(cs2, ss2, j, 0) =
                      IF m = n THEN OnFull(cs, ss, j, s) \cup {s} ELSE OnFull(cs, ss, j, s)
                 /\ OnPartial(cs2, ss2, j, 0) =
                      IF m < n /\ (m > 0 \/ n = 1) THEN OnPartial(cs, ss, j, s) \cup {s}
                                                   ELSE OnPartial(cs, ss, j, s)
                 /\ OnFree(cs2, ss2, j, 0) =
                      IF m = 0 /\ n > 1 THEN OnFree(cs, ss, j, s) \cup {s} ELSE OnFree(cs, ss, j, s)
<1> USE DEF OnlySlab
<1>1. cs2[j].objects = cs[j].objects
  BY DEF Shapes, SameShape
<1>2. \A t \in 1 .. Len(ss) : t # 0
  OBVIOUS
<1> QED
  BY <1>1, <1>2 DEF OnFull, OnPartial, OnFree

(* A slab taken off its list is in the hand.                               *)
LEMMA ListsOff ==
  ASSUME NEW cs, NEW cs2, NEW ss, NEW s \in 1 .. Len(ss), Shapes(cs2, cs), NEW j \in 1 .. Len(cs)
  PROVE  /\ OnFull(cs2, ss, j, s) = OnFull(cs, ss, j, 0) \ {s}
         /\ OnPartial(cs2, ss, j, s) = OnPartial(cs, ss, j, 0) \ {s}
         /\ OnFree(cs2, ss, j, s) = OnFree(cs, ss, j, 0) \ {s}
<1>1. cs2[j].objects = cs[j].objects
  BY DEF Shapes, SameShape
<1>2. \A t \in 1 .. Len(ss) : t # 0
  OBVIOUS
<1> QED
  BY <1>1, <1>2 DEF OnFull, OnPartial, OnFree

LEMMA ListsAre ==
  ASSUME NEW cs, NEW ss, NEW off
  PROVE  ListsRight(cs, ss, off) <=>
           \A k \in 1 .. Len(cs) :
             CacheLists(cs[k], OnFull(cs, ss, k, off), OnPartial(cs, ss, k, off), OnFree(cs, ss, k, off))
BY DEF ListsRight, CacheLists

BackTo(cs, cs2, ss, ss2, s, j) ==
  /\ OnlySlab(ss, ss2, s) /\ Shapes(cs2, cs) /\ j \in 1 .. Len(cs) /\ j = ss[s].parent

LEMMA ListsBackTo ==
  ASSUME NEW cs, NEW cs2, NEW ss, NEW ss2, NEW s, NEW j, BackTo(cs, cs2, ss, ss2, s, j)
  PROVE  /\ ss2[s].inuse = cs[j].objects =>
              /\ OnFull(cs2, ss2, j, 0) = OnFull(cs, ss, j, s) \cup {s}
              /\ (~(ss2[s].inuse < cs[j].objects) =>
                    OnPartial(cs2, ss2, j, 0) = OnPartial(cs, ss, j, s))
         /\ ss2[s].inuse # cs[j].objects => OnFull(cs2, ss2, j, 0) = OnFull(cs, ss, j, s)
         /\ (ss2[s].inuse < cs[j].objects /\ (ss2[s].inuse > 0 \/ cs[j].objects = 1)) =>
              /\ OnPartial(cs2, ss2, j, 0) = OnPartial(cs, ss, j, s) \cup {s}
         /\ (~(ss2[s].inuse > 0) /\ cs[j].objects # 1) =>
              OnPartial(cs2, ss2, j, 0) = OnPartial(cs, ss, j, s)
         /\ (ss2[s].inuse = 0 /\ cs[j].objects > 1) =>
              OnFree(cs2, ss2, j, 0) = OnFree(cs, ss, j, s) \cup {s}
         /\ ~(ss2[s].inuse = 0 /\ cs[j].objects > 1) =>
              OnFree(cs2, ss2, j, 0) = OnFree(cs, ss, j, s)
<1>1. OnlySlab(ss, ss2, s) /\ Shapes(cs2, cs) /\ j \in 1 .. Len(cs) /\ j = ss[s].parent
  BY DEF BackTo
<1>3. cs2[j].objects = cs[j].objects
  BY <1>1 DEF Shapes, SameShape
<1>4. \A t \in 1 .. Len(ss) : t # 0
  OBVIOUS
<1>2. /\ OnFull(cs2, ss2, j, 0) =
           IF ss2[s].inuse = cs[j].objects THEN OnFull(cs, ss, j, s) \cup {s} ELSE OnFull(cs, ss, j, s)
      /\ OnPartial(cs2, ss2, j, 0) =
           IF ss2[s].inuse < cs[j].objects /\ (ss2[s].inuse > 0 \/ cs[j].objects = 1)
           THEN OnPartial(cs, ss, j, s) \cup {s} ELSE OnPartial(cs, ss, j, s)
      /\ OnFree(cs2, ss2, j, 0) =
           IF ss2[s].inuse = 0 /\ cs[j].objects > 1
           THEN OnFree(cs, ss, j, s) \cup {s} ELSE OnFree(cs, ss, j, s)
  BY <1>1, <1>3, <1>4 DEF OnFull, OnPartial, OnFree, OnlySlab
<1> QED
  BY <1>2

(* The end of cache_alloc: an object is taken from the slab in the hand,   *)
(* which goes to its list.                                                 *)
Takes(cs, ss, s, k, cs2, ss2, r) ==
  /\ k = ss[s].parent /\ ss[s].inuse < cs[k].objects
  /\ cs2 = [cs EXCEPT ![k] = Put(cs[k], s, Taken(ss[s]).inuse)]
  /\ ss2 = [ss EXCEPT ![s] = Taken(@)]
  /\ r = [addr |-> ss[s].objects + ss[s].free * cs[k].size, size |-> cs[k].size]

LEMMA TakeKeeps ==
  ASSUME NEW cs, NEW ss, NEW us, NEW all, NEW s \in 1 .. Len(ss), MemInv(cs, ss, us, all, s),
         NEW k, NEW cs2, NEW ss2, NEW r, Takes(cs, ss, s, k, cs2, ss2, r)
  PROVE  MemInv(cs2, ss2, us, all \cup {r}, 0) /\ r \notin all /\ Shapes(cs2, cs)
<1> DEFINE c == cs[k]
           sl == ss[s]
           new == Taken(sl)
           n == c.objects
           vw == View(cs, ss)
           given == Given(vw[s], all)
           d == Put(c, s, new.inuse)
<1>0. k = ss[s].parent /\ ss[s].inuse < cs[k].objects
  BY DEF Takes
<1>1. /\ CachesRight(cs) /\ SlabsTyped(cs, ss) /\ ViewsRight(vw, us)
      /\ \A o \in all : Placed(vw, o)
      /\ \A t \in 1 .. Len(ss) : HasChain(ss[t], cs[ss[t].parent].objects, Given(vw[t], all))
      /\ ListsRight(cs, ss, s)
      /\ us \in SUBSET (0 .. Frames - 1) /\ TakenFrames \subseteq us
  BY DEF MemInv
<1>2. k \in 1 .. Len(cs) /\ sl \in SlabSet /\ sl.ctl \in [0 .. n - 1 -> Nat]
  BY <1>0, <1>1, ElementOfSeq DEF SlabsTyped
<1>3. c \in CacheSet /\ CacheFits(c)
  BY <1>1, <1>2, ElementOfSeq DEF CachesRight
<1>4. n \in Nat \ {0}
  BY <1>3 DEF CacheSet
<1>5. HasChain(sl, n, given)
  BY <1>0, <1>1
<1> HIDE DEF c, sl, given
<1>6. sl.inuse \in Nat /\ sl.inuse < n /\ sl.free \in Nat /\ sl.inuse >= 0
  BY <1>0, <1>2 DEF SlabSet, c, sl
<1>7. /\ sl.free \in 0 .. n - 1 /\ sl.free \notin given
      /\ \A x : (x.inuse = sl.inuse + 1 /\ x.ctl = sl.ctl /\ x.free = sl.ctl[sl.free]) =>
           HasChain(x, n, given \cup {sl.free})
  BY <1>2, <1>4, <1>5, <1>6, TakeChain
<1>8. /\ new \in SlabSet /\ new.parent = sl.parent /\ new.base = sl.base /\ new.objects = sl.objects
      /\ new.ctl = sl.ctl /\ new.free = sl.ctl[sl.free] /\ new.inuse = sl.inuse + 1
  <2>1. new = [sl EXCEPT !.free = sl.ctl[sl.free], !.inuse = @ + 1]
    BY DEF Taken
  <2>2. sl.ctl[sl.free] \in Nat /\ sl.inuse + 1 \in Nat
    <3>1. sl.inuse + 1 \in Nat
      BY <1>6
    <3>2. sl.ctl[sl.free] \in Nat
      BY <1>2, <1>7
    <3> QED
      BY <3>1, <3>2
  <2> HIDE DEF new
  <2> QED
    BY <1>2, <2>1, <2>2 DEF SlabSet
<1>9. HasChain(new, n, given \cup {sl.free})
  BY <1>7, <1>8
<1> HIDE DEF new
<1>10. CacheLists(c, OnFull(cs, ss, k, s), OnPartial(cs, ss, k, s), OnFree(cs, ss, k, s))
  BY <1>1, <1>2, ListsAre DEF c
<1>11. s \notin OnFull(cs, ss, k, s) /\ s \notin OnPartial(cs, ss, k, s) /\ s \in Nat
  BY DEF OnFull, OnPartial
<1>12. /\ d \in CacheSet /\ SameShape(d, c) /\ d.colour = c.colour
       /\ new.inuse = c.objects =>
            CacheLists(d, OnFull(cs, ss, k, s) \cup {s}, OnPartial(cs, ss, k, s), OnFree(cs, ss, k, s))
       /\ new.inuse # c.objects =>
            CacheLists(d, OnFull(cs, ss, k, s), OnPartial(cs, ss, k, s) \cup {s}, OnFree(cs, ss, k, s))
  <2> DEFINE F == OnFull(cs, ss, k, s)
             Q == OnPartial(cs, ss, k, s)
             E == OnFree(cs, ss, k, s)
             m == new.inuse
  <2>1. CacheLists(c, F, Q, E) /\ s \notin F /\ s \notin Q /\ s \in Nat
    BY <1>10, <1>11
  <2>2. d = Put(c, s, m)
    OBVIOUS
  <2> HIDE DEF F, Q, E, m, d
  <2>3. /\ d \in CacheSet /\ SameShape(d, c) /\ d.colour = c.colour
        /\ m = c.objects => CacheLists(d, F \cup {s}, Q, E)
        /\ m # c.objects => CacheLists(d, F, Q \cup {s}, E)
    BY <1>3, <2>1, <2>2, PutCache
  <2> QED
    BY <2>3 DEF F, Q, E, m
<1>13. cs2 = [cs EXCEPT ![k] = d]
  BY DEF c, d, new, sl, Takes
<1> HIDE DEF d
<1>14. /\ CachesRight(cs2) /\ Shapes(cs2, cs) /\ Len(cs2) = Len(cs)
       /\ cs2[k] = d /\ \A j \in 1 .. Len(cs) : j # k => cs2[j] = cs[j]
  <2>1. CacheFits(d) /\ SameShape(d, cs[k])
    BY <1>3, <1>12, ShapeFits DEF c
  <2>2. CacheChange(cs, k, d, cs2)
    BY <1>1, <1>2, <1>12, <1>13, <2>1 DEF CacheChange
  <2>3. CachesRight(cs2) /\ Shapes(cs2, cs)
    BY <2>2, CacheUpdate
  <2>4. Len(cs2) = Len(cs)
    BY <2>2, CacheUpdate
  <2>5. cs2[k] = d
    BY <2>2, CacheUpdate
  <2>6. \A j \in 1 .. Len(cs) : j # k => cs2[j] = cs[j]
    BY <2>2, CacheUpdate
  <2> QED
    BY <2>3, <2>4, <2>5, <2>6
<1>15. /\ SlabsTyped(cs2, ss2) /\ Len(ss2) = Len(ss) /\ View(cs2, ss2) = vw
       /\ ss2[s] = new /\ \A t \in 1 .. Len(ss) : t # s => ss2[t] = ss[t]
  <2>1. ss2 = [ss EXCEPT ![s] = new]
    BY DEF new, sl, Takes
  <2>2. new.ctl \in [0 .. cs[ss[s].parent].objects - 1 -> Nat]
    BY <1>0, <1>2, <1>8 DEF c
  <2>3. new.parent = ss[s].parent /\ new.base = ss[s].base /\ new.objects = ss[s].objects
    BY <1>8 DEF sl
  <2>4. SlabChange(cs, ss, s, new, ss2)
    BY <1>1, <1>8, <2>1, <2>2, <2>3 DEF SlabChange
  <2>5. SlabsTyped(cs2, ss2)
    BY <1>14, <2>4, SlabUpdate
  <2>6. Len(ss2) = Len(ss) /\ View(cs2, ss2) = View(cs, ss)
    BY <1>14, <2>4, SlabUpdate
  <2>7. ss2[s] = new
    BY <1>14, <2>4, SlabUpdate
  <2>8. \A t \in 1 .. Len(ss) : t # s => ss2[t] = ss[t]
    BY <1>14, <2>4, SlabUpdate
  <2> QED
    BY <2>5, <2>6, <2>7, <2>8
<1>16. /\ DOMAIN vw = 1 .. Len(ss)
       /\ \A t \in 1 .. Len(ss) : vw[t].count = cs[ss[t].parent].objects
       /\ vw[s].objects = sl.objects /\ vw[s].size = c.size /\ vw[s].count = n
  <2>1. DOMAIN vw = 1 .. Len(ss) /\ \A t \in 1 .. Len(ss) : vw[t].count = cs[ss[t].parent].objects
    BY <1>1, ViewIs
  <2>2. vw[s].objects = sl.objects /\ vw[s].size = c.size /\ vw[s].count = n
    BY <1>0, <1>1, ViewIs DEF c, sl
  <2> QED
    BY <2>1, <2>2
<1> HIDE DEF vw
<1>17. r = [addr |-> Slot(vw[s], sl.free), size |-> vw[s].size]
  BY <1>16 DEF Slot, c, sl, Takes
<1>18. /\ Placed(vw, r)
       /\ Given(vw[s], all \cup {r}) = Given(vw[s], all) \cup {sl.free}
       /\ \A t \in DOMAIN vw : t # s => Given(vw[t], all \cup {r}) = Given(vw[t], all)
       /\ sl.free \notin Given(vw[s], all) => r \notin all
  <2>1. sl.free \in 0 .. vw[s].count - 1 /\ s \in DOMAIN vw
    BY <1>7, <1>16
  <2>2. ViewsRight(vw, us) /\ ObjectAt(vw, s, sl.free, r)
    BY <1>1, <1>17, <2>1 DEF ObjectAt
  <2>3. GivenMore(vw, all, s, sl.free, r)
    BY <2>2, GivenAdd
  <2> QED
    BY <2>3 DEF GivenMore
<1>19. r \notin all
  BY <1>7, <1>18 DEF given
<1>20. \A o \in all \cup {r} : Placed(View(cs2, ss2), o)
  BY <1>1, <1>15, <1>18
<1>21. ASSUME NEW t \in 1 .. Len(ss2)
       PROVE  HasChain(ss2[t], cs2[ss2[t].parent].objects, Given(View(cs2, ss2)[t], all \cup {r}))
  <2>1. ss2[t].parent = ss[t].parent /\ ss[t].parent \in 1 .. Len(cs)
    BY <1>1, <1>8, <1>15 DEF SlabsTyped, sl
  <2>2. cs2[ss2[t].parent].objects = cs[ss[t].parent].objects
    BY <1>14, <2>1 DEF Shapes, SameShape
  <2>3. CASE t = s
    <3>1. Given(View(cs2, ss2)[t], all \cup {r}) = given \cup {sl.free}
      BY <1>15, <1>18, <2>3 DEF given
    <3>2. cs[ss[t].parent].objects = n
      BY <1>0, <2>3 DEF c
    <3> QED
      BY <1>9, <1>15, <2>2, <2>3, <3>1, <3>2
  <2>4. CASE t # s
    <3>1. Given(View(cs2, ss2)[t], all \cup {r}) = Given(vw[t], all)
      BY <1>15, <1>16, <1>18, <2>4
    <3> QED
      BY <1>1, <1>15, <2>2, <2>4, <3>1
  <2> QED
    BY <2>3, <2>4
<1>22. ListsRight(cs2, ss2, 0)
  <2>1. ASSUME NEW j \in 1 .. Len(cs2)
        PROVE  CacheLists(cs2[j], OnFull(cs2, ss2, j, 0), OnPartial(cs2, ss2, j, 0), OnFree(cs2, ss2, j, 0))
    <3>0. j \in 1 .. Len(cs)
      BY <1>14
    <3>1. OnlySlab(ss, ss2, s) /\ Shapes(cs2, cs)
      BY <1>8, <1>14, <1>15 DEF sl, OnlySlab
    <3>2. CASE j # k
      <4>1. cs2[j] = cs[j]
        BY <1>14, <3>0, <3>2
      <4>2. CacheLists(cs[j], OnFull(cs, ss, j, s), OnPartial(cs, ss, j, s), OnFree(cs, ss, j, s))
        BY <1>1, <3>0, ListsAre
      <4>3. /\ OnFull(cs2, ss2, j, 0) = OnFull(cs, ss, j, s)
            /\ OnPartial(cs2, ss2, j, 0) = OnPartial(cs, ss, j, s)
            /\ OnFree(cs2, ss2, j, 0) = OnFree(cs, ss, j, s)
        BY <1>0, <3>0, <3>1, <3>2, ListsBack
      <4> QED
        BY <4>1, <4>2, <4>3
    <3>3. CASE j = k
      <4>1. ss2[s].inuse = new.inuse /\ new.inuse = sl.inuse + 1 /\ cs[k].objects = n /\ cs2[j] = d
        BY <1>8, <1>14, <1>15, <3>3 DEF c
      <4>2. new.inuse > 0 /\ new.inuse # 0 /\ (new.inuse # n => new.inuse < n)
            /\ ~(new.inuse < n /\ new.inuse = n)
        BY <1>4, <1>6, <1>8
      <4>5. BackTo(cs, cs2, ss, ss2, s, j) /\ cs[j].objects = n
        BY <1>0, <3>0, <3>1, <3>3, <4>1 DEF BackTo
      <4>3. CASE new.inuse = n
        <5>1. ss2[s].inuse = cs[j].objects /\ ~(ss2[s].inuse < cs[j].objects) /\ ss2[s].inuse # 0
          BY <4>1, <4>2, <4>3, <4>5
        <5>2. OnFull(cs2, ss2, j, 0) = OnFull(cs, ss, k, s) \cup {s}
          BY <3>3, <4>5, <5>1, ListsBackTo
        <5>3. OnPartial(cs2, ss2, j, 0) = OnPartial(cs, ss, k, s)
          BY <3>3, <4>5, <5>1, ListsBackTo
        <5>4. OnFree(cs2, ss2, j, 0) = OnFree(cs, ss, k, s)
          BY <3>3, <4>5, <5>1, ListsBackTo
        <5> QED
          BY <1>12, <4>1, <4>3, <5>2, <5>3, <5>4 DEF c
      <4>4. CASE new.inuse # n
        <5>1. /\ ss2[s].inuse # cs[j].objects /\ ss2[s].inuse < cs[j].objects
              /\ ss2[s].inuse > 0 /\ ss2[s].inuse # 0
          BY <4>1, <4>2, <4>4, <4>5
        <5>2. OnFull(cs2, ss2, j, 0) = OnFull(cs, ss, k, s)
          BY <3>3, <4>5, <5>1, ListsBackTo
        <5>3. OnPartial(cs2, ss2, j, 0) = OnPartial(cs, ss, k, s) \cup {s}
          BY <3>3, <4>5, <5>1, ListsBackTo
        <5>4. OnFree(cs2, ss2, j, 0) = OnFree(cs, ss, k, s)
          BY <3>3, <4>5, <5>1, ListsBackTo
        <5> QED
          BY <1>12, <4>1, <4>4, <5>2, <5>3, <5>4 DEF c
      <4> QED
        BY <4>3, <4>4
    <3> QED
      BY <3>2, <3>3
  <2> QED
    BY <2>1, ListsAre
<1>23. ViewsRight(View(cs2, ss2), us)
  BY <1>1, <1>15
<1> QED
  BY <1>1, <1>14, <1>15, <1>19, <1>20, <1>21, <1>22, <1>23 DEF MemInv

(* The end of cache_free: the first object of a slab goes back, and the    *)
(* slab may move.                                                          *)
Frees(cs, ss, s, k, cs2, ss2, o) ==
  /\ s \in 1 .. Len(ss) /\ k = ss[s].parent /\ o.addr = ss[s].objects
  /\ cs2 = [cs EXCEPT ![k] = Removed(cs[k], s, ss[s].inuse - 1)]
  /\ ss2 = [ss EXCEPT ![s].ctl[0] = ss[s].free, ![s].free = 0, ![s].inuse = @ - 1]

OneLess(cs, cs2, ss, ss2, s, j) ==
  /\ OnlySlab(ss, ss2, s) /\ Shapes(cs2, cs) /\ j \in 1 .. Len(cs) /\ j = ss[s].parent
  /\ cs[j].objects \in Nat \ {0} /\ ss[s].inuse \in 1 .. cs[j].objects
  /\ ss2[s].inuse = ss[s].inuse - 1

LEMMA ListsLess ==
  ASSUME NEW cs, NEW cs2, NEW ss, NEW ss2, NEW s, NEW j, OneLess(cs, cs2, ss, ss2, s, j)
  PROVE  /\ ss[s].inuse = cs[j].objects =>
              /\ s \in OnFull(cs, ss, j, 0) /\ s \notin OnPartial(cs, ss, j, 0)
              /\ OnFull(cs2, ss2, j, 0) = OnFull(cs, ss, j, 0) \ {s}
              /\ OnPartial(cs2, ss2, j, 0) = OnPartial(cs, ss, j, 0) \cup {s}
              /\ OnFree(cs2, ss2, j, 0) = OnFree(cs, ss, j, 0)
         /\ ss[s].inuse # cs[j].objects =>
              /\ s \in OnPartial(cs, ss, j, 0) /\ s \notin OnFull(cs, ss, j, 0)
              /\ OnFull(cs2, ss2, j, 0) = OnFull(cs, ss, j, 0)
              /\ ss2[s].inuse = 0 =>
                   /\ OnPartial(cs2, ss2, j, 0) = OnPartial(cs, ss, j, 0) \ {s}
                   /\ OnFree(cs2, ss2, j, 0) = OnFree(cs, ss, j, 0) \cup {s}
              /\ ss2[s].inuse # 0 =>
                   /\ OnPartial(cs2, ss2, j, 0) = OnPartial(cs, ss, j, 0)
                   /\ OnFree(cs2, ss2, j, 0) = OnFree(cs, ss, j, 0)
         /\ s \notin OnFree(cs, ss, j, 0)
<1>1. /\ Len(ss2) = Len(ss) /\ ss2[s].parent = j /\ ss[s].parent = j /\ s \in 1 .. Len(ss)
      /\ \A t \in 1 .. Len(ss) : t # s => ss2[t] = ss[t]
  BY DEF OneLess, OnlySlab
<1>2. PICK n \in Nat : n = cs[j].objects /\ n = cs2[j].objects /\ n # 0
  BY DEF OneLess, Shapes, SameShape
<1>3. PICK m \in 1 .. n : m = ss[s].inuse /\ ss2[s].inuse = m - 1
  BY <1>2 DEF OneLess
<1>4. \A t \in 1 .. Len(ss) : t # 0
  OBVIOUS
<1>5. /\ ~(m - 1 = n) /\ m - 1 < n /\ (m = n => (m - 1 > 0 \/ n = 1)) /\ ~(m = 0) /\ m > 0
      /\ (m # n => m < n) /\ (m = n => ~(m - 1 = 0 /\ n > 1)) /\ (m # n => n > 1 /\ n # 1) /\ ~(n < n)
      /\ (m - 1 = 0 => ~(m - 1 > 0)) /\ (m - 1 # 0 => m - 1 > 0)
  BY <1>2
<1>6. ASSUME m = n
      PROVE  /\ s \in OnFull(cs, ss, j, 0) /\ s \notin OnPartial(cs, ss, j, 0)
             /\ OnFull(cs2, ss2, j, 0) = OnFull(cs, ss, j, 0) \ {s}
             /\ OnPartial(cs2, ss2, j, 0) = OnPartial(cs, ss, j, 0) \cup {s}
             /\ OnFree(cs2, ss2, j, 0) = OnFree(cs, ss, j, 0)
  <2>1. s \in OnFull(cs, ss, j, 0) /\ s \notin OnPartial(cs, ss, j, 0)
    BY <1>1, <1>2, <1>3, <1>4, <1>5, <1>6 DEF OnFull, OnPartial
  <2>2. OnFull(cs2, ss2, j, 0) = OnFull(cs, ss, j, 0) \ {s}
    BY <1>1, <1>2, <1>3, <1>4, <1>5, <1>6 DEF OnFull
  <2>3. OnPartial(cs2, ss2, j, 0) = OnPartial(cs, ss, j, 0) \cup {s}
    BY <1>1, <1>2, <1>3, <1>4, <1>5, <1>6 DEF OnPartial
  <2>4. OnFree(cs2, ss2, j, 0) = OnFree(cs, ss, j, 0)
    BY <1>1, <1>2, <1>3, <1>4, <1>5, <1>6 DEF OnFree
  <2> QED
    BY <2>1, <2>2, <2>3, <2>4
<1>7. ASSUME m # n
      PROVE  /\ s \in OnPartial(cs, ss, j, 0) /\ s \notin OnFull(cs, ss, j, 0)
             /\ OnFull(cs2, ss2, j, 0) = OnFull(cs, ss, j, 0)
             /\ m - 1 = 0 =>
                  /\ OnPartial(cs2, ss2, j, 0) = OnPartial(cs, ss, j, 0) \ {s}
                  /\ OnFree(cs2, ss2, j, 0) = OnFree(cs, ss, j, 0) \cup {s}
             /\ m - 1 # 0 =>
                  /\ OnPartial(cs2, ss2, j, 0) = OnPartial(cs, ss, j, 0)
                  /\ OnFree(cs2, ss2, j, 0) = OnFree(cs, ss, j, 0)
  <2>1. s \in OnPartial(cs, ss, j, 0) /\ s \notin OnFull(cs, ss, j, 0)
    BY <1>1, <1>2, <1>3, <1>4, <1>5, <1>7 DEF OnFull, OnPartial
  <2>2. OnFull(cs2, ss2, j, 0) = OnFull(cs, ss, j, 0)
    BY <1>1, <1>2, <1>3, <1>4, <1>5, <1>7 DEF OnFull
  <2>3. m - 1 = 0 => OnPartial(cs2, ss2, j, 0) = OnPartial(cs, ss, j, 0) \ {s}
    BY <1>1, <1>2, <1>3, <1>4, <1>5, <1>7 DEF OnPartial
  <2>4. m - 1 = 0 => OnFree(cs2, ss2, j, 0) = OnFree(cs, ss, j, 0) \cup {s}
    BY <1>1, <1>2, <1>3, <1>4, <1>5, <1>7 DEF OnFree
  <2>5. m - 1 # 0 => OnPartial(cs2, ss2, j, 0) = OnPartial(cs, ss, j, 0)
    BY <1>1, <1>2, <1>3, <1>4, <1>5, <1>7 DEF OnPartial
  <2>6. m - 1 # 0 => OnFree(cs2, ss2, j, 0) = OnFree(cs, ss, j, 0)
    BY <1>1, <1>2, <1>3, <1>4, <1>5, <1>7 DEF OnFree
  <2> QED
    BY <2>1, <2>2, <2>3, <2>4, <2>5, <2>6
<1>8. s \notin OnFree(cs, ss, j, 0)
  BY <1>3, <1>5 DEF OnFree
<1>9. ss[s].inuse = m /\ cs[j].objects = n /\ ss2[s].inuse = m - 1
  BY <1>2, <1>3
<1> HIDE DEF OnFull, OnPartial, OnFree
<1> QED
  BY <1>6, <1>7, <1>8, <1>9

LEMMA ListsSame ==
  ASSUME NEW cs, NEW cs2, NEW ss, NEW ss2, NEW s, OnlySlab(ss, ss2, s), Shapes(cs2, cs),
         NEW j \in 1 .. Len(cs), j # ss[s].parent
  PROVE  /\ OnFull(cs2, ss2, j, 0) = OnFull(cs, ss, j, 0)
         /\ OnPartial(cs2, ss2, j, 0) = OnPartial(cs, ss, j, 0)
         /\ OnFree(cs2, ss2, j, 0) = OnFree(cs, ss, j, 0)
<1>1. cs2[j].objects = cs[j].objects
  BY DEF Shapes, SameShape
<1> QED
  BY <1>1 DEF OnFull, OnPartial, OnFree, OnlySlab

LEMMA FreeKeeps ==
  ASSUME NEW cs, NEW ss, NEW us, NEW all, NEW o \in all, MemInv(cs, ss, us, all, 0),
         NEW s, NEW k, NEW cs2, NEW ss2, Frees(cs, ss, s, k, cs2, ss2, o)
  PROVE  MemInv(cs2, ss2, us, all \ {o}, 0) /\ Shapes(cs2, cs)
<1> DEFINE c == cs[k]
           sl == ss[s]
           new == [sl EXCEPT !.ctl = [sl.ctl EXCEPT ![0] = sl.free], !.free = 0, !.inuse = @ - 1]
           n == c.objects
           vw == View(cs, ss)
           given == Given(vw[s], all)
           d == Removed(c, s, sl.inuse - 1)
<1>0. k = ss[s].parent /\ s \in 1 .. Len(ss) /\ o.addr = ss[s].objects
  BY DEF Frees
<1>1. /\ CachesRight(cs) /\ SlabsTyped(cs, ss) /\ ViewsRight(vw, us)
      /\ \A q \in all : Placed(vw, q)
      /\ \A t \in 1 .. Len(ss) : HasChain(ss[t], cs[ss[t].parent].objects, Given(vw[t], all))
      /\ ListsRight(cs, ss, 0)
      /\ us \in SUBSET (0 .. Frames - 1) /\ TakenFrames \subseteq us
  BY DEF MemInv
<1>2. k \in 1 .. Len(cs) /\ sl \in SlabSet /\ sl.ctl \in [0 .. n - 1 -> Nat]
  BY <1>0, <1>1, ElementOfSeq DEF SlabsTyped
<1>3. c \in CacheSet /\ CacheFits(c)
  BY <1>1, <1>2, ElementOfSeq DEF CachesRight
<1>4. n \in Nat \ {0}
  BY <1>3 DEF CacheSet
<1>5. HasChain(sl, n, given)
  BY <1>0, <1>1
<1>16. /\ DOMAIN vw = 1 .. Len(ss) /\ vw[s].objects = sl.objects
       /\ \A t \in 1 .. Len(ss) : vw[t].count = cs[ss[t].parent].objects
  <2>1. DOMAIN vw = 1 .. Len(ss) /\ \A t \in 1 .. Len(ss) : vw[t].count = cs[ss[t].parent].objects
    BY <1>1, ViewIs
  <2>2. vw[s].objects = sl.objects
    BY <1>0, <1>1, ViewIs
  <2> QED
    BY <2>1, <2>2
<1> HIDE DEF c, sl, given, vw
<1>17. /\ 0 \in given
       /\ Given(vw[s], all \ {o}) = given \ {0}
       /\ \A t \in DOMAIN vw : t # s => Given(vw[t], all \ {o}) = Given(vw[t], all)
  <2>1. o.addr = vw[s].objects /\ s \in DOMAIN vw
    BY <1>0, <1>16 DEF sl
  <2> QED
    <3>1. GivenLess(vw, all, s, o)
      BY <1>1, <2>1, GivenRemove
    <3> QED
      BY <3>1 DEF given, GivenLess
<1>8. /\ new \in SlabSet /\ new.parent = sl.parent /\ new.base = sl.base /\ new.objects = sl.objects
      /\ new.ctl = [sl.ctl EXCEPT ![0] = sl.free] /\ new.free = 0 /\ new.inuse = sl.inuse - 1
      /\ new.ctl \in [0 .. n - 1 -> Nat] /\ sl.inuse \in 1 .. n
  <2>1. sl.inuse \in 1 .. n
    <3>1. sl.inuse \in 0 .. n
      BY <1>5 DEF HasChain
    <3>2. sl.inuse # 0
      <4> DEFINE x == [inuse |-> sl.inuse - 1, free |-> 0, ctl |-> [sl.ctl EXCEPT ![0] = sl.free]]
      <4>1. x.inuse = sl.inuse - 1 /\ x.free = 0 /\ x.ctl = [sl.ctl EXCEPT ![0] = sl.free]
        OBVIOUS
      <4> HIDE DEF x, n
      <4>2. sl.inuse >= 1
        BY <1>2, <1>4, <1>5, <1>17, <4>1, FreeChain
      <4> QED
        BY <4>2
    <3> QED
      BY <1>4, <3>1, <3>2
  <2>2. [sl.ctl EXCEPT ![0] = sl.free] \in [0 .. n - 1 -> Nat] /\ sl.inuse - 1 \in Nat
    BY <1>2, <1>4, <2>1 DEF SlabSet
  <2>3. [sl.ctl EXCEPT ![0] = sl.free] \in CtlSet
    BY <1>4, <2>2 DEF CtlSet
  <2> DEFINE ch == [sl.ctl EXCEPT ![0] = sl.free]
             i == sl.inuse - 1
  <2>4. new = [sl EXCEPT !.ctl = ch, !.free = 0, !.inuse = i]
    <3>1. sl \in SlabSet
      BY <1>2
    <3> QED
      BY <3>1 DEF SlabSet
  <2>5. ch \in CtlSet /\ i \in Nat /\ 0 \in Nat
    BY <2>2, <2>3
  <2> HIDE DEF new, ch, i
  <2>6. /\ new \in SlabSet /\ new.parent = sl.parent /\ new.base = sl.base /\ new.objects = sl.objects
        /\ new.ctl = ch /\ new.free = 0 /\ new.inuse = i
    BY <1>2, <2>4, <2>5 DEF SlabSet
  <2> QED
    BY <2>1, <2>2, <2>6 DEF ch, i
<1> HIDE DEF new, n
<1>9. HasChain(new, n, given \ {0})
  BY <1>2, <1>4, <1>5, <1>8, <1>17, FreeChain
<1>13. cs2 = [cs EXCEPT ![k] = d] /\ ss2 = [ss EXCEPT ![s] = new]
  <2>1. cs2 = [cs EXCEPT ![k] = d]
    BY DEF Frees, c, sl, d
  <2>2. ss2 = [ss EXCEPT ![s] = new]
    BY DEF Frees, new, sl
  <2> QED
    BY <2>1, <2>2
<1>10. /\ CacheLists(c, OnFull(cs, ss, k, 0), OnPartial(cs, ss, k, 0), OnFree(cs, ss, k, 0))
       /\ s \in Nat
  BY <1>0, <1>1, <1>2, ListsAre DEF c
<1>11. /\ s \in OnFull(cs, ss, k, 0) => s \notin OnPartial(cs, ss, k, 0)
       /\ s \notin OnFree(cs, ss, k, 0)
       /\ s \in OnFull(cs, ss, k, 0) \cup OnPartial(cs, ss, k, 0)
       /\ s \in OnFull(cs, ss, k, 0) <=> sl.inuse = n
  <2>1. PICK i \in 1 .. n : i = ss[s].inuse /\ cs[k].objects = n
    BY <1>8 DEF sl, c, n
  <2>2. s # 0 /\ i # 0 /\ i > 0 /\ (i # n => i < n) /\ (i = n => ~(i < n))
    BY <1>0, <1>4, <2>1
  <2> QED
    BY <1>0, <2>1, <2>2 DEF OnFull, OnPartial, OnFree, sl
<1>12. /\ d \in CacheSet /\ SameShape(d, c) /\ d.colour = c.colour
       /\ sl.inuse = n =>
            CacheLists(d, OnFull(cs, ss, k, 0) \ {s}, OnPartial(cs, ss, k, 0) \cup {s}, OnFree(cs, ss, k, 0))
       /\ (sl.inuse # n /\ new.inuse = 0) =>
            CacheLists(d, OnFull(cs, ss, k, 0), OnPartial(cs, ss, k, 0) \ {s}, OnFree(cs, ss, k, 0) \cup {s})
       /\ (sl.inuse # n /\ new.inuse # 0) =>
            CacheLists(d, OnFull(cs, ss, k, 0), OnPartial(cs, ss, k, 0), OnFree(cs, ss, k, 0))
  <2> DEFINE F == OnFull(cs, ss, k, 0)
             Q == OnPartial(cs, ss, k, 0)
             E == OnFree(cs, ss, k, 0)
             m == new.inuse
  <2>1. /\ CacheLists(c, F, Q, E) /\ (s \in F => s \notin Q) /\ s \notin E /\ s \in F \cup Q
        /\ s \in Nat /\ (s \in F <=> sl.inuse = n)
    BY <1>10, <1>11
  <2>2. d = Removed(c, s, m)
    BY <1>8
  <2> HIDE DEF F, Q, E, m, d
  <2>3. /\ d \in CacheSet /\ SameShape(d, c) /\ d.colour = c.colour
        /\ s \in F => CacheLists(d, F \ {s}, Q \cup {s}, E)
        /\ (s \notin F /\ m = 0) => CacheLists(d, F, Q \ {s}, E \cup {s})
        /\ (s \notin F /\ m # 0) => CacheLists(d, F, Q, E)
    <3>1. RemovedFrom(c, s, m, F, Q, E, d)
      BY <1>3, <2>1, <2>2 DEF RemovedFrom
    <3>2. Moved(c, s, m, F, Q, E, d)
      BY <3>1, RemovedCache
    <3> QED
      BY <3>2 DEF Moved
  <2> QED
    BY <2>1, <2>3 DEF F, Q, E, m
<1> HIDE DEF d
<1>14. /\ CachesRight(cs2) /\ Shapes(cs2, cs) /\ Len(cs2) = Len(cs)
       /\ cs2[k] = d /\ \A j \in 1 .. Len(cs) : j # k => cs2[j] = cs[j]
  <2>1. CacheFits(d) /\ SameShape(d, cs[k])
    BY <1>3, <1>12, ShapeFits DEF c
  <2>2. CacheChange(cs, k, d, cs2)
    BY <1>1, <1>2, <1>12, <1>13, <2>1 DEF CacheChange
  <2>3. CachesRight(cs2) /\ Shapes(cs2, cs)
    BY <2>2, CacheUpdate
  <2>4. Len(cs2) = Len(cs)
    BY <2>2, CacheUpdate
  <2>5. cs2[k] = d
    BY <2>2, CacheUpdate
  <2>6. \A j \in 1 .. Len(cs) : j # k => cs2[j] = cs[j]
    BY <2>2, CacheUpdate
  <2> QED
    BY <2>3, <2>4, <2>5, <2>6
<1>15. /\ SlabsTyped(cs2, ss2) /\ Len(ss2) = Len(ss) /\ View(cs2, ss2) = vw
       /\ ss2[s] = new /\ \A t \in 1 .. Len(ss) : t # s => ss2[t] = ss[t]
  <2>2. new.ctl \in [0 .. cs[ss[s].parent].objects - 1 -> Nat]
    BY <1>0, <1>8 DEF c, n
  <2>3. new.parent = ss[s].parent /\ new.base = ss[s].base /\ new.objects = ss[s].objects
    BY <1>8 DEF sl
  <2>4. SlabChange(cs, ss, s, new, ss2)
    BY <1>0, <1>1, <1>8, <1>13, <2>2, <2>3 DEF SlabChange
  <2>5. SlabsTyped(cs2, ss2)
    BY <1>14, <2>4, SlabUpdate
  <2>6. Len(ss2) = Len(ss) /\ View(cs2, ss2) = View(cs, ss)
    BY <1>14, <2>4, SlabUpdate
  <2>7. ss2[s] = new
    BY <1>14, <2>4, SlabUpdate
  <2>8. \A t \in 1 .. Len(ss) : t # s => ss2[t] = ss[t]
    BY <1>14, <2>4, SlabUpdate
  <2> QED
    BY <2>5, <2>6, <2>7, <2>8 DEF vw
<1>20. \A q \in all \ {o} : Placed(View(cs2, ss2), q)
  BY <1>1, <1>15
<1>21. ASSUME NEW t \in 1 .. Len(ss2)
       PROVE  HasChain(ss2[t], cs2[ss2[t].parent].objects, Given(View(cs2, ss2)[t], all \ {o}))
  <2>1. ss2[t].parent = ss[t].parent /\ ss[t].parent \in 1 .. Len(cs)
    BY <1>1, <1>8, <1>15 DEF SlabsTyped, sl
  <2>2. cs2[ss2[t].parent].objects = cs[ss[t].parent].objects
    BY <1>14, <2>1 DEF Shapes, SameShape
  <2>3. CASE t = s
    <3>1. Given(View(cs2, ss2)[t], all \ {o}) = given \ {0}
      BY <1>15, <1>17, <2>3
    <3>2. cs[ss[t].parent].objects = n
      BY <1>0, <2>3 DEF c, n
    <3> QED
      BY <1>9, <1>15, <2>2, <2>3, <3>1, <3>2
  <2>4. CASE t # s
    <3>1. Given(View(cs2, ss2)[t], all \ {o}) = Given(vw[t], all)
      BY <1>15, <1>16, <1>17, <2>4
    <3> QED
      BY <1>1, <1>15, <2>2, <2>4, <3>1
  <2> QED
    BY <2>3, <2>4
<1>22. ListsRight(cs2, ss2, 0)
  <2>1. ASSUME NEW j \in 1 .. Len(cs2)
        PROVE  CacheLists(cs2[j], OnFull(cs2, ss2, j, 0), OnPartial(cs2, ss2, j, 0), OnFree(cs2, ss2, j, 0))
    <3>0. j \in 1 .. Len(cs)
      BY <1>14
    <3>1. OnlySlab(ss, ss2, s) /\ Shapes(cs2, cs)
      BY <1>0, <1>8, <1>14, <1>15 DEF sl, OnlySlab
    <3>2. CASE j # k
      <4>1. cs2[j] = cs[j]
        BY <1>14, <3>0, <3>2
      <4>2. CacheLists(cs[j], OnFull(cs, ss, j, 0), OnPartial(cs, ss, j, 0), OnFree(cs, ss, j, 0))
        BY <1>1, <3>0, ListsAre
      <4>3. /\ OnFull(cs2, ss2, j, 0) = OnFull(cs, ss, j, 0)
            /\ OnPartial(cs2, ss2, j, 0) = OnPartial(cs, ss, j, 0)
            /\ OnFree(cs2, ss2, j, 0) = OnFree(cs, ss, j, 0)
        BY <1>0, <3>0, <3>1, <3>2, ListsSame
      <4> QED
        BY <4>1, <4>2, <4>3
    <3>3. CASE j = k
      <4>1. /\ OneLess(cs, cs2, ss, ss2, s, j) /\ cs2[j] = d /\ cs[j].objects = n /\ ss[s].inuse = sl.inuse
            /\ ss2[s].inuse = new.inuse
        BY <1>0, <1>4, <1>8, <1>14, <1>15, <3>0, <3>1, <3>3 DEF OneLess, c, n, sl
      <4>2. CASE sl.inuse = n
        <5>1. OnFull(cs2, ss2, j, 0) = OnFull(cs, ss, k, 0) \ {s}
          BY <3>3, <4>1, <4>2, ListsLess
        <5>2. OnPartial(cs2, ss2, j, 0) = OnPartial(cs, ss, k, 0) \cup {s}
          BY <3>3, <4>1, <4>2, ListsLess
        <5>3. OnFree(cs2, ss2, j, 0) = OnFree(cs, ss, k, 0)
          BY <3>3, <4>1, <4>2, ListsLess
        <5> QED
          BY <1>12, <4>1, <4>2, <5>1, <5>2, <5>3
      <4>3. CASE sl.inuse # n /\ new.inuse = 0
        <5>1. OnFull(cs2, ss2, j, 0) = OnFull(cs, ss, k, 0)
          BY <3>3, <4>1, <4>3, ListsLess
        <5>2. OnPartial(cs2, ss2, j, 0) = OnPartial(cs, ss, k, 0) \ {s}
          BY <3>3, <4>1, <4>3, ListsLess
        <5>3. OnFree(cs2, ss2, j, 0) = OnFree(cs, ss, k, 0) \cup {s}
          BY <3>3, <4>1, <4>3, ListsLess
        <5> QED
          BY <1>12, <4>1, <4>3, <5>1, <5>2, <5>3
      <4>4. CASE sl.inuse # n /\ new.inuse # 0
        <5>1. OnFull(cs2, ss2, j, 0) = OnFull(cs, ss, k, 0)
          BY <3>3, <4>1, <4>4, ListsLess
        <5>2. OnPartial(cs2, ss2, j, 0) = OnPartial(cs, ss, k, 0)
          BY <3>3, <4>1, <4>4, ListsLess
        <5>3. OnFree(cs2, ss2, j, 0) = OnFree(cs, ss, k, 0)
          BY <3>3, <4>1, <4>4, ListsLess
        <5> QED
          BY <1>12, <4>1, <4>4, <5>1, <5>2, <5>3
      <4> QED
        BY <4>2, <4>3, <4>4
    <3> QED
      BY <3>2, <3>3
  <2> QED
    BY <2>1, ListsAre
<1>23. ViewsRight(View(cs2, ss2), us)
  BY <1>1, <1>15
<1> QED
  BY <1>1, <1>14, <1>15, <1>20, <1>21, <1>22, <1>23 DEF MemInv

(* cache_alloc takes a slab off its list, and has it in the hand.          *)
Pops(cs, k, s, cs1) ==
  /\ k \in 1 .. Len(cs)
  /\ \/ /\ cs[k].partial # <<>> /\ s = Head(cs[k].partial)
        /\ cs1 = [cs EXCEPT ![k] = [cs[k] EXCEPT !.partial = Tail(@)]]
     \/ /\ cs[k].free # <<>> /\ s = Head(cs[k].free)
        /\ cs1 = [cs EXCEPT ![k] = [cs[k] EXCEPT !.free = Tail(@)]]

LEMMA ShapesKeep ==
  ASSUME NEW cs, NEW cs2, NEW ss, SlabsTyped(cs, ss), Shapes(cs2, cs)
  PROVE  SlabsTyped(cs2, ss) /\ View(cs2, ss) = View(cs, ss)
<1>1. \A k \in 1 .. Len(cs) : cs2[k].objects = cs[k].objects /\ cs2[k].size = cs[k].size /\ cs2[k].order = cs[k].order
  BY DEF Shapes, SameShape
<1>2. Len(cs2) = Len(cs)
  BY DEF Shapes
<1>3. \A t \in 1 .. Len(ss) : ss[t].parent \in 1 .. Len(cs)
  BY DEF SlabsTyped
<1>4. SlabsTyped(cs2, ss)
  BY <1>1, <1>2 DEF SlabsTyped
<1>5. ASSUME NEW t \in 1 .. Len(ss)
      PROVE  ViewOf(cs2[ss[t].parent], ss[t]) = ViewOf(cs[ss[t].parent], ss[t])
  BY <1>1, <1>3 DEF ViewOf
<1> QED
  BY <1>4, <1>5 DEF View

LEMMA PopKeeps ==
  ASSUME NEW cs, NEW ss, NEW us, NEW all, MemInv(cs, ss, us, all, 0),
         NEW k, NEW s, NEW cs1, Pops(cs, k, s, cs1)
  PROVE  /\ s \in 1 .. Len(ss) /\ ss[s].parent = k /\ ss[s].inuse < cs[k].objects
         /\ MemInv(cs1, ss, us, all, s) /\ Shapes(cs1, cs)
<1> DEFINE vw == View(cs, ss)
           F == OnFull(cs, ss, k, 0)
           Q == OnPartial(cs, ss, k, 0)
           E == OnFree(cs, ss, k, 0)
           c == cs[k]
           d == cs1[k]
<1>1. /\ CachesRight(cs) /\ SlabsTyped(cs, ss) /\ ViewsRight(vw, us)
      /\ \A o \in all : Placed(vw, o)
      /\ \A t \in 1 .. Len(ss) : HasChain(ss[t], cs[ss[t].parent].objects, Given(vw[t], all))
      /\ ListsRight(cs, ss, 0)
      /\ us \in SUBSET (0 .. Frames - 1) /\ TakenFrames \subseteq us
  BY DEF MemInv
<1>2. k \in 1 .. Len(cs) /\ cs \in Seq(CacheSet)
  BY <1>1 DEF Pops, CachesRight
<1>3. c \in CacheSet /\ CacheFits(c) /\ c.objects \in Nat \ {0}
  <2>1. c \in CacheSet /\ CacheFits(c)
    BY <1>1, <1>2, ElementOfSeq DEF CachesRight
  <2> QED
    BY <2>1 DEF CacheSet
<1>4. CacheLists(c, F, Q, E)
  BY <1>1, <1>2, ListsAre
<1>5. cs1 = [cs EXCEPT ![k] = d]
  BY <1>2 DEF Pops
<1>6. \/ c.partial # <<>> /\ s = Head(c.partial) /\ d = [c EXCEPT !.partial = Tail(@)]
      \/ c.free # <<>> /\ s = Head(c.free) /\ d = [c EXCEPT !.free = Tail(@)]
  <2>1. CASE /\ c.partial # <<>> /\ s = Head(c.partial)
             /\ cs1 = [cs EXCEPT ![k] = [cs[k] EXCEPT !.partial = Tail(@)]]
    <3>1. d = [cs[k] EXCEPT !.partial = Tail(@)]
      <4> DEFINE x == [cs[k] EXCEPT !.partial = Tail(@)]
      <4>1. cs1 = [cs EXCEPT ![k] = x]
        BY <2>1
      <4> HIDE DEF x
      <4>2. cs1[k] = x
        BY <1>2, <4>1
      <4> QED
        BY <4>2 DEF x
    <3> QED
      BY <2>1, <3>1
  <2>2. CASE /\ c.free # <<>> /\ s = Head(c.free)
             /\ cs1 = [cs EXCEPT ![k] = [cs[k] EXCEPT !.free = Tail(@)]]
    <3>1. d = [cs[k] EXCEPT !.free = Tail(@)]
      <4> DEFINE x == [cs[k] EXCEPT !.free = Tail(@)]
      <4>1. cs1 = [cs EXCEPT ![k] = x]
        BY <2>2
      <4> HIDE DEF x
      <4>2. cs1[k] = x
        BY <1>2, <4>1
      <4> QED
        BY <4>2 DEF x
    <3> QED
      BY <2>2, <3>1
  <2> QED
    BY <2>1, <2>2 DEF Pops
<1> HIDE DEF c, d, F, Q, E, vw
<1>7. /\ d \in CacheSet /\ SameShape(d, c) /\ d.colour = c.colour
      /\ \/ s \in Q /\ CacheLists(d, F, Q \ {s}, E)
         \/ s \in E /\ CacheLists(d, F, Q, E \ {s})
  <2>1. CASE c.partial # <<>> /\ s = Head(c.partial) /\ d = [c EXCEPT !.partial = Tail(@)]
    <3>1. \A x : x = [c EXCEPT !.partial = Tail(@)] =>
            /\ x \in CacheSet /\ SameShape(x, c) /\ x.colour = c.colour
            /\ Head(c.partial) \in Q
            /\ CacheLists(x, F, Q \ {Head(c.partial)}, E)
      BY <1>3, <1>4, <2>1, PopCache
    <3> QED
      BY <2>1, <3>1
  <2>2. CASE c.free # <<>> /\ s = Head(c.free) /\ d = [c EXCEPT !.free = Tail(@)]
    <3>1. \A x : x = [c EXCEPT !.free = Tail(@)] =>
            /\ x \in CacheSet /\ SameShape(x, c) /\ x.colour = c.colour
            /\ Head(c.free) \in E
            /\ CacheLists(x, F, Q, E \ {Head(c.free)})
      BY <1>3, <1>4, <2>2, PopCache
    <3> QED
      BY <2>2, <3>1
  <2> QED
    BY <1>6, <2>1, <2>2
<1>8. CacheLists(d, F \ {s}, Q \ {s}, E \ {s})
  <2>1. s \in Q => s \notin F /\ s \notin E
    <3> DEFINE n == c.objects
               m == ss[s].inuse
    <3>1. ASSUME s \in Q PROVE m < n /\ (m > 0 \/ n = 1) /\ m \in Nat
      <4>1. s \in 1 .. Len(ss) /\ ss \in Seq(SlabSet)
        BY <1>1, <3>1 DEF Q, OnPartial, SlabsTyped
      <4>2. m \in Nat
        <5>1. ss[s] \in SlabSet
          BY <4>1, ElementOfSeq
        <5> QED
          BY <5>1 DEF SlabSet
      <4> QED
        BY <3>1, <4>2 DEF Q, OnPartial, c
    <3>2. s \in F => m = n
      BY DEF F, OnFull, c
    <3>3. s \in E => m = 0 /\ n > 1
      BY DEF E, OnFree, c
    <3>4. n \in Nat
      BY <1>3
    <3> HIDE DEF n, m
    <3> QED
      BY <3>1, <3>2, <3>3, <3>4
  <2>2. s \in E => s \notin F
    <3>1. s \in E => ss[s].inuse = 0
      BY DEF E, OnFree
    <3>2. s \in F => ss[s].inuse = c.objects
      BY DEF F, OnFull, c
    <3> QED
      BY <1>3, <3>1, <3>2
  <2>3. s \in E => s \notin Q
    BY <2>1
  <2>4. CASE s \in Q /\ CacheLists(d, F, Q \ {s}, E)
    <3>1. F = F \ {s} /\ E = E \ {s}
      BY <2>1, <2>4
    <3> QED
      BY <2>4, <3>1
  <2>5. CASE s \in E /\ CacheLists(d, F, Q, E \ {s})
    <3>1. F = F \ {s} /\ Q = Q \ {s}
      BY <2>2, <2>3, <2>5
    <3> QED
      BY <2>5, <3>1
  <2> QED
    BY <1>7, <2>4, <2>5
<1>9. s \in 1 .. Len(ss) /\ ss[s].parent = k /\ ss[s].inuse < cs[k].objects
  <2>1. s \in Q => s \in 1 .. Len(ss) /\ ss[s].parent = k /\ ss[s].inuse < cs[k].objects
    BY DEF Q, OnPartial
  <2>2. s \in E => s \in 1 .. Len(ss) /\ ss[s].parent = k /\ ss[s].inuse = 0 /\ cs[k].objects > 1
    BY DEF E, OnFree
  <2>3. c.objects > 1 => 0 < c.objects
    BY <1>3
  <2> QED
    BY <1>7, <2>1, <2>2, <2>3 DEF c
<1>10. /\ CachesRight(cs1) /\ Shapes(cs1, cs) /\ Len(cs1) = Len(cs)
       /\ \A j \in 1 .. Len(cs) : j # k => cs1[j] = cs[j]
  <2>1. CacheFits(d) /\ SameShape(d, cs[k])
    BY <1>3, <1>7, ShapeFits DEF c
  <2>2. CacheChange(cs, k, d, cs1)
    BY <1>1, <1>2, <1>5, <1>7, <2>1 DEF CacheChange
  <2>3. CachesRight(cs1) /\ Shapes(cs1, cs)
    BY <2>2, CacheUpdate
  <2>4. Len(cs1) = Len(cs)
    BY <2>2, CacheUpdate
  <2>5. \A j \in 1 .. Len(cs) : j # k => cs1[j] = cs[j]
    BY <2>2, CacheUpdate
  <2> QED
    BY <2>3, <2>4, <2>5
<1>11. SlabsTyped(cs1, ss) /\ View(cs1, ss) = vw
  BY <1>1, <1>10, ShapesKeep DEF vw
<1>12. ASSUME NEW t \in 1 .. Len(ss)
       PROVE  HasChain(ss[t], cs1[ss[t].parent].objects, Given(vw[t], all))
  <2>1. ss[t].parent \in 1 .. Len(cs)
    BY <1>1 DEF SlabsTyped
  <2>2. cs1[ss[t].parent].objects = cs[ss[t].parent].objects
    BY <1>10, <2>1 DEF Shapes, SameShape
  <2> QED
    BY <1>1, <2>2
<1>13. ASSUME NEW j \in 1 .. Len(cs1)
       PROVE  CacheLists(cs1[j], OnFull(cs1, ss, j, s), OnPartial(cs1, ss, j, s), OnFree(cs1, ss, j, s))
  <2>1. /\ OnFull(cs1, ss, j, s) = OnFull(cs, ss, j, 0) \ {s}
        /\ OnPartial(cs1, ss, j, s) = OnPartial(cs, ss, j, 0) \ {s}
        /\ OnFree(cs1, ss, j, s) = OnFree(cs, ss, j, 0) \ {s}
    BY <1>9, <1>10, ListsOff
  <2>2. CASE j = k
    BY <1>8, <2>1, <2>2 DEF d, F, Q, E
  <2>3. CASE j # k
    <3>1. s \notin OnFull(cs, ss, j, 0) /\ s \notin OnPartial(cs, ss, j, 0) /\ s \notin OnFree(cs, ss, j, 0)
      BY <1>9, <2>3 DEF OnFull, OnPartial, OnFree
    <3>2. CacheLists(cs1[j], OnFull(cs, ss, j, 0), OnPartial(cs, ss, j, 0), OnFree(cs, ss, j, 0))
      BY <1>1, <1>10, <2>3, ListsAre
    <3>3. /\ OnFull(cs1, ss, j, s) = OnFull(cs, ss, j, 0)
          /\ OnPartial(cs1, ss, j, s) = OnPartial(cs, ss, j, 0)
          /\ OnFree(cs1, ss, j, s) = OnFree(cs, ss, j, 0)
      BY <2>1, <3>1
    <3> QED
      BY <3>2, <3>3
  <2> QED
    BY <2>2, <2>3
<1>14. ListsRight(cs1, ss, s)
  BY <1>13, ListsAre
<1> QED
  BY <1>1, <1>9, <1>10, <1>11, <1>12, <1>14 DEF MemInv

(* Header, control words, colour and objects of a new slab lie in its      *)
(* pages, whichever colour it has.                                         *)
LEMMA NewViewFits ==
  ASSUME NEW c \in CacheSet, CacheFits(c), NEW f \in Nat, NEW sl,
         sl.base = f * PageSize, sl.objects = ObjectsAt(f * PageSize, c)
  PROVE  /\ ViewFits(ViewOf(c, sl))
         /\ Own(ViewOf(c, sl)) = f .. f + PageCount[c.order] - 1
         /\ sl.base \in Nat /\ sl.objects \in Nat
<1>1. /\ PageSize \in Nat \ {0} /\ HeaderSize \in Nat /\ CtlSize \in Nat \ {0} /\ ColourSize \in Nat \ {0}
  BY SlabAssumption
<1>2. /\ c.objects \in Nat \ {0} /\ c.size \in Nat \ {0} /\ c.colour \in Nat /\ c.colours \in Nat
      /\ c.order \in 0 .. MaxOrder
  BY DEF CacheSet
<1>3. PageCount[c.order] \in Nat \ {0}
  BY <1>2, PageCountIs
<1>4. PICK b \in Nat : b = f * PageSize
  BY <1>1, TimesNat
<1>5. PICK w \in Nat : w = c.objects * CtlSize
  BY <1>1, <1>2, TimesNat
<1>6. PICK y \in Nat : y = c.objects * c.size
  BY <1>2, TimesNat
<1>7. PICK m \in Nat : m = c.colour * ColourSize
  BY <1>1, <1>2, TimesNat
<1>8. PICK mm \in Nat : mm = c.colours * ColourSize
  BY <1>1, <1>2, TimesNat
<1>9. m <= mm
  BY <1>1, <1>2, <1>7, <1>8, TimesMonotone DEF CacheFits
<1>10. PICK r \in Nat : r = PageSize * PageCount[c.order]
  BY <1>1, <1>3, TimesNat
<1>11. HeaderSize + w + mm + y <= r
  BY <1>5, <1>6, <1>8, <1>10 DEF CacheFits, Room
<1>12. sl.base = b /\ sl.objects = b + HeaderSize + w + m
  BY <1>4, <1>5, <1>7 DEF ObjectsAt
<1>13. sl.objects \in Nat /\ b + HeaderSize + w <= sl.objects /\ sl.objects + y <= b + r
  BY <1>1, <1>9, <1>11, <1>12
<1>14. b \div PageSize = f
  <2>1. (f * PageSize + 0) \div PageSize = f
    BY <1>1, DivOfWord
  <2>2. f * PageSize + 0 = f * PageSize
    BY <1>4
  <2> QED
    BY <1>4, <2>1, <2>2
<1> DEFINE v == ViewOf(c, sl)
<1>15. /\ v = [first |-> f, base |-> b, pages |-> PageCount[c.order], objects |-> sl.objects,
               count |-> c.objects, size |-> c.size]
  BY <1>12, <1>14 DEF ViewOf
<1> HIDE DEF v
<1>16. /\ v.first = f /\ v.base = b /\ v.pages = PageCount[c.order] /\ v.objects = sl.objects
       /\ v.count = c.objects /\ v.size = c.size
  BY <1>15
<1>17. v \in ViewSet
  BY <1>2, <1>3, <1>13, <1>15 DEF ViewSet
<1>18. v.base = v.first * PageSize
  BY <1>4, <1>16
<1>19. v.base + HeaderSize + v.count * CtlSize <= v.objects
  <2>1. v.count * CtlSize = w
    BY <1>5, <1>16
  <2> QED
    BY <1>13, <1>16, <2>1
<1>20. v.objects + v.count * v.size <= v.base + PageSize * v.pages
  <2>1. v.count * v.size = y /\ PageSize * v.pages = r
    BY <1>6, <1>10, <1>16
  <2> QED
    BY <1>13, <1>16, <2>1
<1>21. ViewFits(v)
  BY <1>17, <1>18, <1>19, <1>20 DEF ViewFits
<1>22. Own(v) = f .. f + PageCount[c.order] - 1
  BY <1>16 DEF Own
<1> QED
  BY <1>12, <1>13, <1>21, <1>22 DEF v

LEMMA ColourNext ==
  ASSUME NEW c \in CacheSet, CacheFits(c), NEW d, d = [c EXCEPT !.colour = NextColour(c)]
  PROVE  /\ d \in CacheSet /\ SameShape(d, c) /\ CacheFits(d)
         /\ d.full = c.full /\ d.partial = c.partial /\ d.free = c.free
<1>1. c.colour \in Nat /\ c.colours \in Nat
  BY DEF CacheSet
<1>2. NextColour(c) \in 0 .. c.colours
  <2>1. PICK a \in Nat : a = c.colour + 1
    BY <1>1
  <2>2. PICK w \in Nat \ {0} : w = c.colours + 1
    BY <1>1
  <2>3. a % w \in 0 .. w - 1
    BY DivMod
  <2> QED
    BY <1>1, <2>1, <2>2, <2>3 DEF NextColour
<1> DEFINE x == NextColour(c)
<1>3. d = [c EXCEPT !.colour = x] /\ x \in Nat /\ x <= c.colours
  BY <1>1, <1>2
<1> HIDE DEF x
<1>4. d \in CacheSet /\ d.colour = x /\ d.full = c.full /\ d.partial = c.partial /\ d.free = c.free
  BY <1>3 DEF CacheSet
<1>5. d.size = c.size /\ d.order = c.order /\ d.objects = c.objects /\ d.colours = c.colours
  BY <1>3 DEF CacheSet
<1> QED
  BY <1>3, <1>4, <1>5 DEF SameShape, CacheFits

(* cache_alloc lays out a new slab, and has it in the hand.                *)
FreshSlab(k, c, f) ==
  [parent |-> k, base |-> f * PageSize, objects |-> ObjectsAt(f * PageSize, c),
   free |-> 0, inuse |-> 0, ctl |-> Chain(c.objects)]

Grows(cs, ss, us, k, f, cs1, ss1, us1) ==
  /\ k \in 1 .. Len(cs) /\ f \in FoundRuns(us, Frames, PageCount[cs[k].order])
  /\ us1 = us \cup (f .. f + PageCount[cs[k].order] - 1)
  /\ cs1 = [cs EXCEPT ![k] = [cs[k] EXCEPT !.colour = NextColour(cs[k])]]
  /\ ss1 = Append(ss, FreshSlab(k, cs[k], f))

LEMMA FreshIs ==
  ASSUME NEW c \in CacheSet, CacheFits(c), NEW f \in Nat, NEW k \in Nat, NEW sl, sl = FreshSlab(k, c, f)
  PROVE  /\ sl \in SlabSet /\ sl.parent = k /\ sl.inuse = 0 /\ sl.ctl \in [0 .. c.objects - 1 -> Nat]
         /\ HasChain(sl, c.objects, {})
<1>1. c.objects \in Nat \ {0}
  BY DEF CacheSet
<1>2. sl.base = f * PageSize /\ sl.objects = ObjectsAt(f * PageSize, c)
  BY DEF FreshSlab
<1>3. sl.base \in Nat /\ sl.objects \in Nat
  BY <1>2, NewViewFits
<1>4. Chain(c.objects) \in [0 .. c.objects - 1 -> Nat]
  BY <1>1 DEF Chain
<1>5. Chain(c.objects) \in CtlSet
  BY <1>1, <1>4 DEF CtlSet
<1>6. /\ sl.parent = k /\ sl.inuse = 0 /\ sl.free = 0 /\ sl.ctl = Chain(c.objects)
      /\ sl = [parent |-> k, base |-> sl.base, objects |-> sl.objects, free |-> 0, inuse |-> 0,
               ctl |-> Chain(c.objects)]
  BY DEF FreshSlab
<1>7. sl \in SlabSet
  BY <1>3, <1>5, <1>6 DEF SlabSet
<1>8. HasChain(sl, c.objects, {})
  BY <1>1, <1>6, <1>7, NewChain
<1> QED
  BY <1>4, <1>6, <1>7, <1>8

(* What the pages found mean: nobody has them.                             *)
LEMMA FoundFree ==
  ASSUME NEW us, NEW n \in Nat, NEW f \in FoundRuns(us, Frames, n)
  PROVE  f \in Nat /\ f .. f + n - 1 \subseteq (0 .. Frames - 1) \ us
BY SlabAssumption DEF FoundRuns, IsFreeRun

(* A list of slabs with one more.                                          *)
OneMore(ss, ss1, sl) ==
  /\ Len(ss) \in Nat /\ Len(ss1) = Len(ss) + 1 /\ ss1[Len(ss) + 1] = sl
  /\ \A t \in 1 .. Len(ss) : ss1[t] = ss[t]

LEMMA ListsMore ==
  ASSUME NEW cs, NEW cs1, NEW ss, NEW ss1, NEW sl, OneMore(ss, ss1, sl), Shapes(cs1, cs),
         NEW j \in 1 .. Len(cs)
  PROVE  /\ OnFull(cs1, ss1, j, Len(ss) + 1) = OnFull(cs, ss, j, 0)
         /\ OnPartial(cs1, ss1, j, Len(ss) + 1) = OnPartial(cs, ss, j, 0)
         /\ OnFree(cs1, ss1, j, Len(ss) + 1) = OnFree(cs, ss, j, 0)
<1>1. cs1[j].objects = cs[j].objects
  BY DEF Shapes, SameShape
<1>2. /\ \A t : (t \in 1 .. Len(ss1) /\ t # Len(ss) + 1) <=> t \in 1 .. Len(ss)
      /\ \A t \in 1 .. Len(ss) : t # 0
      /\ \A t \in 1 .. Len(ss) : ss1[t] = ss[t]
  BY DEF OneMore
<1> QED
  BY <1>1, <1>2 DEF OnFull, OnPartial, OnFree

(* The views are those of before and that of the new slab.                 *)
LEMMA ViewMore ==
  ASSUME NEW cs, NEW cs1, NEW ss, NEW ss1, NEW sl, OneMore(ss, ss1, sl), Shapes(cs1, cs),
         SlabsTyped(cs, ss), sl.parent \in 1 .. Len(cs)
  PROVE  /\ DOMAIN View(cs1, ss1) = 1 .. Len(ss) + 1
         /\ \A t \in 1 .. Len(ss) : View(cs1, ss1)[t] = View(cs, ss)[t]
         /\ View(cs1, ss1)[Len(ss) + 1] = ViewOf(cs[sl.parent], sl)
<1>1. \A k \in 1 .. Len(cs) : cs1[k].objects = cs[k].objects /\ cs1[k].size = cs[k].size /\ cs1[k].order = cs[k].order
  BY DEF Shapes, SameShape
<1>2. \A t \in 1 .. Len(ss) : ss[t].parent \in 1 .. Len(cs)
  BY DEF SlabsTyped
<1>3. DOMAIN View(cs1, ss1) = 1 .. Len(ss) + 1
  BY DEF View, OneMore
<1>4. ASSUME NEW t \in 1 .. Len(ss) PROVE View(cs1, ss1)[t] = View(cs, ss)[t]
  <2>1. View(cs, ss)[t] = ViewOf(cs[ss[t].parent], ss[t])
    BY DEF View
  <2>2. View(cs1, ss1)[t] = ViewOf(cs1[ss[t].parent], ss[t])
    BY DEF View, OneMore
  <2>3. ViewOf(cs1[ss[t].parent], ss[t]) = ViewOf(cs[ss[t].parent], ss[t])
    BY <1>1, <1>2 DEF ViewOf
  <2> QED
    BY <2>1, <2>2, <2>3
<1>5. View(cs1, ss1)[Len(ss) + 1] = ViewOf(cs[sl.parent], sl)
  <2>1. View(cs1, ss1)[Len(ss) + 1] = ViewOf(cs1[sl.parent], sl)
    BY DEF View, OneMore
  <2>2. ViewOf(cs1[sl.parent], sl) = ViewOf(cs[sl.parent], sl)
    BY <1>1 DEF ViewOf
  <2> QED
    BY <2>1, <2>2
<1> QED
  BY <1>3, <1>4, <1>5

(* One more slab, in frames that nobody had.                               *)
MoreViews(vw, us, vw1, us1, n, v) ==
  /\ n \in Nat /\ DOMAIN vw = 1 .. n /\ DOMAIN vw1 = 1 .. n + 1
  /\ \A t \in 1 .. n : vw1[t] = vw[t]
  /\ vw1[n + 1] = v /\ ViewFits(v)
  /\ ViewsRight(vw, us) /\ Own(v) \cap us = {} /\ us1 = us \cup Own(v)
  /\ TakenFrames \subseteq us

LEMMA ViewsMore ==
  ASSUME NEW vw, NEW us, NEW vw1, NEW us1, NEW n, NEW v, MoreViews(vw, us, vw1, us1, n, v)
  PROVE  ViewsRight(vw1, us1)
<1>1. /\ n \in Nat /\ DOMAIN vw = 1 .. n /\ DOMAIN vw1 = 1 .. n + 1
      /\ \A t \in 1 .. n : vw1[t] = vw[t]
      /\ vw1[n + 1] = v /\ ViewFits(v)
      /\ ViewsRight(vw, us) /\ Own(v) \cap us = {} /\ us1 = us \cup Own(v)
      /\ TakenFrames \subseteq us
  BY DEF MoreViews
<1>2. /\ \A t \in 1 .. n : ViewFits(vw1[t]) /\ Own(vw1[t]) \subseteq us \ TakenFrames
      /\ \A s, t \in 1 .. n : s # t => Own(vw1[s]) \cap Own(vw1[t]) = {}
  BY <1>1 DEF ViewsRight
<1>3. \A t \in 1 .. n + 1 : t \in 1 .. n \/ t = n + 1
  BY <1>1
<1> HIDE DEF Own
<1>4. ASSUME NEW t \in DOMAIN vw1 PROVE ViewFits(vw1[t]) /\ Own(vw1[t]) \subseteq us1 \ TakenFrames
  <2>1. CASE t \in 1 .. n
    BY <1>1, <1>2, <2>1
  <2>2. CASE t = n + 1
    BY <1>1, <2>2
  <2> QED
    BY <1>1, <1>3, <2>1, <2>2
<1>5. ASSUME NEW s \in DOMAIN vw1, NEW t \in DOMAIN vw1, s # t
      PROVE  Own(vw1[s]) \cap Own(vw1[t]) = {}
  <2>1. CASE s \in 1 .. n /\ t \in 1 .. n
    BY <1>2, <1>5, <2>1
  <2>2. CASE s \in 1 .. n /\ t = n + 1
    <3>1. Own(vw1[s]) \subseteq us /\ vw1[t] = v
      BY <1>1, <1>2, <2>2
    <3> QED
      BY <1>1, <3>1
  <2>3. CASE t \in 1 .. n /\ s = n + 1
    <3>1. Own(vw1[t]) \subseteq us /\ vw1[s] = v
      BY <1>1, <1>2, <2>3
    <3> QED
      BY <1>1, <3>1
  <2> QED
    BY <1>1, <1>3, <1>5, <2>1, <2>2, <2>3
<1> QED
  BY <1>4, <1>5 DEF ViewsRight

(* Nobody has an object of the new slab.                                   *)
LEMMA GivenNone ==
  ASSUME NEW vw, NEW us, NEW vw1, NEW us1, NEW n, NEW v, MoreViews(vw, us, vw1, us1, n, v),
         NEW all, \A o \in all : Placed(vw, o)
  PROVE  Given(v, all) = {} /\ \A o \in all : Placed(vw1, o)
<1>1. /\ n \in Nat /\ DOMAIN vw = 1 .. n /\ DOMAIN vw1 = 1 .. n + 1 /\ vw1[n + 1] = v
      /\ \A t \in 1 .. n : vw1[t] = vw[t]
  BY DEF MoreViews
<1>2. ViewsRight(vw1, us1)
  BY ViewsMore
<1>3. ASSUME NEW o \in all PROVE Placed(vw1, o) /\ \A j \in 0 .. v.count - 1 : o.addr # Slot(v, j)
  <2>1. PICK t \in DOMAIN vw : \E i \in 0 .. vw[t].count - 1 :
          o = [addr |-> Slot(vw[t], i), size |-> vw[t].size]
    BY <1>3 DEF Placed
  <2>2. PICK i \in 0 .. vw[t].count - 1 : o = [addr |-> Slot(vw[t], i), size |-> vw[t].size]
    BY <2>1
  <2>3. t \in DOMAIN vw1 /\ vw1[t] = vw[t] /\ t # n + 1 /\ n + 1 \in DOMAIN vw1
    BY <1>1
  <2>4. Placed(vw1, o)
    BY <2>2, <2>3 DEF Placed
  <2>5. ASSUME NEW j \in 0 .. v.count - 1, o.addr = Slot(v, j) PROVE FALSE
    <3>1. Slot(vw1[t], i) = Slot(vw1[n + 1], j)
      BY <1>1, <2>2, <2>3, <2>5
    <3>2. i \in 0 .. vw1[t].count - 1 /\ j \in 0 .. vw1[n + 1].count - 1
      BY <1>1, <2>3
    <3>3. t = n + 1
      BY <1>2, <2>3, <3>1, <3>2, SlotOnce
    <3> QED
      BY <2>3, <3>3
  <2> QED
    BY <2>4, <2>5
<1> QED
  BY <1>3 DEF Given

LEMMA GrowKeeps ==
  ASSUME NEW cs, NEW ss, NEW us, NEW all, MemInv(cs, ss, us, all, 0),
         NEW k, NEW f, NEW cs1, NEW ss1, NEW us1, Grows(cs, ss, us, k, f, cs1, ss1, us1)
  PROVE  /\ Len(ss) + 1 \in 1 .. Len(ss1)
         /\ ss1[Len(ss) + 1] = FreshSlab(k, cs[k], f)
         /\ cs1[k].objects = cs[k].objects /\ cs1[k].objects \in Nat \ {0}
         /\ MemInv(cs1, ss1, us1, all, Len(ss) + 1) /\ Shapes(cs1, cs)
<1> DEFINE vw == View(cs, ss)
           vw1 == View(cs1, ss1)
           c == cs[k]
           d == [c EXCEPT !.colour = NextColour(c)]
           sl == FreshSlab(k, c, f)
           v == ViewOf(c, sl)
           s == Len(ss) + 1
<1>1. /\ CachesRight(cs) /\ SlabsTyped(cs, ss) /\ ViewsRight(vw, us)
      /\ \A o \in all : Placed(vw, o)
      /\ \A t \in 1 .. Len(ss) : HasChain(ss[t], cs[ss[t].parent].objects, Given(vw[t], all))
      /\ ListsRight(cs, ss, 0)
      /\ us \in SUBSET (0 .. Frames - 1) /\ TakenFrames \subseteq us
  BY DEF MemInv
<1>2. /\ k \in 1 .. Len(cs) /\ cs \in Seq(CacheSet) /\ ss \in Seq(SlabSet)
      /\ cs1 = [cs EXCEPT ![k] = d] /\ ss1 = Append(ss, sl)
      /\ f \in FoundRuns(us, Frames, PageCount[c.order])
      /\ us1 = us \cup (f .. f + PageCount[c.order] - 1)
  BY <1>1 DEF Grows, CachesRight, SlabsTyped
<1>3. c \in CacheSet /\ CacheFits(c)
  BY <1>1, <1>2, ElementOfSeq DEF CachesRight
<1>4. c.objects \in Nat \ {0} /\ c.order \in 0 .. MaxOrder
  BY <1>3 DEF CacheSet
<1>5. PageCount[c.order] \in Nat
  BY <1>4, PageCountIs
<1>6. f \in Nat /\ f .. f + PageCount[c.order] - 1 \subseteq (0 .. Frames - 1) \ us
  BY <1>2, <1>5, FoundFree
<1> HIDE DEF c, vw, vw1
<1>7. /\ d \in CacheSet /\ SameShape(d, c) /\ CacheFits(d)
      /\ d.full = c.full /\ d.partial = c.partial /\ d.free = c.free
  BY <1>3, ColourNext
<1> HIDE DEF d
<1>8. /\ sl \in SlabSet /\ sl.parent = k /\ sl.inuse = 0 /\ sl.ctl \in [0 .. c.objects - 1 -> Nat]
      /\ HasChain(sl, c.objects, {})
  BY <1>2, <1>3, <1>6, FreshIs
<1>9. sl.base = f * PageSize /\ sl.objects = ObjectsAt(f * PageSize, c)
  BY DEF FreshSlab
<1> HIDE DEF sl
<1>10. ViewFits(v) /\ Own(v) = f .. f + PageCount[c.order] - 1
  BY <1>3, <1>6, <1>9, NewViewFits
<1> HIDE DEF v
<1>11. /\ CachesRight(cs1) /\ Shapes(cs1, cs) /\ Len(cs1) = Len(cs) /\ cs1[k] = d
       /\ \A j \in 1 .. Len(cs) : j # k => cs1[j] = cs[j]
  <2>2. CacheChange(cs, k, d, cs1)
    BY <1>1, <1>2, <1>7 DEF CacheChange, c
  <2>3. CachesRight(cs1) /\ Shapes(cs1, cs)
    BY <2>2, CacheUpdate
  <2>4. Len(cs1) = Len(cs)
    BY <2>2, CacheUpdate
  <2>5. cs1[k] = d
    BY <2>2, CacheUpdate
  <2>6. \A j \in 1 .. Len(cs) : j # k => cs1[j] = cs[j]
    BY <2>2, CacheUpdate
  <2> QED
    BY <2>3, <2>4, <2>5, <2>6
<1>12. OneMore(ss, ss1, sl) /\ ss1 \in Seq(SlabSet)
  BY <1>2, <1>8 DEF OneMore
<1>13. s \in 1 .. Len(ss1) /\ Len(ss1) = s /\ s \in Nat /\ ss1[s] = sl
       /\ \A t \in 1 .. Len(ss1) : t \in 1 .. Len(ss) \/ t = s
  BY <1>12 DEF OneMore
<1>14. /\ DOMAIN vw1 = 1 .. Len(ss) + 1 /\ vw1[s] = v
       /\ \A t \in 1 .. Len(ss) : vw1[t] = vw[t]
  <2>1. sl.parent \in 1 .. Len(cs)
    BY <1>2, <1>8
  <2>2. DOMAIN vw1 = 1 .. Len(ss) + 1
    BY <1>1, <1>11, <1>12, <2>1, ViewMore DEF vw1
  <2>3. \A t \in 1 .. Len(ss) : vw1[t] = vw[t]
    BY <1>1, <1>11, <1>12, <2>1, ViewMore DEF vw1, vw
  <2>4. View(cs1, ss1)[Len(ss) + 1] = ViewOf(cs[sl.parent], sl)
    BY <1>1, <1>11, <1>12, <2>1, ViewMore
  <2> QED
    BY <1>8, <2>2, <2>3, <2>4 DEF vw1, v, c
<1>15. DOMAIN vw = 1 .. Len(ss)
  BY <1>1, ViewIs DEF vw
<1>16. MoreViews(vw, us, vw1, us1, Len(ss), v)
  <2>1. Own(v) \cap us = {} /\ us1 = us \cup Own(v) /\ Len(ss) \in Nat
    BY <1>2, <1>6, <1>10
  <2> QED
    BY <1>1, <1>10, <1>14, <1>15, <2>1 DEF MoreViews
<1>17. ViewsRight(vw1, us1)
  BY <1>16, ViewsMore
<1>18. Given(v, all) = {} /\ \A o \in all : Placed(vw1, o)
  BY <1>1, <1>16, GivenNone
<1>19. SlabsTyped(cs1, ss1)
  <2>0. \A j \in 1 .. Len(cs) : cs1[j].objects = cs[j].objects
    BY <1>11 DEF Shapes, SameShape
  <2>1. ASSUME NEW t \in 1 .. Len(ss1)
        PROVE  /\ ss1[t].parent \in 1 .. Len(cs1)
               /\ ss1[t].ctl \in [0 .. cs1[ss1[t].parent].objects - 1 -> Nat]
    <3>1. CASE t \in 1 .. Len(ss)
      <4>1. ss1[t] = ss[t]
        BY <1>12, <3>1 DEF OneMore
      <4>2. /\ ss[t].parent \in 1 .. Len(cs)
            /\ ss[t].ctl \in [0 .. cs[ss[t].parent].objects - 1 -> Nat]
        BY <1>1, <3>1 DEF SlabsTyped
      <4> QED
        BY <1>11, <2>0, <4>1, <4>2
    <3>2. CASE t = s
      <4>1. ss1[t].parent = k /\ cs1[k].objects = c.objects
        BY <1>2, <1>8, <1>13, <2>0, <3>2 DEF c
      <4> QED
        BY <1>2, <1>8, <1>11, <1>13, <3>2, <4>1
    <3> QED
      BY <1>13, <3>1, <3>2
  <2> QED
    BY <1>12, <2>1 DEF SlabsTyped
<1>20. ASSUME NEW t \in 1 .. Len(ss1)
       PROVE  HasChain(ss1[t], cs1[ss1[t].parent].objects, Given(vw1[t], all))
  <2>0. \A j \in 1 .. Len(cs) : cs1[j].objects = cs[j].objects
    BY <1>11 DEF Shapes, SameShape
  <2>1. CASE t \in 1 .. Len(ss)
    <3>1. ss1[t] = ss[t] /\ ss[t].parent \in 1 .. Len(cs)
      BY <1>1, <1>12, <2>1 DEF OneMore, SlabsTyped
    <3> QED
      BY <1>1, <1>14, <2>0, <2>1, <3>1
  <2>2. CASE t = s
    <3>1. ss1[t].parent = k /\ cs1[k].objects = c.objects
      BY <1>2, <1>8, <1>13, <2>0, <2>2 DEF c
    <3> QED
      BY <1>8, <1>13, <1>14, <1>18, <2>2, <3>1
  <2> QED
    BY <1>13, <2>1, <2>2
<1>21. ListsRight(cs1, ss1, s)
  <2>1. ASSUME NEW j \in 1 .. Len(cs1)
        PROVE  CacheLists(cs1[j], OnFull(cs1, ss1, j, s), OnPartial(cs1, ss1, j, s), OnFree(cs1, ss1, j, s))
    <3>1. /\ OnFull(cs1, ss1, j, s) = OnFull(cs, ss, j, 0)
          /\ OnPartial(cs1, ss1, j, s) = OnPartial(cs, ss, j, 0)
          /\ OnFree(cs1, ss1, j, s) = OnFree(cs, ss, j, 0)
      BY <1>11, <1>12, ListsMore
    <3>2. CacheLists(cs[j], OnFull(cs, ss, j, 0), OnPartial(cs, ss, j, 0), OnFree(cs, ss, j, 0))
      BY <1>1, <1>11, ListsAre
    <3>3. cs1[j].full = cs[j].full /\ cs1[j].partial = cs[j].partial /\ cs1[j].free = cs[j].free
      BY <1>7, <1>11 DEF c
    <3> QED
      BY <3>1, <3>2, <3>3 DEF CacheLists
  <2> QED
    BY <2>1, ListsAre
<1>22. us1 \in SUBSET (0 .. Frames - 1) /\ TakenFrames \subseteq us1
  BY <1>1, <1>2, <1>6
<1>23. MemInv(cs1, ss1, us1, all, s)
  BY <1>11, <1>17, <1>18, <1>19, <1>20, <1>21, <1>22 DEF MemInv, vw1
<1>24. cs1[k].objects = c.objects
  BY <1>7, <1>11 DEF SameShape
<1> HIDE DEF s
<1> QED
  BY <1>4, <1>11, <1>13, <1>23, <1>24 DEF s, sl, c

(* cache_alloc as a whole: from the slab in the hand to the object.        *)
Ends(cs1, ss1, s, k, cs2, ss2, r) ==
  /\ cs2 = [cs1 EXCEPT ![k] = Put(cs1[k], s, Taken(ss1[s]).inuse)]
  /\ ss2 = [ss1 EXCEPT ![s] = Taken(ss1[s])]
  /\ r = [addr |-> ss1[s].objects + ss1[s].free * cs1[k].size, size |-> cs1[k].size]

LEMMA EndsKeeps ==
  ASSUME NEW cs1, NEW ss1, NEW us, NEW all, NEW s \in 1 .. Len(ss1), MemInv(cs1, ss1, us, all, s),
         NEW k, k = ss1[s].parent, ss1[s].inuse < cs1[k].objects,
         NEW cs2, NEW ss2, NEW r, Ends(cs1, ss1, s, k, cs2, ss2, r)
  PROVE  MemInv(cs2, ss2, us, all \cup {r}, 0) /\ r \notin all /\ Shapes(cs2, cs1)
<1>1. Takes(cs1, ss1, s, k, cs2, ss2, r)
  BY DEF Takes, Ends
<1>2. MemInv(cs2, ss2, us, all \cup {r}, 0)
  BY <1>1, TakeKeeps
<1>3. r \notin all
  BY <1>1, TakeKeeps
<1>4. Shapes(cs2, cs1)
  BY <1>1, TakeKeeps
<1> QED
  BY <1>2, <1>3, <1>4

LEMMA ShapesJoin ==
  ASSUME NEW a, NEW b, NEW c, Shapes(c, b), Shapes(b, a)
  PROVE  Shapes(c, a)
BY DEF Shapes, SameShape

(* The action maps to the steps in the hand.                               *)
Allocates(cs, ss, us, k, cs2, ss2, us2, r) ==
  \/ \E s, cs1 :
       /\ Pops(cs, k, s, cs1) /\ us2 = us
       /\ Ends(cs1, ss, s, k, cs2, ss2, r)
  \/ \E f, cs1, ss1 :
       /\ Grows(cs, ss, us, k, f, cs1, ss1, us2)
       /\ Ends(cs1, ss1, Len(ss) + 1, k, cs2, ss2, r)

LEMMA AllocKeeps ==
  ASSUME NEW cs, NEW ss, NEW us, NEW all, MemInv(cs, ss, us, all, 0),
         NEW k, NEW cs2, NEW ss2, NEW us2, NEW r, Allocates(cs, ss, us, k, cs2, ss2, us2, r)
  PROVE  MemInv(cs2, ss2, us2, all \cup {r}, 0) /\ r \notin all /\ Shapes(cs2, cs)
<1>1. CASE \E s, cs1 :
             /\ Pops(cs, k, s, cs1) /\ us2 = us
             /\ Ends(cs1, ss, s, k, cs2, ss2, r)
  <2>1. PICK s, cs1 : /\ Pops(cs, k, s, cs1) /\ us2 = us
                      /\ Ends(cs1, ss, s, k, cs2, ss2, r)
    BY <1>1
  <2>2. k \in 1 .. Len(cs)
    BY <2>1 DEF Pops
  <2>3. /\ s \in 1 .. Len(ss) /\ ss[s].parent = k /\ ss[s].inuse < cs[k].objects
        /\ MemInv(cs1, ss, us, all, s) /\ Shapes(cs1, cs)
    BY <2>1, PopKeeps
  <2>4. ss[s].inuse < cs1[k].objects
    BY <2>2, <2>3 DEF Shapes, SameShape
  <2>5. MemInv(cs2, ss2, us, all \cup {r}, 0) /\ r \notin all /\ Shapes(cs2, cs1)
    BY <2>1, <2>3, <2>4, EndsKeeps
  <2> QED
    BY <2>1, <2>3, <2>5, ShapesJoin
<1>2. CASE \E f, cs1, ss1 :
             /\ Grows(cs, ss, us, k, f, cs1, ss1, us2)
             /\ Ends(cs1, ss1, Len(ss) + 1, k, cs2, ss2, r)
  <2>1. PICK f, cs1, ss1 : /\ Grows(cs, ss, us, k, f, cs1, ss1, us2)
                           /\ Ends(cs1, ss1, Len(ss) + 1, k, cs2, ss2, r)
    BY <1>2
  <2> DEFINE s == Len(ss) + 1
  <2>2. /\ s \in 1 .. Len(ss1) /\ ss1[s] = FreshSlab(k, cs[k], f)
        /\ cs1[k].objects = cs[k].objects /\ cs1[k].objects \in Nat \ {0}
        /\ MemInv(cs1, ss1, us2, all, s) /\ Shapes(cs1, cs)
    BY <2>1, GrowKeeps
  <2>3. ss1[s].parent = k /\ ss1[s].inuse = 0 /\ 0 < cs1[k].objects
    BY <2>2 DEF FreshSlab
  <2>4. Ends(cs1, ss1, s, k, cs2, ss2, r)
    BY <2>1
  <2> HIDE DEF s
  <2>5. MemInv(cs2, ss2, us2, all \cup {r}, 0) /\ r \notin all /\ Shapes(cs2, cs1)
    BY <2>2, <2>3, <2>4, EndsKeeps
  <2> QED
    BY <2>2, <2>5, ShapesJoin
<1> QED
  BY <1>1, <1>2 DEF Allocates

LEMMA SetTwice ==
  ASSUME NEW S, NEW g \in Seq(S), NEW k \in 1 .. Len(g), NEW a, NEW b
  PROVE  /\ [g EXCEPT ![k] = a][k] = a
         /\ [[g EXCEPT ![k] = a] EXCEPT ![k] = b] = [g EXCEPT ![k] = b]
<1>1. DOMAIN g = 1 .. Len(g)
  OBVIOUS
<1>2. [g EXCEPT ![k] = a][k] = a
  BY <1>1
<1>3. [[g EXCEPT ![k] = a] EXCEPT ![k] = b] = [g EXCEPT ![k] = b]
  BY <1>1, Zenon
<1> QED
  BY <1>2, <1>3

LEMMA SetLast ==
  ASSUME NEW S, NEW g \in Seq(S), NEW a \in S, NEW b \in S
  PROVE  /\ Append(g, a)[Len(g) + 1] = a
         /\ [Append(g, a) EXCEPT ![Len(g) + 1] = b] = Append(g, b)
<1> DEFINE n == Len(g) + 1
<1>1. /\ Append(g, a) \in Seq(S) /\ Append(g, b) \in Seq(S)
      /\ Len(Append(g, a)) = n /\ Len(Append(g, b)) = n
      /\ Append(g, a)[n] = a /\ Append(g, b)[n] = b
      /\ \A i \in 1 .. Len(g) : Append(g, a)[i] = g[i] /\ Append(g, b)[i] = g[i]
  OBVIOUS
<1> DEFINE x == Append(g, a)
           y == Append(g, b)
           z == [x EXCEPT ![n] = b]
<1>2. \A i \in 1 .. n : i \in 1 .. Len(g) \/ i = n
  OBVIOUS
<1> HIDE DEF x, y, n
<1>3. DOMAIN x = 1 .. n /\ DOMAIN y = 1 .. n
  BY <1>1 DEF x, y
<1>4. \A i \in 1 .. n : z[i] = y[i]
  BY <1>1, <1>2, <1>3 DEF x, y
<1>5. z = [i \in 1 .. n |-> z[i]] /\ y = [i \in 1 .. n |-> y[i]]
  <2>1. z = [i \in 1 .. n |-> z[i]]
    BY <1>3
  <2>2. y \in Seq(S) /\ Len(y) = n
    BY <1>1 DEF y
  <2>3. y = [i \in 1 .. n |-> y[i]]
    BY <2>2
  <2> QED
    BY <2>1, <2>3
<1>6. z = y
  <2> HIDE DEF z
  <2> QED
    BY <1>4, <1>5
<1> QED
  BY <1>1, <1>6 DEF x, y, n

LEMMA AllocIs ==
  ASSUME CachesRight(caches), SlabsTyped(caches, slabs), NEW k \in 1 .. Len(caches), CacheAlloc(k)
  PROVE  Allocates(caches, slabs, used, k, caches', slabs', used',
                   [addr |-> Returned(k), size |-> caches[k].size])
<1> DEFINE r == [addr |-> Returned(k), size |-> caches[k].size]
<1>1. caches \in Seq(CacheSet) /\ caches[k] \in CacheSet
  BY ElementOfSeq DEF CachesRight
<1>2. CASE FromPartial(k)
  <2> DEFINE s == Head(caches[k].partial)
             c == [caches[k] EXCEPT !.partial = Tail(@)]
             cs1 == [caches EXCEPT ![k] = c]
  <2>1. /\ caches[k].partial # <<>> /\ used' = used
        /\ slabs' = [slabs EXCEPT ![s] = Taken(slabs[s])]
        /\ caches' = [caches EXCEPT ![k] = Put(c, s, Taken(slabs[s]).inuse)]
    BY <1>2 DEF FromPartial
  <2>2. Pops(caches, k, s, cs1)
    BY <2>1 DEF Pops
  <2>3. c.size = caches[k].size
    BY <1>1 DEF CacheSet
  <2>4. Returned(k) = slabs[s].objects + slabs[s].free * caches[k].size
    BY <2>1 DEF Returned, Object
  <2> HIDE DEF s, c
  <2>5. cs1[k] = c /\ caches' = [cs1 EXCEPT ![k] = Put(cs1[k], s, Taken(slabs[s]).inuse)]
    <3> DEFINE x == Put(c, s, Taken(slabs[s]).inuse)
    <3>1. caches' = [caches EXCEPT ![k] = x]
      BY <2>1
    <3> HIDE DEF x
    <3>2. cs1[k] = c /\ [cs1 EXCEPT ![k] = x] = [caches EXCEPT ![k] = x]
      BY <1>1, SetTwice
    <3>3. cs1[k] = c /\ caches' = [cs1 EXCEPT ![k] = x]
      BY <3>1, <3>2
    <3> QED
      BY <3>3 DEF x
  <2> HIDE DEF cs1
  <2>6. Ends(cs1, slabs, s, k, caches', slabs', r)
    BY <2>1, <2>3, <2>4, <2>5 DEF Ends
  <2> QED
    BY <2>1, <2>2, <2>6 DEF Allocates
<1>3. CASE FromFree(k)
  <2> DEFINE s == Head(caches[k].free)
             c == [caches[k] EXCEPT !.free = Tail(@)]
             cs1 == [caches EXCEPT ![k] = c]
  <2>1. /\ caches[k].partial = <<>> /\ caches[k].free # <<>> /\ used' = used
        /\ slabs' = [slabs EXCEPT ![s] = Taken(slabs[s])]
        /\ caches' = [caches EXCEPT ![k] = Put(c, s, Taken(slabs[s]).inuse)]
    BY <1>3 DEF FromFree
  <2>2. Pops(caches, k, s, cs1)
    BY <2>1 DEF Pops
  <2>3. c.size = caches[k].size
    BY <1>1 DEF CacheSet
  <2>4. Returned(k) = slabs[s].objects + slabs[s].free * caches[k].size
    BY <2>1 DEF Returned, Object
  <2> HIDE DEF s, c
  <2>5. cs1[k] = c /\ caches' = [cs1 EXCEPT ![k] = Put(cs1[k], s, Taken(slabs[s]).inuse)]
    <3> DEFINE x == Put(c, s, Taken(slabs[s]).inuse)
    <3>1. caches' = [caches EXCEPT ![k] = x]
      BY <2>1
    <3> HIDE DEF x
    <3>2. cs1[k] = c /\ [cs1 EXCEPT ![k] = x] = [caches EXCEPT ![k] = x]
      BY <1>1, SetTwice
    <3>3. cs1[k] = c /\ caches' = [cs1 EXCEPT ![k] = x]
      BY <3>1, <3>2
    <3> QED
      BY <3>3 DEF x
  <2> HIDE DEF cs1
  <2>6. Ends(cs1, slabs, s, k, caches', slabs', r)
    BY <2>1, <2>3, <2>4, <2>5 DEF Ends
  <2> QED
    BY <2>1, <2>2, <2>6 DEF Allocates
<1>4. CASE Grow(k)
  <2> DEFINE s == Len(slabs) + 1
             c == [caches[k] EXCEPT !.colour = NextColour(caches[k])]
             f == FirstRun(k)
             sl == FreshSlab(k, caches[k], f)
             cs1 == [caches EXCEPT ![k] = c]
             ss1 == Append(slabs, sl)
  <2>0. sl = NewSlab(k, FirstRun(k) * PageSize)
    BY DEF NewSlab, FreshSlab
  <2>1. /\ caches[k].partial = <<>> /\ caches[k].free = <<>> /\ Runs(k) # {}
        /\ used' = used \cup NewFrames(k)
        /\ slabs' = Append(slabs, Taken(sl))
        /\ caches' = [caches EXCEPT ![k] = Put(c, s, Taken(sl).inuse)]
    BY <1>4, <2>0 DEF Grow
  <2>2. FirstRun(k) \in Runs(k)
    <3>1. Runs(k) \in SUBSET Nat
      BY SlabAssumption DEF Runs, FoundRuns
    <3>2. \E g \in Runs(k) : \A h \in Runs(k) : g <= h
      BY <2>1, <3>1, HasLeast
    <3> QED
      BY <3>2 DEF FirstRun
  <2>3. Grows(caches, slabs, used, k, f, cs1, ss1, used')
    <3>1. f \in FoundRuns(used, Frames, PageCount[caches[k].order])
      BY <2>2 DEF Runs
    <3>2. used' = used \cup (f .. f + PageCount[caches[k].order] - 1)
      BY <2>1 DEF NewFrames
    <3> HIDE DEF f
    <3> QED
      BY <3>1, <3>2 DEF Grows
  <2>4. c.size = caches[k].size
    BY <1>1 DEF CacheSet
  <2>5. Returned(k) = sl.objects + sl.free * caches[k].size
    BY <2>0, <2>1 DEF Returned, Object
  <2> HIDE DEF c, sl
  <2>6. slabs \in Seq(SlabSet)
    BY DEF SlabsTyped
  <2>7. /\ ss1[s] = sl /\ slabs' = [ss1 EXCEPT ![s] = Taken(ss1[s])]
    <3> DEFINE x == Taken(sl)
    <3>1. slabs' = Append(slabs, x)
      BY <2>1
    <3> HIDE DEF x
    <3>2. ss1[s] = sl
      BY <2>6
    <3> DEFINE S == SlabSet \cup {sl, x}
    <3>3. slabs \in Seq(S) /\ sl \in S /\ x \in S
      BY <2>6
    <3>4. [ss1 EXCEPT ![s] = x] = Append(slabs, x)
      <4> HIDE DEF S
      <4> QED
        BY <3>3, SetLast
    <3> QED
      BY <3>1, <3>2, <3>4 DEF x
  <2>8. cs1[k] = c /\ caches' = [cs1 EXCEPT ![k] = Put(cs1[k], s, Taken(ss1[s]).inuse)]
    <3> DEFINE x == Put(c, s, Taken(sl).inuse)
    <3>1. caches' = [caches EXCEPT ![k] = x]
      BY <2>1
    <3> HIDE DEF x
    <3>2. cs1[k] = c /\ [cs1 EXCEPT ![k] = x] = [caches EXCEPT ![k] = x]
      BY <1>1, SetTwice
    <3>3. cs1[k] = c /\ caches' = [cs1 EXCEPT ![k] = x]
      BY <3>1, <3>2
    <3> QED
      BY <2>7, <3>3 DEF x
  <2> HIDE DEF cs1, ss1, f
  <2>9. Ends(cs1, ss1, Len(slabs) + 1, k, caches', slabs', r)
    BY <2>4, <2>5, <2>7, <2>8 DEF Ends
  <2> QED
    BY <2>3, <2>9 DEF Allocates
<1> QED
  BY <1>2, <1>3, <1>4 DEF CacheAlloc

(* new_cache: a cache without slabs.                                       *)
NewOne(cs, d, cs2) ==
  /\ d \in CacheSet /\ CacheFits(d) /\ d.full = <<>> /\ d.partial = <<>> /\ d.free = <<>>
  /\ cs2 = Append(cs, d)

LEMMA NewCacheKeeps ==
  ASSUME NEW cs, NEW ss, NEW us, NEW all, MemInv(cs, ss, us, all, 0),
         NEW d, NEW cs2, NewOne(cs, d, cs2)
  PROVE  /\ MemInv(cs2, ss, us, all, 0)
         /\ Len(cs2) = Len(cs) + 1 /\ Len(cs) \in Nat /\ cs2[Len(cs) + 1] = d
         /\ \A k \in 1 .. Len(cs) : cs2[k] = cs[k]
<1> DEFINE vw == View(cs, ss)
           n == Len(cs)
<1>1. /\ CachesRight(cs) /\ SlabsTyped(cs, ss) /\ ViewsRight(vw, us)
      /\ \A o \in all : Placed(vw, o)
      /\ \A t \in 1 .. Len(ss) : HasChain(ss[t], cs[ss[t].parent].objects, Given(vw[t], all))
      /\ ListsRight(cs, ss, 0)
      /\ us \in SUBSET (0 .. Frames - 1) /\ TakenFrames \subseteq us
  BY DEF MemInv
<1>2. cs \in Seq(CacheSet) /\ cs # <<>> /\ \A k \in 1 .. n : CacheFits(cs[k])
  BY <1>1 DEF CachesRight
<1>3. d \in CacheSet /\ CacheFits(d) /\ cs2 = Append(cs, d)
  BY DEF NewOne
<1>4. /\ n \in Nat /\ cs2 \in Seq(CacheSet) /\ Len(cs2) = n + 1 /\ cs2[n + 1] = d
      /\ \A k \in 1 .. n : cs2[k] = cs[k]
  BY <1>2, <1>3
<1>5. \A k \in 1 .. Len(cs2) : k \in 1 .. n \/ k = n + 1
  BY <1>4
<1>6. CachesRight(cs2)
  <2>1. cs2 # <<>>
    BY <1>4
  <2>2. \A k \in 1 .. Len(cs2) : CacheFits(cs2[k])
    BY <1>2, <1>3, <1>4, <1>5
  <2> QED
    BY <1>4, <2>1, <2>2 DEF CachesRight
<1>7. \A t \in 1 .. Len(ss) : ss[t].parent \in 1 .. n /\ cs2[ss[t].parent] = cs[ss[t].parent]
  BY <1>1, <1>4 DEF SlabsTyped
<1>8. SlabsTyped(cs2, ss)
  <2>1. 1 .. n \subseteq 1 .. Len(cs2)
    BY <1>4
  <2> HIDE DEF n
  <2> QED
    BY <1>1, <1>7, <2>1 DEF SlabsTyped
<1>9. View(cs2, ss) = vw
  BY <1>7 DEF View
<1>10. ListsRight(cs2, ss, 0)
  <2>1. ASSUME NEW k \in 1 .. Len(cs2)
        PROVE  CacheLists(cs2[k], OnFull(cs2, ss, k, 0), OnPartial(cs2, ss, k, 0), OnFree(cs2, ss, k, 0))
    <3>1. CASE k \in 1 .. n
      <4>1. CacheLists(cs[k], OnFull(cs, ss, k, 0), OnPartial(cs, ss, k, 0), OnFree(cs, ss, k, 0))
        BY <1>1, <3>1, ListsAre
      <4>2. cs2[k] = cs[k]
        BY <1>4, <3>1
      <4>3. /\ OnFull(cs2, ss, k, 0) = OnFull(cs, ss, k, 0)
            /\ OnPartial(cs2, ss, k, 0) = OnPartial(cs, ss, k, 0)
            /\ OnFree(cs2, ss, k, 0) = OnFree(cs, ss, k, 0)
        BY <4>2 DEF OnFull, OnPartial, OnFree
      <4> QED
        BY <4>1, <4>2, <4>3
    <3>2. CASE k = n + 1
      <4>1. \A t \in 1 .. Len(ss) : ss[t].parent # k
        BY <1>4, <1>7, <3>2
      <4>2. OnFull(cs2, ss, k, 0) = {} /\ OnPartial(cs2, ss, k, 0) = {} /\ OnFree(cs2, ss, k, 0) = {}
        BY <4>1 DEF OnFull, OnPartial, OnFree
      <4>3. cs2[k].full = <<>> /\ cs2[k].partial = <<>> /\ cs2[k].free = <<>>
        BY <1>4, <3>2 DEF NewOne
      <4> QED
        BY <4>2, <4>3, NoNode DEF CacheLists
    <3> QED
      BY <1>5, <3>1, <3>2
  <2> QED
    BY <2>1, ListsAre
<1>11. \A t \in 1 .. Len(ss) : HasChain(ss[t], cs2[ss[t].parent].objects, Given(vw[t], all))
  BY <1>1, <1>7
<1> QED
  BY <1>1, <1>4, <1>6, <1>8, <1>9, <1>10, <1>11 DEF MemInv

-----------------------------------------------------------------------------
(* The steps.                                                              *)

LEMMA InitInv == Init => SlabIInv
<1> SUFFICES ASSUME Init PROVE SlabIInv
  OBVIOUS
<1> DEFINE c == Cache(CacheSize)
<1>1. caches = <<c>> /\ slabs = <<>> /\ used = TakenFrames /\ All = {}
  BY DEF Init, All
<1>2. /\ c \in CacheSet /\ CacheFits(c) /\ c.size = CacheSize
      /\ c.full = <<>> /\ c.partial = <<>> /\ c.free = <<>>
  BY CacheIs
<1> HIDE DEF c
<1>3. /\ caches \in Seq(CacheSet) /\ caches # <<>> /\ Len(caches) = 1 /\ caches[1] = c
      /\ \A k \in 1 .. Len(caches) : k = 1
  BY <1>1, <1>2
<1>4. CachesRight(caches)
  BY <1>2, <1>3 DEF CachesRight
<1>5. Len(slabs) = 0 /\ 1 .. Len(slabs) = {} /\ slabs \in Seq(SlabSet)
  BY <1>1
<1>6. SlabsTyped(caches, slabs)
  BY <1>5 DEF SlabsTyped
<1>7. DOMAIN View(caches, slabs) = {}
  BY <1>5 DEF View
<1>8. ViewsRight(View(caches, slabs), used)
  BY <1>7 DEF ViewsRight
<1>9. ListsRight(caches, slabs, 0)
  <2>1. ASSUME NEW k \in 1 .. Len(caches)
        PROVE  CacheLists(caches[k], OnFull(caches, slabs, k, 0), OnPartial(caches, slabs, k, 0),
                          OnFree(caches, slabs, k, 0))
    <3>1. OnFull(caches, slabs, k, 0) = {} /\ OnPartial(caches, slabs, k, 0) = {} /\ OnFree(caches, slabs, k, 0) = {}
      BY <1>5 DEF OnFull, OnPartial, OnFree
    <3>2. caches[k].full = <<>> /\ caches[k].partial = <<>> /\ caches[k].free = <<>>
      BY <1>2, <1>3
    <3> QED
      BY <3>1, <3>2, NoNode DEF CacheLists
  <2> QED
    BY <2>1, ListsAre
<1>10. used \in SUBSET (0 .. Frames - 1) /\ TakenFrames \subseteq used
  BY <1>1, SlabAssumption
<1>11. MemInv(caches, slabs, used, All, 0)
  BY <1>1, <1>4, <1>5, <1>6, <1>8, <1>9, <1>10 DEF MemInv
<1>12. CallInv
  BY <1>2, <1>3 DEF CallInv, Init
<1> QED
  BY <1>11, <1>12 DEF SlabIInv

(* What an allocation leaves of the rest.                                  *)
LEMMA AllocStep ==
  ASSUME SlabIInv, NEW k \in 1 .. Len(caches), CacheAlloc(k), NEW r,
         r = [addr |-> Returned(k), size |-> caches[k].size]
  PROVE  /\ MemInv(caches', slabs', used', All \cup {r}, 0) /\ r \notin All
         /\ caches'[1].size = CacheSize
<1>1. MemInv(caches, slabs, used, All, 0) /\ CachesRight(caches) /\ SlabsTyped(caches, slabs)
  BY DEF SlabIInv, MemInv
<1>2. Allocates(caches, slabs, used, k, caches', slabs', used', r)
  BY <1>1, AllocIs
<1>3. MemInv(caches', slabs', used', All \cup {r}, 0)
  BY <1>1, <1>2, AllocKeeps
<1>4. r \notin All
  BY <1>1, <1>2, AllocKeeps
<1>5. Shapes(caches', caches)
  BY <1>1, <1>2, AllocKeeps
<1>6. 1 \in 1 .. Len(caches)
  BY <1>1, CacheListIs
<1>7. caches'[1].size = CacheSize
  BY <1>5, <1>6 DEF Shapes, SameShape, SlabIInv, CallInv
<1> QED
  BY <1>3, <1>4, <1>7

LEMMA KmallocStep == ASSUME SlabIInv, NEW j \in Sizes, Kmalloc(j) PROVE SlabIInv'
<1>1. /\ UNCHANGED <<caches, slabs, used, live, structs, lost, broken>> /\ size' = j
      /\ pc' = IF GetCache(j) # 0 /\ caches[GetCache(j)].size = j THEN "object" ELSE "struct"
  BY DEF Kmalloc
<1>2. MemInv(caches, slabs, used, All, 0) /\ CachesRight(caches)
  BY DEF SlabIInv, MemInv
<1>3. All' = All
  BY <1>1 DEF All
<1>4. MemInv(caches, slabs, used, All, 0)'
  BY <1>1, <1>2, <1>3
<1>5. pc' = "object" => \E m \in 1 .. Len(caches) : caches[m].size = j
  <2>1. j \in Nat
    BY SlabAssumption
  <2>2. GetCache(j) # 0 => GetCache(j) \in 1 .. Len(caches)
    BY <1>2, <2>1, GetCacheIs
  <2> QED
    BY <1>1, <2>2
<1>6. CallInv'
  BY <1>1, <1>5 DEF CallInv, SlabIInv
<1> QED
  BY <1>4, <1>6 DEF SlabIInv

LEMMA OutOfPagesStep == ASSUME SlabIInv, NEW k, OutOfPages(k) PROVE SlabIInv'
<1>1. UNCHANGED <<caches, slabs, used, live, structs, lost, pc, size>> /\ broken' = TRUE
  BY DEF OutOfPages
<1>2. MemInv(caches, slabs, used, All, 0) /\ CallInv
  BY DEF SlabIInv
<1>3. All' = All
  BY <1>1 DEF All
<1>4. MemInv(caches, slabs, used, All, 0)'
  BY <1>1, <1>2, <1>3
<1>5. CallInv'
  BY <1>1, <1>2 DEF CallInv
<1> QED
  BY <1>4, <1>5 DEF SlabIInv

LEMMA AllocStructStep == ASSUME SlabIInv, AllocStruct PROVE SlabIInv'
<1> DEFINE k == GetCache(CacheSize)
           r == [addr |-> Returned(k), size |-> CacheSize]
<1>0. CachesRight(caches) /\ CallInv
  BY DEF SlabIInv, MemInv
<1>1. k \in 1 .. Len(caches) /\ caches[k].size = CacheSize
  <2>1. 1 \in 1 .. Len(caches) /\ CacheSize \in Nat
    BY <1>0, CacheListIs, SlabAssumption
  <2> QED
    BY <1>0, <2>1, GetCacheIs DEF CallInv
<1>2. CASE OutOfPages(k)
  BY <1>2, OutOfPagesStep
<1>3. CASE /\ CacheAlloc(k)
           /\ structs' = structs \cup {r}
           /\ pc' = "init"
           /\ UNCHANGED <<live, lost, broken, size>>
  <2>1. r = [addr |-> Returned(k), size |-> caches[k].size]
    BY <1>1
  <2>2. pc = "struct"
    BY DEF AllocStruct
  <2> HIDE DEF k, r
  <2>3. /\ MemInv(caches', slabs', used', All \cup {r}, 0) /\ r \notin All
        /\ caches'[1].size = CacheSize
    BY <1>1, <1>3, <2>1, AllocStep
  <2>4. All' = All \cup {r}
    BY <1>3 DEF All
  <2>5. MemInv(caches, slabs, used, All, 0)'
    BY <2>3, <2>4
  <2>6. CallInv'
    BY <1>0, <1>3, <2>2, <2>3 DEF CallInv, All
  <2> QED
    BY <2>5, <2>6 DEF SlabIInv
<1> QED
  BY <1>2, <1>3 DEF AllocStruct

LEMMA NewCacheStep == ASSUME SlabIInv, NewCache PROVE SlabIInv'
<1> DEFINE d == Cache(size)
<1>0. /\ MemInv(caches, slabs, used, All, 0) /\ CallInv /\ pc = "init"
      /\ UNCHANGED <<slabs, used, live, structs, lost, broken, size>> /\ pc' = "object"
      /\ caches' = Append(caches, d)
  BY DEF SlabIInv, NewCache
<1>1. size \in Sizes
  BY <1>0 DEF CallInv
<1>2. d.size = size /\ NewOne(caches, d, caches')
  BY <1>0, <1>1, CacheIs DEF NewOne
<1> HIDE DEF d
<1>3. MemInv(caches', slabs, used, All, 0)
  BY <1>0, <1>2, NewCacheKeeps
<1>4. /\ Len(caches') = Len(caches) + 1 /\ Len(caches) \in Nat /\ caches'[Len(caches) + 1] = d
      /\ \A k \in 1 .. Len(caches) : caches'[k] = caches[k]
  BY <1>0, <1>2, NewCacheKeeps
<1>5. All' = All
  BY <1>0 DEF All
<1>6. MemInv(caches, slabs, used, All, 0)'
  BY <1>0, <1>3, <1>5
<1>7. caches'[1].size = CacheSize
  <2>1. 1 \in 1 .. Len(caches)
    BY <1>0, CacheListIs DEF MemInv
  <2> QED
    BY <1>0, <1>4, <2>1 DEF CallInv
<1>8. \E m \in 1 .. Len(caches') : caches'[m].size = size'
  BY <1>0, <1>2, <1>4
<1>9. CallInv'
  BY <1>0, <1>1, <1>7, <1>8 DEF CallInv
<1> QED
  BY <1>6, <1>9 DEF SlabIInv

LEMMA AllocObjectStep == ASSUME SlabIInv, AllocObject PROVE SlabIInv'
<1> DEFINE k == GetCache(size)
           r == [addr |-> Returned(k), size |-> size]
<1>0. CachesRight(caches) /\ CallInv /\ pc = "object"
  BY DEF SlabIInv, MemInv, AllocObject
<1>1. k \in 1 .. Len(caches) /\ caches[k].size = size
  <2>1. size \in Nat
    BY <1>0, SlabAssumption DEF CallInv
  <2> QED
    BY <1>0, <2>1, GetCacheIs DEF CallInv
<1>2. CASE OutOfPages(k)
  BY <1>2, OutOfPagesStep
<1>3. CASE /\ CacheAlloc(k)
           /\ live' = live \cup {r}
           /\ pc' = "idle"
           /\ UNCHANGED <<structs, lost, broken, size>>
  <2>1. r = [addr |-> Returned(k), size |-> caches[k].size]
    BY <1>1
  <2> HIDE DEF k, r
  <2>3. /\ MemInv(caches', slabs', used', All \cup {r}, 0) /\ r \notin All
        /\ caches'[1].size = CacheSize
    BY <1>1, <1>3, <2>1, AllocStep
  <2>4. All' = All \cup {r}
    BY <1>3 DEF All
  <2>5. MemInv(caches, slabs, used, All, 0)'
    BY <2>3, <2>4
  <2>6. CallInv'
    BY <1>0, <1>3, <2>3 DEF CallInv, All
  <2> QED
    BY <2>5, <2>6 DEF SlabIInv
<1> QED
  BY <1>2, <1>3 DEF AllocObject

LEMMA KfreeStep == ASSUME SlabIInv, NEW o \in live, Kfree(o) PROVE SlabIInv'
<1>0. MemInv(caches, slabs, used, All, 0) /\ CallInv /\ pc = "idle"
  BY DEF SlabIInv, Kfree
<1>1. CASE KfreeLost(o)
  <2>1. /\ UNCHANGED <<caches, slabs, used, structs, broken, pc, size>>
        /\ live' = live \ {o} /\ lost' = lost \cup {o}
    BY <1>1 DEF KfreeLost
  <2>2. All' = All
    BY <2>1 DEF All
  <2>3. MemInv(caches, slabs, used, All, 0)'
    BY <1>0, <2>1, <2>2
  <2>4. CallInv'
    BY <1>0, <2>1 DEF CallInv
  <2> QED
    BY <2>3, <2>4 DEF SlabIInv
<1>2. CASE KfreeWild(o)
  <2>1. UNCHANGED <<caches, slabs, used, live, structs, lost, pc, size>> /\ broken' = TRUE
    BY <1>2 DEF KfreeWild
  <2>2. All' = All
    BY <2>1 DEF All
  <2>3. MemInv(caches, slabs, used, All, 0)'
    BY <1>0, <2>1, <2>2
  <2>4. CallInv'
    BY <1>0, <2>1 DEF CallInv
  <2> QED
    BY <2>3, <2>4 DEF SlabIInv
<1>3. CASE KfreeFound(o)
  <2> DEFINE s == Found(o)
             k == slabs[s].parent
  <2>1. /\ Hits(o) # {} /\ slabs[s].objects = o.addr
        /\ slabs' = [slabs EXCEPT ![s].ctl[0] = slabs[s].free, ![s].free = 0, ![s].inuse = @ - 1]
        /\ caches' = [caches EXCEPT ![k] = Removed(caches[k], s, slabs[s].inuse - 1)]
        /\ live' = live \ {o} /\ UNCHANGED <<used, structs, lost, broken, pc, size>>
    BY <1>3 DEF KfreeFound
  <2>2. s \in 1 .. Len(slabs)
    BY <1>0, <2>1, FoundIs DEF MemInv
  <2> HIDE DEF s
  <2>3. Frees(caches, slabs, s, k, caches', slabs', o)
    BY <2>1, <2>2 DEF Frees
  <2>4. o \in All /\ All' = All \ {o}
    BY <1>0, <2>1 DEF All, CallInv
  <2> HIDE DEF k
  <2>5. MemInv(caches', slabs', used, All \ {o}, 0)
    BY <1>0, <2>3, <2>4, FreeKeeps
  <2>6. Shapes(caches', caches)
    BY <1>0, <2>3, <2>4, FreeKeeps
  <2>7. MemInv(caches, slabs, used, All, 0)'
    BY <2>1, <2>4, <2>5
  <2>8. caches'[1].size = CacheSize
    <3>1. 1 \in 1 .. Len(caches)
      BY <1>0, CacheListIs DEF MemInv
    <3> QED
      BY <1>0, <2>6, <3>1 DEF CallInv, Shapes, SameShape
  <2>9. CallInv'
    BY <1>0, <2>1, <2>8 DEF CallInv
  <2> QED
    BY <2>7, <2>9 DEF SlabIInv
<1> QED
  BY <1>1, <1>2, <1>3 DEF Kfree

(* Every state of the slab allocator is in the inductive invariant: what   *)
(* init_cache, cache_alloc and cache_free each leave behind.               *)
THEOREM SlabInvariance == Spec => []SlabIInv
<1>1. Init => SlabIInv
  BY InitInv
<1>2. SlabIInv /\ [Next]_vars => SlabIInv'
  <2> SUFFICES ASSUME SlabIInv, [Next]_vars PROVE SlabIInv'
    OBVIOUS
  <2>1. ASSUME NEW j \in Sizes, Kmalloc(j) PROVE SlabIInv'
    BY <2>1, KmallocStep
  <2>2. CASE AllocStruct
    BY <2>2, AllocStructStep
  <2>3. CASE NewCache
    BY <2>3, NewCacheStep
  <2>4. CASE AllocObject
    BY <2>4, AllocObjectStep
  <2>5. ASSUME NEW o \in live, Kfree(o) PROVE SlabIInv'
    BY <2>5, KfreeStep
  <2>6. CASE UNCHANGED vars
    <3>1. MemInv(caches, slabs, used, All, 0)' /\ CallInv'
      BY <2>6 DEF SlabIInv, CallInv, All, vars
    <3> QED
      BY <3>1 DEF SlabIInv
  <2> QED
    BY <2>1, <2>2, <2>3, <2>4, <2>5, <2>6 DEF Next, Stopped
<1> QED
  BY <1>1, <1>2, PTL DEF Spec

-----------------------------------------------------------------------------
(* What follows from the invariant.                                        *)

LEMMA JoinOnce ==
  ASSUME NEW S, NEW u \in Seq(S), NEW w \in Seq(S), IsInjective(u), IsInjective(w),
         ToSet(u) \cap ToSet(w) = {}
  PROVE  u \o w \in Seq(S) /\ IsInjective(u \o w) /\ ToSet(u \o w) = ToSet(u) \cup ToSet(w)
<1> DEFINE x == u \o w
           m == Len(u)
           n == Len(w)
<1>1. /\ m \in Nat /\ n \in Nat /\ DOMAIN u = 1 .. m /\ DOMAIN w = 1 .. n
      /\ ToSet(u) = {u[i] : i \in 1 .. m} /\ ToSet(w) = {w[i] : i \in 1 .. n}
  BY DEF ToSet
<1>2. /\ x \in Seq(S) /\ Len(x) = m + n
      /\ \A i \in 1 .. m + n : x[i] = IF i <= m THEN u[i] ELSE w[i - m]
  BY ConcatProperties
<1> HIDE DEF x, m, n
<1>3. DOMAIN x = 1 .. m + n
  BY <1>1, <1>2
<1>4. \A i \in 1 .. m + n : \/ i \in 1 .. m /\ x[i] = u[i]
                            \/ i - m \in 1 .. n /\ x[i] = w[i - m]
  BY <1>1, <1>2
<1>5. /\ \A i \in 1 .. m : i \in 1 .. m + n /\ x[i] = u[i]
      /\ \A i \in 1 .. n : i + m \in 1 .. m + n /\ x[i + m] = w[i]
  <2>1. ASSUME NEW i \in 1 .. m PROVE i \in 1 .. m + n /\ x[i] = u[i]
    BY <1>1, <1>2
  <2>2. ASSUME NEW i \in 1 .. n PROVE i + m \in 1 .. m + n /\ x[i + m] = w[i]
    <3>1. i + m \in 1 .. m + n /\ ~(i + m <= m) /\ (i + m) - m = i
      BY <1>1
    <3> QED
      BY <1>2, <3>1
  <2> QED
    BY <2>1, <2>2
<1>6. ToSet(x) = ToSet(u) \cup ToSet(w)
  <2>1. ToSet(x) = {x[i] : i \in 1 .. m + n}
    BY <1>3 DEF ToSet
  <2>2. ASSUME NEW e \in ToSet(x) PROVE e \in ToSet(u) \cup ToSet(w)
    BY <1>1, <1>4, <2>1
  <2>3. ASSUME NEW e \in ToSet(u) PROVE e \in ToSet(x)
    BY <1>1, <1>5, <2>1
  <2>4. ASSUME NEW e \in ToSet(w) PROVE e \in ToSet(x)
    BY <1>1, <1>5, <2>1
  <2> QED
    BY <2>2, <2>3, <2>4
<1>7. ASSUME NEW i \in 1 .. m + n, NEW j \in 1 .. m + n, x[i] = x[j] PROVE i = j
  <2>1. CASE i \in 1 .. m /\ x[i] = u[i] /\ j \in 1 .. m /\ x[j] = u[j]
    BY <1>1, <1>7, <2>1 DEF IsInjective
  <2>2. CASE i - m \in 1 .. n /\ x[i] = w[i - m] /\ j - m \in 1 .. n /\ x[j] = w[j - m]
    <3>1. i - m = j - m
      BY <1>1, <1>7, <2>2 DEF IsInjective
    <3> QED
      BY <1>1, <3>1
  <2>3. CASE i \in 1 .. m /\ x[i] = u[i] /\ j - m \in 1 .. n /\ x[j] = w[j - m]
    BY <1>1, <1>7, <2>3
  <2>4. CASE j \in 1 .. m /\ x[j] = u[j] /\ i - m \in 1 .. n /\ x[i] = w[i - m]
    BY <1>1, <1>7, <2>4
  <2> QED
    BY <1>4, <2>1, <2>2, <2>3, <2>4
<1>8. IsInjective(x)
  BY <1>3, <1>7 DEF IsInjective
<1> QED
  BY <1>2, <1>6, <1>8 DEF x

LEMMA ListsFollow == SlabIInv => ListsExact
<1> SUFFICES ASSUME SlabIInv, NEW s \in SlabIds,
                    caches[slabs[s].parent].objects > 1
             PROVE  LET c == caches[slabs[s].parent]
                        n == slabs[s].inuse
                    IN /\ s \in ToSet(c.full) <=> n = c.objects
                       /\ s \in ToSet(c.free) <=> n = 0
                       /\ s \in ToSet(c.partial) <=> n > 0 /\ n < c.objects
                       /\ IsInjective(c.full \o c.partial \o c.free)
  BY DEF ListsExact
<1> DEFINE k == slabs[s].parent
           c == caches[k]
           n == slabs[s].inuse
           F == OnFull(caches, slabs, k, 0)
           Q == OnPartial(caches, slabs, k, 0)
           E == OnFree(caches, slabs, k, 0)
<1>1. /\ CachesRight(caches) /\ SlabsTyped(caches, slabs) /\ ListsRight(caches, slabs, 0)
      /\ \A t \in 1 .. Len(slabs) :
           HasChain(slabs[t], caches[slabs[t].parent].objects, Given(View(caches, slabs)[t], All))
  BY DEF SlabIInv, MemInv
<1>2. s \in 1 .. Len(slabs)
  BY <1>1 DEF SlabIds, SlabsTyped
<1>3. k \in 1 .. Len(caches) /\ c \in CacheSet
  BY <1>1, <1>2, ElementOfSeq DEF SlabsTyped, CachesRight
<1>4. c.objects \in Nat /\ c.objects > 1
  BY <1>3 DEF CacheSet
<1>5. n \in 0 .. c.objects
  BY <1>1, <1>2 DEF HasChain
<1>6. CacheLists(c, F, Q, E)
  BY <1>1, <1>3, ListsAre
<1>7. /\ c.full \in Seq(Nat) /\ IsInjective(c.full) /\ ToSet(c.full) = F
      /\ c.partial \in Seq(Nat) /\ IsInjective(c.partial) /\ ToSet(c.partial) = Q
      /\ c.free \in Seq(Nat) /\ IsInjective(c.free) /\ ToSet(c.free) = E
  BY <1>6 DEF CacheLists, IsListOf
<1>8. F \cap Q = {} /\ E \cap (F \cup Q) = {}
  <2>1. \A t \in F : slabs[t].inuse = c.objects
    BY DEF OnFull
  <2>2. \A t \in Q : slabs[t].inuse < c.objects /\ slabs[t].inuse > 0
    BY <1>4 DEF OnPartial
  <2>3. \A t \in E : slabs[t].inuse = 0
    BY DEF OnFree
  <2> HIDE DEF F, Q, E, c
  <2>4. F \cap Q = {}
    BY <1>4, <2>1, <2>2
  <2>5. E \cap F = {}
    BY <1>4, <2>1, <2>3
  <2>6. E \cap Q = {}
    BY <2>2, <2>3
  <2> QED
    BY <2>4, <2>5, <2>6
<1>9. IsInjective(c.full \o c.partial \o c.free)
  <2> HIDE DEF F, Q, E, c
  <2>1. /\ c.full \o c.partial \in Seq(Nat) /\ IsInjective(c.full \o c.partial)
        /\ ToSet(c.full \o c.partial) = F \cup Q
    BY <1>7, <1>8, JoinOnce
  <2>2. ToSet(c.full \o c.partial) \cap ToSet(c.free) = {}
    BY <1>7, <1>8, <2>1
  <2> QED
    BY <1>7, <2>1, <2>2, JoinOnce
<1>10. s \in F <=> n = c.objects
  BY <1>2 DEF OnFull
<1>11. s \in E <=> n = 0
  BY <1>2, <1>4 DEF OnFree
<1>12. s \in Q <=> n > 0 /\ n < c.objects
  BY <1>2, <1>4 DEF OnPartial
<1> QED
  BY <1>7, <1>9, <1>10, <1>11, <1>12

(* An object lies in the pages of one slab, and no two share a byte.       *)
LEMMA SlotsApart ==
  ASSUME NEW v, ViewFits(v), NEW i \in 0 .. v.count - 1, NEW j \in 0 .. v.count - 1, i # j
  PROVE  Slot(v, i) + v.size <= Slot(v, j) \/ Slot(v, j) + v.size <= Slot(v, i)
<1>1. v.size \in Nat \ {0} /\ v.count \in Nat /\ v.objects \in Nat
  BY DEF ViewFits, ViewSet
<1>2. ASSUME NEW a \in Nat, NEW b \in Nat, a < b PROVE Slot(v, a) + v.size <= Slot(v, b)
  <2>1. (a + 1) * v.size <= b * v.size /\ (a + 1) * v.size = a * v.size + v.size
    BY <1>1, <1>2, TimesMonotone, TimesNext
  <2>2. PICK x \in Nat : x = a * v.size
    BY <1>1, TimesNat
  <2>3. PICK y \in Nat : y = b * v.size
    BY <1>1, TimesNat
  <2>4. x + v.size <= y
    BY <2>1, <2>2, <2>3
  <2>5. Slot(v, a) = v.objects + x /\ Slot(v, b) = v.objects + y
    BY <2>2, <2>3 DEF Slot
  <2> QED
    BY <1>1, <2>4, <2>5
<1>3. i \in Nat /\ j \in Nat /\ (i < j \/ j < i)
  BY <1>1
<1> QED
  BY <1>2, <1>3

LEMMA BytesApart ==
  ASSUME NEW vw, NEW us, ViewsRight(vw, us), NEW o, NEW p, Placed(vw, o), Placed(vw, p), o # p
  PROVE  Bytes(o) \cap Bytes(p) = {}
<1>1. PICK s \in DOMAIN vw : \E i \in 0 .. vw[s].count - 1 :
        o = [addr |-> Slot(vw[s], i), size |-> vw[s].size]
  BY DEF Placed
<1>2. PICK i \in 0 .. vw[s].count - 1 : o = [addr |-> Slot(vw[s], i), size |-> vw[s].size]
  BY <1>1
<1>3. PICK t \in DOMAIN vw : \E j \in 0 .. vw[t].count - 1 :
        p = [addr |-> Slot(vw[t], j), size |-> vw[t].size]
  BY DEF Placed
<1>4. PICK j \in 0 .. vw[t].count - 1 : p = [addr |-> Slot(vw[t], j), size |-> vw[t].size]
  BY <1>3
<1> DEFINE v == vw[s]
           w == vw[t]
           a == Slot(v, i)
           b == Slot(w, j)
<1>5. ViewFits(v) /\ ViewFits(w)
  BY DEF ViewsRight
<1>6. v.size \in Nat \ {0} /\ w.size \in Nat \ {0}
  BY <1>5 DEF ViewFits, ViewSet
<1>7. o.addr = a /\ o.size = v.size /\ p.addr = b /\ p.size = w.size
  BY <1>2, <1>4
<1>8. /\ a \in Nat /\ v.base \in Nat /\ PageSize * v.pages \in Nat
      /\ v.base <= a /\ a + v.size <= v.base + PageSize * v.pages
  BY <1>5, SlotInside
<1>9. /\ b \in Nat /\ w.base \in Nat /\ PageSize * w.pages \in Nat
      /\ w.base <= b /\ b + w.size <= w.base + PageSize * w.pages
  BY <1>5, SlotInside
<1>10. a + v.size <= b \/ b + w.size <= a
  <2>1. CASE s = t
    <3>1. i # j
      BY <1>2, <1>4, <2>1
    <3> QED
      BY <1>5, <2>1, <3>1, SlotsApart
  <2>2. CASE s # t
    <3>1. Own(v) \cap Own(w) = {}
      BY <2>2 DEF ViewsRight
    <3> HIDE DEF v, w, a, b
    <3>2. v.base + PageSize * v.pages <= w.base \/ w.base + PageSize * w.pages <= v.base
      BY <1>5, <3>1, PagesApart
    <3> QED
      BY <1>6, <1>8, <1>9, <3>2
  <2> QED
    BY <2>1, <2>2
<1> HIDE DEF v, w, a, b
<1> QED
  BY <1>6, <1>7, <1>8, <1>9, <1>10 DEF Bytes

LEMMA AddressesFollow == SlabIInv => ObjectsApart
<1> SUFFICES ASSUME SlabIInv PROVE ObjectsApart
  OBVIOUS
<1> DEFINE vw == View(caches, slabs)
<1>1. /\ SlabsTyped(caches, slabs) /\ CachesRight(caches) /\ ViewsRight(vw, used)
      /\ \A o \in All : Placed(vw, o)
  BY DEF SlabIInv, MemInv
<1>2. SlabIds = 1 .. Len(slabs)
  BY <1>1 DEF SlabIds, SlabsTyped
<1>3. DOMAIN vw = 1 .. Len(slabs)
  BY <1>1, ViewIs
<1>4. ASSUME NEW s \in SlabIds
      PROVE  LET c == caches[slabs[s].parent]
             IN /\ vw[s].base = slabs[s].base /\ vw[s].count = c.objects
                /\ vw[s].pages = PageCount[c.order] /\ ViewFits(vw[s])
  BY <1>1, <1>2, <1>3, ViewIs DEF ViewsRight
<1> HIDE DEF vw
<1>5. ASSUME NEW o \in All PROVE InASlab(o)
  <2>1. PICK s \in DOMAIN vw : \E i \in 0 .. vw[s].count - 1 :
          o = [addr |-> Slot(vw[s], i), size |-> vw[s].size]
    BY <1>1, <1>5 DEF Placed
  <2>2. PICK i \in 0 .. vw[s].count - 1 : o = [addr |-> Slot(vw[s], i), size |-> vw[s].size]
    BY <2>1
  <2> DEFINE v == vw[s]
             c == caches[slabs[s].parent]
             a == Slot(v, i)
  <2>3. s \in SlabIds
    BY <1>2, <1>3
  <2>4. v.base = slabs[s].base /\ v.count = c.objects /\ v.pages = PageCount[c.order] /\ ViewFits(v)
    BY <1>4, <2>3
  <2>5. v.size \in Nat \ {0} /\ v.count \in Nat
    BY <2>4 DEF ViewFits, ViewSet
  <2>6. /\ a \in Nat /\ v.base \in Nat /\ PageSize * v.pages \in Nat
        /\ v.base + HeaderSize + v.count * CtlSize <= a
        /\ a + v.size <= v.base + PageSize * v.pages
    BY <2>4, SlotInside
  <2>7. o.addr = a /\ o.size = v.size
    BY <2>2
  <2>8. PICK m \in Nat : m = v.count * CtlSize
    BY <2>5, SlabAssumption, TimesNat
  <2>9. PICK r \in Nat : r = PageSize * v.pages
    BY <2>6
  <2>10. slabs[s].base + HeaderSize + c.objects * CtlSize = v.base + HeaderSize + m
    BY <2>4, <2>8
  <2>11. slabs[s].base + Room(c.order) - 1 = v.base + r - 1
    BY <2>4, <2>9 DEF Room
  <2>12. Bytes(o) \subseteq v.base + HeaderSize + m .. v.base + r - 1
    <3>1. HeaderSize \in Nat
      BY SlabAssumption
    <3>2. v.base + HeaderSize + m <= a /\ a + v.size <= v.base + r
      BY <2>6, <2>8, <2>9
    <3>3. Bytes(o) = a .. a + v.size - 1
      BY <2>7 DEF Bytes
    <3>4. PICK lo \in Nat : lo = v.base + HeaderSize + m
      BY <2>6, <3>1
    <3>5. PICK hi \in Nat : hi = v.base + r
      BY <2>6
    <3>6. PICK z \in Nat : z = a + v.size
      BY <2>5, <2>6
    <3> HIDE DEF a, v
    <3>7. a \in Nat /\ lo <= a /\ z <= hi /\ Bytes(o) = a .. z - 1
      <4>1. a \in Nat
        BY <2>6
      <4>2. lo <= a
        BY <3>2, <3>4
      <4>3. z <= hi
        BY <3>2, <3>5, <3>6
      <4>4. Bytes(o) = a .. z - 1
        BY <2>5, <3>3, <3>6, <4>1
      <4> QED
        BY <4>1, <4>2, <4>3, <4>4
    <3>8. Bytes(o) \subseteq lo .. hi - 1
      BY <3>7
    <3>9. lo .. hi - 1 = v.base + HeaderSize + m .. v.base + r - 1
      <4>1. v.base \in Nat
        BY <2>6
      <4>2. hi - 1 = v.base + r - 1
        BY <3>5, <4>1
      <4>3. lo = v.base + HeaderSize + m
        BY <3>4
      <4> QED
        BY <4>2, <4>3, Zenon
    <3> QED
      BY <3>8, <3>9, Zenon
  <2>13. Bytes(o) \subseteq slabs[s].base + HeaderSize + c.objects * CtlSize
                              .. slabs[s].base + Room(c.order) - 1
    BY <2>10, <2>11, <2>12
  <2> QED
    BY <2>3, <2>13 DEF InASlab
<1>6. \A o, p \in All : o # p => Bytes(o) \cap Bytes(p) = {}
  BY <1>1, BytesApart
<1>7. SlabsOwnFrames
  <2> DEFINE frames(s) == {f \in 0 .. Frames : f * PageSize \in
                             slabs[s].base .. slabs[s].base + Room(caches[slabs[s].parent].order) - 1}
  <2>1. ASSUME NEW s \in SlabIds PROVE frames(s) \subseteq Own(vw[s])
    <3> SUFFICES ASSUME NEW f \in frames(s) PROVE f \in Own(vw[s])
      OBVIOUS
    <3> DEFINE v == vw[s]
    <3>1. /\ f \in Nat /\ f * PageSize \in Int
          /\ f * PageSize >= slabs[s].base
          /\ f * PageSize <= slabs[s].base + Room(caches[slabs[s].parent].order) - 1
      BY SlabAssumption
    <3>2. v.base = slabs[s].base /\ Room(caches[slabs[s].parent].order) = PageSize * v.pages /\ ViewFits(v)
      BY <1>4 DEF Room
    <3> HIDE DEF v, frames
    <3>3. /\ v.first \in Nat /\ v.pages \in Nat \ {0} /\ v.base \in Nat
          /\ v.base = v.first * PageSize /\ PageSize \in Nat \ {0}
      BY <3>2, SlabAssumption DEF ViewFits, ViewSet
    <3>4. PICK x \in Nat : x = f * PageSize
      BY <3>1, <3>3, TimesNat
    <3>5. PICK r \in Nat : r = PageSize * v.pages
      BY <3>3, TimesNat
    <3>6. v.base <= x /\ x < v.base + r
      BY <3>1, <3>2, <3>3, <3>4, <3>5
    <3>7. v.first <= f
      <4> SUFFICES ASSUME f + 1 <= v.first PROVE FALSE
        BY <3>1, <3>3
      <4>1. (f + 1) * PageSize <= v.first * PageSize /\ (f + 1) * PageSize = f * PageSize + PageSize
        BY <3>1, <3>3, TimesMonotone, TimesNext
      <4> QED
        BY <3>3, <3>4, <3>6, <4>1
    <3>8. f < v.first + v.pages
      <4> SUFFICES ASSUME v.first + v.pages <= f PROVE FALSE
        BY <3>1, <3>3
      <4>1. (v.first + v.pages) * PageSize <= f * PageSize
        BY <3>1, <3>3, TimesMonotone
      <4>2. (v.first + v.pages) * PageSize = v.first * PageSize + PageSize * v.pages
        BY <3>3
      <4>3. v.base + r <= x
        BY <3>3, <3>4, <3>5, <4>1, <4>2
      <4> QED
        BY <3>3, <3>6, <4>3
    <3> QED
      BY <3>1, <3>3, <3>7, <3>8 DEF Own, v
  <2>2. ASSUME NEW s \in SlabIds PROVE frames(s) \subseteq used \ TakenFrames
    <3>1. Own(vw[s]) \subseteq used \ TakenFrames
      BY <1>1, <1>2, <1>3 DEF ViewsRight
    <3> HIDE DEF frames
    <3> QED
      BY <2>1, <3>1
  <2>3. ASSUME NEW s \in SlabIds, NEW t \in SlabIds, s # t PROVE frames(s) \cap frames(t) = {}
    <3>1. Own(vw[s]) \cap Own(vw[t]) = {}
      BY <1>1, <1>2, <1>3, <2>3 DEF ViewsRight
    <3> HIDE DEF frames
    <3> QED
      BY <2>1, <3>1
  <2> QED
    BY <2>2, <2>3 DEF SlabsOwnFrames
<1> QED
  BY <1>5, <1>6, <1>7 DEF ObjectsApart, All

(* Links is the loop that follows the control words.                       *)
HasWords(s, n) ==
  /\ n = caches[slabs[s].parent].objects
  /\ slabs[s].free \in Nat /\ slabs[s].ctl \in [0 .. n - 1 -> Nat]

LEMMA LinksAre ==
  ASSUME NEW s, NEW n \in Nat, HasWords(s, n)
  PROVE  /\ Links(s)[0] = slabs[s].free
         /\ \A i \in 1 .. n : Links(s)[i - 1] \in 0 .. n - 1 => Links(s)[i] = slabs[s].ctl[Links(s)[i - 1]]
<1> DEFINE ctl == slabs[s].ctl
           free == slabs[s].free
           follow == [x \in Nat |-> IF x \in DOMAIN ctl THEN ctl[x] ELSE x]
           step == [i \in 1 .. n |-> follow]
           run == LoopRun(n, Nat, free, step)
           IsLinks(g) == g = [i \in 0 .. n |->
                                IF i = 0 THEN free
                                ELSE IF g[i - 1] \in DOMAIN ctl THEN ctl[g[i - 1]] ELSE g[i - 1]]
           f == [i \in 0 .. n |->
                   IF i = 0 THEN free
                   ELSE IF run[i - 1] \in DOMAIN ctl THEN ctl[run[i - 1]] ELSE run[i - 1]]
<1>1. DOMAIN ctl = 0 .. n - 1 /\ ctl \in [0 .. n - 1 -> Nat] /\ free \in Nat
  BY DEF HasWords
<1> HIDE DEF ctl, free
<1>2. follow \in [Nat -> Nat]
  BY <1>1
<1>3. step \in [1 .. n -> [Nat -> Nat]]
  <2> HIDE DEF follow
  <2> QED
    BY <1>2
<1>4. /\ run \in [0 .. n -> Nat] /\ run[0] = free
      /\ \A i \in 1 .. n : run[i] = step[i][run[i - 1]]
  <2> DEFINE S == Nat
  <2>1. free \in S /\ step \in [1 .. n -> [S -> S]]
    BY <1>1, <1>3
  <2> HIDE DEF step, S
  <2>2. LET h == LoopRun(n, S, free, step)
        IN h \in [0 .. n -> S] /\ h[0] = free /\ \A k \in 1 .. n : h[k] = step[k][h[k - 1]]
    BY <2>1, RunExists
  <2> QED
    BY <2>2 DEF S
<1> HIDE DEF run
<1>5. ASSUME NEW i \in 1 .. n
      PROVE  run[i] = IF run[i - 1] \in DOMAIN ctl THEN ctl[run[i - 1]] ELSE run[i - 1]
  <2>1. run[i - 1] \in Nat
    BY <1>4
  <2>2. step[i] = follow
    <3> HIDE DEF follow
    <3> QED
      OBVIOUS
  <2>3. run[i] = follow[run[i - 1]]
    BY <1>4, <2>2, Zenon
  <2> QED
    BY <2>1, <2>3
<1> HIDE DEF step, follow
<1>6. \A i \in 0 .. n : f[i] = run[i]
  <2>1. \A i \in 0 .. n : i = 0 \/ i \in 1 .. n
    OBVIOUS
  <2>2. \A i \in 0 .. n : run[i] = IF i = 0 THEN free
              ELSE IF run[i - 1] \in DOMAIN ctl THEN ctl[run[i - 1]] ELSE run[i - 1]
    BY <1>4, <1>5, <2>1
  <2> QED
    BY <2>2
<1>7. IsLinks(f)
  <2>1. \A i \in 0 .. n : (i # 0 => i - 1 \in 0 .. n)
    OBVIOUS
  <2>2. \A i \in 0 .. n :
          (IF i = 0 THEN free
           ELSE IF run[i - 1] \in DOMAIN ctl THEN ctl[run[i - 1]] ELSE run[i - 1]) =
          (IF i = 0 THEN free
           ELSE IF f[i - 1] \in DOMAIN ctl THEN ctl[f[i - 1]] ELSE f[i - 1])
    <3> HIDE DEF f
    <3> QED
      BY <1>6, <2>1
  <2> QED
    BY <2>2
<1> HIDE DEF f
<1>8. Links(s) = CHOOSE g : IsLinks(g)
  BY DEF Links, free, ctl, HasWords
<1>9. IsLinks(Links(s))
  <2> HIDE DEF IsLinks
  <2> QED
    BY <1>7, <1>8
<1>10. \A i \in 0 .. n :
         Links(s)[i] = IF i = 0 THEN free
                       ELSE IF Links(s)[i - 1] \in DOMAIN ctl THEN ctl[Links(s)[i - 1]] ELSE Links(s)[i - 1]
  <2> DEFINE g == Links(s)
  <2>1. g = [i \in 0 .. n |->
               IF i = 0 THEN free
               ELSE IF g[i - 1] \in DOMAIN ctl THEN ctl[g[i - 1]] ELSE g[i - 1]]
    BY <1>9
  <2> HIDE DEF g
  <2>2. \A i \in 0 .. n :
         g[i] = IF i = 0 THEN free
                       ELSE IF g[i - 1] \in DOMAIN ctl THEN ctl[g[i - 1]] ELSE g[i - 1]
    BY <2>1, Zenon
  <2> QED
    BY <2>2 DEF g
<1> DEFINE g == Links(s)
<1> HIDE DEF g
<1>11. \A i \in 0 .. n :
         g[i] = IF i = 0 THEN free
                ELSE IF g[i - 1] \in DOMAIN ctl THEN ctl[g[i - 1]] ELSE g[i - 1]
  BY <1>10 DEF g
<1>12. g[0] = free
  BY <1>11
<1>13. \A i \in 1 .. n : g[i - 1] \in 0 .. n - 1 => g[i] = ctl[g[i - 1]]
  BY <1>1, <1>11
<1> QED
  BY <1>12, <1>13 DEF g, free, ctl

LEMMA ChainFollows == SlabIInv => ChainExact
<1> SUFFICES ASSUME SlabIInv, NEW s \in SlabIds
             PROVE  LET n == caches[slabs[s].parent].objects
                        left == n - slabs[s].inuse
                    IN /\ left \in 0 .. n
                       /\ {Links(s)[i] : i \in 0 .. left - 1} = (0 .. n - 1) \ Out(s)
                       /\ slabs[s].inuse = Cardinality(Out(s))
  BY DEF ChainExact
<1> DEFINE sl == slabs[s]
           c == caches[sl.parent]
           n == c.objects
           m == sl.inuse
           left == n - m
           v == View(caches, slabs)[s]
           given == Given(v, All)
<1>1. /\ CachesRight(caches) /\ SlabsTyped(caches, slabs)
      /\ \A t \in 1 .. Len(slabs) :
           HasChain(slabs[t], caches[slabs[t].parent].objects, Given(View(caches, slabs)[t], All))
  BY DEF SlabIInv, MemInv
<1>2. s \in 1 .. Len(slabs)
  BY <1>1 DEF SlabIds, SlabsTyped
<1>3. sl \in SlabSet /\ sl.ctl \in [0 .. n - 1 -> Nat] /\ sl.parent \in 1 .. Len(caches)
  BY <1>1, <1>2, ElementOfSeq DEF SlabsTyped
<1>4. c \in CacheSet
  BY <1>1, <1>3, ElementOfSeq DEF CachesRight
<1>5. n \in Nat \ {0} /\ sl.free \in Nat
  BY <1>3, <1>4 DEF CacheSet, SlabSet
<1>6. HasChain(sl, n, given)
  BY <1>1, <1>2
<1>7. given = Out(s)
  <2>1. v.count = n /\ v.objects = sl.objects /\ v.size = c.size
    BY <1>1, <1>2, ViewIs
  <2> HIDE DEF v
  <2>2. \A i : Slot(v, i) = sl.objects + i * c.size
    BY <2>1 DEF Slot
  <2>3. given = {i \in 0 .. n - 1 : \E o \in All : o.addr = sl.objects + i * c.size}
    BY <2>1, <2>2 DEF Given
  <2> QED
    BY <2>3 DEF Out, All
<1>8. /\ Links(s)[0] = sl.free
      /\ \A i \in 1 .. n : Links(s)[i - 1] \in 0 .. n - 1 => Links(s)[i] = sl.ctl[Links(s)[i - 1]]
  <2>1. n \in Nat /\ HasWords(s, n)
    BY <1>3, <1>5 DEF HasWords
  <2> QED
    BY <2>1, LinksAre
<1> DEFINE g == Links(s)
<1> HIDE DEF g, given, sl, n, c
<1>9. m \in 0 .. n /\ m = Cardinality(given)
  BY <1>6 DEF HasChain
<1>10. left \in 0 .. n /\ left \in Nat
  BY <1>5, <1>9
<1>11. PICK ch \in [0 .. left - 1 -> 0 .. n - 1] : IsChain(ch, sl, n, given)
  BY <1>6 DEF HasChain
<1> HIDE DEF left, m
<1>12. /\ \A x \in 0 .. n - 1 : x \notin given <=> \E i \in 0 .. left - 1 : ch[i] = x
       /\ left > 0 => ch[0] = sl.free
       /\ \A i \in 0 .. left - 2 : ch[i + 1] = sl.ctl[ch[i]]
  BY <1>11 DEF IsChain, left, m
<1>13. \A i \in 0 .. left - 1 : g[i] = ch[i]
  <2> DEFINE T == {i \in 0 .. left - 1 : g[i] = ch[i]}
  <2>1. CASE left = 0
    BY <2>1
  <2>2. CASE left # 0
    <3>1. left - 1 \in Nat /\ left > 0
      BY <1>10, <2>2
    <3>2. 0 \in T
      BY <1>8, <1>12, <3>1 DEF g
    <3>3. ASSUME NEW i \in 1 .. left - 1, i - 1 \in T PROVE i \in T
      <4>1. i \in 1 .. n /\ i - 1 \in 0 .. left - 1 /\ i - 1 \in 0 .. left - 2 /\ (i - 1) + 1 = i
        BY <1>5, <1>10, <3>1
      <4>2. g[i - 1] = ch[i - 1] /\ ch[i - 1] \in 0 .. n - 1
        BY <1>11, <3>3, <4>1
      <4>3. g[i] = sl.ctl[g[i - 1]]
        BY <1>8, <4>1, <4>2 DEF g
      <4>4. ch[i] = sl.ctl[ch[i - 1]]
        BY <1>12, <4>1
      <4> QED
        BY <4>2, <4>3, <4>4
    <3> HIDE DEF T
    <3>4. \A i \in 0 .. left - 1 : i \in T
      BY <3>1, <3>2, <3>3, UpTo
    <3> QED
      BY <3>4 DEF T
  <2> QED
    BY <2>1, <2>2
<1>14. {g[i] : i \in 0 .. left - 1} = (0 .. n - 1) \ given
  <2>1. ASSUME NEW i \in 0 .. left - 1 PROVE g[i] \in (0 .. n - 1) \ given
    <3>1. g[i] = ch[i] /\ ch[i] \in 0 .. n - 1
      BY <1>11, <1>13
    <3> QED
      BY <1>12, <3>1
  <2>2. ASSUME NEW x \in (0 .. n - 1) \ given PROVE \E i \in 0 .. left - 1 : g[i] = x
    BY <1>12, <1>13
  <2> QED
    BY <2>1, <2>2
<1> QED
  BY <1>7, <1>9, <1>10, <1>14 DEF g, n, c, sl, left, m

LEMMA TypesFollow == SlabIInv => TypeOK
<1> SUFFICES ASSUME SlabIInv PROVE TypeOK
  OBVIOUS
<1>1. /\ CachesRight(caches) /\ SlabsTyped(caches, slabs) /\ ListsRight(caches, slabs, 0)
      /\ used \in SUBSET (0 .. Frames - 1) /\ CallInv
  BY DEF SlabIInv, MemInv
<1>2. SlabIds = 1 .. Len(slabs) /\ DOMAIN caches = 1 .. Len(caches)
  BY <1>1 DEF SlabIds, SlabsTyped, CachesRight
<1>3. ASSUME NEW k \in DOMAIN caches
      PROVE  /\ caches[k].objects >= 1 /\ caches[k].colour \in 0 .. caches[k].colours
             /\ ToSet(caches[k].full) \cup ToSet(caches[k].partial) \cup ToSet(caches[k].free) \subseteq SlabIds
  <2>1. CacheFits(caches[k]) /\ k \in 1 .. Len(caches)
    BY <1>1, <1>2 DEF CachesRight
  <2>2. /\ caches[k] \in CacheSet /\ ToSet(caches[k].full) \subseteq 1 .. Len(slabs)
        /\ ToSet(caches[k].partial) \subseteq 1 .. Len(slabs) /\ ToSet(caches[k].free) \subseteq 1 .. Len(slabs)
    BY <1>1, <2>1, ListIn
  <2>3. caches[k].colour \in Nat /\ caches[k].colours \in Nat /\ caches[k].objects \in Nat \ {0}
    BY <2>2 DEF CacheSet
  <2>4. caches[k].colour <= caches[k].colours
    BY <2>1 DEF CacheFits
  <2> QED
    BY <1>2, <2>2, <2>3, <2>4
<1>4. \A s \in SlabIds : slabs[s].parent \in DOMAIN caches
  BY <1>1, <1>2 DEF SlabsTyped
<1> QED
  BY <1>1, <1>3, <1>4 DEF TypeOK, CallInv

(* The control words of a slab chain exactly the objects nobody has, each  *)
(* once, and inuse counts the others, whatever order kmalloc and kfree     *)
(* came in: no object is handed out twice and none is forgotten by its     *)
(* slab (cache_alloc and cache_free, slab.cc:120 to 260).                  *)
THEOREM SlabCorrect == Spec => []SlabInv
<1>1. SlabIInv => SlabInv
  BY TypesFollow, ChainFollows DEF SlabInv
<1> QED
  BY <1>1, SlabInvariance, PTL

(* The memory of an object somebody has is inside the pages of one slab,   *)
(* behind the header and the control words, whatever the colour; no two    *)
(* objects share a byte, no two slabs a frame, and no slab lies over the   *)
(* frames the boot took.                                                   *)
THEOREM ObjectsStayApart == Spec => []ObjectsApart
BY SlabInvariance, AddressesFollow, PTL

(* A slab of two or more objects is on exactly one list of its cache, the  *)
(* one its number of used objects calls for.                               *)
THEOREM ListsCorrect == Spec => []ListsExact
BY SlabInvariance, ListsFollow, PTL
=============================================================================
