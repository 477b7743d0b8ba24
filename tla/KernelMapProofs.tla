--------------------------- MODULE KernelMapProofs ---------------------------
(***************************************************************************)
(* For any size of a table, either MMU, any memory map, any image that     *)
(* keeps to the layout of the address space and whatever the processor     *)
(* caches: the walk finds what was mapped, no translation is stale, tables *)
(* are nobody else's, and the window reaches what it should.               *)
(***************************************************************************)
EXTENDS KernelMapProps, ListLemmas, FiniteSetTheorems

-----------------------------------------------------------------------------
(* A page from its directory, entry and place in the table, and back.      *)
At(d, e, i) == (d * E + e) * E + i

LEMMA NewIsNotNone ==
  New # None /\ Junk # None /\ None \notin Frame /\ New \notin Frame /\ Junk \notin Frame
BY KernelMapAssumption DEF Frame

LEMMA ESizes == E \in Nat /\ E \in Nat \ {0} /\ E >= 2 /\ E * E \in Nat \ {0}
<1>1. E \in Nat /\ E >= 2
  BY KernelMapAssumption
<1>2. E * E >= 2 * E
  BY <1>1, TimesMonotone
<1> QED
  BY <1>1, <1>2

LEMMA AtParts ==
  ASSUME NEW d \in Nat, NEW e \in Index, NEW i \in Index
  PROVE  /\ At(d, e, i) \in Nat
         /\ At(d, e, i) \div E = d * E + e
         /\ DirOf(At(d, e, i)) = d
         /\ EntryOf(At(d, e, i)) = e
         /\ At(d, e, i) % E = i
<1>1. /\ E \in Nat \ {0} /\ e \in 0 .. E - 1 /\ i \in 0 .. E - 1 /\ E * E \in Nat \ {0}
      /\ d * E \in Nat /\ e * E \in Nat
  BY ESizes, TimesNat DEF Index
<1>2. PICK a \in Nat : a = d * E + e
  BY <1>1
<1>3. PICK k \in Nat : k = a * E + i
  BY <1>1, <1>2, TimesNat
<1>4. k \div E = a /\ a \div E = d
  BY <1>1, <1>2, <1>3, DivOfWord
<1>5. k % E = i
  <2>1. k = (k \div E) * E + (k % E) /\ k % E \in Int
    BY <1>1, DivMod
  <2>2. a * E \in Nat
    BY <1>1, TimesNat
  <2> QED
    BY <1>3, <1>4, <2>1, <2>2, <1>1
<1>6. a % E = e
  <2>1. a = (a \div E) * E + (a % E) /\ a % E \in Int
    BY <1>1, DivMod
  <2> QED
    BY <1>1, <1>2, <1>4, <2>1
<1>7. k \div (E * E) = d
  <2>1. PICK b \in Nat : b = e * E + i
    BY <1>1
  <2>2. k = d * (E * E) + b
    <3>1. (d * E + e) * E = d * (E * E) + e * E
      BY <1>1
    <3> QED
      BY <1>1, <1>2, <1>3, <2>1, <3>1
  <2>3. b \in 0 .. (E * E) - 1
    <3>1. e * E <= (E - 1) * E /\ (E - 1) * E = E * E - E
      BY <1>1, TimesMonotone
    <3> QED
      BY <1>1, <2>1, <3>1
  <2> QED
    BY <1>1, <2>2, <2>3, DivOfWord
<1> QED
  BY <1>2, <1>3, <1>4, <1>5, <1>6, <1>7 DEF At, DirOf, EntryOf

LEMMA PartsAt ==
  ASSUME NEW v \in Nat
  PROVE  /\ DirOf(v) \in Nat /\ EntryOf(v) \in Index /\ v % E \in Index
         /\ v = At(DirOf(v), EntryOf(v), v % E)
         /\ v \div E = DirOf(v) * E + EntryOf(v)
<1>1. PICK a \in Nat : a = v \div E
  BY ESizes, DivMod
<1>2. PICK i \in Index : i = v % E /\ v = a * E + i
  BY <1>1, ESizes, DivMod DEF Index
<1>3. PICK d \in Nat : d = a \div E
  BY ESizes, DivMod
<1>4. PICK e \in Index : e = a % E /\ a = d * E + e
  BY <1>3, ESizes, DivMod DEF Index
<1>5. v = At(d, e, i)
  BY <1>2, <1>4 DEF At
<1>6. DirOf(v) = d /\ EntryOf(v) = e
  BY <1>5, AtParts
<1> QED
  BY <1>1, <1>2, <1>4, <1>5, <1>6

LEMMA DirsSize == dirs \in Dirs => dirs \in Nat /\ 1 <= dirs /\ dirs <= E - 1
BY KernelMapAssumption DEF Index

LEMMA PageParts ==
  ASSUME dirs \in Dirs, NEW v \in Nat
  PROVE  v \in Page <=> DirOf(v) \in Directory
<1>1. PICK EE \in Nat \ {0} : EE = E * E
  BY ESizes
<1>2. PICK D \in Nat : D = dirs
  BY DirsSize
<1>3. PICK d \in Nat : d = v \div EE
  BY <1>1, DivMod
<1>4. v = d * EE + (v % EE) /\ v % EE \in 0 .. EE - 1 /\ D * E * E = D * EE /\ D * EE \in Nat
  <2>1. v = d * EE + (v % EE) /\ v % EE \in 0 .. EE - 1
    BY <1>1, <1>3, DivMod
  <2>2. D * E * E = D * EE
    BY <1>1, <1>2, ESizes
  <2> QED
    BY <1>1, <1>2, <2>1, <2>2, TimesNat
<1>5. ASSUME d < D PROVE v < D * EE
  <2>1. (d + 1) * EE <= D * EE /\ (d + 1) * EE = d * EE + EE
    BY <1>1, <1>2, <1>3, <1>5, TimesMonotone
  <2> QED
    BY <1>1, <1>4, <2>1, TimesNat
<1>6. ASSUME d >= D PROVE v >= D * EE
  <2>1. d * EE >= D * EE /\ d * EE \in Nat
    BY <1>1, <1>2, <1>3, <1>6, TimesMonotone, TimesNat
  <2> QED
    BY <1>1, <1>4, <2>1
<1>7. v \in Page <=> v < D * EE
  BY <1>2, <1>4 DEF Page
<1>8. DirOf(v) = d /\ (d \in Directory <=> d < D)
  BY <1>1, <1>2, <1>3 DEF Directory, DirOf
<1>9. v < D * EE <=> d < D
  <2>1. D * EE \in Int /\ v \in Int
    BY <1>4
  <2> QED
    BY <1>5, <1>6, <2>1
<1> QED
  BY <1>7, <1>8, <1>9

LEMMA AtPage ==
  ASSUME dirs \in Dirs, NEW d \in Directory, NEW e \in Index, NEW i \in Index
  PROVE  /\ At(d, e, i) \in Page
         /\ DirOf(At(d, e, i)) = d /\ EntryOf(At(d, e, i)) = e /\ At(d, e, i) % E = i
<1>1. d \in Nat
  BY DEF Directory
<1> QED
  BY <1>1, AtParts, PageParts

LEMMA PartsOfPage ==
  ASSUME dirs \in Dirs, NEW v \in Page
  PROVE  /\ DirOf(v) \in Directory /\ EntryOf(v) \in Index /\ v % E \in Index
         /\ v = At(DirOf(v), EntryOf(v), v % E)
<1>1. v \in Nat
  BY DEF Page
<1> QED
  BY <1>1, PartsAt, PageParts

(* The entries of the last directory that are the directories, and the     *)
(* pages seen through them.                                                *)
Recursive(d, e) == d = dirs - 1 /\ e >= E - dirs

LEMMA RecursivePages ==
  ASSUME dirs \in Dirs, NEW v \in Page
  PROVE  v \div E < dirs * E - dirs <=> ~Recursive(DirOf(v), EntryOf(v))
<1>1. PICK D \in Nat : D = dirs /\ 1 <= D /\ D <= E - 1
  BY DirsSize
<1>2. PICK d \in Nat : d = DirOf(v) /\ d <= D - 1
  BY <1>1, PartsOfPage DEF Directory
<1>3. PICK e \in Nat : e = EntryOf(v) /\ e <= E - 1
  BY PartsOfPage DEF Index
<1>4. v \div E = d * E + e
  <2>1. v \in Nat
    BY DEF Page
  <2> QED
    BY <1>2, <1>3, <2>1, PartsAt
<1>5. D * E = (D - 1) * E + E /\ (D - 1) * E \in Nat /\ d * E \in Nat
  BY <1>1, <1>2, ESizes, TimesNat
<1>6. CASE d = D - 1
  BY <1>1, <1>2, <1>3, <1>4, <1>5, <1>6, ESizes DEF Recursive
<1>7. CASE d # D - 1
  <2>1. d + 1 <= D - 1 /\ d + 1 \in Int /\ D - 1 \in Int /\ E \in Nat
    BY <1>1, <1>2, <1>7, ESizes
  <2>2. (d + 1) * E <= (D - 1) * E
    BY <2>1, TimesMonotone
  <2>3. (d + 1) * E = d * E + E
    BY <1>2, ESizes
  <2> QED
    BY <1>1, <1>2, <1>3, <1>4, <1>5, <1>7, <2>2, <2>3, ESizes DEF Recursive
<1> QED
  BY <1>6, <1>7

(* Where map sees the table of a page and its directory.                   *)
LEMMA SeenAt ==
  ASSUME dirs \in Dirs, NEW v \in Page
  PROVE  /\ dirs - 1 \in Directory /\ E - 1 \in Index /\ E - dirs + DirOf(v) \in Index
         /\ Recursive(dirs - 1, E - 1) /\ Recursive(dirs - 1, E - dirs + DirOf(v))
         /\ TablePage(v) = At(dirs - 1, E - dirs + DirOf(v), EntryOf(v))
         /\ DirPage(v) = At(dirs - 1, E - 1, E - dirs + DirOf(v))
<1>1. PICK D \in Nat : D = dirs /\ 1 <= D /\ D <= E - 1
  BY DirsSize
<1>2. PICK d \in Nat : d = DirOf(v) /\ d <= D - 1
  BY <1>1, PartsOfPage DEF Directory
<1>3. PICK e \in Nat : e = EntryOf(v) /\ e <= E - 1
  BY PartsOfPage DEF Index
<1>4. v \div E = d * E + e
  <2>1. v \in Nat
    BY DEF Page
  <2> QED
    BY <1>2, <1>3, <2>1, PartsAt
<1>5. D - 1 \in Directory /\ E - 1 \in Index /\ E - D + d \in Index
  BY <1>1, <1>2, ESizes DEF Directory, Index
<1>6. (D * E - D) * E + (d * E + e) = At(D - 1, E - D + d, e)
  BY <1>1, <1>2, <1>3, ESizes DEF At
<1>7. D * E * E - D + d = At(D - 1, E - 1, E - D + d)
  BY <1>1, <1>2, <1>3, ESizes DEF At
<1>8. Recursive(dirs - 1, E - 1) /\ Recursive(dirs - 1, E - dirs + DirOf(v))
  BY <1>1, <1>2, ESizes DEF Recursive
<1>9. /\ TablePage(v) = (D * E - D) * E + (d * E + e)
      /\ DirPage(v) = D * E * E - D + d
  BY <1>1, <1>2, <1>4 DEF TablePage, DirPage
<1> QED
  BY <1>1, <1>2, <1>3, <1>5, <1>6, <1>7, <1>8, <1>9

-----------------------------------------------------------------------------
(* The directories and their tables.                                       *)
EntryAt(d, e) == mem[root[d]][e]

MemType ==
  /\ dirs \in Dirs
  /\ mem \in [Frame -> [Index -> Frame \cup {None, Junk}]]
  /\ root \in [Directory -> Frame]

Structure ==
  /\ \A d \in Directory : EntryAt(dirs - 1, E - dirs + d) = root[d]
  /\ \A d \in Directory, e \in Index : EntryAt(d, e) \in Frame \cup {None}
  /\ \A d, c \in Directory, e, k \in Index :
       EntryAt(d, e) = EntryAt(c, k) /\ EntryAt(d, e) # None => d = c /\ e = k

(* What the walk finds outside of the recursive entries.                   *)
WalkFinds ==
  \A d \in Directory, e, i \in Index :
    ~Recursive(d, e) => Walk(mem, At(d, e, i)) = want[At(d, e, i)]

Coherent == tlb \subseteq Page \X Frame /\ TlbCoherent

LEMMA TablesAre ==
  ASSUME MemType, Structure, NEW f
  PROVE  f \in Tables <=> f \in Frame /\ \E d \in Directory, e \in Index : EntryAt(d, e) = f
<1>1. ASSUME f \in Tables PROVE f \in Frame /\ \E d \in Directory, e \in Index : EntryAt(d, e) = f
  <2>1. PICK x \in Entries : f = mem[root[x[1]]][x[2]]
    BY <1>1 DEF Tables
  <2>2. x[1] \in Directory /\ x[2] \in Index /\ EntryAt(x[1], x[2]) = f /\ f # None
    BY <2>1 DEF Entries, EntryAt
  <2> QED
    BY <2>2 DEF Structure
<1>2. ASSUME f \in Frame, NEW d \in Directory, NEW e \in Index, EntryAt(d, e) = f PROVE f \in Tables
  <2>1. <<d, e>> \in Entries
    BY <1>2, NewIsNotNone DEF Entries, EntryAt
  <2> QED
    BY <1>2, <2>1 DEF Tables, EntryAt
<1> QED
  BY <1>1, <1>2

(* The same of the next state.                                             *)
TablesNamed ==
  \A f : f \in Tables <=> f \in Frame /\ \E d \in Directory, e \in Index : EntryAt(d, e) = f

LEMMA TablesAreNow == MemType /\ Structure => TablesNamed
BY TablesAre DEF TablesNamed

LEMMA TablesAreNext == MemType' /\ Structure' => TablesNamed'
BY TablesAreNow, PTL

LEMMA RootsAreTables ==
  ASSUME MemType, Structure
  PROVE  /\ \A d \in Directory : root[d] \in Tables
         /\ \A d, c \in Directory : root[d] = root[c] => d = c
         /\ \A d, c \in Directory, e \in Index : EntryAt(d, e) = root[c] => Recursive(d, e)
<1>1. PICK D \in Nat : D = dirs /\ 1 <= D /\ D <= E - 1
  BY DirsSize DEF MemType
<1>2. \A d \in Directory : E - D + d \in Index /\ E - D + d >= E - D /\ D - 1 \in Directory
  BY <1>1, ESizes DEF Directory, Index
<1>3. \A d \in Directory : root[d] \in Frame /\ root[d] # None /\ EntryAt(D - 1, E - D + d) = root[d]
  BY <1>1, NewIsNotNone DEF MemType, Structure
<1>4. ASSUME NEW d \in Directory PROVE root[d] \in Tables
  BY <1>2, <1>3, TablesAre
<1>5. ASSUME NEW d \in Directory, NEW c \in Directory, root[d] = root[c] PROVE d = c
  <2>1. E - D + d = E - D + c
    BY <1>2, <1>3, <1>5 DEF Structure
  <2> QED
    BY <1>1, <2>1, ESizes DEF Directory
<1>6. ASSUME NEW d \in Directory, NEW c \in Directory, NEW e \in Index, EntryAt(d, e) = root[c]
      PROVE  Recursive(d, e)
  <2>1. d = D - 1 /\ e = E - D + c
    BY <1>2, <1>3, <1>6 DEF Structure
  <2> QED
    BY <1>1, <1>2, <2>1 DEF Recursive
<1> QED
  BY <1>4, <1>5, <1>6

(* The walk to a page that has a table, to one without, and to a table.    *)
LEMMA WalkParts ==
  ASSUME dirs \in Dirs, NEW d \in Directory, NEW e \in Index, NEW i \in Index, NEW m
  PROVE  Walk(m, At(d, e, i)) =
           IF m[root[d]][e] \in Frame THEN m[m[root[d]][e]][i] ELSE m[root[d]][e]
BY AtPage DEF Walk

LEMMA TranslateIs ==
  ASSUME NEW m, NEW cache, NEW v, \A w \in cache : Walk(m, w[1]) = w[2]
  PROVE  Translate(m, cache, v) = Walk(m, v)
<1>1. \A f : <<v, f>> \in cache => f = Walk(m, v)
  OBVIOUS
<1> QED
  BY <1>1 DEF Translate

LEMMA TranslateMissed ==
  ASSUME NEW m, NEW cache, NEW v
  PROVE  Translate(m, Invalidate(cache, v), v) = Walk(m, v)
<1>1. \A f : <<v, f>> \notin Invalidate(cache, v)
  BY DEF Invalidate
<1> QED
  BY <1>1 DEF Translate

LEMMA MissingIs ==
  ASSUME MemType, Structure, TlbCoherent, NEW v \in Page
  PROVE  /\ Translate(mem, tlb, DirPage(v)) = root[DirOf(v)]
         /\ Missing(v) <=> EntryAt(DirOf(v), EntryOf(v)) = None
         /\ ~Missing(v) => /\ EntryAt(DirOf(v), EntryOf(v)) \in Frame
                           /\ Translate(mem, tlb, TablePage(v)) = EntryAt(DirOf(v), EntryOf(v))
<1> DEFINE d == DirOf(v)
           e == EntryOf(v)
<1>1. /\ dirs \in Dirs /\ d \in Directory /\ e \in Index
      /\ dirs - 1 \in Directory /\ E - 1 \in Index /\ E - dirs + d \in Index
      /\ TablePage(v) = At(dirs - 1, E - dirs + d, e)
      /\ DirPage(v) = At(dirs - 1, E - 1, E - dirs + d)
  BY PartsOfPage, SeenAt DEF MemType
<1> HIDE DEF d, e
<1>2. PICK D \in Nat : D = dirs /\ 1 <= D /\ D <= E - 1
  BY <1>1, DirsSize
<1>3. E - 1 = E - D + (D - 1)
  BY <1>2, ESizes
<1>4. EntryAt(D - 1, E - 1) = root[D - 1] /\ EntryAt(D - 1, E - D + d) = root[d]
  BY <1>1, <1>2, <1>3 DEF Structure
<1>5. root[D - 1] \in Frame /\ root[d] \in Frame
  BY <1>1, <1>2 DEF MemType
<1>6. Walk(mem, DirPage(v)) = root[d]
  BY <1>1, <1>2, <1>4, <1>5, WalkParts DEF EntryAt
<1>7. Walk(mem, TablePage(v)) = EntryAt(d, e)
  BY <1>1, <1>2, <1>4, <1>5, WalkParts DEF EntryAt
<1>8. Translate(mem, tlb, DirPage(v)) = root[d] /\ Translate(mem, tlb, TablePage(v)) = EntryAt(d, e)
  BY <1>6, <1>7, TranslateIs DEF TlbCoherent
<1>9. Missing(v) <=> EntryAt(d, e) = None
  BY <1>8 DEF Missing, EntryAt, d, e
<1> QED
  BY <1>1, <1>8, <1>9 DEF Structure, d, e

-----------------------------------------------------------------------------
(* One call of map.                                                        *)
Mapping(v, p, f) ==
  /\ MemType /\ Structure /\ Coherent
  /\ v \in Page /\ ~Recursive(DirOf(v), EntryOf(v)) /\ p \in Frame
  /\ Missing(v) => f \in Frame \ Tables
  /\ MapPage(v, p, f) /\ UNCHANGED <<dirs, root>>

(* What it leaves in memory, where it made a table of frame f.             *)
WithTable(v, p, f) ==
  [g \in Frame |->
     IF g = f THEN [Cleared EXCEPT ![v % E] = p]
     ELSE IF g = root[DirOf(v)] THEN [mem[g] EXCEPT ![EntryOf(v)] = f] ELSE mem[g]]

LEMMA MapsWithTable ==
  ASSUME NEW v, NEW p, NEW f, Mapping(v, p, f), Missing(v)
  PROVE  /\ mem' = WithTable(v, p, f)
         /\ tlb' \subseteq Invalidate(tlb, v)
<1> DEFINE d == DirOf(v)
           e == EntryOf(v)
           r == root[d]
           TP == TablePage(v)
           m0 == [mem EXCEPT ![r][e] = f]
           cache == Invalidate(tlb, TP)
           m1 == [m0 EXCEPT ![Translate(m0, cache, TP)] = Cleared]
<1>1. /\ dirs \in Dirs /\ d \in Directory /\ e \in Index /\ v % E \in Index
      /\ dirs - 1 \in Directory /\ E - dirs + d \in Index
      /\ TP = At(dirs - 1, E - dirs + d, e)
      /\ Recursive(dirs - 1, E - dirs + d) /\ ~Recursive(d, e)
  BY PartsOfPage, SeenAt DEF Mapping, MemType
<1>2. f \in Frame /\ r \in Frame /\ f # r /\ p \in Frame /\ f \notin Tables
  BY <1>1, RootsAreTables DEF Mapping, MemType
<1>3. Translate(mem, tlb, DirPage(v)) = r
  BY MissingIs DEF Mapping, Coherent
<1>4. /\ mem' = [m1 EXCEPT ![Translate(m1, cache, TP)][v % E] = p % Frames32]
      /\ tlb' = Invalidate(cache, v)
  BY <1>3, Zenon DEF Mapping, MapPage, NewTable, CacheAfter
<1>5. p % Frames32 = p
  <2>1. PICK n \in Nat : n = Frames32 /\ p \in 0 .. n - 1
    BY <1>2, KernelMapAssumption DEF Frame
  <2> QED
    BY <2>1
<1> HIDE DEF d, e, r, TP, cache
<1>6. m0[r] = [mem[r] EXCEPT ![e] = f] /\ \A g \in Frame \ {r} : m0[g] = mem[g]
  BY <1>2 DEF Mapping, MemType
<1>7. m0 \in [Frame -> [Index -> Frame \cup {None, Junk}]]
  BY <1>1, <1>2 DEF Mapping, MemType
<1>7a. mem[r] \in [Index -> Frame \cup {None, Junk}]
  BY <1>2 DEF Mapping, MemType
<1>8. m0[root[dirs - 1]][E - dirs + d] = r
  <2>1. EntryAt(dirs - 1, E - dirs + d) = r
    BY <1>1 DEF r, Mapping, Structure
  <2>2. CASE root[dirs - 1] = r
    <3>1. dirs - 1 = d
      BY <1>1, <2>2, RootsAreTables DEF r, Mapping
    <3>2. E - dirs + d # e
      BY <1>1, <3>1
    <3> QED
      BY <1>1, <1>6, <1>7a, <2>1, <2>2, <3>2 DEF EntryAt
  <2>3. CASE root[dirs - 1] # r
    <3>1. root[dirs - 1] \in Frame
      BY <1>1 DEF Mapping, MemType
    <3> QED
      BY <1>6, <2>1, <2>3, <3>1 DEF EntryAt
  <2> QED
    BY <2>2, <2>3
<1>9. m0[r][e] = f
  BY <1>1, <1>6, <1>7a
<1>10. Translate(m0, cache, TP) = f
  <2>1. Translate(m0, cache, TP) = Walk(m0, TP)
    BY TranslateMissed DEF cache
  <2>2. Walk(m0, TP) = f
    <3> HIDE DEF m0
    <3>1. Walk(m0, TP) = IF r \in Frame THEN m0[r][e] ELSE r
      BY <1>1, <1>8, WalkParts
    <3> QED
      BY <1>2, <1>9, <3>1
  <2> QED
    BY <2>1, <2>2
<1> HIDE DEF m0
<1>11. m1 = [m0 EXCEPT ![f] = Cleared]
  BY <1>10
<1> HIDE DEF m1
<1>12. m1[f] = Cleared /\ (\A g \in Frame \ {f} : m1[g] = m0[g]) /\ DOMAIN m1 = Frame
  BY <1>2, <1>7, <1>11
<1>13. Translate(m1, cache, TP) = f
  <2>1. Translate(m1, cache, TP) = Walk(m1, TP)
    BY TranslateMissed DEF cache
  <2>2. root[dirs - 1] \in Frame \ {f}
    BY <1>1, <1>2, RootsAreTables DEF Mapping, MemType
  <2>3. m1[root[dirs - 1]][E - dirs + d] = r
    BY <1>8, <1>12, <2>2
  <2>4. m1[r][e] = f
    BY <1>2, <1>9, <1>12
  <2>5. Walk(m1, TP) = IF r \in Frame THEN m1[r][e] ELSE r
    BY <1>1, <2>3, WalkParts
  <2> QED
    BY <1>2, <2>1, <2>4, <2>5
<1>14. mem' = [m1 EXCEPT ![f] = [m1[f] EXCEPT ![v % E] = p]]
  BY <1>4, <1>5, <1>13
<1>15. mem' = WithTable(v, p, f)
  <2>1. /\ DOMAIN mem' = Frame
        /\ mem'[f] = [Cleared EXCEPT ![v % E] = p]
        /\ \A g \in Frame \ {f} : mem'[g] = m0[g]
    BY <1>2, <1>12, <1>14
  <2>2. \A g \in Frame : mem'[g] = WithTable(v, p, f)[g]
    BY <1>2, <1>6, <2>1 DEF WithTable, d, e, r
  <2>3. mem' = [g \in Frame |-> mem'[g]] /\ WithTable(v, p, f) = [g \in Frame |-> WithTable(v, p, f)[g]]
    <3>1. mem' = [g \in Frame |-> mem'[g]]
      BY <1>2, <1>7, <1>11, <1>14
    <3> QED
      BY <3>1 DEF WithTable
  <2> QED
    BY <2>2, <2>3
<1>16. tlb' \subseteq Invalidate(tlb, v)
  BY <1>4 DEF Invalidate, cache
<1> QED
  BY <1>15, <1>16

LEMMA MapsInTable ==
  ASSUME NEW v, NEW p, NEW f, Mapping(v, p, f), ~Missing(v)
  PROVE  LET t == EntryAt(DirOf(v), EntryOf(v))
         IN /\ t \in Frame
            /\ mem' = [mem EXCEPT ![t] = [mem[t] EXCEPT ![v % E] = p]]
            /\ tlb' = Invalidate(tlb, v)
<1> DEFINE t == EntryAt(DirOf(v), EntryOf(v))
<1>1. t \in Frame /\ Translate(mem, tlb, TablePage(v)) = t
  BY MissingIs DEF Mapping, Coherent
<1>2. /\ mem' = [mem EXCEPT ![t][v % E] = p % Frames32]
      /\ tlb' = Invalidate(tlb, v)
  BY <1>1, Zenon DEF Mapping, MapPage, CacheAfter
<1>3. p % Frames32 = p
  <2>1. PICK n \in Nat : n = Frames32 /\ p \in 0 .. n - 1
    BY KernelMapAssumption DEF Mapping, Frame
  <2> QED
    BY <2>1
<1> HIDE DEF t
<1> QED
  BY <1>1, <1>2, <1>3 DEF t

LEMMA EntriesAfter ==
  ASSUME NEW v, NEW p, NEW f, Mapping(v, p, f)
  PROVE  /\ MemType'
         /\ \A c \in Directory, k \in Index :
              EntryAt(c, k)' =
                IF Missing(v) /\ c = DirOf(v) /\ k = EntryOf(v) THEN f ELSE EntryAt(c, k)
         /\ \A g \in Frame \ Tables : g # f \/ ~Missing(v) => mem'[g] = mem[g]
<1> DEFINE d == DirOf(v)
           e == EntryOf(v)
<1>1. /\ dirs \in Dirs /\ d \in Directory /\ e \in Index /\ v % E \in Index
      /\ ~Recursive(d, e) /\ p \in Frame /\ dirs' = dirs /\ root' = root
      /\ mem \in [Frame -> [Index -> Frame \cup {None, Junk}]]
      /\ root \in [Directory -> Frame] /\ Directory' = Directory
  BY PartsOfPage DEF Mapping, MemType, Directory
<1>2. \A c \in Directory : root[c] \in Tables /\ root[c] \in Frame
  BY <1>1, RootsAreTables DEF Mapping
<1>3. \A c \in Directory : root[c] = root[d] => c = d
  BY <1>1, RootsAreTables DEF Mapping
<1> HIDE DEF d, e
<1>4. CASE Missing(v)
  <2>1. mem' = WithTable(v, p, f) /\ f \in Frame \ Tables
    BY <1>4, MapsWithTable DEF Mapping
  <2>2. MemType'
    BY <1>1, <2>1 DEF MemType, WithTable, Cleared, d, e
  <2>3. ASSUME NEW c \in Directory, NEW k \in Index
        PROVE  EntryAt(c, k)' = IF c = d /\ k = e THEN f ELSE EntryAt(c, k)
    <3>1. root[c] \in Frame /\ root[c] # f
      BY <1>2, <2>1
    <3>2. mem'[root[c]] = IF root[c] = root[d] THEN [mem[root[c]] EXCEPT ![e] = f] ELSE mem[root[c]]
      BY <2>1, <3>1 DEF WithTable, d, e
    <3>3. mem[root[c]] \in [Index -> Frame \cup {None, Junk}]
      BY <1>1, <3>1
    <3> QED
      BY <1>1, <1>3, <3>2, <3>3 DEF EntryAt
  <2>4. \A g \in Frame \ Tables : g # f => mem'[g] = mem[g]
    BY <1>1, <1>2, <2>1 DEF WithTable, d, e
  <2> QED
    BY <1>4, <2>2, <2>3, <2>4 DEF d, e
<1>5. CASE ~Missing(v)
  <2> DEFINE t == EntryAt(d, e)
  <2>1. t \in Frame /\ mem' = [mem EXCEPT ![t] = [mem[t] EXCEPT ![v % E] = p]]
    BY <1>5, MapsInTable DEF d, e
  <2>2. t \in Tables /\ \A c \in Directory : root[c] # t
    BY <1>1, <2>1, TablesAre, RootsAreTables DEF Mapping
  <2> HIDE DEF t
  <2>3. MemType'
    BY <1>1, <2>1 DEF MemType
  <2>4. ASSUME NEW c \in Directory, NEW k \in Index PROVE EntryAt(c, k)' = EntryAt(c, k)
    BY <1>1, <1>2, <2>1, <2>2 DEF EntryAt
  <2>5. \A g \in Frame \ Tables : mem'[g] = mem[g]
    BY <1>1, <2>1, <2>2
  <2> QED
    BY <1>5, <2>3, <2>4, <2>5
<1> QED
  BY <1>4, <1>5

LEMMA StructureAfter ==
  ASSUME NEW v, NEW p, NEW f, Mapping(v, p, f)
  PROVE  /\ Structure'
         /\ Tables' = IF Missing(v) THEN Tables \cup {f} ELSE Tables
<1> DEFINE d == DirOf(v)
           e == EntryOf(v)
<1>1. /\ dirs \in Dirs /\ d \in Directory /\ e \in Index
      /\ ~Recursive(d, e) /\ dirs' = dirs /\ root' = root
      /\ MemType /\ Structure /\ MemType' /\ Directory' = Directory
      /\ Missing(v) => f \in Frame \ Tables
  BY EntriesAfter, PartsOfPage DEF Mapping, MemType, Directory
<1>2. \A c \in Directory, k \in Index :
        EntryAt(c, k)' = IF Missing(v) /\ c = d /\ k = e THEN f ELSE EntryAt(c, k)
  BY EntriesAfter
<1>3. \A c \in Directory, k \in Index : EntryAt(c, k) \in Frame => EntryAt(c, k) \in Tables
  BY <1>1, TablesAre
<1>4. Missing(v) => EntryAt(d, e) = None
  BY <1>1, MissingIs DEF Mapping, Coherent
<1>5. \A c \in Directory : E - dirs + c \in Index /\ Recursive(dirs - 1, E - dirs + c) /\ dirs - 1 \in Directory
  <2>1. PICK D \in Nat : D = dirs /\ 1 <= D /\ D <= E - 1
    BY <1>1, DirsSize
  <2> QED
    BY <2>1, ESizes DEF Directory, Index, Recursive
<1> HIDE DEF d, e
<1>6. Structure'
  <2>1. ASSUME NEW c \in Directory PROVE EntryAt(dirs - 1, E - dirs + c)' = root[c]
    <3>1. EntryAt(dirs - 1, E - dirs + c) = root[c]
      BY <1>1 DEF Structure
    <3>2. ~(dirs - 1 = d /\ E - dirs + c = e)
      BY <1>1, <1>5
    <3>3. EntryAt(dirs - 1, E - dirs + c)' = EntryAt(dirs - 1, E - dirs + c)
      BY <1>1, <1>2, <1>5, <3>2 DEF EntryAt
    <3> QED
      BY <3>1, <3>3
  <2>2. \A c \in Directory, k \in Index : EntryAt(c, k)' \in Frame \cup {None}
    BY <1>1, <1>2 DEF Structure
  <2>3. ASSUME NEW c \in Directory, NEW b \in Directory, NEW k \in Index, NEW l \in Index,
               EntryAt(c, k)' = EntryAt(b, l)', EntryAt(c, k)' # None
        PROVE  c = b /\ k = l
    <3>1. CASE Missing(v) /\ ((c = d /\ k = e) \/ (b = d /\ l = e))
      BY <1>1, <1>2, <1>3, <2>3, <3>1
    <3>2. CASE ~(Missing(v) /\ ((c = d /\ k = e) \/ (b = d /\ l = e)))
      <4>1. EntryAt(c, k)' = EntryAt(c, k) /\ EntryAt(b, l)' = EntryAt(b, l)
        BY <1>2, <3>2
      <4>2. EntryAt(c, k) = EntryAt(b, l) /\ EntryAt(c, k) # None
        BY <2>3, <4>1
      <4> QED
        BY <1>1, <4>2 DEF Structure
    <3> QED
      BY <3>1, <3>2
  <2> QED
    BY <1>1, <2>1, <2>2, <2>3 DEF Structure
<1>7. Tables' = IF Missing(v) THEN Tables \cup {f} ELSE Tables
  <2>1. \A g : g \in Tables <=> g \in Frame /\ \E c \in Directory, k \in Index : EntryAt(c, k) = g
    BY <1>1, TablesAre
  <2>2. \A g : g \in Tables' <=> g \in Frame /\ \E c \in Directory, k \in Index : EntryAt(c, k)' = g
    BY <1>1, <1>6, TablesAreNext DEF TablesNamed
  <2>3. \A g \in Tables' : g \in Tables \/ (Missing(v) /\ g = f)
    BY <1>2, <2>1, <2>2
  <2>4. Missing(v) => f \in Tables'
    BY <1>1, <1>2, <2>2
  <2>5. \A g \in Tables : g \in Tables'
    <3> SUFFICES ASSUME NEW g \in Tables PROVE g \in Tables'
      OBVIOUS
    <3>1. PICK c \in Directory, k \in Index : EntryAt(c, k) = g /\ g \in Frame
      BY <2>1
    <3>2. EntryAt(c, k)' = g
      BY <1>2, <1>4, <3>1, NewIsNotNone
    <3> QED
      BY <2>2, <3>1, <3>2
  <2> QED
    BY <2>3, <2>4, <2>5
<1> QED
  BY <1>6, <1>7

LEMMA WalksAfter ==
  ASSUME NEW v, NEW p, NEW f, Mapping(v, p, f),
         NEW c \in Directory, NEW k \in Index, NEW j \in Index
  PROVE  LET w == At(c, k, j)
             here == c = DirOf(v) /\ k = EntryOf(v)
         IN /\ here /\ j = v % E => Walk(mem, w)' = p
            /\ here /\ j # v % E => Walk(mem, w)' = Walk(mem, w)
            /\ ~here /\ ~Recursive(c, k) => Walk(mem, w)' = Walk(mem, w)
            /\ ~here /\ Recursive(c, k) => Walk(mem, w)' = Walk(mem, w) \/ Walk(mem, w) = None
<1> DEFINE w == At(c, k, j)
           d == DirOf(v)
           e == EntryOf(v)
           i == v % E
           t == EntryAt(c, k)
<1>1. /\ dirs \in Dirs /\ d \in Directory /\ e \in Index /\ i \in Index
      /\ ~Recursive(d, e) /\ dirs' = dirs /\ root' = root
      /\ MemType /\ Structure /\ MemType' /\ Structure'
      /\ Missing(v) => f \in Frame \ Tables
      /\ p \in Frame
  BY EntriesAfter, StructureAfter, PartsOfPage DEF Mapping, MemType
<1>2. \A b \in Directory, l \in Index :
        EntryAt(b, l)' = IF Missing(v) /\ b = d /\ l = e THEN f ELSE EntryAt(b, l)
  BY EntriesAfter
<1>3. Walk(mem, w) = IF t \in Frame THEN mem[t][j] ELSE t
  BY <1>1, WalkParts DEF EntryAt
<1>4. Walk(mem, w)' = IF EntryAt(c, k)' \in Frame THEN mem'[EntryAt(c, k)'][j] ELSE EntryAt(c, k)'
  <2>1. DirOf(w) = c /\ EntryOf(w) = k /\ w % E = j
    BY <1>1, AtPage
  <2> HIDE DEF w
  <2> QED
    BY <1>1, <2>1 DEF Walk, EntryAt
<1>5. \A b \in Directory : root[b] \in Tables /\ root[b] \in Frame
  BY <1>1, RootsAreTables DEF MemType
<1>6. t \in Frame => t \in Tables
  BY <1>1, TablesAre
<1>7. t \in Frame \cup {None} /\ None \notin Frame
  BY <1>1, NewIsNotNone DEF Structure
<1>8. Missing(v) <=> EntryAt(d, e) = None
  BY MissingIs DEF Mapping, Coherent
<1>9. Missing(v) => mem' = WithTable(v, p, f)
  BY MapsWithTable
<1>10. ~Missing(v) => EntryAt(d, e) \in Frame
                      /\ mem' = [mem EXCEPT ![EntryAt(d, e)] = [mem[EntryAt(d, e)] EXCEPT ![i] = p]]
  BY MapsInTable
<1>11. \A g \in Frame : DOMAIN mem[g] = Index /\ g \in DOMAIN mem
  BY <1>1 DEF MemType
<1> HIDE DEF w, d, e, i, t
<1>12. CASE c = d /\ k = e
  <2>1. CASE Missing(v)
    <3>1. EntryAt(c, k)' = f /\ f \in Frame
      BY <1>1, <1>2, <1>12, <2>1
    <3>2. mem'[f] = [Cleared EXCEPT ![i] = p]
      BY <1>9, <2>1, <3>1 DEF WithTable, i
    <3>3. Walk(mem, w)' = IF j = i THEN p ELSE None
      BY <1>1, <1>4, <3>1, <3>2 DEF Cleared
    <3>4. Walk(mem, w) = None
      BY <1>3, <1>7, <1>8, <1>12, <2>1 DEF t
    <3> QED
      BY <1>12, <3>3, <3>4 DEF w, d, e, i
  <2>2. CASE ~Missing(v)
    <3>1. EntryAt(c, k)' = t /\ t \in Frame /\ t = EntryAt(d, e)
      BY <1>1, <1>2, <1>10, <1>12, <2>2 DEF t
    <3>2. mem'[t] = [mem[t] EXCEPT ![i] = p]
      BY <1>10, <1>11, <2>2, <3>1
    <3>3. Walk(mem, w)' = IF j = i THEN p ELSE mem[t][j]
      BY <1>4, <1>11, <3>1, <3>2
    <3> QED
      BY <1>3, <1>12, <3>1, <3>3 DEF w, d, e, i
  <2> QED
    BY <2>1, <2>2
<1>13. CASE ~(c = d /\ k = e) /\ ~Recursive(c, k)
  <2>1. EntryAt(c, k)' = t
    BY <1>2, <1>13 DEF t
  <2>2. ASSUME t \in Frame PROVE mem'[t] = mem[t]
    <3>1. \A b \in Directory : t # root[b]
      BY <1>1, <1>13, RootsAreTables DEF t
    <3>2. CASE Missing(v)
      BY <1>1, <1>6, <1>9, <2>2, <3>1, <3>2 DEF WithTable, d
    <3>3. CASE ~Missing(v)
      <4>1. t # EntryAt(d, e)
        BY <1>1, <1>7, <1>13, <2>2 DEF t, Structure
      <4> QED
        BY <1>10, <1>11, <2>2, <3>3, <4>1
    <3> QED
      BY <3>2, <3>3
  <2>3. Walk(mem, w)' = Walk(mem, w)
    BY <1>3, <1>4, <2>1, <2>2
  <2> QED
    BY <1>13, <2>3 DEF w, d, e
<1>14. CASE Recursive(c, k)
  <2>1. PICK b \in Directory : k = E - dirs + b /\ c = dirs - 1
    <3>1. PICK D \in Nat : D = dirs /\ 1 <= D /\ D <= E - 1
      BY <1>1, DirsSize
    <3>2. k - (E - D) \in Directory /\ k = E - D + (k - (E - D))
      BY <1>14, <3>1, ESizes DEF Recursive, Directory, Index
    <3> QED
      BY <1>14, <3>1, <3>2 DEF Recursive
  <2>2. t = root[b] /\ root[b] \in Frame
    BY <1>1, <1>5, <2>1 DEF t, Structure
  <2>3. EntryAt(c, k)' = t
    BY <1>1, <1>2, <1>14 DEF t
  <2>4. Walk(mem, w) = EntryAt(b, j) /\ Walk(mem, w)' = EntryAt(b, j)'
    BY <1>1, <1>3, <1>4, <2>2, <2>3 DEF EntryAt
  <2>5. EntryAt(b, j)' = EntryAt(b, j) \/ EntryAt(b, j) = None
    BY <1>2, <1>8
  <2> QED
    BY <1>1, <1>14, <2>4, <2>5 DEF w, d, e
<1> QED
  BY <1>12, <1>13, <1>14 DEF w, d, e

LEMMA MapKeeps ==
  ASSUME NEW v, NEW p, NEW f, Mapping(v, p, f), WalkFinds, want \in [Page -> Frame \cup {None}]
  PROVE  /\ MemType' /\ Structure' /\ Coherent' /\ WalkFinds'
         /\ want' = [want EXCEPT ![v] = p] /\ want' \in [Page' -> Frame \cup {None}]
         /\ Tables' = IF Missing(v) THEN Tables \cup {f} ELSE Tables
         /\ \A g \in Frame \ Tables' : mem'[g] = mem[g]
<1> DEFINE d == DirOf(v)
           e == EntryOf(v)
           i == v % E
<1>1. /\ dirs \in Dirs /\ d \in Directory /\ e \in Index /\ i \in Index /\ v \in Page
      /\ v = At(d, e, i)
      /\ ~Recursive(d, e) /\ dirs' = dirs /\ root' = root
      /\ p \in Frame /\ Page' = Page /\ Directory' = Directory
  BY PartsOfPage DEF Mapping, MemType, Page, Directory
<1>2. MemType' /\ Structure' /\ Tables' = IF Missing(v) THEN Tables \cup {f} ELSE Tables
  BY EntriesAfter, StructureAfter
<1>3. want' = [want EXCEPT ![v] = p] /\ want' \in [Page' -> Frame \cup {None}]
  BY <1>1, Zenon DEF Mapping, MapPage
<1>4. \A g \in Frame \ Tables' : mem'[g] = mem[g]
  BY <1>2, EntriesAfter
<1>5. tlb' \subseteq Invalidate(tlb, v)
  BY MapsWithTable, MapsInTable
<1> HIDE DEF d, e, i
<1>6. ASSUME NEW w \in Page, w # v
      PROVE  Walk(mem, w)' = Walk(mem, w) \/ Walk(mem, w) = None
  <2>1. PICK c \in Directory, k \in Index, j \in Index : w = At(c, k, j)
    BY <1>1, PartsOfPage
  <2>2. ~(c = d /\ k = e /\ j = i)
    BY <1>1, <1>6, <2>1
  <2> QED
    BY <2>1, <2>2, WalksAfter DEF d, e, i
<1>7. Coherent'
  <2>1. tlb' \subseteq Page' \X Frame
    BY <1>1, <1>5 DEF Mapping, Coherent, Invalidate
  <2>2. ASSUME NEW x \in tlb' PROVE Walk(mem, x[1])' = x[2]
    <3>1. x \in tlb /\ x[1] # v
      BY <1>5 DEF Invalidate
    <3>2. x[1] \in Page /\ x[2] \in Frame /\ Walk(mem, x[1]) = x[2]
      BY <3>1 DEF Mapping, Coherent, TlbCoherent
    <3>3. Walk(mem, x[1]) # None
      BY <3>2, NewIsNotNone
    <3> QED
      BY <1>6, <3>1, <3>2, <3>3
  <2>3. TlbCoherent'
    BY <2>2 DEF TlbCoherent
  <2> QED
    BY <2>1, <2>3 DEF Coherent
<1>8. WalkFinds'
  <2>1. ASSUME NEW c \in Directory, NEW k \in Index, NEW j \in Index, ~Recursive(c, k)
        PROVE  Walk(mem, At(c, k, j))' = want'[At(c, k, j)]
    <3>1. Walk(mem, At(c, k, j)) = want[At(c, k, j)] /\ At(c, k, j) \in Page
      BY <1>1, <2>1, AtPage DEF WalkFinds
    <3>2. CASE c = d /\ k = e /\ j = i
      <4>1. Walk(mem, At(c, k, j))' = p
        BY <3>2, WalksAfter DEF d, e, i
      <4> QED
        BY <1>1, <1>3, <3>2, <4>1
    <3>3. CASE ~(c = d /\ k = e /\ j = i)
      <4>1. At(c, k, j) # v
        BY <1>1, <3>3, AtPage
      <4>2. want'[At(c, k, j)] = want[At(c, k, j)]
        BY <1>3, <3>1, <4>1
      <4>3. Walk(mem, At(c, k, j))' = Walk(mem, At(c, k, j))
        BY <2>1, <3>3, WalksAfter DEF d, e, i
      <4> QED
        BY <3>1, <4>2, <4>3
    <3> QED
      BY <3>2, <3>3
  <2>2. \A c \in Directory, k \in Index : Recursive(c, k)' <=> Recursive(c, k)
    BY <1>1 DEF Recursive
  <2> QED
    BY <1>1, <2>1, <2>2 DEF WalkFinds, At
<1> QED
  BY <1>2, <1>3, <1>4, <1>7, <1>8

-----------------------------------------------------------------------------
(* The layout of the address space.                                        *)
LEMMA Ordinary ==
  ASSUME dirs \in Dirs, NEW v \in Nat, v <= VirtPage[dirs] + StackPage
  PROVE  v \in Page /\ ~Recursive(DirOf(v), EntryOf(v))
<1>1. PICK D \in Nat : D = dirs /\ 1 <= D /\ D <= E - 1
  BY DirsSize
<1>2. PICK X \in Nat : X = D * E - D
  <2>1. D * E >= D * 2 /\ D * E \in Nat
    BY <1>1, ESizes, TimesMonotone, TimesNat
  <2> QED
    BY <1>1, <2>1
<1>3. v < X * E /\ X * E \in Nat
  BY <1>1, <1>2, LayoutAssumption, ESizes, TimesNat, SMTT(30)
<1>4. v \div E < X
  <2>1. v = (v \div E) * E + (v % E) /\ v \div E \in Nat /\ v % E \in 0 .. E - 1
    BY ESizes, DivMod
  <2>2. X <= v \div E => X * E <= (v \div E) * E
    BY <1>2, <2>1, ESizes, TimesMonotone
  <2>3. (v \div E) * E \in Nat
    BY <2>1, ESizes, TimesNat
  <2> QED
    BY <1>2, <1>3, <2>1, <2>2, <2>3
<1>5. v \in Page
  <2>1. X * E <= D * E * E
    <3>1. X <= D * E /\ D * E \in Nat
      BY <1>1, <1>2, ESizes, TimesNat
    <3> QED
      BY <1>2, <3>1, ESizes, TimesMonotone
  <2>2. D * E * E \in Nat
    BY <1>1, ESizes, TimesNat
  <2> QED
    BY <1>1, <1>3, <2>1, <2>2 DEF Page
<1> QED
  BY <1>1, <1>2, <1>4, <1>5, RecursivePages

LEMMA PpsSizes == PpsPages \in Nat /\ PpsPages >= 1 /\ NFrames \div Structs <= PpsPages - 1
BY KernelMapAssumption, DivMod DEF PpsPages

LEMMA GreatestOfBounded ==
  ASSUME NEW T \in SUBSET Nat, T # {}, NEW n \in Nat, \A t \in T : t <= n
  PROVE  Max(T) \in T /\ \A y \in T : y <= Max(T)
<1> DEFINE D == {n - t : t \in T}
<1>1. D \in SUBSET Nat /\ D # {}
  <2>1. \A t \in T : n - t \in Nat
    OBVIOUS
  <2> QED
    BY <2>1
<1> HIDE DEF D
<1>2. PICK z \in D : \A y \in D : z <= y
  BY <1>1, HasLeast
<1>3. PICK x \in T : z = n - x
  BY <1>2 DEF D
<1>4. \A y \in T : x >= y
  <2> SUFFICES ASSUME NEW y \in T PROVE x >= y
    OBVIOUS
  <2>1. n - y \in D
    BY DEF D
  <2> QED
    BY <1>2, <1>3, <2>1
<1>5. Max(T) \in T /\ \A y \in T : Max(T) >= y
  BY <1>4 DEF Max
<1> QED
  BY <1>5

LEMMA SegmentTypes ==
  /\ Len(Segments) \in Nat \ {0} /\ DOMAIN Segments = 1 .. Len(Segments)
  /\ \A k \in 1 .. Len(Segments) :
       LET s == Segments[k]
       IN /\ s.page \in Nat /\ s.pages \in Nat /\ s.frame \in Nat /\ LowPages <= s.page
          /\ s.page + s.pages + PpsPages <= StackPage
          /\ ~s.bss => s.frame + s.pages <= NFrames
  /\ \A s \in ToSet(Segments) : \E k \in 1 .. Len(Segments) : s = Segments[k]
<1> DEFINE R == [page : Nat, pages : Nat, frame : Nat, bss : BOOLEAN]
<1>1. Segments \in Seq(R) /\ Segments # <<>>
  BY LayoutAssumption
<1>2. Len(Segments) \in Nat \ {0} /\ DOMAIN Segments = 1 .. Len(Segments)
  <2> HIDE DEF R
  <2> QED
    BY <1>1, EmptySeq
<1>3. ASSUME NEW k \in 1 .. Len(Segments) PROVE Segments[k] \in R /\ Segments[k] \in ToSet(Segments)
  <2> HIDE DEF R
  <2> QED
    BY <1>1, <1>2, ElementOfSeq DEF ToSet
<1>4. \A s \in ToSet(Segments) : \E k \in 1 .. Len(Segments) : s = Segments[k]
  BY <1>2 DEF ToSet
<1> QED
  BY <1>2, <1>3, <1>4, LayoutAssumption

LEMMA PpsIsAbove ==
  ASSUME dirs \in Dirs
  PROVE  /\ PpsPage \in Nat /\ VirtPage[dirs] + LowPages <= PpsPage
         /\ PpsPage + PpsPages <= VirtPage[dirs] + StackPage
         /\ \A k \in 1 .. Len(Segments) :
              VirtPage[dirs] + Segments[k].page + Segments[k].pages <= PpsPage
<1> DEFINE end(s) == VirtPage[dirs] + s.page + s.pages
           T == {end(s) : s \in ToSet(Segments)}
<1>1. VirtPage[dirs] \in Nat /\ LowPages \in Nat /\ StackPage \in Nat /\ PpsPages \in Nat
  BY LayoutAssumption, PpsSizes
<1>2. \A s \in ToSet(Segments) :
        end(s) \in Nat /\ VirtPage[dirs] + LowPages <= end(s) /\ end(s) + PpsPages <= VirtPage[dirs] + StackPage
  <2> SUFFICES ASSUME NEW s \in ToSet(Segments)
               PROVE  /\ end(s) \in Nat /\ VirtPage[dirs] + LowPages <= end(s)
                      /\ end(s) + PpsPages <= VirtPage[dirs] + StackPage
    OBVIOUS
  <2>1. /\ s.page \in Nat /\ s.pages \in Nat /\ LowPages <= s.page
        /\ s.page + s.pages + PpsPages <= StackPage
    BY SegmentTypes
  <2> QED
    BY <1>1, <2>1
<1>3. T \in SUBSET Nat /\ \A t \in T : t <= VirtPage[dirs] + StackPage
  BY <1>1, <1>2
<1>4. \A k \in 1 .. Len(Segments) : end(Segments[k]) \in T
  BY SegmentTypes DEF ToSet
<1>5. T # {}
  BY <1>4, SegmentTypes
<1> HIDE DEF T
<1>6. Max(T) \in T /\ \A y \in T : y <= Max(T)
  <2>1. VirtPage[dirs] + StackPage \in Nat
    BY <1>1
  <2> QED
    BY <1>3, <1>5, <2>1, GreatestOfBounded
<1>7. PpsPage = Max(T)
  BY DEF PpsPage, T
<1> QED
  BY <1>1, <1>2, <1>4, <1>6, <1>7 DEF T

(* The two ends of the free frames.                                        *)
LEMMA FreeEnds ==
  ASSUME NEW t, Free(t) # {}
  PROVE  Top(t) \in Frame \ t /\ Bottom(t) \in Frame \ t
<1>1. Free(t) \in SUBSET Nat /\ NFrames \in Nat /\ \A f \in Free(t) : f <= NFrames
  BY KernelMapAssumption DEF Free, Frame
<1>2. Top(t) \in Free(t)
  BY <1>1, GreatestOfBounded DEF Top
<1>3. Bottom(t) \in Free(t)
  <2>1. PICK x \in Free(t) : \A y \in Free(t) : x <= y
    BY <1>1, HasLeast
  <2> QED
    BY <2>1 DEF Bottom, Min
<1> QED
  BY <1>2, <1>3 DEF Free

-----------------------------------------------------------------------------
(* The calls of map that run_program32 makes: to the pages from            *)
(* ARCH_VIRT_BASE to the stack, and page structures and stack are new.     *)
Calls ==
  {c \in Page \X (Frame \cup {New}) :
     /\ VirtPage[dirs] <= c[1] /\ c[1] <= VirtPage[dirs] + StackPage
     /\ c[1] \in NewPages => c[2] = New}

LEMMA Flattened ==
  ASSUME NEW S, NEW s, Len(s) \in Nat \ {0}, \A k \in 1 .. Len(s) : s[k] \in Seq(S)
  PROVE  FlattenSeq(s) \in Seq(S)
<1>1. PICK n \in Nat \ {0} : n = Len(s)
  OBVIOUS
<1> DEFINE Flat(f) == f = [k \in 1 .. n |-> IF k = 1 THEN s[k] ELSE f[k - 1] \o s[k]]
           step == [k \in 1 .. n |-> [q \in Seq(S) |-> IF k = 1 THEN s[k] ELSE q \o s[k]]]
<1>2. step \in [1 .. n -> [Seq(S) -> Seq(S)]]
  BY <1>1
<1>3. \E f : Flat(f)
  <2>0. PICK any \in Seq(S) : TRUE
    BY EmptyList
  <2> DEFINE f == LoopRun(n, Seq(S), any, step)
  <2>1. f \in [0 .. n -> Seq(S)] /\ \A k \in 1 .. n : f[k] = step[k][f[k - 1]]
    <3> HIDE DEF step
    <3> QED
      BY <1>2, RunExists
  <2> HIDE DEF f
  <2> DEFINE g == [k \in 1 .. n |-> f[k]]
  <2>2. \A k \in 1 .. n : f[k] = IF k = 1 THEN s[k] ELSE f[k - 1] \o s[k]
    <3> SUFFICES ASSUME NEW k \in 1 .. n PROVE f[k] = IF k = 1 THEN s[k] ELSE f[k - 1] \o s[k]
      OBVIOUS
    <3>1. f[k - 1] \in Seq(S)
      BY <2>1
    <3> QED
      BY <2>1, <3>1
  <2>3. \A k \in 1 .. n : g[k] = IF k = 1 THEN s[k] ELSE g[k - 1] \o s[k]
    <3> SUFFICES ASSUME NEW k \in 1 .. n PROVE g[k] = IF k = 1 THEN s[k] ELSE g[k - 1] \o s[k]
      OBVIOUS
    <3>1. g[k] = f[k] /\ (k # 1 => g[k - 1] = f[k - 1])
      OBVIOUS
    <3> HIDE DEF g
    <3> QED
      BY <2>2, <3>1
  <2>4. Flat(g)
    BY <2>3
  <2> QED
    BY <2>4
<1> DEFINE flat == CHOOSE f : Flat(f)
           T == {k \in 0 .. n : k # 0 => flat[k] \in Seq(S)}
<1>4. Flat(flat)
  BY <1>3
<1> HIDE DEF flat
<1>5. 0 \in T /\ \A k \in 1 .. n : k - 1 \in T => k \in T
  <2> SUFFICES ASSUME NEW k \in 1 .. n, k - 1 \in T PROVE flat[k] \in Seq(S)
    OBVIOUS
  <2>1. flat[k] = IF k = 1 THEN s[k] ELSE flat[k - 1] \o s[k]
    BY <1>4
  <2>2. k # 1 => flat[k - 1] \in Seq(S)
    OBVIOUS
  <2>3. s[k] \in Seq(S)
    BY <1>1
  <2> QED
    BY <2>1, <2>2, <2>3
<1> HIDE DEF T
<1>6. n \in T
  <2>1. \A k \in 0 .. n : k \in T
    BY <1>5, UpTo
  <2> QED
    BY <2>1
<1>7. FlattenSeq(s) = flat[n]
  BY <1>1 DEF FlattenSeq, flat
<1> QED
  BY <1>1, <1>6, <1>7 DEF T

LEMMA RangeOfJoin ==
  ASSUME NEW S, NEW s \in Seq(S), NEW t \in Seq(S)
  PROVE  s \o t \in Seq(S) /\ ToSet(s \o t) = ToSet(s) \cup ToSet(t)
<1>1. s \o t \in Seq(S) /\ Range(s \o t) = Range(s) \cup Range(t)
  BY RangeConcatenation
<1>2. \A q : ToSet(q) = Range(q)
  BY DEF ToSet, Range
<1> QED
  BY <1>1, <1>2

LEMMA CallsMade ==
  ASSUME dirs \in Dirs
  PROVE  /\ LoaderMaps \in Seq(Calls)
         /\ \A v \in NewPages : \E c \in ToSet(LoaderMaps) : c[1] = v
<1> DEFINE V == VirtPage[dirs]
           low == [i \in 1 .. LowPages |-> <<V + i - 1, i - 1>>]
           segs == [k \in DOMAIN Segments |-> SegmentMaps(Segments[k])]
           pps == [i \in 1 .. PpsPages |-> <<PpsPage + i - 1, New>>]
           stack == <<<<V + StackPage, New>>>>
<1>1. /\ V \in Nat /\ LowPages \in Nat /\ StackPage \in Nat /\ PpsPages \in Nat \ {0} /\ PpsPage \in Nat
      /\ LowPages <= NFrames /\ NFrames \in Nat
      /\ V + LowPages <= PpsPage /\ PpsPage + PpsPages <= V + StackPage
  BY LayoutAssumption, KernelMapAssumption, PpsSizes, PpsIsAbove
<1>2. \A v \in Nat : v <= V + StackPage => v \in Page
  BY Ordinary
<1>3. \A v \in Nat : v < PpsPage => v \notin NewPages
  BY <1>1 DEF NewPages
<1>4. \A v \in Nat, q \in Frame \cup {New} :
        V <= v /\ v <= V + StackPage /\ (v \in NewPages => q = New) => <<v, q>> \in Calls
  BY <1>2 DEF Calls
<1> HIDE DEF V
<1>5. low \in Seq(Calls)
  <2>1. ASSUME NEW i \in 1 .. LowPages PROVE <<V + i - 1, i - 1>> \in Calls
    <3>1. V + i - 1 \in Nat /\ V <= V + i - 1 /\ V + i - 1 < PpsPage /\ V + i - 1 <= V + StackPage /\ i - 1 \in Frame
      BY <1>1 DEF Frame
    <3> QED
      BY <1>3, <1>4, <3>1
  <2> QED
    BY <1>1, <2>1
<1>6. ASSUME NEW k \in 1 .. Len(Segments) PROVE segs[k] \in Seq(Calls)
  <2> DEFINE s == Segments[k]
  <2>1. /\ s.page \in Nat /\ s.pages \in Nat /\ s.frame \in Nat
        /\ ~s.bss => s.frame + s.pages <= NFrames
        /\ V + s.page + s.pages <= PpsPage
        /\ segs[k] = SegmentMaps(s)
    BY SegmentTypes, PpsIsAbove DEF V
  <2> HIDE DEF s
  <2>2. ASSUME NEW j \in 1 .. s.pages
        PROVE  <<V + s.page + j - 1, IF s.bss THEN New ELSE s.frame + j - 1>> \in Calls
    <3>1. /\ V + s.page + j - 1 \in Nat /\ V <= V + s.page + j - 1 /\ V + s.page + j - 1 < PpsPage
          /\ V + s.page + j - 1 <= V + StackPage
      BY <1>1, <2>1, SMTT(60)
    <3>2. (IF s.bss THEN New ELSE s.frame + j - 1) \in Frame \cup {New}
      <4>1. CASE s.bss
        BY <4>1
      <4>2. CASE ~s.bss
        <5>1. s.frame + j - 1 \in Frame
          BY <1>1, <2>1, <4>2, SMTT(60) DEF Frame
        <5> QED
          BY <4>2, <5>1
      <4> QED
        BY <4>1, <4>2
    <3> QED
      BY <1>3, <1>4, <3>1, <3>2
  <2>3. SegmentMaps(s) \in Seq(Calls)
    BY <2>1, <2>2 DEF SegmentMaps, V
  <2> QED
    BY <2>1, <2>3
<1>7. FlattenSeq(segs) \in Seq(Calls)
  <2>1. Len(segs) = Len(Segments) /\ Len(Segments) \in Nat \ {0}
    BY SegmentTypes
  <2> HIDE DEF segs
  <2> QED
    BY <1>6, <2>1, Flattened
<1>8. pps \in Seq(Calls) /\ \A i \in 0 .. PpsPages - 1 : \E c \in ToSet(pps) : c[1] = PpsPage + i
  <2>1. ASSUME NEW i \in 1 .. PpsPages PROVE <<PpsPage + i - 1, New>> \in Calls
    <3>1. PpsPage + i - 1 \in Nat /\ V <= PpsPage + i - 1 /\ PpsPage + i - 1 <= V + StackPage
      BY <1>1
    <3> QED
      BY <1>4, <3>1
  <2>2. pps \in Seq(Calls)
    BY <1>1, <2>1
  <2>3. ASSUME NEW i \in 0 .. PpsPages - 1 PROVE \E c \in ToSet(pps) : c[1] = PpsPage + i
    <3>1. i + 1 \in DOMAIN pps /\ pps[i + 1][1] = PpsPage + i
      BY <1>1
    <3> QED
      BY <3>1 DEF ToSet
  <2> QED
    BY <2>2, <2>3
<1>9. stack \in Seq(Calls) /\ \E c \in ToSet(stack) : c[1] = V + StackPage
  <2>1. <<V + StackPage, New>> \in Calls
    BY <1>1, <1>4
  <2>2. stack \in Seq(Calls) /\ DOMAIN stack = {1} /\ stack[1] = <<V + StackPage, New>>
    BY <2>1
  <2> QED
    BY <2>2 DEF ToSet
<1>10. LoaderMaps = low \o FlattenSeq(segs) \o pps \o stack
  BY DEF LoaderMaps, V
<1> HIDE DEF low, segs, pps, stack
<1> DEFINE a == low \o FlattenSeq(segs)
           b == a \o pps
<1>11. a \in Seq(Calls)
  BY <1>5, <1>7, RangeOfJoin
<1> HIDE DEF a
<1>12. b \in Seq(Calls) /\ ToSet(pps) \subseteq ToSet(b)
  BY <1>8, <1>11, RangeOfJoin
<1> HIDE DEF b
<1>13. LoaderMaps = b \o stack
  BY <1>10 DEF a, b
<1>14. LoaderMaps \in Seq(Calls) /\ ToSet(pps) \subseteq ToSet(LoaderMaps) /\ ToSet(stack) \subseteq ToSet(LoaderMaps)
  BY <1>9, <1>12, <1>13, RangeOfJoin
<1>15. \A v \in NewPages : \E c \in ToSet(LoaderMaps) : c[1] = v
  BY <1>8, <1>9, <1>14 DEF NewPages, V
<1> QED
  BY <1>14, <1>15

-----------------------------------------------------------------------------
(* The inductive invariant of the page tables.  Before paging is on the    *)
(* memory is as the boot loader left it; from then on whatever is not a    *)
(* table still is.                                                         *)
Blank ==
  /\ mem = [f \in Frame |-> [i \in Index |-> Junk]] /\ tlb = {}
  /\ want = [v \in Page |-> None]

Owned ==
  /\ Tables \subseteq (Usable \cap taken) \ Reserved
  /\ \A f \in Frame \ Tables : mem[f] = [i \in Index |-> Junk]
  /\ \A v \in NewPages : want[v] # None => want[v] \in taken \ Tables
  /\ \A v, w \in NewPages : v # w /\ want[v] # None => want[v] # want[w]

FramesInv ==
  /\ map_at \in MapFrames /\ taken \subseteq Frame
  /\ want \in [Page -> Frame \cup {None}]
  /\ (Frame \ Usable) \cup Reserved \subseteq taken

TodoInv ==
  /\ todo \in Seq(Calls)
  /\ \A v \in NewPages : want[v] = None => \E c \in ToSet(todo) : c[1] = v
  /\ phase \in {"kernel", "running"} => todo = <<>>

LoopInv ==
  /\ left \in Seq({r \in Nat \X Int : r[2] < NFrames})
  /\ pa = None \/ (pa \in Nat /\ left # <<>>)
  /\ va \in 0 .. WindowLen /\ max_pa \in 0 .. NFrames
  /\ phase \in {"start", "loader", "kernel", "running"}

MapIInv ==
  /\ MemType /\ Coherent /\ FramesInv /\ TodoInv /\ LoopInv
  /\ IF Paging THEN Structure /\ WalkFinds /\ Owned ELSE Blank

(* The first part of it, after any call of map.                            *)
MappedInv == MemType /\ Coherent /\ FramesInv /\ Structure /\ WalkFinds /\ Owned

LEMMA NewPagesAre ==
  ASSUME dirs \in Dirs, NEW v \in NewPages
  PROVE  v \in Nat /\ v \in Page /\ VirtPage[dirs] <= v /\ v <= VirtPage[dirs] + StackPage
<1>1. /\ VirtPage[dirs] \in Nat /\ StackPage \in Nat /\ PpsPages \in Nat \ {0} /\ PpsPage \in Nat
      /\ VirtPage[dirs] + LowPages <= PpsPage /\ PpsPage + PpsPages <= VirtPage[dirs] + StackPage
      /\ LowPages \in Nat
  BY LayoutAssumption, PpsSizes, PpsIsAbove
<1>2. v \in Nat /\ VirtPage[dirs] <= v /\ v <= VirtPage[dirs] + StackPage
  BY <1>1 DEF NewPages
<1> QED
  BY <1>2, Ordinary

LEMMA MapStep ==
  ASSUME MappedInv,
         NEW v \in Nat, v <= VirtPage[dirs] + StackPage, NEW p \in Frame,
         NEW t \in SUBSET Frame, taken \subseteq t,
         NEW f, Missing(v) => f \in Frame \ t,
         v \in NewPages => p \in t \ taken,
         MapPage(v, p, f), taken' = TableMarked(t, v, f),
         UNCHANGED <<dirs, map_at, root>>
  PROVE  /\ MappedInv'
         /\ v \in Page /\ want' = [want EXCEPT ![v] = p]
         /\ \A g \in Frame \ Tables' : mem'[g] = mem[g]
<1>1. dirs \in Dirs
  BY DEF MappedInv, MemType
<1>2. v \in Page /\ ~Recursive(DirOf(v), EntryOf(v))
  BY <1>1, Ordinary
<1>3. Missing(v) => f \notin Tables
  BY DEF MappedInv, Owned
<1>4. Mapping(v, p, f)
  BY <1>2, <1>3 DEF Mapping, MappedInv
<1>5. WalkFinds /\ want \in [Page -> Frame \cup {None}]
  BY DEF MappedInv, FramesInv
<1>6. /\ MemType' /\ Structure' /\ Coherent' /\ WalkFinds'
      /\ want' = [want EXCEPT ![v] = p] /\ want' \in [Page' -> Frame \cup {None}]
      /\ Tables' = IF Missing(v) THEN Tables \cup {f} ELSE Tables
      /\ \A g \in Frame \ Tables' : mem'[g] = mem[g]
  BY <1>4, <1>5, MapKeeps
<1>7. taken' = IF Missing(v) THEN t \cup {f} ELSE t
  BY DEF TableMarked
<1>8. FramesInv'
  BY <1>6, <1>7 DEF MappedInv, FramesInv
<1>9. Owned'
  <2>1. NewPages' = NewPages
    BY DEF NewPages, PpsPage
  <2>2. Tables' \subseteq (Usable \cap taken') \ Reserved
    <3>1. Missing(v) => f \in Usable \ Reserved
      BY DEF MappedInv, FramesInv
    <3> QED
      BY <1>6, <1>7, <3>1 DEF MappedInv, Owned
  <2>3. \A g \in Frame \ Tables' : mem'[g] = [i \in Index |-> Junk]
    BY <1>6 DEF MappedInv, Owned
  <2>4. \A w \in NewPages : w \in Page
    BY <1>1, NewPagesAre
  <2>5. \A w \in NewPages : want'[w] = IF w = v THEN p ELSE want[w]
    BY <1>5, <1>6, <2>4
  <2>6. \A w \in NewPages : want'[w] # None => want'[w] \in taken' \ Tables'
    BY <1>6, <1>7, <2>5 DEF MappedInv, Owned
  <2>7. ASSUME NEW w \in NewPages, NEW u \in NewPages, w # u, want'[w] # None
        PROVE  want'[w] # want'[u]
    <3>1. CASE w = v
      BY <1>5, <2>4, <2>5, <2>7, <3>1, KernelMapAssumption DEF MappedInv, Owned
    <3>2. CASE u = v
      BY <1>5, <2>4, <2>5, <2>7, <3>2 DEF MappedInv, Owned
    <3>3. CASE w # v /\ u # v
      BY <2>5, <2>7, <3>3 DEF MappedInv, Owned
    <3> QED
      BY <3>1, <3>2, <3>3
  <2> QED
    BY <2>1, <2>2, <2>3, <2>6, <2>7 DEF Owned
<1> QED
  BY <1>2, <1>6, <1>8, <1>9 DEF MappedInv

(* The first of the remaining calls of map.                                *)
LEMMA CallTaken ==
  ASSUME MapIInv, todo # <<>>
  PROVE  /\ Head(todo)[1] \in Nat /\ Head(todo)[1] <= VirtPage[dirs] + StackPage
         /\ Head(todo)[2] \in Frame \cup {New}
         /\ Head(todo)[1] \in NewPages => Head(todo)[2] = New
         /\ Tail(todo) \in Seq(Calls)
         /\ \A c \in ToSet(todo) : c = Head(todo) \/ c \in ToSet(Tail(todo))
<1>1. todo \in Seq(Calls)
  BY DEF MapIInv, TodoInv
<1>2. Head(todo) \in Calls /\ Tail(todo) \in Seq(Calls)
  BY <1>1, PopList
<1>3. /\ DOMAIN todo = 1 .. Len(todo) /\ Len(todo) \in Nat \ {0} /\ Head(todo) = todo[1]
      /\ DOMAIN Tail(todo) = 1 .. Len(todo) - 1
      /\ \A k \in 1 .. Len(todo) - 1 : Tail(todo)[k] = todo[k + 1]
  BY <1>1
<1>4. ASSUME NEW c \in ToSet(todo), c # Head(todo) PROVE c \in ToSet(Tail(todo))
  <2>1. PICK k \in 1 .. Len(todo) : c = todo[k]
    BY <1>3 DEF ToSet
  <2>2. k - 1 \in 1 .. Len(todo) - 1 /\ Tail(todo)[k - 1] = c
    BY <1>3, <1>4, <2>1
  <2> QED
    BY <1>3, <2>2 DEF ToSet
<1> QED
  BY <1>2, <1>4 DEF Calls, Page

LEMMA LoaderMapKeeps == MapIInv /\ LoaderMap => MapIInv'
<1> SUFFICES ASSUME MapIInv, LoaderMap PROVE MapIInv'
  OBVIOUS
<1> DEFINE v == Head(todo)[1]
           q == Head(todo)[2]
           p == IF q = New THEN Top(taken) ELSE q
           t == taken \cup (IF q = New THEN {p} ELSE {})
           f == Top(t)
<1>1. /\ phase = "loader" /\ todo # <<>>
      /\ q = New => Free(taken) # {}
      /\ Missing(v) => Free(t) # {}
      /\ MapPage(v, p, f) /\ taken' = TableMarked(t, v, f)
      /\ todo' = Tail(todo)
      /\ UNCHANGED <<dirs, map_at, root, left, pa, va, max_pa, phase>>
  BY Zenon DEF LoaderMap
<1>2. /\ v \in Nat /\ v <= VirtPage[dirs] + StackPage /\ q \in Frame \cup {New}
      /\ v \in NewPages => q = New
  BY <1>1, CallTaken
<1>3. MappedInv
  BY <1>1 DEF MapIInv, MappedInv, Paging
<1>4. q = New => Top(taken) \in Frame \ taken
  BY <1>1, FreeEnds
<1>5. p \in Frame /\ t \in SUBSET Frame /\ taken \subseteq t /\ (v \in NewPages => p \in t \ taken)
  BY <1>2, <1>3, <1>4 DEF MappedInv, FramesInv
<1> HIDE DEF t
<1>6. Missing(v) => f \in Frame \ t
  BY <1>1, FreeEnds
<1> HIDE DEF v, q, p, f
<1>7. MappedInv' /\ v \in Page /\ want' = [want EXCEPT ![v] = p]
  BY <1>1, <1>2, <1>3, <1>5, <1>6, MapStep
<1>8. TodoInv'
  <2>1. NewPages' = NewPages /\ Calls' = Calls
    BY <1>1 DEF NewPages, PpsPage, Calls, Page
  <2>2. todo' \in Seq(Calls)
    BY <1>1, CallTaken
  <2>3. ASSUME NEW w \in NewPages, want'[w] = None PROVE \E c \in ToSet(todo') : c[1] = w
    <3>1. w \in Page
      BY <1>3, NewPagesAre DEF MappedInv, MemType
    <3>2. w # v /\ want[w] = None
      BY <1>3, <1>5, <1>7, <2>3, <3>1, NewIsNotNone DEF MappedInv, FramesInv
    <3>3. PICK c \in ToSet(todo) : c[1] = w
      BY <3>2 DEF MapIInv, TodoInv
    <3>4. c # Head(todo)
      BY <3>2, <3>3 DEF v
    <3> QED
      BY <1>1, <3>3, <3>4, CallTaken
  <2> QED
    BY <1>1, <2>1, <2>2, <2>3 DEF TodoInv
<1>9. LoopInv'
  BY <1>1 DEF MapIInv, LoopInv
<1> QED
  BY <1>1, <1>7, <1>8, <1>9 DEF MapIInv, MappedInv, Paging

LEMMA HeadOfLeft ==
  ASSUME MapIInv, left # <<>>
  PROVE  /\ Head(left)[1] \in Nat /\ Head(left)[2] \in Int /\ Head(left)[2] < NFrames
         /\ Tail(left) \in Seq({r \in Nat \X Int : r[2] < NFrames})
<1> DEFINE R == {r \in Nat \X Int : r[2] < NFrames}
<1>1. left \in Seq(R)
  BY DEF MapIInv, LoopInv
<1> HIDE DEF R
<1>2. Head(left) \in R /\ Tail(left) \in Seq(R)
  BY <1>1, PopList
<1> QED
  BY <1>2 DEF R

(* The pages of the window.                                                *)
LEMMA WindowPages ==
  ASSUME dirs \in Dirs, NEW j \in Nat, j < WindowLen
  PROVE  /\ WindowPage[dirs] + j \in Nat /\ WindowPage[dirs] + j < VirtPage[dirs]
         /\ WindowPage[dirs] + j <= VirtPage[dirs] + StackPage
         /\ WindowPage[dirs] + j \in Page /\ WindowPage[dirs] + j \notin NewPages
         /\ LowTables * E <= WindowPage[dirs] + j
<1>1. /\ WindowPage[dirs] \in Nat /\ VirtPage[dirs] \in Nat /\ StackPage \in Nat /\ WindowLen \in Nat
      /\ WindowPage[dirs] + WindowLen <= VirtPage[dirs]
      /\ LowTables * E <= WindowPage[dirs]
  BY LayoutAssumption DEF LowTables
<1>2. /\ WindowPage[dirs] + j \in Nat /\ WindowPage[dirs] + j < VirtPage[dirs]
      /\ WindowPage[dirs] + j <= VirtPage[dirs] + StackPage
  BY <1>1
<1>3. WindowPage[dirs] + j \in Page
  BY <1>2, Ordinary
<1>4. WindowPage[dirs] + j \notin NewPages
  BY <1>1, <1>2, NewPagesAre
<1>5. LowTables * E \in Int
  BY ESizes DEF LowTables, LowTablesOf
<1> QED
  BY <1>1, <1>2, <1>3, <1>4, <1>5

LEMMA RegionMapKeeps == MapIInv /\ MapFrameOfRegion => MapIInv'
<1> SUFFICES ASSUME MapIInv, MapFrameOfRegion PROVE MapIInv'
  OBVIOUS
<1> DEFINE v == WindowPage[dirs] + va
           f == Bottom(taken)
<1>1. /\ phase = "kernel" /\ pa # None /\ pa <= Head(left)[2] /\ va < WindowLen
      /\ Missing(v) => Free(taken) # {}
      /\ MapPage(v, pa, f) /\ taken' = TableMarked(taken, v, f)
      /\ pa' = pa + 1 /\ va' = va + 1
      /\ max_pa' = IF pa + 1 > max_pa THEN pa + 1 ELSE max_pa
      /\ UNCHANGED <<dirs, map_at, root, todo, left, phase>>
  BY Zenon DEF MapFrameOfRegion, WindowLeft
<1>2. MappedInv
  BY <1>1 DEF MapIInv, MappedInv, Paging
<1>3. pa \in Frame /\ left # <<>> /\ pa \in Nat
  <2>1. pa \in Nat /\ left # <<>>
    BY <1>1 DEF MapIInv, LoopInv
  <2> QED
    BY <1>1, <2>1, HeadOfLeft, KernelMapAssumption DEF Frame
<1>4. va \in Nat /\ va <= WindowLen /\ WindowLen \in Nat
  BY LayoutAssumption DEF MapIInv, LoopInv
<1>5. v \in Nat /\ v <= VirtPage[dirs] + StackPage /\ v \notin NewPages
  BY <1>1, <1>2, <1>4, WindowPages DEF MappedInv, MemType
<1>6. Missing(v) => f \in Frame \ taken
  BY <1>1, FreeEnds
<1>7. taken \in SUBSET Frame
  BY <1>2 DEF MappedInv, FramesInv
<1> HIDE DEF v, f
<1>8. MappedInv' /\ v \in Page /\ want' = [want EXCEPT ![v] = pa]
  BY <1>1, <1>2, <1>3, <1>5, <1>6, <1>7, MapStep
<1>9. TodoInv'
  <2>1. NewPages' = NewPages /\ Calls' = Calls
    BY <1>1 DEF NewPages, PpsPage, Calls, Page
  <2>2. \A w \in NewPages : w \in Page
    BY <1>2, NewPagesAre DEF MappedInv, MemType
  <2>3. \A w \in NewPages : want'[w] = want[w]
    BY <1>2, <1>5, <1>8, <2>2 DEF MappedInv, FramesInv
  <2> QED
    BY <1>1, <2>1, <2>3 DEF MapIInv, TodoInv
<1>10. LoopInv'
  <2>1. max_pa \in Nat /\ max_pa <= NFrames /\ NFrames \in Nat /\ pa < NFrames
    BY <1>3, KernelMapAssumption DEF MapIInv, LoopInv, Frame
  <2>2. max_pa' \in 0 .. NFrames /\ va' \in 0 .. WindowLen /\ pa' \in Nat
    BY <1>1, <1>3, <1>4, <2>1
  <2> QED
    BY <1>1, <1>3, <2>2 DEF MapIInv, LoopInv
<1> QED
  BY <1>1, <1>8, <1>9, <1>10 DEF MapIInv, MappedInv, Paging

(* Steps that leave the tables alone.                                      *)
LEMMA TablesUnchanged ==
  ASSUME UNCHANGED <<mem, dirs, root>>
  PROVE  /\ Page' = Page /\ Directory' = Directory /\ Tables' = Tables
         /\ NewPages' = NewPages /\ Calls' = Calls
         /\ (MemType => MemType') /\ (Structure => Structure')
         /\ \A v : Walk(mem, v)' = Walk(mem, v)
<1>1. /\ Page' = Page /\ Directory' = Directory /\ NewPages' = NewPages /\ Calls' = Calls
      /\ (MemType => MemType') /\ \A v : Walk(mem, v)' = Walk(mem, v)
  BY DEF Page, Directory, NewPages, PpsPage, Calls, MemType, Walk
<1>2. \A d, e : EntryAt(d, e)' = EntryAt(d, e)
  BY DEF EntryAt
<1>3. Structure => Structure'
  BY <1>1, <1>2 DEF Structure
<1>4. Tables' = Tables
  BY <1>1 DEF Tables, Entries
<1> QED
  BY <1>1, <1>3, <1>4

LEMMA MappedUnchanged ==
  ASSUME MappedInv, UNCHANGED <<mem, dirs, map_at, root, taken, want>>, Coherent'
  PROVE  MappedInv'
<1>1. /\ Page' = Page /\ Directory' = Directory /\ Tables' = Tables
      /\ NewPages' = NewPages /\ MemType' /\ Structure'
      /\ \A v : Walk(mem, v)' = Walk(mem, v)
  BY TablesUnchanged DEF MappedInv
<1>2. FramesInv' /\ Owned'
  BY <1>1 DEF MappedInv, FramesInv, Owned
<1>3. WalkFinds'
  <2>1. \A d, e : Recursive(d, e)' = Recursive(d, e)
    BY DEF Recursive
  <2>2. \A d, e, i : Walk(mem, At(d, e, i))' = Walk(mem, At(d, e, i))
    BY <1>1 DEF At
  <2>3. \A d \in Directory, e, i \in Index :
          ~Recursive(d, e) => Walk(mem, At(d, e, i))' = want'[At(d, e, i)]
    BY <2>2 DEF MappedInv, WalkFinds
  <2> QED
    BY <1>1, <2>1, <2>3 DEF WalkFinds, At
<1> QED
  BY <1>1, <1>2, <1>3 DEF MappedInv

LEMMA CoherentUnchanged ==
  ASSUME Coherent, UNCHANGED <<mem, dirs, root, tlb>>
  PROVE  Coherent'
<1>1. Page' = Page /\ \A v : Walk(mem, v)' = Walk(mem, v)
  BY TablesUnchanged
<1>2. \A x \in tlb : Walk(mem, x[1])' = x[2]
  BY <1>1 DEF Coherent, TlbCoherent
<1> QED
  BY <1>1, <1>2 DEF Coherent, TlbCoherent

LEMMA TodoUnchanged ==
  ASSUME TodoInv, UNCHANGED <<mem, dirs, root, want, todo>>,
         phase' \in {"kernel", "running"} => todo = <<>>
  PROVE  TodoInv'
BY TablesUnchanged DEF TodoInv

LEMMA LoopStepsKeep == MapIInv /\ (EnterKernel \/ NextRegion \/ EndRegion \/ MemInit) => MapIInv'
<1> SUFFICES ASSUME MapIInv, EnterKernel \/ NextRegion \/ EndRegion \/ MemInit PROVE MapIInv'
  OBVIOUS
<1>1. /\ UNCHANGED <<mem, dirs, map_at, root, tlb, taken, want, todo, max_pa>>
      /\ phase # "start" /\ phase' # "start" /\ phase' \in {"kernel", "running"} /\ todo = <<>>
  BY DEF EnterKernel, NextRegion, EndRegion, MemInit, MapIInv, TodoInv
<1>2. MappedInv /\ Coherent
  BY <1>1 DEF MapIInv, MappedInv, Paging
<1>3. MappedInv'
  BY <1>1, <1>2, MappedUnchanged, CoherentUnchanged
<1>4. TodoInv'
  BY <1>1, TodoUnchanged DEF MapIInv
<1>5. LoopInv'
  <2>1. CASE EnterKernel \/ MemInit
    BY <2>1 DEF EnterKernel, MemInit, MapIInv, LoopInv
  <2>2. CASE NextRegion
    <3>1. left # <<>> /\ Head(left)[1] \in Nat
      BY <2>2, HeadOfLeft DEF NextRegion
    <3>2. /\ pa' = Head(left)[1] /\ va' = va /\ max_pa' = max_pa
          /\ left' = left /\ phase' = phase
      BY <2>2 DEF NextRegion, VaNext
    <3> QED
      BY <3>1, <3>2 DEF MapIInv, LoopInv
  <2>3. CASE EndRegion
    <3>1. left # <<>> /\ pa' = None /\ left' = Tail(left) /\ va' = va /\ max_pa' = max_pa /\ phase' = phase
      BY <2>3 DEF EndRegion, MapIInv, LoopInv
    <3>2. left' \in Seq({r \in Nat \X Int : r[2] < NFrames})
      BY <3>1, HeadOfLeft
    <3> QED
      BY <3>1, <3>2 DEF MapIInv, LoopInv
  <2> QED
    BY <2>1, <2>2, <2>3
<1> QED
  BY <1>1, <1>3, <1>4, <1>5 DEF MapIInv, MappedInv, Paging

LEMMA TouchKeeps ==
  ASSUME MapIInv, NEW v \in Page, Touch(v)
  PROVE  MapIInv'
<1>1. /\ phase # "start" /\ Walk(mem, v) \in Frame
      /\ UNCHANGED <<mem, dirs, map_at, root, taken, want, todo, left, pa, va, max_pa, phase>>
  BY DEF Touch
<1>2. PICK kept \in SUBSET Invalidate(tlb, v) : tlb' = kept \cup {<<v, Translate(mem, tlb, v)>>}
  BY DEF Touch
<1>3. MappedInv
  BY <1>1 DEF MapIInv, MappedInv, Paging
<1>4. Translate(mem, tlb, v) = Walk(mem, v)
  BY <1>3, TranslateIs DEF MappedInv, Coherent, TlbCoherent
<1>5. Coherent'
  <2>1. Page' = Page /\ \A w : Walk(mem, w)' = Walk(mem, w)
    BY <1>1, TablesUnchanged
  <2>2. tlb' \subseteq Page \X Frame
    BY <1>1, <1>2, <1>3, <1>4 DEF MappedInv, Coherent, Invalidate
  <2>3. \A x \in tlb' : Walk(mem, x[1]) = x[2]
    BY <1>2, <1>3, <1>4 DEF MappedInv, Coherent, TlbCoherent, Invalidate
  <2> QED
    BY <2>1, <2>2, <2>3 DEF Coherent, TlbCoherent
<1>6. MappedInv'
  BY <1>1, <1>3, <1>5, MappedUnchanged
<1>7. TodoInv' /\ LoopInv'
  BY <1>1, TodoUnchanged DEF MapIInv, TodoInv, LoopInv
<1> QED
  BY <1>1, <1>6, <1>7 DEF MapIInv, MappedInv, Paging

-----------------------------------------------------------------------------
(* Mmu::init: the frames it takes, one below the other.                    *)
LEMMA HighestAre ==
  ASSUME NEW S \in SUBSET Frame, NEW n \in Nat, n <= Cardinality(S)
  PROVE  \A k \in 1 .. n : \E f \in S : Cardinality({g \in S : g > f}) = k - 1
<1> DEFINE Above(f) == {g \in S : g > f}
           T == {k \in 0 .. n : k # 0 => \E f \in S : Cardinality(Above(f)) = k - 1}
<1>1. NFrames \in Nat /\ S \in SUBSET Nat /\ \A f \in S : f <= NFrames
  BY KernelMapAssumption DEF Frame
<1>2. IsFiniteSet(S)
  <2>1. IsFiniteSet(0 .. NFrames - 1)
    BY <1>1, FS_Interval
  <2> QED
    BY <2>1, FS_Subset DEF Frame
<1>3. ASSUME NEW k \in 1 .. n, k - 1 \in T PROVE \E f \in S : Cardinality(Above(f)) = k - 1
  <2>1. CASE k = 1
    <3>1. S # {}
      BY <2>1, FS_EmptySet
    <3>2. PICK m \in S : \A g \in S : g <= m
      <4> HIDE DEF T
      <4> QED
        BY <1>1, <3>1, GreatestOfBounded
    <3>3. \A g \in S : ~(g > m)
      BY <1>1, <3>2
    <3>4. Above(m) = {}
      BY <3>3
    <3> HIDE DEF Above
    <3> QED
      BY <2>1, <3>2, <3>4, FS_EmptySet
  <2>2. CASE k # 1
    <3>1. PICK f \in S : Cardinality(Above(f)) = k - 2
      BY <1>3, <2>2
    <3> DEFINE B == {g \in S : g < f}
               A == Above(f)
    <3>2. IsFiniteSet(A) /\ f \notin A
      BY <1>1, <1>2, FS_Subset
    <3>3. Cardinality(A \cup {f}) = k - 1
      <4>1. Cardinality(A \cup {f}) = Cardinality(A) + 1
        <5> HIDE DEF A
        <5> QED
          BY <3>2, FS_AddElement
      <4> QED
        BY <3>1, <4>1
    <3>4. B # {}
      <4> SUFFICES ASSUME B = {} PROVE FALSE
        OBVIOUS
      <4>1. S = A \cup {f}
        <5>1. \A g \in S : g > f \/ g = f
          BY <1>1
        <5> QED
          BY <5>1
      <4> HIDE DEF A
      <4> QED
        BY <3>3, <4>1
    <3>5. PICK m \in B : \A g \in B : g <= m
      <4>1. B \in SUBSET Nat /\ \A g \in B : g <= NFrames
        BY <1>1
      <4> HIDE DEF B, T, A, Above
      <4> QED
        BY <1>1, <3>4, <4>1, GreatestOfBounded
    <3>6. Above(m) = A \cup {f}
      <4>1. m \in S /\ m < f /\ m \in Nat /\ f \in Nat
        BY <1>1, <3>5
      <4>2. \A g \in S : g > m <=> g > f \/ g = f
        BY <1>1, <3>5, <4>1
      <4> QED
        BY <4>1, <4>2
    <3> QED
      BY <3>3, <3>5, <3>6
  <2> QED
    BY <2>1, <2>2
<1>4. 0 \in T /\ \A k \in 1 .. n : k - 1 \in T => k \in T
  <2>1. ASSUME NEW k \in 1 .. n, k - 1 \in T PROVE k \in T
    <3>1. \E f \in S : Cardinality(Above(f)) = k - 1
      BY <1>3, <2>1
    <3> HIDE DEF Above
    <3> QED
      BY <3>1
  <2>2. 0 \in T
    <3> HIDE DEF Above
    <3> QED
      OBVIOUS
  <2> HIDE DEF T
  <2> QED
    BY <2>1, <2>2
<1>5. \A k \in 0 .. n : k \in T
  <2> HIDE DEF T
  <2> QED
    BY <1>4, UpTo
<1> QED
  BY <1>5

(* A directory as Mmu::init fills it.                                      *)
InitEntry(fs, d, i) ==
  IF d = 0 /\ i < LowTables THEN fs[dirs + i + 1]
  ELSE IF d = dirs - 1 /\ i >= E - dirs THEN fs[i - (E - dirs) + 1]
  ELSE None

LEMMA LowSizes ==
  ASSUME dirs \in Dirs
  PROVE  /\ LowTables \in Nat /\ 1 <= LowTables /\ LowTables <= E
         /\ LowTables = 1 \/ dirs # 1
         /\ LowTables * E <= NFrames /\ LowTables * E <= WindowPage[dirs]
         /\ LowTables * E \in Nat
<1>1. LowTables = LowTablesOf(dirs) /\ LowTables \in {1, 2} /\ (LowTables = 1 \/ dirs # 1)
  BY DEF LowTables, LowTablesOf
<1> QED
  BY <1>1, LayoutAssumption, ESizes, TimesNat

LEMMA InitTakes ==
  ASSUME MapIInv, MmuInit
  PROVE  \E fs :
           /\ \A k \in 1 .. InitFrames : fs[k] \in Frame \ taken
           /\ \A k, l \in 1 .. InitFrames : fs[k] = fs[l] => k = l
           /\ taken' = taken \cup {fs[k] : k \in 1 .. InitFrames}
           /\ root' = [d \in Directory |-> fs[d + 1]]
           /\ mem' \in [Frame -> [Index -> Frame \cup {None, Junk}]]
           /\ \A d \in Directory, i \in Index : mem'[fs[d + 1]][i] = InitEntry(fs, d, i)
           /\ \A t \in 0 .. LowTables - 1, i \in Index : mem'[fs[dirs + t + 1]][i] = t * E + i
           /\ \A f \in Frame : (\A k \in 1 .. InitFrames : f # fs[k]) => mem'[f] = mem[f]
<1> DEFINE fs == [k \in 1 .. InitFrames |-> TopFrame(k)]
           directory(d) ==
             [i \in Index |-> IF d = 0 /\ i < LowTables THEN fs[dirs + i + 1]
                              ELSE IF d = dirs - 1 /\ i >= E - dirs THEN fs[i - (E - dirs) + 1]
                              ELSE None]
           lowtable(t) == [i \in Index |-> t * E + i]
           K(f) == CHOOSE k \in DOMAIN fs : fs[k] = f
           N == InitFrames
<1>1. PICK D \in Nat : D = dirs /\ 1 <= D /\ D <= E - 1
  BY DirsSize DEF MapIInv, MemType
<1>2. PICK L \in Nat : L = LowTables /\ 1 <= L /\ L <= E /\ L * E <= NFrames
  BY LowSizes DEF MapIInv, MemType
<1>3. N = D + L
  BY <1>1, <1>2 DEF InitFrames
<1>4. ASSUME NEW k \in 1 .. N
      PROVE  TopFrame(k) \in Free(taken) /\ Cardinality({g \in Free(taken) : g > TopFrame(k)}) = k - 1
  <2> DEFINE S == Free(taken)
  <2>1. S \in SUBSET Frame
    BY DEF Free
  <2>2. N \in Nat /\ N <= Cardinality(S)
    <3>1. Cardinality(S) >= N
      BY DEF MmuInit
    <3>2. IsFiniteSet(S)
      <4>1. IsFiniteSet(0 .. NFrames - 1)
        BY KernelMapAssumption, FS_Interval
      <4> QED
        BY <2>1, <4>1, FS_Subset DEF Frame
    <3>3. Cardinality(S) \in Nat
      BY <3>2, FS_CardinalityType
    <3> QED
      BY <1>1, <1>2, <1>3, <3>1, <3>3
  <2> HIDE DEF S, N
  <2>3. \E f \in S : Cardinality({g \in S : g > f}) = k - 1
    BY <2>1, <2>2, HighestAre
  <2> QED
    BY <2>3 DEF TopFrame, S
<1>5. \A k \in 1 .. N : fs[k] = TopFrame(k)
  OBVIOUS
<1>6. DOMAIN fs = 1 .. N
  OBVIOUS
<1>7. /\ taken' = taken \cup ToSet(fs)
      /\ root' = [d \in Directory |-> fs[d + 1]]
      /\ mem' = [f \in Frame |->
           IF f \notin ToSet(fs) THEN mem[f]
           ELSE IF K(f) <= dirs THEN directory(K(f) - 1) ELSE lowtable(K(f) - dirs - 1)]
  BY DEF MmuInit
<1> HIDE DEF fs, N
<1>8. \A k \in 1 .. N : fs[k] \in Frame \ taken
  BY <1>4, <1>5 DEF Free
<1>9. \A k, l \in 1 .. N : fs[k] = fs[l] => k = l
  <2> SUFFICES ASSUME NEW k \in 1 .. N, NEW l \in 1 .. N, fs[k] = fs[l] PROVE k = l
    OBVIOUS
  <2>1. k - 1 = l - 1
    BY <1>4, <1>5
  <2> QED
    BY <1>1, <1>2, <1>3, <2>1
<1>10. ToSet(fs) = {fs[k] : k \in 1 .. N}
  BY <1>6 DEF ToSet
<1>11. \A k \in 1 .. N : fs[k] \in ToSet(fs) /\ K(fs[k]) = k
  BY <1>6, <1>9, <1>10
<1>12. ASSUME NEW d \in Directory, NEW i \in Index PROVE mem'[fs[d + 1]][i] = InitEntry(fs, d, i)
  <2>1. d + 1 \in 1 .. N /\ d + 1 <= dirs /\ (d + 1) - 1 = d
    BY <1>1, <1>2, <1>3 DEF Directory
  <2>2. mem'[fs[d + 1]] = directory(d)
    BY <1>7, <1>8, <1>11, <2>1
  <2> QED
    BY <2>2 DEF InitEntry
<1>13. ASSUME NEW t \in 0 .. LowTables - 1, NEW i \in Index
       PROVE  mem'[fs[dirs + t + 1]][i] = t * E + i
  <2>1. D + t + 1 \in 1 .. N /\ ~(D + t + 1 <= D) /\ (D + t + 1) - D - 1 = t
    BY <1>1, <1>2, <1>3
  <2>2. PICK k \in 1 .. N : k = D + t + 1
    BY <2>1
  <2>3. fs[k] \in Frame /\ fs[k] \in ToSet(fs) /\ K(fs[k]) = k
    BY <1>8, <1>11
  <2> HIDE DEF lowtable, directory, K
  <2>4. mem'[fs[k]] = lowtable(k - D - 1)
    BY <1>1, <1>7, <2>1, <2>2, <2>3
  <2> USE DEF lowtable
  <2> QED
    BY <1>1, <2>1, <2>2, <2>4
<1>14. mem' \in [Frame -> [Index -> Frame \cup {None, Junk}]]
  <2>1. ASSUME NEW d \in Directory PROVE directory(d) \in [Index -> Frame \cup {None, Junk}]
    <3>1. ASSUME NEW i \in Index, i < L PROVE fs[D + i + 1] \in Frame
      <4>1. D + i + 1 \in 1 .. N
        BY <1>1, <1>2, <1>3, <3>1 DEF Index
      <4> QED
        BY <1>8, <4>1
    <3>2. ASSUME NEW i \in Index, i >= E - D PROVE fs[i - (E - D) + 1] \in Frame
      <4>1. i - (E - D) + 1 \in 1 .. N
        BY <1>1, <1>2, <1>3, <3>2, ESizes DEF Index
      <4> QED
        BY <1>8, <4>1
    <3> QED
      BY <1>1, <1>2, <3>1, <3>2
  <2>2. ASSUME NEW t \in 0 .. L - 1 PROVE lowtable(t) \in [Index -> Frame \cup {None, Junk}]
    <3>1. ASSUME NEW i \in Index PROVE t * E + i \in Frame
      <4>1. (t + 1) * E <= L * E /\ (t + 1) * E = t * E + E /\ t * E \in Nat
        BY <1>2, ESizes, TimesMonotone, TimesNat
      <4>2. L * E \in Int /\ E \in Nat /\ i \in Nat /\ i <= E - 1 /\ NFrames \in Nat
        BY <1>2, ESizes, KernelMapAssumption DEF Index
      <4> QED
        BY <1>2, <4>1, <4>2 DEF Frame
    <3> QED
      BY <3>1
  <2>3. ASSUME NEW k \in 1 .. N PROVE IF k <= D THEN k - 1 \in Directory ELSE k - D - 1 \in 0 .. L - 1
    BY <1>1, <1>2, <1>3 DEF Directory
  <2>4. ASSUME NEW f \in Frame PROVE mem'[f] \in [Index -> Frame \cup {None, Junk}]
    <3>1. CASE f \in ToSet(fs)
      <4>1. PICK k \in 1 .. N : f = fs[k]
        BY <1>10, <3>1
      <4> HIDE DEF directory, lowtable, K
      <4>2. mem'[f] = IF k <= D THEN directory(k - 1) ELSE lowtable(k - D - 1)
        <5>1. K(f) = k
          BY <1>11, <4>1
        <5> QED
          BY <1>1, <1>7, <3>1, <5>1
      <4> QED
        BY <2>1, <2>2, <2>3, <4>2
    <3>2. CASE f \notin ToSet(fs)
      BY <1>7, <3>2 DEF MapIInv, MemType
    <3> QED
      BY <3>1, <3>2
  <2> QED
    BY <1>7, <2>4
<1>15. \A f \in Frame : (\A k \in 1 .. N : f # fs[k]) => mem'[f] = mem[f]
  BY <1>7, <1>10
<1>16. taken' = taken \cup {fs[k] : k \in 1 .. N} /\ root' = [d \in Directory |-> fs[d + 1]]
  BY <1>7, <1>10
<1> HIDE DEF directory, lowtable, K
<1> QED
  BY <1>8, <1>9, <1>12, <1>13, <1>14, <1>15, <1>16, Zenon DEF N

LEMMA MmuInitKeeps == MapIInv /\ MmuInit => MapIInv'
<1> SUFFICES ASSUME MapIInv, MmuInit PROVE MapIInv'
  OBVIOUS
<1>1. PICK D \in Nat : D = dirs /\ 1 <= D /\ D <= E - 1
  BY DirsSize DEF MapIInv, MemType
<1>2. PICK L \in Nat : /\ L = LowTables /\ 1 <= L /\ L <= E /\ L * E <= NFrames
                       /\ L = 1 \/ D # 1
                       /\ L * E <= WindowPage[dirs] /\ L * E \in Nat
  BY <1>1, LowSizes DEF MapIInv, MemType
<1>3. PICK N \in Nat : N = InitFrames /\ N = D + L
  BY <1>1, <1>2 DEF InitFrames
<1>4. PICK fs :
        /\ \A k \in 1 .. N : fs[k] \in Frame \ taken
        /\ \A k, l \in 1 .. N : fs[k] = fs[l] => k = l
        /\ taken' = taken \cup {fs[k] : k \in 1 .. N}
        /\ root' = [d \in Directory |-> fs[d + 1]]
        /\ mem' \in [Frame -> [Index -> Frame \cup {None, Junk}]]
        /\ \A d \in Directory, i \in Index : mem'[fs[d + 1]][i] = InitEntry(fs, d, i)
        /\ \A t \in 0 .. LowTables - 1, i \in Index : mem'[fs[dirs + t + 1]][i] = t * E + i
        /\ \A f \in Frame : (\A k \in 1 .. N : f # fs[k]) => mem'[f] = mem[f]
  BY <1>3, InitTakes
<1>5. /\ phase = "start" /\ phase' = "loader"
      /\ want' = [v \in Page |-> IF v < LowTables * E THEN v ELSE None]
      /\ UNCHANGED <<dirs, map_at, tlb, todo, left, pa, va, max_pa>>
      /\ Blank /\ FramesInv
  BY DEF MmuInit, MapIInv, Paging
<1>6. Page' = Page /\ Directory' = Directory /\ NewPages' = NewPages /\ Calls' = Calls
  BY <1>5 DEF Page, Directory, NewPages, PpsPage, Calls
<1>7. MemType'
  <2>1. \A d \in Directory : d + 1 \in 1 .. N
    BY <1>1, <1>2, <1>3 DEF Directory
  <2> QED
    BY <1>4, <1>5, <1>6, <2>1 DEF MapIInv, MemType
<1>8. \A d \in Directory, e \in Index : EntryAt(d, e)' = InitEntry(fs, d, e)
  BY <1>4, <1>6 DEF EntryAt
<1> DEFINE Which(d, e) == IF d = 0 /\ e < L THEN D + e + 1 ELSE e - (E - D) + 1
           Has(d, e) == (d = 0 /\ e < L) \/ Recursive(d, e)
<1>9. ASSUME NEW d \in Directory, NEW e \in Index
      PROVE  /\ Has(d, e) => /\ Which(d, e) \in 1 .. N
                             /\ EntryAt(d, e)' = fs[Which(d, e)] /\ EntryAt(d, e)' \in Frame \ taken
             /\ ~Has(d, e) => EntryAt(d, e)' = None
  <2>1. Has(d, e) => Which(d, e) \in 1 .. N /\ InitEntry(fs, d, e) = fs[Which(d, e)]
    BY <1>1, <1>2, <1>3, ESizes DEF InitEntry, Recursive, Directory, Index
  <2>2. ~Has(d, e) => InitEntry(fs, d, e) = None
    BY <1>1, <1>2, ESizes DEF InitEntry, Recursive, Directory, Index
  <2> HIDE DEF Has, Which
  <2> QED
    BY <1>4, <1>8, <2>1, <2>2
<1>10. ASSUME NEW d \in Directory, NEW c \in Directory, NEW e \in Index, NEW k \in Index,
              Has(d, e), Has(c, k), Which(d, e) = Which(c, k)
       PROVE  d = c /\ e = k
  BY <1>1, <1>2, <1>10, ESizes DEF Recursive, Directory, Index
<1>11. ASSUME NEW c \in Directory
       PROVE  E - D + c \in Index /\ D - 1 \in Directory /\ Has(D - 1, E - D + c) /\ Which(D - 1, E - D + c) = c + 1
  BY <1>1, <1>2, ESizes DEF Recursive, Directory, Index
<1>12. ASSUME NEW e \in 0 .. L - 1
       PROVE  e \in Index /\ 0 \in Directory /\ Has(0, e) /\ Which(0, e) = D + e + 1
  BY <1>1, <1>2, ESizes DEF Directory, Index
<1> HIDE DEF Has, Which
<1>13. Structure'
  <2>1. ASSUME NEW c \in Directory PROVE EntryAt(D - 1, E - D + c)' = root'[c]
    <3>1. EntryAt(D - 1, E - D + c)' = fs[c + 1]
      BY <1>9, <1>11
    <3> QED
      BY <1>4, <3>1
  <2>2. \A d \in Directory, e \in Index : EntryAt(d, e)' \in Frame \cup {None}
    BY <1>9
  <2>3. ASSUME NEW d \in Directory, NEW c \in Directory, NEW e \in Index, NEW k \in Index,
               EntryAt(d, e)' = EntryAt(c, k)', EntryAt(d, e)' # None
        PROVE  d = c /\ e = k
    <3>1. Has(d, e) /\ Has(c, k)
      BY <1>9, <2>3
    <3>2. Which(d, e) = Which(c, k)
      BY <1>4, <1>9, <2>3, <3>1
    <3> QED
      BY <1>10, <3>1, <3>2
  <2>4. \A c \in Directory : EntryAt(dirs - 1, E - dirs + c)' = root'[c]
    BY <1>1, <1>5, <2>1 DEF EntryAt
  <2> QED
    BY <1>5, <1>6, <2>2, <2>3, <2>4 DEF Structure
<1>14. Tables' = {fs[k] : k \in 1 .. N}
  <2>1. \A f : f \in Tables' <=> f \in Frame /\ \E d \in Directory, e \in Index : EntryAt(d, e)' = f
    BY <1>6, <1>7, <1>13, TablesAreNext DEF TablesNamed
  <2>2. ASSUME NEW f \in Tables' PROVE f \in {fs[k] : k \in 1 .. N}
    <3>1. PICK d \in Directory, e \in Index : EntryAt(d, e)' = f /\ f \in Frame
      BY <2>1
    <3> QED
      BY <1>9, <3>1, NewIsNotNone
  <2>3. ASSUME NEW k \in 1 .. N PROVE fs[k] \in Tables'
    <3>1. CASE k <= D
      <4>1. k - 1 \in Directory /\ (k - 1) + 1 = k
        BY <1>1, <1>3, <3>1 DEF Directory
      <4>2. EntryAt(D - 1, E - D + (k - 1))' = fs[k]
        BY <1>9, <1>11, <4>1
      <4> QED
        BY <1>4, <1>11, <2>1, <4>1, <4>2
    <3>2. CASE ~(k <= D)
      <4>1. k - D - 1 \in 0 .. L - 1 /\ D + (k - D - 1) + 1 = k
        BY <1>1, <1>2, <1>3, <3>2
      <4>2. EntryAt(0, k - D - 1)' = fs[k]
        BY <1>9, <1>12, <4>1
      <4> QED
        BY <1>4, <1>12, <2>1, <4>1, <4>2
    <3> QED
      BY <3>1, <3>2
  <2> QED
    BY <2>2, <2>3
<1>15. WalkFinds'
  <2>1. ASSUME NEW d \in Directory, NEW e \in Index, NEW i \in Index, ~Recursive(d, e)
        PROVE  Walk(mem, At(d, e, i))' = want'[At(d, e, i)]
    <3> DEFINE v == At(d, e, i)
    <3>1. v \in Page /\ DirOf(v) = d /\ EntryOf(v) = e /\ v % E = i /\ dirs \in Dirs
      BY AtPage DEF MapIInv, MemType
    <3>2. v = (d * E + e) * E + i /\ v \in Nat
      BY <3>1 DEF At, Page
    <3> HIDE DEF v
    <3>3. Walk(mem, v)' = IF EntryAt(d, e)' \in Frame THEN mem'[EntryAt(d, e)'][i] ELSE EntryAt(d, e)'
      BY <1>6, <3>1 DEF Walk, EntryAt
    <3>4. want'[v] = IF v < L * E THEN v ELSE None
      BY <1>2, <1>5, <3>1
    <3>5. ASSUME d = 0, e < L PROVE Walk(mem, v)' = want'[v]
      <4>1. e \in 0 .. L - 1 /\ e \in Nat /\ i \in Nat /\ i <= E - 1
        BY <3>5, ESizes DEF Index
      <4>2. EntryAt(d, e)' = fs[D + e + 1] /\ EntryAt(d, e)' \in Frame
        BY <1>9, <1>12, <3>5, <4>1
      <4>3. Walk(mem, v)' = e * E + i
        BY <1>1, <1>2, <1>4, <3>3, <4>1, <4>2
      <4>4. v = e * E + i
        BY <3>2, <3>5, <4>1, ESizes
      <4>5. v < L * E
        <5>1. (e + 1) * E <= L * E /\ (e + 1) * E = e * E + E /\ e * E \in Nat
          BY <1>2, <4>1, ESizes, TimesMonotone, TimesNat
        <5> QED
          BY <1>2, <4>1, <4>4, <5>1, ESizes
      <4> QED
        BY <3>4, <4>3, <4>4, <4>5
    <3>6. ASSUME ~(d = 0 /\ e < L) PROVE Walk(mem, v)' = want'[v]
      <4>1. EntryAt(d, e)' = None
        BY <1>9, <2>1, <3>6 DEF Has
      <4>2. Walk(mem, v)' = None
        BY <3>3, <4>1, NewIsNotNone
      <4>3. ~(v < L * E)
        <5>1. d \in Nat /\ e \in Nat /\ e <= E - 1 /\ i \in Nat /\ d * E \in Nat
          BY ESizes, TimesNat DEF Directory, Index
        <5>2. L <= d * E + e
          <6>1. CASE d = 0
            BY <1>2, <3>6, <5>1, <6>1, ESizes
          <6>2. CASE d # 0
            <7>1. 1 * E <= d * E
              BY <5>1, <6>2, ESizes, TimesMonotone
            <7> QED
              BY <1>2, <5>1, <7>1, ESizes
          <6> QED
            BY <6>1, <6>2
        <5>3. L * E <= (d * E + e) * E /\ (d * E + e) * E \in Nat
          BY <1>2, <5>1, <5>2, ESizes, TimesMonotone, TimesNat
        <5> QED
          BY <1>2, <3>2, <5>1, <5>3
      <4> QED
        BY <3>4, <4>2, <4>3
    <3> QED
      BY <3>5, <3>6 DEF v
  <2>2. \A d, e : Recursive(d, e)' = Recursive(d, e)
    BY <1>5 DEF Recursive
  <2> QED
    BY <1>6, <2>1, <2>2 DEF WalkFinds, At
<1>16. want' \in [Page -> Frame \cup {None}] /\ \A v \in NewPages : want'[v] = None
  <2>1. \A v \in Page : v < L * E => v \in Frame
    BY <1>2, KernelMapAssumption DEF Page, Frame
  <2>2. ASSUME NEW v \in NewPages PROVE v \in Page /\ ~(v < L * E)
    <3>1. v \in Page /\ v \in Nat /\ VirtPage[dirs] <= v
      BY NewPagesAre DEF MapIInv, MemType
    <3>2. /\ WindowPage[dirs] \in Nat /\ VirtPage[dirs] \in Nat /\ WindowLen \in Nat
          /\ WindowPage[dirs] + WindowLen <= VirtPage[dirs]
      BY LayoutAssumption DEF MapIInv, MemType
    <3> QED
      BY <1>2, <3>1, <3>2
  <2> QED
    BY <1>2, <1>5, <2>1, <2>2
<1>17. FramesInv'
  BY <1>4, <1>5, <1>6, <1>16 DEF FramesInv
<1>18. Owned'
  <2>1. Tables' \subseteq (Usable \cap taken') \ Reserved
    BY <1>4, <1>5, <1>14 DEF FramesInv
  <2>2. \A f \in Frame \ Tables' : mem'[f] = [i \in Index |-> Junk]
    BY <1>4, <1>5, <1>14 DEF Blank
  <2> QED
    BY <1>6, <1>16, <2>1, <2>2 DEF Owned
<1>19. Coherent'
  BY <1>5 DEF Blank, Coherent, TlbCoherent
<1>20. TodoInv'
  <2>1. \A v \in NewPages : v \in Page
    BY NewPagesAre DEF MapIInv, MemType
  <2>2. \A v \in NewPages : want[v] = None
    BY <1>5, <2>1 DEF Blank
  <2> QED
    BY <1>5, <1>6, <2>2 DEF MapIInv, TodoInv
<1>21. LoopInv'
  BY <1>5 DEF MapIInv, LoopInv
<1> QED
  BY <1>5, <1>7, <1>13, <1>15, <1>17, <1>18, <1>19, <1>20, <1>21 DEF MapIInv, Paging

LEMMA ElementsAlso ==
  ASSUME NEW S, NEW R, NEW s \in Seq(S), \A k \in 1 .. Len(s) : s[k] \in R
  PROVE  s \in Seq(R)
OBVIOUS

LEMMA MapStarts == Init => MapIInv
<1> SUFFICES ASSUME Init PROVE MapIInv
  OBVIOUS
<1>1. dirs \in Dirs /\ phase = "start" /\ tlb = {} /\ todo = LoaderMaps
  BY DEF Init
<1>2. MemType
  <2>1. 0 \in Frame
    BY <1>1, LowSizes, ESizes, KernelMapAssumption DEF Frame
  <2> QED
    BY <1>1, <2>1 DEF Init, MemType
<1>3. Coherent
  BY <1>1 DEF Coherent, TlbCoherent
<1>4. FramesInv
  BY KernelMapAssumption DEF Init, FramesInv
<1>5. TodoInv
  BY <1>1, CallsMade DEF TodoInv
<1>6. LoopInv
  <2>1. Regions \in Seq({r \in Nat \X Int : r[2] < NFrames})
    <3>1. Regions \in Seq(Nat \X Int) /\ \A k \in 1 .. Len(Regions) : Regions[k][2] < NFrames
      BY RegionsAssumption DEF ToSet
    <3>2. \A k \in 1 .. Len(Regions) : Regions[k] \in {r \in Nat \X Int : r[2] < NFrames}
      BY <3>1
    <3> QED
      BY <3>1, <3>2, ElementsAlso
  <2>2. WindowLen \in Nat /\ NFrames \in Nat
    BY LayoutAssumption, KernelMapAssumption
  <2> QED
    BY <2>1, <2>2 DEF Init, LoopInv
<1>7. Blank
  BY DEF Init, Blank
<1> QED
  BY <1>1, <1>2, <1>3, <1>4, <1>5, <1>6, <1>7 DEF MapIInv, Paging

LEMMA MapSteps == MapIInv /\ [Next]_vars => MapIInv'
<1> SUFFICES ASSUME MapIInv, [Next]_vars PROVE MapIInv'
  OBVIOUS
<1>1. CASE MmuInit
  BY <1>1, MmuInitKeeps
<1>2. CASE LoaderMap
  BY <1>2, LoaderMapKeeps
<1>3. CASE EnterKernel \/ NextRegion \/ EndRegion \/ MemInit
  BY <1>3, LoopStepsKeep
<1>4. CASE MapFrameOfRegion
  BY <1>4, RegionMapKeeps
<1>5. CASE \E v \in Page : Touch(v)
  BY <1>5, TouchKeeps
<1>6. CASE UNCHANGED vars
  <2>1. UNCHANGED <<mem, dirs, map_at, root, tlb, taken, want, todo, left, pa, va, max_pa, phase>>
    BY <1>6 DEF vars
  <2>2. Coherent' /\ TodoInv' /\ LoopInv'
    BY <2>1, CoherentUnchanged, TodoUnchanged DEF MapIInv, TodoInv, LoopInv
  <2>3. CASE phase # "start"
    <3>1. MappedInv
      BY <2>3 DEF MapIInv, MappedInv, Paging
    <3>2. MappedInv'
      BY <2>1, <2>2, <3>1, MappedUnchanged
    <3> QED
      BY <2>1, <2>2, <2>3, <3>2 DEF MapIInv, MappedInv, Paging
  <2>4. CASE phase = "start"
    <3>1. MemType' /\ Page' = Page
      BY <2>1, TablesUnchanged DEF MapIInv
    <3> QED
      BY <2>1, <2>2, <2>4, <3>1 DEF MapIInv, FramesInv, Blank, Paging
  <2> QED
    BY <2>3, <2>4
<1> QED
  BY <1>1, <1>2, <1>3, <1>4, <1>5, <1>6 DEF Next

(* The inductive invariant holds in every state.                           *)
THEOREM MapInvariance == Spec => []MapIInv
<1> QED
  BY MapStarts, MapSteps, PTL DEF Spec

(* No translation the TLB may still hold differs from the tables: every    *)
(* store of map and init is followed by the invalidation it needs.         *)
THEOREM TlbCorrect == Spec => []TlbCoherent
<1>1. MapIInv => TlbCoherent
  BY DEF MapIInv, Coherent
<1> QED
  BY <1>1, MapInvariance, PTL

(* The walk of every page that was mapped ends at the frame it was last    *)
(* mapped to, in the directory and the table that init and map made.       *)
THEOREM WalkCorrect == Spec => []WalkExact
<1>1. ASSUME MapIInv, Paging, NEW v \in Page, v \div E < dirs * E - dirs
      PROVE  Walk(mem, v) = want[v]
  <2>1. dirs \in Dirs /\ WalkFinds
    BY <1>1 DEF MapIInv, MemType
  <2>2. ~Recursive(DirOf(v), EntryOf(v))
    BY <1>1, <2>1, RecursivePages
  <2>3. /\ DirOf(v) \in Directory /\ EntryOf(v) \in Index /\ v % E \in Index
        /\ v = At(DirOf(v), EntryOf(v), v % E)
    BY <2>1, PartsOfPage
  <2> QED
    BY <2>1, <2>2, <2>3 DEF WalkFinds
<1>2. MapIInv => WalkExact
  BY <1>1 DEF WalkExact
<1> QED
  BY <1>2, MapInvariance, PTL

(* As many tables as entries.                                              *)
LEMMA TablesApart ==
  ASSUME MemType, Structure
  PROVE  Cardinality(Tables) = Cardinality(Entries)
<1> DEFINE f == [x \in Entries |-> EntryAt(x[1], x[2])]
<1>1. IsFiniteSet(Entries)
  <2>1. dirs \in Nat /\ E \in Nat
    BY DirsSize, ESizes DEF MemType
  <2>2. IsFiniteSet(Directory) /\ IsFiniteSet(Index)
    BY <2>1, FS_Interval DEF Directory, Index
  <2>3. IsFiniteSet(Directory \X Index)
    BY <2>2, FS_Product
  <2> QED
    BY <2>3, FS_Subset DEF Entries
<1>2. Tables = {f[x] : x \in Entries}
  BY DEF Tables, EntryAt
<1>3. f \in Surjection(Entries, Tables)
  <2>1. f \in [Entries -> Tables]
    BY <1>2
  <2>2. \A t \in Tables : \E x \in Entries : f[x] = t
    BY <1>2
  <2> HIDE DEF f
  <2> QED
    BY <2>1, <2>2 DEF Surjection
<1>4. ASSUME NEW x \in Entries, NEW y \in Entries, f[x] = f[y] PROVE x = y
  <2>1. /\ x \in Directory \X Index /\ y \in Directory \X Index
        /\ EntryAt(x[1], x[2]) = EntryAt(y[1], y[2]) /\ EntryAt(x[1], x[2]) # None
    BY <1>4 DEF Entries, EntryAt
  <2>2. x[1] = y[1] /\ x[2] = y[2]
    BY <2>1 DEF Structure
  <2> QED
    BY <2>1, <2>2
<1>5. f \in Injection(Entries, Tables)
  <2> HIDE DEF f
  <2> QED
    BY <1>3, <1>4 DEF Injection, Surjection, IsInjective
<1> HIDE DEF f
<1> QED
  BY <1>1, <1>3, <1>5, FS_Surjection

(* A directory or table is in a frame of its own, which was taken from the *)
(* allocator and is not a page of anybody else.                            *)
THEOREM TablesCorrect == Spec => []TablesInv
<1>1. ASSUME MapIInv PROVE TypeOK
  BY <1>1 DEF MapIInv, MemType, FramesInv, Coherent, LoopInv, TypeOK
<1>2. ASSUME MapIInv, Paging PROVE TablesOwn
  <2>1. MemType /\ Structure /\ Owned
    BY <1>2 DEF MapIInv
  <2>2. \A v \in NewPages : want[v] \notin Tables
    <3>1. None \notin Tables
      BY <2>1, TablesAre, NewIsNotNone
    <3> QED
      BY <2>1, <3>1 DEF Owned
  <2> QED
    BY <2>1, <2>2, TablesApart DEF Owned, TablesOwn
<1>3. MapIInv => TablesInv
  BY <1>1, <1>2 DEF TablesInv, TablesOwn
<1> QED
  BY <1>3, MapInvariance, PTL

-----------------------------------------------------------------------------
(* The window: what its j-th page is mapped to.                            *)
W(j) == want[WindowPage[dirs] + j]

Filled == 0 .. va - 1

(* What is left of the regions is their end.                               *)
Reading ==
  /\ Len(left) <= Len(Regions)
  /\ \A i \in 1 .. Len(left) : left[i] = Regions[Len(Regions) - Len(left) + i]
  /\ pa # None => left[1][1] <= pa

(* Where platform::init is.                                                *)
Progress ==
  /\ phase \in {"start", "loader"} => pa = None /\ va = 0 /\ max_pa = 0 /\ left = Regions
  /\ phase = "running" => left = <<>> \/ va >= WindowLen \/ mem[map_at][0] # Junk

(* It fills the window from the start, with usable memory only.            *)
FilledSoFar ==
  \A j \in 0 .. WindowLen - 1 : IF j < va THEN W(j) \in Usable ELSE W(j) = None

(* Until it is full, what is not in it is in a region that is left.        *)
Remaining(f) ==
  \E i \in 1 .. Len(left) :
    left[i][1] <= f /\ f <= left[i][2] /\ (i = 1 /\ pa # None => pa <= f)

NothingLeftOut ==
  va < WindowLen => \A f \in Usable : (\E j \in Filled : W(j) = f) \/ Remaining(f)

(* On a map in order it grows in order, and has no gap below max_pa.       *)
InOrder ==
  Ascending =>
    /\ \A j, k \in Filled : j < k => W(j) < W(k)
    /\ \A j \in Filled : pa # None => W(j) < pa
    /\ \A j \in Filled, i \in 1 .. Len(left) : (i = 1 => pa = None) => W(j) < left[i][1]
    /\ \A f \in Usable : f < max_pa => \E j \in Filled : W(j) = f

Growing == Reading /\ FilledSoFar /\ NothingLeftOut /\ InOrder
WindowIInv == Progress /\ Growing

LEMMA LoopTypes ==
  ASSUME MapIInv
  PROVE  /\ va \in Nat /\ WindowLen \in Nat /\ va <= WindowLen /\ max_pa \in Nat /\ max_pa <= NFrames
         /\ NFrames \in Nat /\ None \notin Nat
         /\ pa # None => pa \in Nat /\ left # <<>>
         /\ Len(left) \in Nat /\ \A i \in 1 .. Len(left) : left[i][1] \in Nat /\ left[i][2] \in Int
         /\ left # <<>> => Len(left) >= 1 /\ Head(left) = left[1] /\ left[1][2] < NFrames
         /\ \A f \in Usable : f \in Frame /\ f \in Nat
<1>1. left \in Seq({r \in Nat \X Int : r[2] < NFrames})
  BY DEF MapIInv, LoopInv
<1>2. Len(left) \in Nat /\ \A i \in 1 .. Len(left) : left[i] \in {r \in Nat \X Int : r[2] < NFrames}
  BY <1>1
<1>3. \A i \in 1 .. Len(left) : left[i][1] \in Nat /\ left[i][2] \in Int /\ left[i][2] < NFrames
  BY <1>2
<1>4. left # <<>> => Len(left) >= 1 /\ Head(left) = left[1]
  BY <1>1
<1>5. ASSUME NEW f \in Usable PROVE f \in Frame /\ f \in Nat
  <2>1. PICK k \in DOMAIN Regions : f \in Regions[k][1] .. Regions[k][2]
    BY <1>5 DEF Usable
  <2>2. Regions[k] \in Nat \X Int /\ Regions[k][2] < NFrames
    BY <2>1, RegionsAssumption DEF ToSet
  <2>3. Regions[k][1] \in Nat /\ Regions[k][2] \in Int
    BY <2>2
  <2> QED
    BY <2>1, <2>2, <2>3, KernelMapAssumption DEF Frame
<1>6. WindowLen \in Nat /\ NFrames \in Nat /\ None \notin Nat
  BY LayoutAssumption, KernelMapAssumption
<1> QED
  BY <1>2, <1>3, <1>4, <1>5, <1>6 DEF MapIInv, LoopInv

(* A step outside of the loop.                                             *)
LEMMA GrowingUnchanged ==
  ASSUME Growing, UNCHANGED <<left, pa, va, max_pa>>, va \in Nat,
         \A j \in 0 .. WindowLen - 1 : W(j)' = W(j), va <= WindowLen, WindowLen \in Nat
  PROVE  Growing'
<1>1. \A j \in Filled : j \in 0 .. WindowLen - 1
  BY DEF Filled
<1>2. Filled' = Filled /\ \A j \in Filled : W(j)' = W(j)
  BY <1>1 DEF Filled
<1>3. Reading'
  BY DEF Growing, Reading
<1>4. FilledSoFar'
  BY DEF Growing, FilledSoFar
<1>5. NothingLeftOut'
  <2>1. \A f : Remaining(f)' = Remaining(f)
    BY DEF Remaining
  <2> QED
    BY <1>2, <2>1 DEF Growing, NothingLeftOut
<1>6. InOrder'
  BY <1>2 DEF Growing, InOrder
<1> QED
  BY <1>3, <1>4, <1>5, <1>6 DEF Growing

(* The window before the first region.                                     *)
LEMMA WindowEmpty ==
  ASSUME MapIInv, pa = None, va = 0, max_pa = 0, left = Regions,
         \A j \in 0 .. WindowLen - 1 : W(j) = None
  PROVE  Growing
<1>1. Len(Regions) \in Nat /\ Filled = {}
  BY RegionsAssumption DEF Filled
<1>2. Reading
  BY <1>1 DEF Reading
<1>3. FilledSoFar
  BY DEF FilledSoFar
<1>4. NothingLeftOut
  <2>1. ASSUME NEW f \in Usable PROVE Remaining(f)
    <3>1. PICK k \in DOMAIN Regions : f \in Regions[k][1] .. Regions[k][2]
      BY <2>1 DEF Usable
    <3>2. k \in 1 .. Len(Regions) /\ Regions[k][1] \in Nat /\ Regions[k][2] \in Int
      <4>1. k \in 1 .. Len(Regions)
        BY <3>1, RegionsAssumption
      <4> QED
        BY <4>1, LoopTypes
    <3> QED
      BY <3>1, <3>2 DEF Remaining
  <2> QED
    BY <2>1 DEF NothingLeftOut
<1>5. InOrder
  <2>1. \A f \in Usable : ~(f < max_pa)
    BY LoopTypes
  <2> QED
    BY <1>1, <2>1 DEF InOrder
<1> QED
  BY <1>2, <1>3, <1>4, <1>5 DEF Growing

LEMMA WindowStarts == Init => WindowIInv
<1> SUFFICES ASSUME Init PROVE WindowIInv
  OBVIOUS
<1>1. MapIInv
  BY MapStarts
<1>2. phase = "start" /\ pa = None /\ va = 0 /\ max_pa = 0 /\ left = Regions /\ want = [v \in Page |-> None]
  BY DEF Init
<1>3. Progress
  BY <1>2 DEF Progress
<1>4. ASSUME NEW j \in 0 .. WindowLen - 1 PROVE W(j) = None
  <2>1. j \in Nat /\ j < WindowLen /\ dirs \in Dirs
    BY <1>1, LoopTypes DEF MapIInv, MemType
  <2>2. WindowPage[dirs] + j \in Page
    BY <2>1, WindowPages
  <2> QED
    BY <1>2, <2>2 DEF W
<1> QED
  BY <1>1, <1>2, <1>3, <1>4, WindowEmpty DEF WindowIInv

(* The loader's calls of map are for pages above the window.               *)
LEMMA LoaderBesideWindow ==
  ASSUME MapIInv, WindowIInv, MmuInit \/ LoaderMap \/ EnterKernel
  PROVE  WindowIInv'
<1>1. /\ phase \in {"start", "loader"} /\ phase' \in {"loader", "kernel"}
      /\ UNCHANGED <<dirs, map_at, left, pa, va, max_pa>>
  BY DEF MmuInit, LoaderMap, EnterKernel
<1>2. Progress'
  BY <1>1 DEF WindowIInv, Progress, MmuInit, LoaderMap, EnterKernel
<1>3. dirs \in Dirs /\ want \in [Page -> Frame \cup {None}] /\ pa = None /\ va = 0 /\ max_pa = 0
  BY <1>1 DEF MapIInv, MemType, FramesInv, WindowIInv, Progress
<1>4. ASSUME NEW j \in 0 .. WindowLen - 1
      PROVE  /\ WindowPage[dirs] + j \in Page /\ WindowPage[dirs] + j \in Int
             /\ WindowPage[dirs] + j < VirtPage[dirs] /\ LowTables * E <= WindowPage[dirs] + j
  <2>1. j \in Nat /\ j < WindowLen
    BY LoopTypes
  <2> QED
    BY <1>3, <2>1, WindowPages
<1>5. ASSUME NEW j \in 0 .. WindowLen - 1 PROVE W(j) = None
  BY <1>3, <1>5 DEF WindowIInv, Growing, FilledSoFar
<1>6. ASSUME NEW j \in 0 .. WindowLen - 1 PROVE W(j)' = W(j)
  <2>1. CASE MmuInit
    <3>1. want' = [v \in Page |-> IF v < LowTables * E THEN v ELSE None]
      BY <2>1 DEF MmuInit
    <3>2. ~(WindowPage[dirs] + j < LowTables * E)
      <4>1. LowTables * E \in Nat
        BY <1>3, LowSizes
      <4> QED
        BY <1>4, <4>1
    <3> QED
      BY <1>1, <1>4, <1>5, <3>1, <3>2 DEF W
  <2>2. CASE LoaderMap
    <3>1. todo # <<>> /\ \E p : want' = [want EXCEPT ![Head(todo)[1]] = p]
      BY <2>2 DEF LoaderMap, MapPage
    <3>2. Head(todo)[1] >= VirtPage[dirs] /\ Head(todo)[1] \in Nat /\ VirtPage[dirs] \in Nat
      <4>1. Head(todo) \in Calls
        BY <3>1, PopList DEF MapIInv, TodoInv
      <4> QED
        BY <1>3, <4>1, LayoutAssumption DEF Calls, Page
    <3>3. Head(todo)[1] # WindowPage[dirs] + j
      BY <1>4, <3>2
    <3> QED
      BY <1>1, <1>3, <1>4, <3>1, <3>3 DEF W
  <2>3. CASE EnterKernel
    BY <2>3 DEF EnterKernel, W
  <2> QED
    BY <2>1, <2>2, <2>3
<1>7. Growing'
  BY <1>1, <1>6, LoopTypes, GrowingUnchanged DEF WindowIInv
<1> QED
  BY <1>2, <1>7 DEF WindowIInv

(* The steps between the frames of the window.                             *)
LEMMA WindowPasses ==
  ASSUME MapIInv, WindowIInv, NextRegion \/ MemInit \/ UNCHANGED vars \/ \E v \in Page : Touch(v)
  PROVE  WindowIInv'
<1>1. /\ UNCHANGED <<mem, dirs, map_at, want, left, va, max_pa>>
      /\ \A j : W(j)' = W(j)
  BY DEF NextRegion, VaNext, MemInit, vars, Touch, W
<1>2. CASE MemInit \/ UNCHANGED vars \/ \E v \in Page : Touch(v)
  <2>1. pa' = pa
    BY <1>2 DEF MemInit, vars, Touch
  <2>2. Progress'
    <3>1. CASE MemInit
      BY <3>1 DEF MemInit, Progress
    <3>2. CASE UNCHANGED vars \/ \E v \in Page : Touch(v)
      <4>1. phase' = phase
        BY <3>2 DEF vars, Touch
      <4> QED
        BY <1>1, <2>1, <4>1 DEF WindowIInv, Progress
    <3> QED
      BY <1>2, <3>1, <3>2
  <2> QED
    BY <1>1, <2>1, <2>2, LoopTypes, GrowingUnchanged DEF WindowIInv
<1>3. CASE NextRegion
  <2>1. pa = None /\ left # <<>> /\ va < WindowLen /\ pa' = Head(left)[1] /\ phase = "kernel" /\ phase' = "kernel"
    BY <1>3 DEF NextRegion
  <2>2. Len(left) >= 1 /\ pa' = left[1][1] /\ pa' \in Nat
    BY <2>1, LoopTypes
  <2>3. Reading' /\ FilledSoFar' /\ Progress'
    <3>1. left[1][1] \in Nat
      BY <2>2, LoopTypes
    <3>2. Reading'
      BY <1>1, <2>2, <3>1 DEF WindowIInv, Growing, Reading
    <3>3. FilledSoFar'
      BY <1>1 DEF WindowIInv, Growing, FilledSoFar
    <3>4. Progress'
      BY <2>1 DEF Progress
    <3> QED
      BY <3>2, <3>3, <3>4
  <2>4. Filled' = Filled
    BY <1>1 DEF Filled
  <2>5. NothingLeftOut'
    <3>1. \A f : Remaining(f) => Remaining(f)'
      BY <1>1, <2>2 DEF Remaining
    <3> QED
      BY <1>1, <2>4, <3>1 DEF WindowIInv, Growing, NothingLeftOut
  <2>6. InOrder'
    <3>1. Ascending => \A j \in Filled : W(j) < left[1][1]
      <4>1. 1 \in 1 .. Len(left)
        BY <2>2, LoopTypes
      <4> QED
        BY <2>1, <4>1 DEF WindowIInv, Growing, InOrder
    <3>2. Ascending => \A j \in Filled, i \in 1 .. Len(left) : W(j) < left[i][1]
      BY <2>1 DEF WindowIInv, Growing, InOrder
    <3> QED
      BY <1>1, <2>2, <2>4, <3>1, <3>2 DEF WindowIInv, Growing, InOrder
  <2> QED
    BY <2>3, <2>5, <2>6 DEF WindowIInv, Growing
<1> QED
  BY <1>2, <1>3

LEMMA RegionEnds ==
  ASSUME MapIInv, WindowIInv, EndRegion
  PROVE  WindowIInv'
<1>1. /\ phase = "kernel" /\ phase' = "kernel" /\ pa # None /\ pa' = None /\ left' = Tail(left)
      /\ pa > Head(left)[2] \/ ~(va < WindowLen)
      /\ UNCHANGED <<mem, dirs, map_at, want, va, max_pa>>
  BY DEF EndRegion, WindowLeft
<1>2. PICK n \in Nat : n = Len(left) /\ n >= 1 /\ pa \in Nat /\ Head(left) = left[1] /\ left[1][2] \in Int
  BY <1>1, LoopTypes
<1>3. Len(left') = n - 1 /\ \A i \in 1 .. n - 1 : left'[i] = left[i + 1]
  <2>1. left \in Seq({r \in Nat \X Int : r[2] < NFrames}) /\ left # <<>>
    BY <1>1, LoopTypes DEF MapIInv, LoopInv
  <2>2. Len(Tail(left)) = n - 1 /\ \A i \in 1 .. n - 1 : Tail(left)[i] = left[i + 1]
    BY <1>2, <2>1
  <2> QED
    BY <1>1, <2>2
<1>4. (\A j : W(j)' = W(j)) /\ Filled' = Filled
  BY <1>1 DEF W, Filled
<1>5. Progress' /\ FilledSoFar'
  BY <1>1, <1>4 DEF WindowIInv, Growing, FilledSoFar, Progress
<1>6. Reading'
  <2>1. PICK m \in Nat : m = Len(Regions)
    BY RegionsAssumption
  <2>2. n <= m /\ \A i \in 1 .. n : left[i] = Regions[m - n + i]
    BY <1>2, <2>1 DEF WindowIInv, Growing, Reading
  <2>3. ASSUME NEW i \in 1 .. n - 1 PROVE left'[i] = Regions[m - (n - 1) + i]
    <3>1. i + 1 \in 1 .. n /\ m - n + (i + 1) = m - (n - 1) + i
      BY <1>2, <2>1
    <3> QED
      BY <1>3, <2>2, <3>1
  <2>4. \A i \in 1 .. Len(left') : left'[i] = Regions[Len(Regions) - Len(left') + i]
    BY <1>3, <2>1, <2>3
  <2>5. Len(left') <= Len(Regions)
    BY <1>2, <1>3, <2>1, <2>2
  <2> QED
    BY <1>1, <2>4, <2>5 DEF Reading
<1>7. NothingLeftOut'
  <2> SUFFICES ASSUME va < WindowLen, NEW f \in Usable, ~\E j \in Filled : W(j) = f PROVE Remaining(f)'
    BY <1>1, <1>4 DEF NothingLeftOut
  <2>1. Remaining(f) /\ f \in Nat /\ va \in Nat /\ WindowLen \in Nat
    BY LoopTypes DEF WindowIInv, Growing, NothingLeftOut
  <2>2. PICK i \in 1 .. n : left[i][1] <= f /\ f <= left[i][2] /\ (i = 1 => pa <= f)
    BY <1>1, <1>2, <2>1 DEF Remaining
  <2>3. i # 1
    BY <1>1, <1>2, <2>1, <2>2
  <2>4. i - 1 \in 1 .. n - 1 /\ left'[i - 1] = left[i]
    BY <1>2, <1>3, <2>2, <2>3
  <2> QED
    BY <1>1, <1>3, <2>2, <2>4 DEF Remaining
<1>8. InOrder'
  <2>1. ASSUME Ascending, NEW j \in Filled, NEW i \in 1 .. n - 1 PROVE W(j) < left'[i][1]
    <3>1. i + 1 \in 1 .. Len(left) /\ i + 1 # 1
      BY <1>2
    <3> QED
      BY <1>3, <2>1, <3>1 DEF WindowIInv, Growing, InOrder
  <2> QED
    BY <1>1, <1>3, <1>4, <2>1 DEF WindowIInv, Growing, InOrder
<1> QED
  BY <1>5, <1>6, <1>7, <1>8 DEF WindowIInv, Growing

LEMMA WindowGrows ==
  ASSUME MapIInv, WindowIInv, MapFrameOfRegion
  PROVE  WindowIInv'
<1>1. /\ phase = "kernel" /\ phase' = "kernel" /\ pa # None /\ pa <= Head(left)[2] /\ va < WindowLen
      /\ pa' = pa + 1 /\ va' = va + 1
      /\ max_pa' = IF pa + 1 > max_pa THEN pa + 1 ELSE max_pa
      /\ want' = [want EXCEPT ![WindowPage[dirs] + va] = pa]
      /\ UNCHANGED <<dirs, map_at, left>>
  BY DEF MapFrameOfRegion, WindowLeft, MapPage
<1>2. /\ va \in Nat /\ WindowLen \in Nat /\ pa \in Nat /\ pa + 1 # None /\ max_pa \in Nat
      /\ Len(left) \in Nat /\ Len(left) >= 1 /\ Head(left) = left[1]
      /\ left[1][1] \in Nat /\ left[1][2] \in Int /\ left[1][1] <= pa
  <2>1. /\ va \in Nat /\ WindowLen \in Nat /\ pa \in Nat /\ None \notin Nat /\ max_pa \in Nat
        /\ Len(left) \in Nat /\ Len(left) >= 1 /\ Head(left) = left[1]
    BY <1>1, LoopTypes
  <2>2. 1 \in 1 .. Len(left)
    BY <2>1
  <2>3. left[1][1] \in Nat /\ left[1][2] \in Int
    BY <2>2, LoopTypes
  <2>4. left[1][1] <= pa
    BY <1>1 DEF WindowIInv, Growing, Reading
  <2>5. pa + 1 \in Nat
    BY <2>1
  <2> QED
    BY <2>1, <2>3, <2>4, <2>5
<1>3. \A j \in 0 .. WindowLen - 1 : W(j)' = IF j = va THEN pa ELSE W(j)
  <2> SUFFICES ASSUME NEW j \in 0 .. WindowLen - 1 PROVE W(j)' = IF j = va THEN pa ELSE W(j)
    OBVIOUS
  <2>1. dirs \in Dirs /\ want \in [Page -> Frame \cup {None}] /\ WindowPage[dirs] \in Nat
    BY LayoutAssumption DEF MapIInv, MemType, FramesInv
  <2>2. WindowPage[dirs] + j \in Page /\ WindowPage[dirs] + va \in Page
    BY <1>1, <1>2, <2>1, WindowPages
  <2>3. WindowPage[dirs] + j = WindowPage[dirs] + va <=> j = va
    BY <1>2, <2>1
  <2> QED
    BY <1>1, <2>1, <2>2, <2>3 DEF W
<1>4. PICK n \in Nat :
        /\ n = va /\ Filled' = Filled \cup {n} /\ W(n)' = pa
        /\ \A j \in Filled : W(j)' = W(j) /\ j \in Nat /\ j < n
  <2>1. PICK n \in Nat : n = va
    BY <1>2
  <2>2. Filled' = Filled \cup {n}
    <3>1. Filled' = 0 .. n /\ Filled = 0 .. n - 1
      BY <1>1, <1>2, <2>1 DEF Filled
    <3> QED
      BY <3>1
  <2>3. \A j \in Filled : j \in 0 .. WindowLen - 1 /\ j < n
    BY <1>1, <1>2, <2>1 DEF Filled
  <2>4. n \in 0 .. WindowLen - 1
    BY <1>1, <1>2, <2>1
  <2>5. W(n)' = pa /\ \A j \in Filled : W(j)' = W(j)
    BY <1>3, <2>1, <2>3, <2>4
  <2> QED
    BY <2>1, <2>2, <2>3, <2>5
<1>5. pa \in Usable
  <2>1. PICK k \in 1 .. Len(Regions) : left[1] = Regions[k]
    <3>1. Len(Regions) \in Nat /\ Len(left) <= Len(Regions) /\ left[1] = Regions[Len(Regions) - Len(left) + 1]
      BY <1>2, RegionsAssumption DEF WindowIInv, Growing, Reading
    <3>2. Len(Regions) - Len(left) + 1 \in 1 .. Len(Regions)
      BY <1>2, <3>1
    <3> QED
      BY <3>1, <3>2
  <2>2. pa \in Regions[k][1] .. Regions[k][2]
    BY <1>1, <1>2, <2>1
  <2>3. k \in DOMAIN Regions
    BY <2>1, RegionsAssumption
  <2> QED
    BY <2>2, <2>3 DEF Usable
<1>6. Progress'
  BY <1>1 DEF Progress
<1>7. Reading'
  BY <1>1, <1>2 DEF WindowIInv, Growing, Reading
<1>8. FilledSoFar'
  <2>1. ASSUME NEW j \in 0 .. WindowLen - 1
        PROVE  IF j < va + 1 THEN W(j)' \in Usable ELSE W(j)' = None
    <3>1. CASE j = va
      BY <1>2, <1>3, <1>5, <3>1
    <3>2. CASE j # va
      <4>1. j < va + 1 <=> j < va
        BY <1>2, <3>2
      <4>2. W(j)' = W(j)
        BY <1>3, <3>2
      <4> QED
        BY <4>1, <4>2 DEF WindowIInv, Growing, FilledSoFar
    <3> QED
      BY <3>1, <3>2
  <2> QED
    BY <1>1, <2>1 DEF FilledSoFar, Usable
<1>9. NothingLeftOut'
  <2> SUFFICES ASSUME va' < WindowLen, NEW f \in Usable, ~\E j \in Filled' : W(j)' = f PROVE Remaining(f)'
    BY DEF NothingLeftOut, Usable
  <2>1. f # pa /\ f \in Nat /\ ~\E j \in Filled : W(j) = f
    BY <1>4, LoopTypes
  <2>2. PICK i \in 1 .. Len(left) : left[i][1] <= f /\ f <= left[i][2] /\ (i = 1 => pa <= f)
    BY <1>1, <2>1 DEF WindowIInv, Growing, NothingLeftOut, Remaining
  <2>3. i = 1 => pa + 1 <= f
    BY <1>2, <2>1, <2>2
  <2> QED
    BY <1>1, <2>2, <2>3 DEF Remaining
<1>10. InOrder'
  <2> SUFFICES ASSUME Ascending
               PROVE  /\ \A j, k \in Filled' : j < k => W(j)' < W(k)'
                      /\ \A j \in Filled' : W(j)' < pa + 1
                      /\ \A j \in Filled', i \in 1 .. Len(left) : i # 1 => W(j)' < left[i][1]
                      /\ \A f \in Usable : f < max_pa' => \E j \in Filled' : W(j)' = f
    BY <1>1, <1>2 DEF InOrder, Ascending, Usable
  <2>1. /\ \A j, k \in Filled : j < k => W(j) < W(k)
        /\ \A j \in Filled : W(j) < pa
        /\ \A j \in Filled, i \in 1 .. Len(left) : i # 1 => W(j) < left[i][1]
        /\ \A f \in Usable : f < max_pa => \E j \in Filled : W(j) = f
    BY <1>1 DEF WindowIInv, Growing, InOrder
  <2>2. ASSUME NEW i \in 1 .. Len(left), i # 1 PROVE pa < left[i][1] /\ left[i][1] \in Nat
    <3>1. PICK m \in Nat : m = Len(Regions) - Len(left) /\ Len(Regions) \in Nat
      <4>1. Len(Regions) \in Nat /\ Len(left) <= Len(Regions)
        BY RegionsAssumption DEF WindowIInv, Growing, Reading
      <4>2. Len(Regions) - Len(left) \in Nat
        BY <1>2, <4>1
      <4> QED
        BY <4>1, <4>2
    <3>2. left[1] = Regions[m + 1] /\ left[i] = Regions[m + i]
      BY <1>2, <3>1 DEF WindowIInv, Growing, Reading
    <3>3. m + 1 \in DOMAIN Regions /\ m + i \in DOMAIN Regions /\ m + 1 < m + i
      <4>1. DOMAIN Regions = 1 .. Len(Regions)
        BY RegionsAssumption
      <4> QED
        BY <1>2, <2>2, <3>1, <4>1
    <3>4. left[1][2] < left[i][1] /\ left[i][1] \in Nat
      BY <3>2, <3>3, LoopTypes DEF Ascending
    <3> QED
      BY <1>1, <1>2, <3>4
  <2>3. \A j \in Filled : W(j) \in Nat
    <3>1. \A j \in Filled : j \in 0 .. WindowLen - 1
      BY <1>1, <1>2 DEF Filled
    <3> QED
      BY <1>4, <3>1, LoopTypes DEF WindowIInv, Growing, FilledSoFar
  <2>4. \A j, k \in Filled' : j < k => W(j)' < W(k)'
    BY <1>2, <1>4, <2>1, <2>3
  <2>5. \A j \in Filled' : W(j)' < pa + 1
    BY <1>2, <1>4, <2>1, <2>3
  <2>6. \A j \in Filled', i \in 1 .. Len(left) : i # 1 => W(j)' < left[i][1]
    BY <1>4, <2>1, <2>2
  <2>7. ASSUME NEW f \in Usable, f < max_pa' PROVE \E j \in Filled' : W(j)' = f
    <3>1. f \in Nat
      BY LoopTypes
    <3>2. CASE f < max_pa
      BY <1>4, <2>1, <3>2
    <3>3. CASE f = pa
      BY <1>4, <3>3
    <3>4. CASE ~(f < max_pa) /\ f # pa
      <4>1. f < pa
        BY <1>1, <1>2, <2>7, <3>1, <3>4
      <4>2. ~Remaining(f)
        <5> SUFFICES ASSUME NEW i \in 1 .. Len(left), left[i][1] <= f, i = 1 => pa <= f PROVE FALSE
          BY <1>1 DEF Remaining
        <5>1. i # 1
          BY <1>2, <3>1, <4>1
        <5>2. pa < left[i][1] /\ left[i][1] \in Nat
          BY <2>2, <5>1
        <5> QED
          BY <1>2, <3>1, <4>1, <5>2
      <4>3. \E j \in Filled : W(j) = f
        BY <1>1, <4>2 DEF WindowIInv, Growing, NothingLeftOut
      <4> QED
        BY <1>4, <4>3
    <3> QED
      BY <3>2, <3>3, <3>4
  <2> QED
    BY <2>4, <2>5, <2>6, <2>7
<1> QED
  BY <1>6, <1>7, <1>8, <1>9, <1>10 DEF WindowIInv, Growing

(* The invariant with what platform::init has mapped so far: the n-th      *)
(* usable frame of the map at the n-th page of the window.                 *)
THEOREM WindowInvariance == Spec => [](MapIInv /\ WindowIInv)
<1>1. MapIInv /\ WindowIInv /\ [Next]_vars => WindowIInv'
  BY LoaderBesideWindow, WindowPasses, RegionEnds, WindowGrows DEF Next
<1> QED
  BY <1>1, MapStarts, MapSteps, WindowStarts, PTL DEF Spec

(* Whatever the window's pages are mapped to is on one of them.            *)
LEMMA FilledPages ==
  ASSUME MapIInv, WindowIInv, NEW f \in Nat
  PROVE  /\ \A v \in InWindow(f) : \E j \in Filled : v = WindowPage[dirs] + j /\ W(j) = f
         /\ \A j \in Filled : W(j) = f => WindowPage[dirs] + j \in InWindow(f)
         /\ \A j \in Filled : W(j) \in Nat /\ j \in Nat
<1>1. /\ va \in Nat /\ WindowLen \in Nat /\ va <= WindowLen /\ None \notin Nat
      /\ WindowPage[dirs] \in Nat
  BY LoopTypes, LayoutAssumption DEF MapIInv, MemType
<1>2. ASSUME NEW v \in InWindow(f) PROVE \E j \in Filled : v = WindowPage[dirs] + j /\ W(j) = f
  <2>1. PICK j \in Int : j = v - WindowPage[dirs]
    BY <1>1 DEF InWindow, Window
  <2>2. j \in 0 .. WindowLen - 1 /\ v = WindowPage[dirs] + j
    BY <1>1, <2>1 DEF InWindow, Window
  <2>3. W(j) = f
    BY <2>2 DEF InWindow, W
  <2>4. j < va
    BY <1>1, <2>2, <2>3 DEF WindowIInv, Growing, FilledSoFar
  <2> QED
    BY <1>1, <2>2, <2>3, <2>4 DEF Filled
<1>3. ASSUME NEW j \in Filled PROVE WindowPage[dirs] + j \in Window /\ W(j) \in Nat /\ j \in Nat
  <2>1. j \in 0 .. WindowLen - 1 /\ j < va
    BY <1>1 DEF Filled
  <2>2. WindowPage[dirs] + j \in Window
    BY <1>1, <2>1 DEF Window
  <2>3. W(j) \in Usable
    BY <2>1 DEF WindowIInv, Growing, FilledSoFar
  <2> QED
    BY <2>1, <2>2, <2>3, LoopTypes
<1> QED
  BY <1>2, <1>3 DEF InWindow, W

LEMMA WindowIsRight ==
  ASSUME MapIInv, WindowIInv
  PROVE  WindowRight
<1>1. ASSUME Ascending PROVE Continuous
  <2> SUFFICES ASSUME NEW f \in Frame, InWindow(f) # {}, InWindow(f + 1) # {}
               PROVE  \E v \in InWindow(f) : v + 1 \in InWindow(f + 1)
    BY DEF Continuous
  <2>1. f \in Nat /\ f + 1 \in Nat /\ WindowPage[dirs] \in Nat
    BY LayoutAssumption DEF Frame, MapIInv, MemType
  <2>2. PICK j \in Filled : W(j) = f
    BY <2>1, FilledPages
  <2>3. PICK k \in Filled : W(k) = f + 1
    <3> HIDE DEF Filled
    <3>1. PICK g \in Nat : g = f + 1
      BY <2>1
    <3>2. \E k \in Filled : W(k) = g
      BY <3>1, FilledPages
    <3> QED
      BY <3>1, <3>2
  <2>4. \A i, l \in Filled : i < l => W(i) < W(l)
    BY <1>1 DEF WindowIInv, Growing, InOrder
  <2>5. j \in Nat /\ k \in Nat /\ va \in Nat /\ j < va /\ k < va
    BY LoopTypes DEF Filled
  <2>6. j < k
    <3>1. j # k /\ ~(k < j)
      BY <2>1, <2>2, <2>3, <2>4
    <3> QED
      BY <2>5, <3>1
  <2>7. k = j + 1
    <3> SUFFICES ASSUME j + 1 < k PROVE FALSE
      BY <2>5, <2>6
    <3>1. PICK i \in Filled : i = j + 1
      BY <2>5 DEF Filled
    <3>2. W(j) < W(i) /\ W(i) < W(k) /\ W(i) \in Nat
      <4>1. j < i /\ i < k
        BY <2>5, <3>1
      <4> QED
        BY <2>1, <2>4, <4>1, FilledPages
    <3> QED
      BY <2>1, <2>2, <2>3, <3>2
  <2>8. WindowPage[dirs] + j \in InWindow(f) /\ WindowPage[dirs] + k \in InWindow(f + 1)
    BY <2>1, <2>2, <2>3, FilledPages
  <2>9. (WindowPage[dirs] + j) + 1 = WindowPage[dirs] + k
    BY <2>1, <2>5, <2>7
  <2> QED
    BY <2>8, <2>9
<1>2. ASSUME Ascending PROVE PoolReachable
  <2> SUFFICES ASSUME NEW f \in (0 .. max_pa - 1) \ taken PROVE InWindow(f) # {}
    BY DEF PoolReachable
  <2>1. f \in Frame /\ f < max_pa /\ f \in Nat
    BY LoopTypes DEF Frame
  <2>2. f \in Usable
    BY <2>1 DEF MapIInv, FramesInv
  <2>3. \E j \in Filled : W(j) = f
    BY <1>2, <2>1, <2>2 DEF WindowIInv, Growing, InOrder
  <2> QED
    BY <2>1, <2>3, FilledPages
<1>3. ASSUME phase = "running", mem[map_at][0] = Junk
      PROVE  Cardinality(Window) = va \/ \A f \in Usable : InWindow(f) # {}
  <2>1. /\ left = <<>> \/ va >= WindowLen
        /\ va \in Nat /\ WindowLen \in Nat /\ va <= WindowLen
    BY <1>3, LoopTypes DEF WindowIInv, Progress
  <2>2. CASE va = WindowLen
    <3>1. PICK a \in Nat : a = WindowPage[dirs]
      BY LayoutAssumption DEF MapIInv, MemType
    <3>2. Cardinality(a .. a + WindowLen - 1) = WindowLen
      <4>1. PICK b \in Int : b = a + WindowLen - 1
        BY <2>1
      <4>2. Cardinality(a .. b) = IF a > b THEN 0 ELSE b - a + 1
        BY FS_Interval
      <4> QED
        BY <2>1, <4>1, <4>2
    <3> QED
      BY <2>2, <3>1, <3>2 DEF Window
  <2>3. CASE va # WindowLen
    <3>1. left = <<>> /\ va < WindowLen
      BY <2>1, <2>3
    <3>2. \A f : ~Remaining(f)
      BY <3>1 DEF Remaining
    <3>3. ASSUME NEW f \in Usable PROVE InWindow(f) # {}
      BY <3>1, <3>2, LoopTypes, FilledPages DEF WindowIInv, Growing, NothingLeftOut
    <3> QED
      BY <3>3
  <2> QED
    BY <2>2, <2>3
<1>4. ASSUME mem[map_at][0] # Junk PROVE map_at \in Usable \ Reserved
  <2>1. map_at \in Frame /\ 0 \in Index
    BY KernelMapAssumption DEF MapIInv, FramesInv, Index
  <2>2. CASE Paging
    <3>1. map_at \in Tables
      BY <1>4, <2>1, <2>2 DEF MapIInv, Owned
    <3> QED
      BY <2>2, <3>1 DEF MapIInv, Owned
  <2>3. CASE ~Paging
    BY <1>4, <2>1, <2>3 DEF MapIInv, Blank
  <2> QED
    BY <2>2, <2>3
<1>5. PpsMapped
  <2> SUFFICES ASSUME phase \in {"kernel", "running"}, NEW f \in 0 .. max_pa - 1
               PROVE  want[PpsPage + f \div Structs] \in Frame
    BY DEF PpsMapped
  <2>1. PICK n \in Nat : n = NFrames /\ f \in Nat /\ f <= n
    BY LoopTypes
  <2>2. Structs \in Nat \ {0}
    BY KernelMapAssumption
  <2>3. f \div Structs \in 0 .. PpsPages - 1
    <3>1. f \div Structs \in Nat /\ n \div Structs \in Nat
      BY <2>1, <2>2, DivMod
    <3>2. f \div Structs <= n \div Structs
      BY <2>1, <2>2, DivMonotone
    <3> QED
      BY <2>1, <3>1, <3>2 DEF PpsPages
  <2>4. PpsPage + f \div Structs \in NewPages
    BY <2>3 DEF NewPages
  <2>5. want[PpsPage + f \div Structs] # None
    <3>1. todo = <<>>
      BY DEF MapIInv, TodoInv
    <3>2. \A c : c \notin ToSet(todo)
      BY <3>1, EmptyList
    <3> QED
      BY <2>4, <3>2 DEF MapIInv, TodoInv
  <2>6. PpsPage + f \div Structs \in Page
    BY <2>4, NewPagesAre DEF MapIInv, MemType
  <2> QED
    BY <2>5, <2>6 DEF MapIInv, FramesInv
<1> QED
  BY <1>1, <1>2, <1>3, <1>4, <1>5 DEF WindowRight, Complete

(* When platform::init is done the window reaches every frame it counts,   *)
(* once, and the page lists get no frame beyond it.                        *)
THEOREM WindowCorrect == Spec => []WindowRight
<1> QED
  BY WindowInvariance, WindowIsRight, PTL
=============================================================================
