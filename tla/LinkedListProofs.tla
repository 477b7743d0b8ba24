-------------------------- MODULE LinkedListProofs --------------------------
(***************************************************************************)
(* For any heads, nodes and callers: the pointers of linked_list.h always  *)
(* spell the sequences that the other modules use.                         *)
(***************************************************************************)
EXTENDS LinkedList, ListLemmas, FiniteSetTheorems

(* The n cells behind t[0] in the order of next, with prev back to t[0],   *)
(* which is its own prev: a head and its nodes, or a list that was taken.  *)
Chain(l, n, t) ==
  /\ n \in Nat
  /\ t \in [0 .. n -> Cell]
  /\ \A i, j \in 0 .. n : t[i] = t[j] => i = j
  /\ \A i \in 1 .. n : t[i] \in Node
  /\ l[t[0]].prev = t[0]
  /\ \A i \in 1 .. n : l[t[i]].prev = t[i - 1] /\ l[t[i - 1]].next = t[i]
  /\ l[t[n]].next = NULL

(* A chain has no more cells than there are: Steps are enough for a walk.  *)
LEMMA ChainLength ==
  ASSUME NEW l, NEW n, NEW t, Chain(l, n, t)
  PROVE  Steps \in Nat /\ n < Steps
<1> USE DEF Chain
<1>1. IsFiniteSet(Cell)
  BY LinkedListAssumption
<1>2. t \in Injection(0 .. n, Cell)
  BY DEF Injection, IsInjective
<1>3. Cardinality(0 .. n) <= Cardinality(Cell)
  BY <1>1, <1>2, FS_Injection
<1>4. Cardinality(0 .. n) = n + 1
  BY FS_Interval
<1>5. Cardinality(Cell) \in Nat
  BY <1>1, FS_CardinalityType
<1> QED
  BY <1>3, <1>4, <1>5 DEF Steps

(* Forwards: from any cell of a chain next leads to those behind it.       *)
LEMMA AfterChain ==
  ASSUME NEW l, NEW n, NEW t, Chain(l, n, t), NEW k \in 0 .. n
  PROVE  After(l, t[k]) = [i \in 1 .. n - k |-> t[i + k]]
<1>1. /\ n \in Nat /\ t \in [0 .. n -> Cell] /\ k \in Nat /\ k <= n
      /\ \A i \in 1 .. n : l[t[i - 1]].next = t[i]
      /\ l[t[n]].next = NULL
      /\ \A i \in 0 .. n : t[i] # NULL
      /\ Steps \in Nat /\ n < Steps
  <2>1. n \in Nat /\ t \in [0 .. n -> Cell]
    BY DEF Chain
  <2>2. k \in Nat /\ k <= n
    BY <2>1
  <2>3. \A i \in 0 .. n : t[i] # NULL
    BY <2>1, LinkedListAssumption
  <2>4. Steps \in Nat /\ n < Steps
    BY ChainLength
  <2> QED
    BY <2>1, <2>2, <2>3, <2>4 DEF Chain
<1>a. n \in Nat /\ k \in Nat /\ k <= n
  BY <1>1
<1> PICK steps \in Nat : steps = Steps
  BY <1>1
<1> DEFINE Walk(f) == f = [m \in 0 .. steps |->
                             IF m = 0 THEN t[k]
                             ELSE IF f[m - 1] = NULL THEN NULL ELSE l[f[m - 1]].next]
           at == CHOOSE f : Walk(f)
           reached(m) == IF m <= n - k THEN t[m + k] ELSE NULL
<1>2. \A m \in 1 .. steps :
        reached(m) = IF reached(m - 1) = NULL THEN NULL ELSE l[reached(m - 1)].next
  <2> SUFFICES ASSUME NEW m \in 1 .. steps
               PROVE  reached(m) = IF reached(m - 1) = NULL THEN NULL ELSE l[reached(m - 1)].next
    OBVIOUS
  <2>1. CASE m <= n - k
    <3>1. m + k \in 1 .. n /\ (m - 1) + k = (m + k) - 1 /\ m - 1 <= n - k
      BY <1>1, <2>1
    <3>2. l[t[(m + k) - 1]].next = t[m + k] /\ t[(m + k) - 1] # NULL
      BY <1>1, <3>1
    <3> QED
      BY <2>1, <3>1, <3>2
  <2>2. CASE m = n - k + 1
    <3>1. m - 1 = n - k /\ (m - 1) + k = n /\ ~(m <= n - k) /\ m - 1 <= n - k
      BY <1>a, <2>2
    <3> QED
      BY <1>1, <3>1
  <2>3. CASE m > n - k + 1
    BY <1>1, <2>3
  <2> QED
    BY <1>1, <2>1, <2>2, <2>3
<1>3. Walk(at)
  <2> DEFINE f == [m \in 0 .. steps |-> reached(m)]
  <2>1. reached(0) = t[k]
    BY <1>1
  <2> HIDE DEF reached
  <2>2. \A m \in 0 .. steps :
          f[m] = IF m = 0 THEN t[k] ELSE IF f[m - 1] = NULL THEN NULL ELSE l[f[m - 1]].next
    BY <1>2, <2>1
  <2>3. Walk(f)
    BY <2>2
  <2> HIDE DEF f, Walk
  <2> QED
    BY <2>3
<1> HIDE DEF at
<1>4. /\ at[0] = t[k]
      /\ \A m \in 1 .. steps : at[m] = IF at[m - 1] = NULL THEN NULL ELSE l[at[m - 1]].next
  BY <1>3
<1>5. \A m \in 0 .. steps : at[m] = reached(m)
  <2> DEFINE T == {m \in 0 .. steps : at[m] = reached(m)}
  <2>1. 0 \in T
    BY <1>1, <1>4
  <2>2. \A m \in 1 .. steps : m - 1 \in T => m \in T
    <3> HIDE DEF reached
    <3> QED
      BY <1>2, <1>4
  <2>3. \A m \in 0 .. steps : m \in T
    <3> HIDE DEF T
    <3> QED
      BY <2>1, <2>2, UpTo
  <2> QED
    BY <2>3
<1>6. {m \in 1 .. steps : at[m] # NULL} = 1 .. n - k
  <2>1. \A m \in 1 .. steps : at[m] # NULL <=> m <= n - k
    <3> SUFFICES ASSUME NEW m \in 1 .. steps PROVE at[m] # NULL <=> m <= n - k
      OBVIOUS
    <3>1. at[m] = reached(m)
      BY <1>5
    <3>2. CASE m <= n - k
      BY <1>1, <3>1, <3>2
    <3>3. CASE ~(m <= n - k)
      BY <3>1, <3>3
    <3> QED
      BY <3>2, <3>3
  <2> QED
    BY <1>1, <2>1
<1>7. Cardinality(1 .. n - k) = n - k
  <2>1. n - k \in Int /\ (1 > n - k <=> n - k = 0)
    BY <1>a
  <2>2. Cardinality(1 .. n - k) = IF 1 > n - k THEN 0 ELSE (n - k) - 1 + 1
    BY <2>1, FS_Interval
  <2> QED
    BY <1>a, <2>1, <2>2
<1>8. After(l, t[k]) = [m \in 1 .. Cardinality({m \in 1 .. steps : at[m] # NULL}) |-> at[m]]
  BY DEF After, at
<1>9. [m \in 1 .. n - k |-> at[m]] = [i \in 1 .. n - k |-> t[i + k]]
  <2>1. \A m \in 1 .. n - k : at[m] = t[m + k]
    BY <1>1, <1>5
  <2> QED
    BY <2>1
<1> QED
  BY <1>6, <1>7, <1>8, <1>9

(* Backwards: from any cell prev leads to the first.                       *)
LEMMA BeginChain ==
  ASSUME NEW l, NEW n, NEW t, Chain(l, n, t), NEW k \in 0 .. n
  PROVE  list_begin(l, t[k]) = t[0]
<1>1. /\ n \in Nat /\ k \in Nat /\ k <= n
      /\ \A i \in 1 .. n : l[t[i]].prev = t[i - 1]
      /\ l[t[0]].prev = t[0]
      /\ Steps \in Nat /\ n < Steps
  <2>1. n \in Nat
    BY DEF Chain
  <2>2. k \in Nat /\ k <= n
    BY <2>1
  <2>3. Steps \in Nat /\ n < Steps
    BY ChainLength
  <2> QED
    BY <2>1, <2>2, <2>3 DEF Chain
<1> PICK steps \in Nat : steps = Steps
  BY <1>1
<1> DEFINE Walk(f) == f = [m \in 0 .. steps |-> IF m = 0 THEN t[k] ELSE l[f[m - 1]].prev]
           at == CHOOSE f : Walk(f)
           reached(m) == IF m <= k THEN t[k - m] ELSE t[0]
<1>2. reached(0) = t[k] /\ \A m \in 1 .. steps : reached(m) = l[reached(m - 1)].prev
  <2>1. reached(0) = t[k]
    BY <1>1
  <2> SUFFICES ASSUME NEW m \in 1 .. steps PROVE reached(m) = l[reached(m - 1)].prev
    BY <2>1
  <2>2. CASE m <= k
    <3>1. k - (m - 1) \in 1 .. n /\ k - m = (k - (m - 1)) - 1 /\ m - 1 <= k
      BY <1>1, <2>2
    <3> QED
      BY <1>1, <2>2, <3>1
  <2>3. CASE ~(m <= k)
    <3>1. reached(m) = t[0] /\ reached(m - 1) = t[0]
      BY <1>1, <2>3
    <3> QED
      BY <1>1, <3>1
  <2> QED
    BY <2>2, <2>3
<1>3. Walk(at)
  <2> DEFINE f == [m \in 0 .. steps |-> reached(m)]
  <2> HIDE DEF reached
  <2>1. \A m \in 0 .. steps : f[m] = IF m = 0 THEN t[k] ELSE l[f[m - 1]].prev
    <3> SUFFICES ASSUME NEW m \in 0 .. steps
                 PROVE  f[m] = IF m = 0 THEN t[k] ELSE l[f[m - 1]].prev
      OBVIOUS
    <3>1. CASE m = 0
      BY <1>2, <3>1
    <3>2. CASE m # 0
      <4>1. m \in 1 .. steps /\ m - 1 \in 0 .. steps
        BY <3>2
      <4> QED
        BY <1>2, <3>2, <4>1
    <3> QED
      BY <3>1, <3>2
  <2>2. Walk(f)
    BY <2>1
  <2> HIDE DEF f, Walk
  <2> QED
    BY <2>2
<1> HIDE DEF at
<1>4. at[0] = t[k] /\ \A m \in 1 .. steps : at[m] = l[at[m - 1]].prev
  BY <1>3
<1>5. \A m \in 0 .. steps : at[m] = reached(m)
  <2> DEFINE T == {m \in 0 .. steps : at[m] = reached(m)}
  <2> HIDE DEF reached
  <2>1. 0 \in T /\ \A m \in 1 .. steps : m - 1 \in T => m \in T
    BY <1>2, <1>4
  <2>2. \A m \in 0 .. steps : m \in T
    <3> HIDE DEF T
    <3> QED
      BY <2>1, UpTo
  <2> QED
    BY <2>2
<1>6. list_begin(l, t[k]) = at[steps]
  BY DEF list_begin, at
<1> QED
  BY <1>1, <1>5, <1>6

-----------------------------------------------------------------------------
(* What the operations do to a chain.                                      *)
Cells(n, t) == {t[i] : i \in 0 .. n}

Grown(n, t, k, x) ==
  [i \in 0 .. n + 1 |-> IF i <= k THEN t[i] ELSE IF i = k + 1 THEN x ELSE t[i - 1]]

Shrunk(n, t, k) == [i \in 0 .. n - 1 |-> IF i < k THEN t[i] ELSE t[i + 1]]

(* A chain is made of the pointers of its cells and no others.             *)
LEMMA ChainSame ==
  ASSUME NEW l, NEW m, NEW n, NEW t, Chain(l, n, t), \A y \in Cells(n, t) : m[y] = l[y]
  PROVE  Chain(m, n, t)
<1>1. n \in Nat
  BY DEF Chain
<1>2. \A i \in 0 .. n : m[t[i]] = l[t[i]]
  BY DEF Cells
<1>3. \A i \in 1 .. n : i - 1 \in 0 .. n /\ i \in 0 .. n
  BY <1>1
<1> QED
  BY <1>1, <1>2, <1>3 DEF Chain

LEMMA AppendLinks ==
  ASSUME NEW l \in Links, NEW at \in Cell, NEW x \in Cell, x # at,
         l[at].next # at, l[at].next # x
  PROVE  /\ list_append(l, at, x) \in Links
         /\ list_append(l, at, x)[x] = [prev |-> at, next |-> l[at].next]
         /\ list_append(l, at, x)[at] = [prev |-> l[at].prev, next |-> x]
         /\ l[at].next # NULL
              => list_append(l, at, x)[l[at].next] = [prev |-> x, next |-> l[l[at].next].next]
         /\ \A y \in Cell \ {x, at, l[at].next} : list_append(l, at, x)[y] = l[y]
<1> PICK b : b = l[at].next
  OBVIOUS
<1> DEFINE m == IF b # NULL THEN [l EXCEPT ![b].prev = x] ELSE l
<1>1. b \in Cell \cup {NULL} /\ l[at] \in [prev : Cell \cup {NULL}, next : Cell \cup {NULL}]
  BY DEF Links
<1>2. /\ m \in Links /\ m[at] = l[at]
      /\ b # NULL => m[b] = [prev |-> x, next |-> l[b].next]
      /\ \A y \in Cell \ {b} : m[y] = l[y]
  BY <1>1, LinkedListAssumption DEF Links
<1>3. list_append(l, at, x) = [m EXCEPT ![x] = [prev |-> at, next |-> m[at].next], ![at].next = x]
  BY DEF list_append
<1> HIDE DEF m
<1> QED
  BY <1>1, <1>2, <1>3 DEF Links

(* list_append behind the k-th cell, of a node that was on no list, with   *)
(* whatever pointers.                                                      *)
LEMMA ChainAppend ==
  ASSUME NEW l \in Links, NEW n, NEW t, Chain(l, n, t), NEW k \in 0 .. n,
         NEW x \in Node, x \notin Cells(n, t),
         NEW p \in Links, \A y \in Cell \ {x} : p[y] = l[y]
  PROVE  LET m == list_append(p, t[k], x)
         IN /\ m \in Links
            /\ Chain(m, n + 1, Grown(n, t, k, x))
            /\ \A y \in Cell \ (Cells(n, t) \cup {x}) : m[y] = l[y]
<1>1. /\ n \in Nat /\ t \in [0 .. n -> Cell]
      /\ \A i, j \in 0 .. n : t[i] = t[j] => i = j
      /\ \A i \in 1 .. n : t[i] \in Node
      /\ l[t[0]].prev = t[0]
      /\ \A i \in 1 .. n : l[t[i]].prev = t[i - 1] /\ l[t[i - 1]].next = t[i]
      /\ l[t[n]].next = NULL
  BY DEF Chain
<1>n. n \in Nat /\ k \in Nat /\ k <= n
  BY <1>1
<1>2. \A i \in 0 .. n : t[i] \in Cell /\ t[i] # x /\ t[i] # NULL
  BY <1>1, LinkedListAssumption DEF Cells
<1> PICK at : at = t[k]
  OBVIOUS
<1> PICK b : b = l[at].next
  OBVIOUS
<1>3. b = IF k = n THEN NULL ELSE t[k + 1]
  <2>1. CASE k = n
    BY <1>1, <2>1
  <2>2. CASE k # n
    <3>1. k + 1 \in 1 .. n /\ (k + 1) - 1 = k
      BY <1>n, <2>2
    <3>2. l[t[(k + 1) - 1]].next = t[k + 1]
      BY <1>1, <3>1
    <3> QED
      BY <2>2, <3>1, <3>2
  <2> QED
    BY <2>1, <2>2
<1>4. at \in Cell /\ at # x /\ b # x /\ b # at /\ x \in Cell
  <2>1. at \in Cell /\ at # x /\ at # NULL /\ x \in Cell /\ x # NULL
    BY <1>2, LinkedListAssumption DEF Cell
  <2>2. CASE k = n
    BY <1>3, <2>1, <2>2
  <2>3. CASE k # n
    <3>1. k + 1 \in 0 .. n /\ k + 1 # k
      BY <1>n, <2>3
    <3> QED
      BY <1>1, <1>2, <1>3, <2>1, <2>3, <3>1
  <2> QED
    BY <2>2, <2>3
<1>5. p[at] = l[at] /\ (b # NULL => p[b] = l[b])
  BY <1>2, <1>3, <1>4, <1>n
<1> DEFINE m == list_append(p, at, x)
<1>6. /\ m \in Links
      /\ m[x] = [prev |-> at, next |-> b]
      /\ m[at] = [prev |-> l[at].prev, next |-> x]
      /\ b # NULL => m[b] = [prev |-> x, next |-> l[b].next]
      /\ \A y \in Cell \ {x, at, b} : m[y] = l[y]
  <2>1. p[at].next = b
    BY <1>5
  <2>2. /\ m \in Links
        /\ m[x] = [prev |-> at, next |-> p[at].next]
        /\ m[at] = [prev |-> p[at].prev, next |-> x]
        /\ p[at].next # NULL => m[p[at].next] = [prev |-> x, next |-> p[p[at].next].next]
        /\ \A y \in Cell \ {x, at, p[at].next} : m[y] = p[y]
    BY <1>4, <2>1, AppendLinks
  <2> HIDE DEF m
  <2>3. \A y \in Cell \ {x, at, b} : m[y] = l[y]
    BY <2>1, <2>2
  <2> QED
    BY <1>5, <2>1, <2>2, <2>3
<1> HIDE DEF m
<1> DEFINE g == Grown(n, t, k, x)
<1>7. /\ g \in [0 .. n + 1 -> Cell]
      /\ \A i \in 0 .. k : g[i] = t[i]
      /\ g[k + 1] = x
      /\ \A i \in k + 2 .. n + 1 : g[i] = t[i - 1] /\ i - 1 \in 0 .. n
  <2>1. \A i \in 0 .. n + 1 : ~(i <= k) /\ i # k + 1 => i - 1 \in 0 .. n
    BY <1>n
  <2>2. \A i \in 0 .. n + 1 : i <= k => i \in 0 .. n
    BY <1>n
  <2>3. k + 1 \in 0 .. n + 1 /\ ~(k + 1 <= k)
    BY <1>n
  <2>4. g \in [0 .. n + 1 -> Cell]
    BY <1>2, <1>4, <2>1, <2>2 DEF Grown
  <2>5. \A i \in 0 .. k : i \in 0 .. n + 1 /\ i <= k
    BY <1>n
  <2>6. \A i \in k + 2 .. n + 1 : i \in 0 .. n + 1 /\ ~(i <= k) /\ i # k + 1
    BY <1>n
  <2> QED
    BY <2>1, <2>3, <2>4, <2>5, <2>6 DEF Grown
<1> HIDE DEF g
<1>8. \A i, j \in 0 .. n + 1 : g[i] = g[j] => i = j
  <2> DEFINE src(i) == IF i <= k THEN i ELSE i - 1
  <2>1. \A i \in 0 .. n + 1 : i # k + 1 => src(i) \in 0 .. n /\ g[i] = t[src(i)]
    <3> SUFFICES ASSUME NEW i \in 0 .. n + 1, i # k + 1 PROVE src(i) \in 0 .. n /\ g[i] = t[src(i)]
      OBVIOUS
    <3>1. CASE i <= k
      BY <1>7, <1>n, <3>1
    <3>2. CASE ~(i <= k)
      <4>1. i \in k + 2 .. n + 1
        BY <1>n, <3>2
      <4> QED
        BY <1>7, <3>2, <4>1
    <3> QED
      BY <3>1, <3>2
  <2>2. \A i, j \in 0 .. n + 1 : i # k + 1 /\ j # k + 1 /\ src(i) = src(j) => i = j
    BY <1>n
  <2> HIDE DEF src
  <2>3. \A i, j \in 0 .. n + 1 : i # k + 1 /\ j # k + 1 /\ g[i] = g[j] => i = j
    BY <1>1, <2>1, <2>2
  <2>4. \A i \in 0 .. n + 1 : i # k + 1 => g[i] # g[k + 1]
    BY <1>2, <1>7, <2>1
  <2> QED
    BY <2>3, <2>4
<1>9. \A i \in 1 .. n + 1 : g[i] \in Node
  <2> SUFFICES ASSUME NEW i \in 1 .. n + 1 PROVE g[i] \in Node
    OBVIOUS
  <2>1. CASE i <= k
    <3>1. i \in 0 .. k /\ i \in 1 .. n
      BY <1>n, <2>1
    <3> QED
      BY <1>1, <1>7, <3>1
  <2>2. CASE i = k + 1
    BY <1>7, <2>2
  <2>3. CASE i > k + 1
    <3>1. i \in k + 2 .. n + 1 /\ i - 1 \in 1 .. n
      BY <1>n, <2>3
    <3> QED
      BY <1>1, <1>7, <3>1
  <2> QED
    BY <1>n, <2>1, <2>2, <2>3
<1>10. m[g[0]].prev = g[0]
  <2>1. g[0] = t[0] /\ t[0] \in Cell /\ 0 \in 0 .. n
    BY <1>2, <1>7, <1>n
  <2>2. b # t[0]
    <3>1. CASE k = n
      BY <1>2, <1>3, <2>1, <3>1
    <3>2. CASE k # n
      <4>1. k + 1 \in 0 .. n /\ k + 1 # 0
        BY <1>n, <3>2
      <4> QED
        BY <1>1, <1>3, <2>1, <3>2, <4>1
    <3> QED
      BY <3>1, <3>2
  <2>3. t[0] # x
    BY <1>2, <2>1
  <2>4. CASE t[0] = at
    BY <1>1, <1>6, <2>1, <2>4
  <2>5. CASE t[0] # at
    BY <1>1, <1>6, <2>1, <2>2, <2>3, <2>5
  <2> QED
    BY <2>4, <2>5
<1>11. \A i \in 1 .. n + 1 : m[g[i]].prev = g[i - 1] /\ m[g[i - 1]].next = g[i]
  <2> SUFFICES ASSUME NEW i \in 1 .. n + 1
               PROVE  m[g[i]].prev = g[i - 1] /\ m[g[i - 1]].next = g[i]
    OBVIOUS
  <2>1. CASE i <= k
    <3>1. i \in 1 .. n /\ i \in 0 .. k /\ i - 1 \in 0 .. k /\ i - 1 \in 0 .. n /\ i \in 0 .. n
          /\ i - 1 # k /\ k \in 0 .. n
      BY <1>n, <2>1
    <3>2. g[i] = t[i] /\ g[i - 1] = t[i - 1]
      BY <1>7, <3>1
    <3>3. b # t[i] /\ b # t[i - 1]
      <4>1. CASE k = n
        BY <1>2, <1>3, <3>1, <4>1
      <4>2. CASE k # n
        <5>1. k + 1 \in 0 .. n /\ k + 1 # i /\ k + 1 # i - 1
          BY <1>n, <2>1, <4>2
        <5> QED
          BY <1>1, <1>3, <3>1, <4>2, <5>1
      <4> QED
        BY <4>1, <4>2
    <3>4. t[i - 1] # at
      BY <1>1, <3>1
    <3>5. m[t[i - 1]] = l[t[i - 1]]
      BY <1>2, <1>6, <3>1, <3>3, <3>4
    <3>6. m[t[i]].prev = l[t[i]].prev
      <4>1. CASE t[i] = at
        BY <1>6, <4>1
      <4>2. CASE t[i] # at
        BY <1>2, <1>6, <3>1, <3>3, <4>2
      <4> QED
        BY <4>1, <4>2
    <3> QED
      BY <1>1, <3>1, <3>2, <3>5, <3>6
  <2>2. CASE i = k + 1
    <3>1. i - 1 = k /\ k \in 0 .. k
      BY <1>n, <2>2
    <3>2. g[i] = x /\ g[i - 1] = at
      BY <1>7, <2>2, <3>1
    <3> QED
      BY <1>6, <3>2
  <2>3. CASE i = k + 2
    <3>1. i \in k + 2 .. n + 1 /\ i - 1 = k + 1 /\ k # n
      BY <1>n, <2>3
    <3>2. g[i] = b /\ g[i - 1] = x /\ b # NULL
      <4>1. k + 1 \in 0 .. n
        BY <1>n, <3>1
      <4> QED
        BY <1>2, <1>3, <1>7, <3>1, <4>1
    <3> QED
      BY <1>6, <3>2
  <2>4. CASE i > k + 2
    <3>1. /\ i \in k + 2 .. n + 1 /\ i - 1 \in k + 2 .. n + 1
          /\ i - 1 \in 1 .. n /\ i - 1 \in 0 .. n /\ (i - 1) - 1 \in 0 .. n
          /\ k \in 0 .. n /\ k + 1 \in 0 .. n
          /\ i - 1 # k /\ i - 1 # k + 1 /\ (i - 1) - 1 # k /\ k # n
      BY <1>n, <2>4
    <3>2. g[i] = t[i - 1] /\ g[i - 1] = t[(i - 1) - 1]
      BY <1>7, <3>1
    <3>3. t[i - 1] # at /\ t[i - 1] # b /\ t[(i - 1) - 1] # at
      BY <1>1, <1>3, <3>1
    <3>4. m[t[i - 1]] = l[t[i - 1]]
      BY <1>2, <1>6, <3>1, <3>3
    <3>5. m[t[(i - 1) - 1]].next = l[t[(i - 1) - 1]].next
      <4>1. CASE t[(i - 1) - 1] = b
        BY <1>2, <1>6, <3>1, <4>1
      <4>2. CASE t[(i - 1) - 1] # b
        BY <1>2, <1>6, <3>1, <3>3, <4>2
      <4> QED
        BY <4>1, <4>2
    <3> QED
      BY <1>1, <3>1, <3>2, <3>4, <3>5
  <2> QED
    BY <1>n, <2>1, <2>2, <2>3, <2>4
<1>12. m[g[n + 1]].next = NULL
  <2>1. CASE k = n
    <3>1. g[n + 1] = x
      BY <1>7, <2>1
    <3> QED
      BY <1>3, <1>6, <2>1, <3>1
  <2>2. CASE k # n
    <3>1. n + 1 \in k + 2 .. n + 1 /\ (n + 1) - 1 = n /\ n \in 0 .. n /\ k \in 0 .. n /\ k + 1 \in 0 .. n
      BY <1>n, <2>2
    <3>2. g[n + 1] = t[n] /\ t[n] # at /\ t[n] # x /\ t[n] \in Cell
      BY <1>1, <1>2, <1>7, <2>2, <3>1
    <3>3. CASE t[n] = b
      BY <1>1, <1>2, <1>6, <3>1, <3>2, <3>3
    <3>4. CASE t[n] # b
      BY <1>1, <1>6, <3>2, <3>4
    <3> QED
      BY <3>3, <3>4
  <2> QED
    BY <2>1, <2>2
<1>13. \A y \in Cell \ (Cells(n, t) \cup {x}) : m[y] = l[y]
  <2> SUFFICES ASSUME NEW y \in Cell, y \notin Cells(n, t), y # x PROVE m[y] = l[y]
    OBVIOUS
  <2>1. y # at
    BY DEF Cells
  <2>2. y # b
    <3>1. CASE k = n
      BY <1>3, <3>1, LinkedListAssumption
    <3>2. CASE k # n
      <4>1. k + 1 \in 0 .. n
        BY <1>n, <3>2
      <4> QED
        BY <1>3, <3>2, <4>1 DEF Cells
    <3> QED
      BY <3>1, <3>2
  <2> QED
    BY <1>6, <2>1, <2>2
<1>14. Chain(m, n + 1, g)
  BY <1>n, <1>7, <1>8, <1>9, <1>10, <1>11, <1>12 DEF Chain
<1> QED
  BY <1>6, <1>13, <1>14 DEF m, g

(* list_insert in front of a node is list_append behind the one before.    *)
LEMMA InsertIsAppend ==
  ASSUME NEW l \in Links, NEW at \in Cell, NEW x \in Cell, x # at,
         NEW b \in Cell, b # at, b # x, l[at].prev = b, l[b].next = at
  PROVE  list_insert(l, at, x) = list_append(l, b, x)
<1> DEFINE q == [l EXCEPT ![x] = [prev |-> b, next |-> at], ![b].next = x, ![at].prev = x]
           m == [l EXCEPT ![at].prev = x]
<1>1. at # NULL
  BY LinkedListAssumption
<1>2. list_insert(l, at, x) = q
  BY DEF list_insert
<1>3. list_append(l, b, x) = [m EXCEPT ![x] = [prev |-> b, next |-> m[b].next], ![b].next = x]
  BY <1>1 DEF list_append
<1>4. m[b].next = at /\ m \in Links
  BY DEF Links
<1>5. l \in [Cell -> [prev : Cell \cup {NULL}, next : Cell \cup {NULL}]]
  BY DEF Links
<1> DEFINE r == [m EXCEPT ![x] = [prev |-> b, next |-> at], ![b].next = x]
<1>6. /\ q \in [Cell -> [prev : Cell \cup {NULL}, next : Cell \cup {NULL}]]
      /\ r \in [Cell -> [prev : Cell \cup {NULL}, next : Cell \cup {NULL}]]
  BY <1>5
<1>7. \A y \in Cell : q[y] = r[y]
  <2> SUFFICES ASSUME NEW y \in Cell PROVE q[y] = r[y]
    OBVIOUS
  <2>1. CASE y = x
    BY <1>5, <2>1
  <2>2. CASE y = b
    BY <1>5, <2>2
  <2>3. CASE y = at
    BY <1>5, <2>3
  <2>4. CASE y \notin {x, b, at}
    BY <1>5, <2>4
  <2> QED
    BY <2>1, <2>2, <2>3, <2>4
<1>8. q = r
  <2> HIDE DEF q, r
  <2> QED
    BY <1>6, <1>7
<1> QED
  BY <1>2, <1>3, <1>4, <1>8

(* list_remove of the k-th cell.                                           *)
LEMMA ChainRemove ==
  ASSUME NEW l \in Links, NEW n, NEW t, Chain(l, n, t), NEW k \in 1 .. n
  PROVE  LET m == list_remove(l, t[k])
         IN /\ m \in Links
            /\ Chain(m, n - 1, Shrunk(n, t, k))
            /\ \A y \in Cell \ Cells(n, t) : m[y] = l[y]
<1>1. /\ n \in Nat /\ t \in [0 .. n -> Cell]
      /\ \A i, j \in 0 .. n : t[i] = t[j] => i = j
      /\ \A i \in 1 .. n : t[i] \in Node
      /\ l[t[0]].prev = t[0]
      /\ \A i \in 1 .. n : l[t[i]].prev = t[i - 1] /\ l[t[i - 1]].next = t[i]
      /\ l[t[n]].next = NULL
  BY DEF Chain
<1>n. n \in Nat /\ k \in Nat /\ 1 <= k /\ k <= n /\ k \in 0 .. n /\ k - 1 \in 0 .. n
  BY <1>1
<1>2. \A i \in 0 .. n : t[i] \in Cell /\ t[i] # NULL
  BY <1>1, LinkedListAssumption
<1> PICK x : x = t[k]
  OBVIOUS
<1> PICK a : a = t[k - 1]
  OBVIOUS
<1> PICK b : b = IF k = n THEN NULL ELSE t[k + 1]
  OBVIOUS
<1>3. l[x].prev = a /\ l[a].next = x /\ l[x].next = b
  <2>1. l[x].prev = a /\ l[a].next = x
    BY <1>1
  <2>2. CASE k = n
    BY <1>1, <2>1, <2>2
  <2>3. CASE k # n
    <3>1. k + 1 \in 1 .. n /\ (k + 1) - 1 = k
      BY <1>n, <2>3
    <3>2. l[t[(k + 1) - 1]].next = t[k + 1]
      BY <1>1, <3>1
    <3> QED
      BY <2>1, <2>3, <3>1, <3>2
  <2> QED
    BY <2>2, <2>3
<1>4. x \in Cell /\ a \in Cell /\ a # x
  BY <1>1, <1>2, <1>n
<1>5. b # NULL => b \in Cell /\ b # a /\ b # x
  <2> SUFFICES ASSUME k # n PROVE b \in Cell /\ b # a /\ b # x
    OBVIOUS
  <2>1. k + 1 \in 0 .. n /\ k + 1 # k /\ k + 1 # k - 1
    BY <1>n
  <2> QED
    BY <1>1, <1>2, <1>n, <2>1
<1> DEFINE m == list_remove(l, x)
           half == [l EXCEPT ![a].next = b]
<1>6. /\ half \in Links
      /\ half[x] = l[x]
      /\ half[a] = [prev |-> l[a].prev, next |-> b]
      /\ \A y \in Cell \ {a} : half[y] = l[y]
  BY <1>4, <1>5 DEF Links
<1>7. m = IF b # NULL THEN [half EXCEPT ![b].prev = a] ELSE half
  <2>1. half[x].next = b /\ half[x].prev = a
    BY <1>3, <1>6
  <2>2. m = IF half[x].next # NULL THEN [half EXCEPT ![half[x].next].prev = half[x].prev] ELSE half
    BY <1>3 DEF list_remove
  <2> HIDE DEF half, m
  <2> QED
    BY <2>1, <2>2
<1> HIDE DEF m, half
<1>8. /\ m \in Links
      /\ m[a] = [prev |-> l[a].prev, next |-> b]
      /\ b # NULL => m[b] = [prev |-> a, next |-> l[b].next]
      /\ \A y \in Cell \ {a, b} : m[y] = l[y]
  <2>1. CASE b = NULL
    BY <1>6, <1>7, <2>1
  <2>2. CASE b # NULL
    BY <1>4, <1>5, <1>6, <1>7, <2>2 DEF Links
  <2> QED
    BY <2>1, <2>2
<1> DEFINE g == Shrunk(n, t, k)
<1>9. /\ g \in [0 .. n - 1 -> Cell]
      /\ \A i \in 0 .. k - 1 : g[i] = t[i]
      /\ \A i \in k .. n - 1 : g[i] = t[i + 1]
  <2>1. \A i \in 0 .. n - 1 : i \in 0 .. n /\ i + 1 \in 0 .. n
    BY <1>n
  <2>2. g \in [0 .. n - 1 -> Cell]
    BY <1>2, <2>1 DEF Shrunk
  <2>3. \A i \in 0 .. k - 1 : i \in 0 .. n - 1 /\ i < k
    BY <1>n
  <2>4. \A i \in k .. n - 1 : i \in 0 .. n - 1 /\ ~(i < k)
    BY <1>n
  <2> QED
    BY <2>2, <2>3, <2>4 DEF Shrunk
<1> HIDE DEF g
<1>10. \A i, j \in 0 .. n - 1 : g[i] = g[j] => i = j
  <2> DEFINE src(i) == IF i < k THEN i ELSE i + 1
  <2>1. \A i \in 0 .. n - 1 : src(i) \in 0 .. n /\ g[i] = t[src(i)]
    <3> SUFFICES ASSUME NEW i \in 0 .. n - 1 PROVE src(i) \in 0 .. n /\ g[i] = t[src(i)]
      OBVIOUS
    <3>1. CASE i < k
      BY <1>9, <1>n, <3>1
    <3>2. CASE ~(i < k)
      <4>1. i \in k .. n - 1
        BY <1>n, <3>2
      <4> QED
        BY <1>9, <1>n, <3>2, <4>1
    <3> QED
      BY <3>1, <3>2
  <2>2. \A i, j \in 0 .. n - 1 : src(i) = src(j) => i = j
    BY <1>n
  <2> HIDE DEF src
  <2> QED
    BY <1>1, <2>1, <2>2
<1>11. \A i \in 1 .. n - 1 : g[i] \in Node
  <2> SUFFICES ASSUME NEW i \in 1 .. n - 1 PROVE g[i] \in Node
    OBVIOUS
  <2>1. CASE i < k
    BY <1>1, <1>9, <1>n, <2>1
  <2>2. CASE ~(i < k)
    <3>1. i \in k .. n - 1 /\ i + 1 \in 1 .. n
      BY <1>n, <2>2
    <3> QED
      BY <1>1, <1>9, <3>1
  <2> QED
    BY <2>1, <2>2
<1>12. m[g[0]].prev = g[0]
  <2>1. g[0] = t[0] /\ t[0] \in Cell /\ 0 \in 0 .. n
    BY <1>2, <1>9, <1>n
  <2>2. b # t[0]
    <3>1. CASE k = n
      BY <1>2, <2>1, <3>1
    <3>2. CASE k # n
      <4>1. k + 1 \in 0 .. n /\ k + 1 # 0
        BY <1>n, <3>2
      <4> QED
        BY <1>1, <2>1, <3>2, <4>1
    <3> QED
      BY <3>1, <3>2
  <2>3. CASE t[0] = a
    BY <1>1, <1>8, <2>1, <2>3
  <2>4. CASE t[0] # a
    BY <1>1, <1>8, <2>1, <2>2, <2>4
  <2> QED
    BY <2>3, <2>4
<1>13. \A i \in 1 .. n - 1 : m[g[i]].prev = g[i - 1] /\ m[g[i - 1]].next = g[i]
  <2> SUFFICES ASSUME NEW i \in 1 .. n - 1
               PROVE  m[g[i]].prev = g[i - 1] /\ m[g[i - 1]].next = g[i]
    OBVIOUS
  <2>1. CASE i < k
    <3>1. /\ i \in 1 .. n /\ i \in 0 .. k - 1 /\ i - 1 \in 0 .. k - 1
          /\ i \in 0 .. n /\ i - 1 \in 0 .. n /\ i - 1 # k - 1 /\ i # k
      BY <1>n, <2>1
    <3>2. g[i] = t[i] /\ g[i - 1] = t[i - 1]
      BY <1>9, <3>1
    <3>3. b # t[i] /\ b # t[i - 1]
      <4>1. CASE k = n
        BY <1>2, <3>1, <4>1
      <4>2. CASE k # n
        <5>1. k + 1 \in 0 .. n /\ k + 1 # i /\ k + 1 # i - 1
          BY <1>n, <2>1, <4>2
        <5> QED
          BY <1>1, <3>1, <4>2, <5>1
      <4> QED
        BY <4>1, <4>2
    <3>4. t[i - 1] # a
      BY <1>1, <1>n, <3>1
    <3>5. m[t[i - 1]] = l[t[i - 1]]
      BY <1>2, <1>8, <3>1, <3>3, <3>4
    <3>6. m[t[i]].prev = l[t[i]].prev
      <4>1. CASE t[i] = a
        BY <1>8, <4>1
      <4>2. CASE t[i] # a
        BY <1>2, <1>8, <3>1, <3>3, <4>2
      <4> QED
        BY <4>1, <4>2
    <3> QED
      BY <1>1, <3>1, <3>2, <3>5, <3>6
  <2>2. CASE i = k
    <3>1. i \in k .. n - 1 /\ i - 1 \in 0 .. k - 1 /\ k # n /\ k + 1 \in 0 .. n
      BY <1>n, <2>2
    <3>2. g[i] = b /\ g[i - 1] = a /\ b # NULL
      BY <1>2, <1>9, <2>2, <3>1
    <3> QED
      BY <1>8, <3>2
  <2>3. CASE i > k
    <3>1. /\ i \in k .. n - 1 /\ i - 1 \in k .. n - 1 /\ (i - 1) + 1 = i /\ i + 1 \in 1 .. n
          /\ i + 1 \in 0 .. n /\ i \in 0 .. n /\ k + 1 \in 0 .. n /\ (i + 1) - 1 = i
          /\ i # k - 1 /\ i + 1 # k - 1 /\ i + 1 # k + 1 /\ k # n
      BY <1>n, <2>3
    <3>2. g[i] = t[i + 1] /\ g[i - 1] = t[i]
      <4>1. g[i - 1] = t[(i - 1) + 1]
        BY <1>9, <3>1
      <4> QED
        BY <1>9, <3>1, <4>1
    <3>3. t[i] # a /\ t[i + 1] # a /\ t[i + 1] # b
      BY <1>1, <1>n, <3>1
    <3>4. m[t[i + 1]] = l[t[i + 1]]
      BY <1>2, <1>8, <3>1, <3>3
    <3>5. m[t[i]].next = l[t[i]].next
      <4>1. CASE t[i] = b
        BY <1>2, <1>8, <3>1, <4>1
      <4>2. CASE t[i] # b
        BY <1>2, <1>8, <3>1, <3>3, <4>2
      <4> QED
        BY <4>1, <4>2
    <3>6. l[t[i + 1]].prev = t[i] /\ l[t[i]].next = t[i + 1]
      <4>1. l[t[i + 1]].prev = t[(i + 1) - 1] /\ l[t[(i + 1) - 1]].next = t[i + 1]
        BY <1>1, <3>1
      <4> QED
        BY <3>1, <4>1
    <3> QED
      BY <3>2, <3>4, <3>5, <3>6
  <2> QED
    BY <1>n, <2>1, <2>2, <2>3
<1>14. m[g[n - 1]].next = NULL
  <2>1. CASE k = n
    <3>1. g[n - 1] = a
      BY <1>9, <1>n, <2>1
    <3> QED
      BY <1>8, <2>1, <3>1
  <2>2. CASE k # n
    <3>1. /\ n - 1 \in k .. n - 1 /\ (n - 1) + 1 = n /\ n \in 0 .. n /\ k + 1 \in 0 .. n
          /\ n # k - 1
      BY <1>n, <2>2
    <3>2. g[n - 1] = t[n] /\ t[n] # a /\ t[n] \in Cell
      <4>1. g[n - 1] = t[(n - 1) + 1]
        BY <1>9, <3>1
      <4> QED
        BY <1>1, <1>2, <1>n, <3>1, <4>1
    <3>3. CASE t[n] = b
      BY <1>1, <1>2, <1>8, <3>1, <3>2, <3>3
    <3>4. CASE t[n] # b
      BY <1>1, <1>8, <3>2, <3>4
    <3> QED
      BY <3>3, <3>4
  <2> QED
    BY <2>1, <2>2
<1>15. \A y \in Cell \ Cells(n, t) : m[y] = l[y]
  <2> SUFFICES ASSUME NEW y \in Cell, y \notin Cells(n, t) PROVE m[y] = l[y]
    OBVIOUS
  <2>1. y # a
    BY <1>n DEF Cells
  <2>2. y # b
    <3>1. CASE k = n
      BY <3>1, LinkedListAssumption
    <3>2. CASE k # n
      <4>1. k + 1 \in 0 .. n
        BY <1>n, <3>2
      <4> QED
        BY <3>2, <4>1 DEF Cells
    <3> QED
      BY <3>1, <3>2
  <2> QED
    BY <1>8, <2>1, <2>2
<1>16. Chain(m, n - 1, g)
  <2>1. n - 1 \in Nat
    BY <1>n
  <2> QED
    BY <2>1, <1>9, <1>10, <1>11, <1>12, <1>13, <1>14 DEF Chain
<1> QED
  BY <1>8, <1>15, <1>16 DEF m, g

-----------------------------------------------------------------------------
(* The invariant: from each head and from the first node of each list that *)
(* was taken the pointers spell a chain, and no cell is on two of them.    *)
Starts == Anchor \cup {first[c] : c \in {d \in Caller : first[d] # NULL}}

Size(l, a) == Len(After(l, a))

Row(l, a) == [i \in 0 .. Size(l, a) |-> IF i = 0 THEN a ELSE After(l, a)[i]]

RowOf(l, a) == Cells(Size(l, a), Row(l, a))

IsRow(l, a) == Chain(l, Size(l, a), Row(l, a))

LinkedInv ==
  /\ TypeOK
  /\ \A c, d \in Caller : first[c] # NULL /\ first[c] = first[d] => c = d
  /\ \A a \in Starts : IsRow(link, a)
  /\ \A a, b \in Starts : a # b => RowOf(link, a) \cap RowOf(link, b) = {}

LEMMA ChainIsRow ==
  ASSUME NEW l, NEW n, NEW t, Chain(l, n, t)
  PROVE  /\ IsRow(l, t[0])
         /\ After(l, t[0]) = [i \in 1 .. n |-> t[i]]
         /\ RowOf(l, t[0]) = Cells(n, t)
         /\ Size(l, t[0]) = n
<1>1. n \in Nat /\ t \in [0 .. n -> Cell]
  BY DEF Chain
<1> PICK k \in 0 .. n : k = 0
  BY <1>1
<1>2. After(l, t[k]) = [i \in 1 .. n - k |-> t[i + k]]
  BY AfterChain
<1>3. [i \in 1 .. n - k |-> t[i + k]] = [i \in 1 .. n |-> t[i]]
  BY <1>1
<1>4. After(l, t[0]) = [i \in 1 .. n |-> t[i]]
  BY <1>2, <1>3
<1>5. Size(l, t[0]) = n
  BY <1>1, <1>4 DEF Size
<1>6. Row(l, t[0]) = t
  <2>1. t = [i \in 0 .. n |-> t[i]]
    BY <1>1
  <2>2. \A i \in 0 .. n : (IF i = 0 THEN t[0] ELSE After(l, t[0])[i]) = t[i]
    BY <1>1, <1>4
  <2> QED
    BY <1>5, <2>1, <2>2 DEF Row
<1> QED
  BY <1>4, <1>5, <1>6 DEF IsRow, RowOf

LEMMA RowSame ==
  ASSUME NEW l, NEW m, NEW a, IsRow(l, a), \A y \in RowOf(l, a) : m[y] = l[y]
  PROVE  IsRow(m, a) /\ After(m, a) = After(l, a) /\ RowOf(m, a) = RowOf(l, a)
<1> DEFINE n == Size(l, a)
           t == Row(l, a)
<1>1. Chain(l, n, t) /\ RowOf(l, a) = Cells(n, t)
  BY DEF IsRow, RowOf
<1>2. t[0] = a
  <2>1. n \in Nat
    BY <1>1 DEF Chain
  <2> QED
    BY <2>1 DEF Row
<1> HIDE DEF n, t
<1>3. Chain(m, n, t)
  BY <1>1, ChainSame
<1>4. /\ IsRow(l, a) /\ After(l, a) = [i \in 1 .. n |-> t[i]] /\ RowOf(l, a) = Cells(n, t)
      /\ IsRow(m, a) /\ After(m, a) = [i \in 1 .. n |-> t[i]] /\ RowOf(m, a) = Cells(n, t)
  <2>1. /\ After(l, t[0]) = [i \in 1 .. n |-> t[i]] /\ RowOf(l, t[0]) = Cells(n, t)
        /\ IsRow(l, t[0])
    BY <1>1, ChainIsRow
  <2>2. /\ After(m, t[0]) = [i \in 1 .. n |-> t[i]] /\ RowOf(m, t[0]) = Cells(n, t)
        /\ IsRow(m, t[0])
    BY <1>3, ChainIsRow
  <2> QED
    BY <1>2, <2>1, <2>2, Zenon
<1> QED
  BY <1>4

(* The sequence behind the start of a row.                                 *)
LEMMA RowIs ==
  ASSUME NEW l, NEW a, IsRow(l, a)
  PROVE  /\ Chain(l, Size(l, a), Row(l, a))
         /\ Size(l, a) \in Nat
         /\ Row(l, a) \in [0 .. Size(l, a) -> Cell]
         /\ Row(l, a)[0] = a
         /\ After(l, a) \in Seq(Node)
         /\ IsInjective(After(l, a))
         /\ Size(l, a) = Len(After(l, a))
         /\ \A i \in 1 .. Size(l, a) : After(l, a)[i] = Row(l, a)[i]
         /\ RowOf(l, a) = {a} \cup ToSet(After(l, a))
         /\ a \in Cell /\ a \notin ToSet(After(l, a))
<1> DEFINE n == Size(l, a)
           t == Row(l, a)
           s == After(l, a)
<1>1. Chain(l, n, t)
  BY DEF IsRow
<1>2. /\ n \in Nat /\ t \in [0 .. n -> Cell] /\ \A i \in 1 .. n : t[i] \in Node
      /\ \A i, j \in 0 .. n : t[i] = t[j] => i = j
  <2> HIDE DEF n, t
  <2> QED
    BY <1>1 DEF Chain
<1>3. t[0] = a /\ n = Len(s)
  BY <1>2 DEF Row, Size
<1>4. s = [i \in 1 .. n |-> t[i]]
  <2> HIDE DEF n, t
  <2>1. After(l, t[0]) = [i \in 1 .. n |-> t[i]]
    BY <1>1, ChainIsRow
  <2> QED
    BY <1>3, <2>1
<1>5. RowOf(l, a) = Cells(n, t)
  BY DEF RowOf
<1> HIDE DEF n, t, s
<1>6. s \in Seq(Node) /\ IsInjective(s) /\ DOMAIN s = 1 .. n
  BY <1>2, <1>4 DEF IsInjective
<1>7. Cells(n, t) = {t[0]} \cup ToSet(s)
  <2>1. ToSet(s) = {t[i] : i \in 1 .. n}
    BY <1>4, <1>6 DEF ToSet
  <2>2. 0 .. n = {0} \cup (1 .. n)
    BY <1>2
  <2> QED
    BY <2>1, <2>2 DEF Cells
<1>8. t[0] \in Cell /\ t[0] \notin ToSet(s)
  <2>1. 0 \in 0 .. n /\ \A i \in 1 .. n : i \in 0 .. n /\ i # 0
    BY <1>2
  <2> QED
    BY <1>2, <1>4, <1>6, <2>1 DEF ToSet
<1> QED
  BY <1>1, <1>2, <1>3, <1>4, <1>5, <1>6, <1>7, <1>8 DEF n, t, s

(* What the callers see: a node is on no list exactly if it is on no row.  *)
LEMMA UnlistedMeans ==
  ASSUME LinkedInv, NEW x \in Node
  PROVE  Unlisted(x) <=> \A a \in Starts : x \notin RowOf(link, a)
<1>1. \A a \in Starts : RowOf(link, a) = {a} \cup ToSet(After(link, a))
  BY RowIs DEF LinkedInv
<1>2. \A a \in Starts : ToSet(After(link, a)) = {After(link, a)[n] : n \in DOMAIN After(link, a)}
  BY DEF ToSet
<1>3. x \notin Anchor
  BY LinkedListAssumption
<1>4. \A a \in Anchor : a \in Starts /\ (x \in RowOf(link, a) <=> x \in OnList(a))
  BY <1>1, <1>2, <1>3 DEF Starts, OnList
<1>5. \A c \in Caller : IF first[c] = NULL THEN Held(c) = {}
                        ELSE first[c] \in Starts /\ Held(c) = RowOf(link, first[c])
  BY <1>1, <1>2 DEF Starts, Held
<1>6. \A a \in Starts : a \in Anchor \/ \E c \in Caller : first[c] # NULL /\ a = first[c]
  BY DEF Starts
<1> QED
  BY <1>4, <1>5, <1>6 DEF Unlisted

(* A call that changes the row of one head only.                           *)
LEMMA OneChanged ==
  ASSUME LinkedInv, link' \in Links, UNCHANGED first,
         NEW n, NEW t, Chain(link', n, t), t[0] \in Anchor,
         \A a \in Starts \ {t[0]} :
           \A y \in RowOf(link, a) : link'[y] = link[y] /\ y \notin Cells(n, t)
  PROVE  /\ LinkedInv'
         /\ After(link', t[0]) = [i \in 1 .. n |-> t[i]]
         /\ \A a \in Starts \ {t[0]} : After(link', a) = After(link, a)
<1>1. /\ IsRow(link', t[0]) /\ RowOf(link', t[0]) = Cells(n, t)
      /\ After(link', t[0]) = [i \in 1 .. n |-> t[i]]
  BY ChainIsRow
<1> PICK h \in Anchor : h = t[0]
  OBVIOUS
<1>2. \A a \in Starts \ {h} : /\ IsRow(link', a) /\ After(link', a) = After(link, a)
                              /\ RowOf(link', a) = RowOf(link, a)
  BY RowSame DEF LinkedInv
<1>3. Starts' = Starts
  BY DEF Starts
<1>4. \A a \in Starts : IsRow(link', a)
  BY <1>1, <1>2
<1>5. \A a, b \in Starts : a # b => RowOf(link', a) \cap RowOf(link', b) = {}
  <2>1. \A b \in Starts \ {h} : RowOf(link', b) \cap RowOf(link', h) = {}
    BY <1>1, <1>2
  <2>2. \A a, b \in Starts \ {h} : a # b => RowOf(link', a) \cap RowOf(link', b) = {}
    BY <1>2 DEF LinkedInv
  <2> QED
    BY <2>1, <2>2
<1>6. TypeOK'
  BY DEF LinkedInv, TypeOK
<1>7. \A c, d \in Caller : first'[c] # NULL /\ first'[c] = first'[d] => c = d
  BY DEF LinkedInv
<1> QED
  BY <1>1, <1>2, <1>3, <1>4, <1>5, <1>6, <1>7 DEF LinkedInv

LEMMA StartsAreCells ==
  ASSUME LinkedInv
  PROVE  /\ Starts \subseteq Cell /\ Anchor \subseteq Starts
         /\ \A c \in Caller : first[c] # NULL => first[c] \in Starts /\ first[c] \in Node
         /\ \A a \in Starts : RowOf(link, a) \subseteq Cell
         /\ link \in Links
<1>1. first \in [Caller -> Node \cup {NULL}] /\ link \in Links
  BY DEF LinkedInv, TypeOK
<1>2. \A a \in Starts : Size(link, a) \in Nat /\ Row(link, a) \in [0 .. Size(link, a) -> Cell]
  BY RowIs DEF LinkedInv
<1>3. \A a \in Starts : RowOf(link, a) \subseteq Cell
  BY <1>2 DEF RowOf, Cells
<1> QED
  BY <1>1, <1>3 DEF Starts, Cell

(* list_append to the k-th cell of a row is ListInsert.                    *)
LEMMA Appended ==
  ASSUME LinkedInv, UNCHANGED first, NEW h \in Anchor, NEW k \in 0 .. Size(link, h),
         NEW x \in Node, Unlisted(x), NEW p \in Links, \A y \in Cell \ {x} : p[y] = link[y],
         link' = list_append(p, Row(link, h)[k], x)
  PROVE  /\ LinkedInv'
         /\ After(link', h) = ListInsert(After(link, h), k + 1, x)
         /\ \A a \in Starts \ {h} : After(link', a) = After(link, a)
<1> DEFINE n == Size(link, h)
           t == Row(link, h)
           s == After(link, h)
           m == list_append(p, t[k], x)
           g == Grown(n, t, k, x)
<1>1. h \in Starts /\ link \in Links /\ \A a \in Starts : RowOf(link, a) \subseteq Cell
  BY StartsAreCells
<1>2. /\ Chain(link, n, t) /\ n \in Nat /\ t[0] = h /\ s \in Seq(Node) /\ n = Len(s)
      /\ \A i \in 1 .. n : s[i] = t[i]
  BY <1>1, RowIs DEF LinkedInv
<1>3. RowOf(link, h) = Cells(n, t)
  BY DEF RowOf
<1>4. k \in 0 .. n /\ link' = m
  OBVIOUS
<1>5. \A a \in Starts : x \notin RowOf(link, a)
  BY UnlistedMeans
<1> HIDE DEF n, t, s, m
<1>k. k \in Nat /\ k <= n
  BY <1>2, <1>4
<1>6. /\ m \in Links /\ Chain(m, n + 1, g)
      /\ \A y \in Cell \ (Cells(n, t) \cup {x}) : m[y] = link[y]
  <2>1. x \notin Cells(n, t)
    BY <1>1, <1>3, <1>5
  <2> QED
    BY <1>1, <1>2, <1>4, <2>1, ChainAppend, SMTT(30) DEF m
<1>7. /\ g[0] = h
      /\ \A i \in 1 .. n + 1 : g[i] = IF i <= k THEN t[i] ELSE IF i = k + 1 THEN x ELSE t[i - 1]
      /\ Cells(n + 1, g) \subseteq Cells(n, t) \cup {x}
  <2>1. g[0] = h
    BY <1>2, <1>k DEF Grown
  <2>2. \A i \in 0 .. n + 1 : g[i] = IF i <= k THEN t[i] ELSE IF i = k + 1 THEN x ELSE t[i - 1]
    BY DEF Grown
  <2>3. \A i \in 0 .. n + 1 : /\ i <= k => i \in 0 .. n
                              /\ ~(i <= k) /\ i # k + 1 => i - 1 \in 0 .. n
    BY <1>k, <1>2
  <2>4. \A i \in 0 .. n + 1 : g[i] \in Cells(n, t) \cup {x}
    <3> HIDE DEF g
    <3> QED
      BY <2>2, <2>3 DEF Cells
  <2>5. Cells(n + 1, g) \subseteq Cells(n, t) \cup {x}
    <3> HIDE DEF g
    <3> QED
      BY <2>4 DEF Cells
  <2>6. \A i \in 1 .. n + 1 : i \in 0 .. n + 1
    BY <1>2
  <2> HIDE DEF g
  <2> QED
    BY <2>1, <2>2, <2>5, <2>6
<1> HIDE DEF g
<1>8. \A a \in Starts \ {h} :
        \A y \in RowOf(link, a) : link'[y] = link[y] /\ y \notin Cells(n + 1, g)
  <2> SUFFICES ASSUME NEW a \in Starts, a # h, NEW y \in RowOf(link, a)
               PROVE  m[y] = link[y] /\ y \notin Cells(n + 1, g)
    BY <1>4
  <2>1. y \notin RowOf(link, h) /\ y # x /\ y \in Cell
    BY <1>1, <1>5 DEF LinkedInv
  <2> QED
    BY <1>3, <1>6, <1>7, <2>1
<1>9. /\ LinkedInv' /\ After(link', h) = [i \in 1 .. n + 1 |-> g[i]]
      /\ \A a \in Starts \ {h} : After(link', a) = After(link, a)
  <2>1. link' \in Links /\ Chain(link', n + 1, g) /\ g[0] \in Anchor
    BY <1>4, <1>6, <1>7
  <2>2. \A a \in Starts \ {g[0]} :
          \A y \in RowOf(link, a) : link'[y] = link[y] /\ y \notin Cells(n + 1, g)
    BY <1>7, <1>8
  <2>3. /\ LinkedInv' /\ After(link', g[0]) = [i \in 1 .. n + 1 |-> g[i]]
        /\ \A a \in Starts \ {g[0]} : After(link', a) = After(link, a)
    <3>1. \A q : /\ Chain(link', q, g)
                 /\ \A a \in Starts \ {g[0]} :
                      \A y \in RowOf(link, a) : link'[y] = link[y] /\ y \notin Cells(q, g)
                 => /\ LinkedInv' /\ After(link', g[0]) = [i \in 1 .. q |-> g[i]]
                    /\ \A a \in Starts \ {g[0]} : After(link', a) = After(link, a)
      BY <2>1, OneChanged, SMTT(30)
    <3> QED
      BY <2>1, <2>2, <3>1
  <2> QED
    BY <1>7, <2>3
<1>10. ListInsert(s, k + 1, x) = [i \in 1 .. n + 1 |-> g[i]]
  <2>a. \A j \in 1 .. Len(s) + 1 :
          ListInsert(s, j, x) =
            [i \in 1 .. Len(s) + 1 |-> IF i < j THEN s[i] ELSE IF i = j THEN x ELSE s[i - 1]]
    BY <1>2, InsertNodes
  <2> PICK j \in 1 .. Len(s) + 1 : j = k + 1
    BY <1>2, <1>k
  <2>1. ListInsert(s, j, x) =
          [i \in 1 .. Len(s) + 1 |-> IF i < j THEN s[i] ELSE IF i = j THEN x ELSE s[i - 1]]
    BY <2>a
  <2>2. \A i \in 1 .. n + 1 : g[i] = IF i < j THEN s[i] ELSE IF i = j THEN x ELSE s[i - 1]
    <3> SUFFICES ASSUME NEW i \in 1 .. n + 1
                 PROVE  g[i] = IF i < j THEN s[i] ELSE IF i = j THEN x ELSE s[i - 1]
      OBVIOUS
    <3>1. CASE i < j
      <4>1. i <= k /\ i \in 1 .. n
        BY <1>k, <1>2, <3>1
      <4> QED
        BY <1>2, <1>7, <3>1, <4>1
    <3>2. CASE i = j
      BY <1>7, <1>k, <3>2
    <3>3. CASE i > j
      <4>1. ~(i <= k) /\ i # k + 1 /\ i - 1 \in 1 .. n /\ ~(i < j) /\ i # j
        BY <1>k, <1>2, <3>3
      <4> QED
        BY <1>2, <1>7, <4>1
    <3> QED
      BY <1>2, <3>1, <3>2, <3>3
  <2> QED
    BY <1>2, <2>1, <2>2
<1> QED
  BY <1>9, <1>10 DEF s

(* list_remove of a node on a row is ListRemove.                           *)
LEMMA Removed ==
  ASSUME LinkedInv, UNCHANGED first, NEW h \in Anchor, NEW k \in 1 .. Size(link, h),
         link' = list_remove(link, Row(link, h)[k])
  PROVE  /\ LinkedInv'
         /\ After(link', h) = ListRemove(After(link, h), After(link, h)[k])
         /\ \A a \in Starts \ {h} : After(link', a) = After(link, a)
<1> DEFINE n == Size(link, h)
           t == Row(link, h)
           s == After(link, h)
           m == list_remove(link, t[k])
           g == Shrunk(n, t, k)
<1>1. h \in Starts /\ link \in Links /\ \A a \in Starts : RowOf(link, a) \subseteq Cell
  BY StartsAreCells
<1>2. /\ Chain(link, n, t) /\ n \in Nat /\ t[0] = h /\ s \in Seq(Node) /\ n = Len(s)
      /\ IsInjective(s) /\ \A i \in 1 .. n : s[i] = t[i]
  BY <1>1, RowIs DEF LinkedInv
<1>3. RowOf(link, h) = Cells(n, t)
  BY DEF RowOf
<1>4. k \in 1 .. n /\ link' = m
  OBVIOUS
<1> HIDE DEF n, t, s, m
<1>k. k \in Nat /\ 1 <= k /\ k <= n
  BY <1>2, <1>4
<1>6. /\ m \in Links /\ Chain(m, n - 1, g)
      /\ \A y \in Cell \ Cells(n, t) : m[y] = link[y]
  BY <1>1, <1>2, <1>4, ChainRemove DEF m
<1>7. /\ g[0] = h
      /\ \A i \in 1 .. n - 1 : g[i] = IF i < k THEN t[i] ELSE t[i + 1]
      /\ Cells(n - 1, g) \subseteq Cells(n, t)
  <2>1. g[0] = h
    BY <1>2, <1>k DEF Shrunk
  <2>2. \A i \in 0 .. n - 1 : g[i] = IF i < k THEN t[i] ELSE t[i + 1]
    BY DEF Shrunk
  <2>3. \A i \in 0 .. n - 1 : i \in 0 .. n /\ i + 1 \in 0 .. n
    BY <1>2
  <2>4. \A i \in 0 .. n - 1 : g[i] \in Cells(n, t)
    <3> HIDE DEF g
    <3> QED
      BY <2>2, <2>3 DEF Cells
  <2>5. Cells(n - 1, g) \subseteq Cells(n, t)
    <3> HIDE DEF g
    <3> QED
      BY <2>4 DEF Cells
  <2>6. \A i \in 1 .. n - 1 : i \in 0 .. n - 1
    BY <1>2
  <2> HIDE DEF g
  <2> QED
    BY <2>1, <2>2, <2>5, <2>6
<1> HIDE DEF g
<1>8. \A a \in Starts \ {h} :
        \A y \in RowOf(link, a) : link'[y] = link[y] /\ y \notin Cells(n - 1, g)
  <2> SUFFICES ASSUME NEW a \in Starts, a # h, NEW y \in RowOf(link, a)
               PROVE  m[y] = link[y] /\ y \notin Cells(n - 1, g)
    BY <1>4
  <2>1. y \notin RowOf(link, h) /\ y \in Cell
    BY <1>1 DEF LinkedInv
  <2> QED
    BY <1>3, <1>6, <1>7, <2>1
<1>9. /\ LinkedInv' /\ After(link', h) = [i \in 1 .. n - 1 |-> g[i]]
      /\ \A a \in Starts \ {h} : After(link', a) = After(link, a)
  <2>1. link' \in Links /\ Chain(link', n - 1, g) /\ g[0] \in Anchor
    BY <1>4, <1>6, <1>7
  <2>2. \A a \in Starts \ {g[0]} :
          \A y \in RowOf(link, a) : link'[y] = link[y] /\ y \notin Cells(n - 1, g)
    BY <1>7, <1>8
  <2>3. /\ LinkedInv' /\ After(link', g[0]) = [i \in 1 .. n - 1 |-> g[i]]
        /\ \A a \in Starts \ {g[0]} : After(link', a) = After(link, a)
    <3>1. \A q : /\ Chain(link', q, g)
                 /\ \A a \in Starts \ {g[0]} :
                      \A y \in RowOf(link, a) : link'[y] = link[y] /\ y \notin Cells(q, g)
                 => /\ LinkedInv' /\ After(link', g[0]) = [i \in 1 .. q |-> g[i]]
                    /\ \A a \in Starts \ {g[0]} : After(link', a) = After(link, a)
      BY <2>1, OneChanged, SMTT(30)
    <3> QED
      BY <2>1, <2>2, <3>1
  <2> QED
    BY <1>7, <2>3
<1>10. ListRemove(s, s[k]) = [i \in 1 .. n - 1 |-> g[i]]
  <2> PICK r : r = RemoveAt(s, k)
    OBVIOUS
  <2>1. (CHOOSE i \in DOMAIN s : s[i] = s[k]) = k
    BY <1>2, <1>4 DEF IsInjective
  <2>2. ListRemove(s, s[k]) = r
    BY <2>1 DEF ListRemove
  <2>3. /\ r \in Seq(Node) /\ Len(r) = n - 1
        /\ \A i \in 1 .. n - 1 : r[i] = IF i < k THEN s[i] ELSE s[i + 1]
    BY <1>2, <1>4, RemoveNodes
  <2>4. \A i \in 1 .. n - 1 : i \in 1 .. n /\ i + 1 \in 1 .. n
    BY <1>2
  <2>5. \A i \in 1 .. n - 1 : r[i] = g[i]
    BY <1>2, <1>7, <2>3, <2>4
  <2>6. r = [i \in 1 .. n - 1 |-> r[i]]
    BY <2>3
  <2> QED
    BY <2>2, <2>5, <2>6
<1> QED
  BY <1>9, <1>10 DEF s

LEMMA PrependIs ==
  ASSUME NEW f, NEW s \in Seq(Node)
  PROVE  <<f>> \o s = [i \in 1 .. Len(s) + 1 |-> IF i = 1 THEN f ELSE s[i - 1]]
OBVIOUS

(* The end of allocate: the nodes of a head become a row of their own.     *)
LEMMA Detached ==
  ASSUME LinkedInv, NEW h \in Anchor, NEW c \in Caller, Detach(h, c)
  PROVE  /\ LinkedInv'
         /\ After(link, h) # <<>> /\ After(link', h) = <<>>
         /\ first'[c] # NULL /\ <<first'[c]>> \o After(link', first'[c]) = After(link, h)
         /\ \A a \in Starts \ {h} : After(link', a) = After(link, a)
<1> PICK n, t, s, f : n = Size(link, h) /\ t = Row(link, h) /\ s = After(link, h) /\ f = link[h].next
  OBVIOUS
<1>1. /\ h \in Starts /\ link \in Links /\ \A a \in Starts : a \in Cell /\ RowOf(link, a) \subseteq Cell
      /\ \A d \in Caller : first[d] # NULL => first[d] \in Starts /\ first[d] \in Node
  BY StartsAreCells
<1>2. /\ Chain(link, n, t) /\ n \in Nat /\ t \in [0 .. n -> Cell] /\ t[0] = h
      /\ s \in Seq(Node) /\ n = Len(s)
      /\ \A i \in 1 .. n : s[i] = t[i]
      /\ RowOf(link, h) = Cells(n, t)
  BY <1>1, RowIs DEF LinkedInv, RowOf
<1>3. /\ first[c] = NULL /\ f # NULL
      /\ first' = [first EXCEPT ![c] = f]
      /\ link' = INIT_LLIST([link EXCEPT ![f].prev = f], h)
  BY DEF Detach
<1>4. /\ \A i, j \in 0 .. n : t[i] = t[j] => i = j
      /\ \A i \in 1 .. n : t[i] \in Node
      /\ \A i \in 1 .. n : link[t[i]].prev = t[i - 1] /\ link[t[i - 1]].next = t[i]
      /\ link[t[n]].next = NULL
  BY <1>2 DEF Chain
<1>5. n >= 1
  BY <1>2, <1>3, <1>4
<1>6. f = t[1] /\ f \in Node /\ f \in Cell /\ f # h /\ h \in Cell
  <2>1. 1 \in 1 .. n /\ 1 \in 0 .. n /\ 0 \in 0 .. n /\ 1 - 1 = 0
    BY <1>2, <1>5
  <2>2. link[t[1 - 1]].next = t[1]
    BY <1>4, <2>1
  <2> QED
    BY <1>1, <1>2, <1>4, <2>1, <2>2 DEF Cell
<1>7. /\ link' \in Links
      /\ link'[h] = [prev |-> h, next |-> NULL]
      /\ link'[f] = [prev |-> f, next |-> link[f].next]
      /\ \A y \in Cell \ {h, f} : link'[y] = link[y]
  BY <1>1, <1>3, <1>6 DEF INIT_LLIST, Links
<1> DEFINE z == [i \in 0 .. 0 |-> h]
           g == [i \in 0 .. n - 1 |-> t[i + 1]]
<1>8. Chain(link', 0, z) /\ z[0] = h
  <2>1. z \in [0 .. 0 -> Cell] /\ z[0] = h /\ \A i \in 0 .. 0 : i = 0
    BY <1>6
  <2> HIDE DEF z
  <2> QED
    BY <1>7, <2>1 DEF Chain
<1>9. Chain(link', n - 1, g) /\ g[0] = f
  <2>1. /\ n - 1 \in Nat /\ g[0] = f /\ \A i \in 0 .. n - 1 : g[i] = t[i + 1] /\ i + 1 \in 1 .. n /\ i + 1 \in 0 .. n
    BY <1>2, <1>5, <1>6
  <2>2. g \in [0 .. n - 1 -> Cell]
    BY <1>2, <2>1
  <2> HIDE DEF g
  <2>3. \A i, j \in 0 .. n - 1 : g[i] = g[j] => i = j
    <3>1. \A i, j \in 0 .. n - 1 : i + 1 = j + 1 => i = j
      OBVIOUS
    <3> QED
      BY <1>4, <2>1, <3>1
  <2>4. \A i \in 0 .. n - 1 : g[i] \in Node /\ g[i] # h
    BY <1>4, <2>1, LinkedListAssumption
  <2>5. \A i \in 1 .. n - 1 : link'[g[i]].prev = g[i - 1] /\ link'[g[i - 1]].next = g[i]
    <3> SUFFICES ASSUME NEW i \in 1 .. n - 1
                 PROVE  link'[g[i]].prev = g[i - 1] /\ link'[g[i - 1]].next = g[i]
      OBVIOUS
    <3>1. /\ i \in 0 .. n - 1 /\ i - 1 \in 0 .. n - 1 /\ 0 \in 0 .. n - 1 /\ i # 0
          /\ i + 1 \in 1 .. n /\ i \in 1 .. n /\ (i - 1) + 1 = i /\ (i + 1) - 1 = i
      BY <1>2
    <3>2. g[i] = t[i + 1] /\ g[i - 1] = t[i] /\ g[i] # f /\ g[i] # h /\ g[i - 1] # h
          /\ g[i] \in Cell /\ g[i - 1] \in Cell
      <4>1. g[i - 1] = t[(i - 1) + 1]
        BY <2>1, <3>1
      <4> QED
        BY <2>1, <2>2, <2>3, <2>4, <3>1, <4>1
    <3>3. link[t[i + 1]].prev = t[i] /\ link[t[i]].next = t[i + 1]
      <4>1. link[t[i + 1]].prev = t[(i + 1) - 1] /\ link[t[(i + 1) - 1]].next = t[i + 1]
        BY <1>4, <3>1
      <4> QED
        BY <3>1, <4>1
    <3>4. link'[g[i]].prev = link[g[i]].prev
      BY <1>7, <3>2
    <3>5. link'[g[i - 1]].next = link[g[i - 1]].next
      <4>1. CASE g[i - 1] = f
        BY <1>7, <4>1
      <4>2. CASE g[i - 1] # f
        BY <1>7, <3>2, <4>2
      <4> QED
        BY <4>1, <4>2
    <3> QED
      BY <3>2, <3>3, <3>4, <3>5
  <2>6. link'[g[n - 1]].next = NULL
    <3>1. n - 1 \in 0 .. n - 1 /\ (n - 1) + 1 = n
      BY <1>2, <1>5
    <3>2. g[n - 1] = t[n] /\ g[n - 1] # h /\ g[n - 1] \in Cell
      <4>1. g[n - 1] = t[(n - 1) + 1]
        BY <2>1, <3>1
      <4> QED
        BY <2>2, <2>4, <3>1, <4>1
    <3>3. CASE g[n - 1] = f
      BY <1>4, <1>7, <3>2, <3>3
    <3>4. CASE g[n - 1] # f
      BY <1>4, <1>7, <3>2, <3>4
    <3> QED
      BY <3>3, <3>4
  <2>7. link'[g[0]].prev = g[0]
    BY <1>7, <2>1
  <2>8. \A i \in 1 .. n - 1 : g[i] \in Node
    BY <1>2, <2>4
  <2> QED
    BY <2>1, <2>2, <2>3, <2>5, <2>6, <2>7, <2>8 DEF Chain
<1>10. Cells(0, z) = {h} /\ Cells(n - 1, g) = Cells(n, t) \ {h}
  <2>1. Cells(0, z) = {h}
    BY DEF Cells
  <2>2. ASSUME NEW y \in Cells(n - 1, g) PROVE y \in Cells(n, t) \ {h}
    <3>1. PICK i \in 0 .. n - 1 : y = t[i + 1]
      BY DEF Cells
    <3>2. i + 1 \in 1 .. n /\ i + 1 \in 0 .. n /\ 0 \in 0 .. n /\ i + 1 # 0
      BY <1>2
    <3> QED
      BY <1>2, <1>4, <3>1, <3>2 DEF Cells
  <2>3. ASSUME NEW y \in Cells(n, t) \ {h} PROVE y \in Cells(n - 1, g)
    <3>1. PICK i \in 0 .. n : y = t[i]
      BY DEF Cells
    <3>2. i # 0
      BY <1>2, <2>3, <3>1
    <3>3. i - 1 \in 0 .. n - 1 /\ (i - 1) + 1 = i
      BY <1>2, <3>2
    <3>4. g[i - 1] = y
      BY <3>1, <3>3
    <3> HIDE DEF g
    <3> QED
      BY <3>3, <3>4 DEF Cells
  <2> QED
    BY <2>1, <2>2, <2>3
<1> HIDE DEF z, g
<1>11. /\ IsRow(link', h) /\ RowOf(link', h) = {h} /\ After(link', h) = [i \in 1 .. 0 |-> z[i]]
       /\ IsRow(link', f) /\ RowOf(link', f) = RowOf(link, h) \ {h}
       /\ After(link', f) = [i \in 1 .. n - 1 |-> g[i]]
  <2>1. /\ IsRow(link', z[0]) /\ RowOf(link', z[0]) = Cells(0, z)
        /\ After(link', z[0]) = [i \in 1 .. 0 |-> z[i]]
    <3>1. \A q : Chain(link', q, z) =>
                   /\ IsRow(link', z[0]) /\ RowOf(link', z[0]) = Cells(q, z)
                   /\ After(link', z[0]) = [i \in 1 .. q |-> z[i]]
      BY ChainIsRow
    <3> QED
      BY <1>8, <3>1
  <2>2. /\ IsRow(link', g[0]) /\ RowOf(link', g[0]) = Cells(n - 1, g)
        /\ After(link', g[0]) = [i \in 1 .. n - 1 |-> g[i]]
    BY <1>9, ChainIsRow
  <2> QED
    BY <1>2, <1>8, <1>9, <1>10, <2>1, <2>2
<1>12. f \in RowOf(link, h)
  <2>1. 1 \in 0 .. n
    BY <1>2, <1>5
  <2> QED
    BY <1>2, <1>6, <2>1 DEF Cells
<1>13. \A a \in Starts \ {h} : /\ IsRow(link', a) /\ After(link', a) = After(link, a)
                               /\ RowOf(link', a) = RowOf(link, a) /\ a # f
  <2> SUFFICES ASSUME NEW a \in Starts, a # h
               PROVE  /\ IsRow(link', a) /\ After(link', a) = After(link, a)
                      /\ RowOf(link', a) = RowOf(link, a) /\ a # f
    OBVIOUS
  <2>1. IsRow(link, a) /\ RowOf(link, a) \cap RowOf(link, h) = {}
    BY <1>1 DEF LinkedInv
  <2>2. a \in RowOf(link, a) /\ h \in RowOf(link, h)
    BY <1>1, <2>1, RowIs DEF LinkedInv
  <2>3. \A y \in RowOf(link, a) : link'[y] = link[y]
    BY <1>1, <1>7, <1>12, <2>1, <2>2
  <2> QED
    BY <1>12, <2>1, <2>2, <2>3, RowSame
<1>14. first \in [Caller -> Node \cup {NULL}]
  BY DEF LinkedInv, TypeOK
<1>15. /\ first' \in [Caller -> Node \cup {NULL}] /\ first'[c] = f
       /\ \A d \in Caller \ {c} : first'[d] = first[d]
  BY <1>3, <1>6, <1>14
<1>16. Starts' = Starts \cup {f}
  BY <1>3, <1>15 DEF Starts
<1>17. \A d, e \in Caller : first'[d] # NULL /\ first'[d] = first'[e] => d = e
  <2>1. \A d \in Caller \ {c} : first'[d] # NULL => first'[d] # f
    <3> SUFFICES ASSUME NEW d \in Caller, d # c, first[d] # NULL PROVE first[d] # f
      BY <1>15
    <3>1. first[d] \in Starts \ {h}
      BY <1>1, LinkedListAssumption
    <3> QED
      BY <1>13, <3>1
  <2> QED
    BY <1>15, <2>1 DEF LinkedInv
<1>18. \A a \in Starts' : IsRow(link', a)
  BY <1>11, <1>13, <1>16
<1>19. \A a, b \in Starts' : a # b => RowOf(link', a) \cap RowOf(link', b) = {}
  <2>1. \A a \in Starts \ {h} : RowOf(link', a) \cap RowOf(link, h) = {}
    BY <1>1, <1>13 DEF LinkedInv
  <2>2. \A a \in Starts \ {h} : /\ RowOf(link', a) \cap RowOf(link', h) = {}
                                /\ RowOf(link', a) \cap RowOf(link', f) = {}
    <3>1. RowOf(link', h) \subseteq RowOf(link, h) /\ RowOf(link', f) \subseteq RowOf(link, h)
      <4>1. h \in RowOf(link, h)
        BY <1>1, RowIs DEF LinkedInv
      <4> QED
        BY <1>11, <4>1
    <3> QED
      BY <2>1, <3>1
  <2>3. \A a, b \in Starts \ {h} : a # b => RowOf(link', a) \cap RowOf(link', b) = {}
    BY <1>13 DEF LinkedInv
  <2>4. RowOf(link', h) \cap RowOf(link', f) = {}
    BY <1>11
  <2>5. Starts' \subseteq (Starts \ {h}) \cup {h, f}
    BY <1>16
  <2> QED
    BY <2>2, <2>3, <2>4, <2>5
<1>20. LinkedInv'
  BY <1>7, <1>15, <1>17, <1>18, <1>19 DEF LinkedInv, TypeOK
<1>21. s # <<>> /\ After(link', h) = <<>>
  BY <1>2, <1>5, <1>11
<1>22. <<f>> \o After(link', f) = s
  <2> PICK r : r = After(link', f)
    OBVIOUS
  <2>1. \A i \in 1 .. n - 1 : g[i] = s[i + 1] /\ g[i] \in Node
    <3> SUFFICES ASSUME NEW i \in 1 .. n - 1 PROVE g[i] = s[i + 1] /\ g[i] \in Node
      OBVIOUS
    <3>1. i \in 0 .. n - 1 /\ i + 1 \in 1 .. n
      BY <1>2
    <3> QED
      BY <1>2, <1>4, <3>1 DEF g
  <2>2. r = [i \in 1 .. n - 1 |-> g[i]]
    BY <1>11
  <2>3. n - 1 \in Nat
    BY <1>2, <1>5
  <2>4. r \in Seq(Node) /\ Len(r) = n - 1 /\ \A i \in 1 .. n - 1 : r[i] = s[i + 1]
    BY <2>1, <2>2, <2>3
  <2>5. <<f>> \o r = [i \in 1 .. Len(r) + 1 |-> IF i = 1 THEN f ELSE r[i - 1]]
    BY <2>4, PrependIs
  <2>6. \A i \in 1 .. n : (IF i = 1 THEN f ELSE r[i - 1]) = s[i]
    <3> SUFFICES ASSUME NEW i \in 1 .. n PROVE (IF i = 1 THEN f ELSE r[i - 1]) = s[i]
      OBVIOUS
    <3>1. CASE i = 1
      BY <1>2, <1>6, <3>1
    <3>2. CASE i # 1
      <4>1. i - 1 \in 1 .. n - 1 /\ (i - 1) + 1 = i
        BY <1>2, <3>2
      <4> QED
        BY <2>4, <3>2, <4>1
    <3> QED
      BY <3>1, <3>2
  <2>7. s = [i \in 1 .. n |-> s[i]] /\ Len(r) + 1 = n
    BY <1>2, <2>4
  <2> QED
    BY <2>5, <2>6, <2>7, SMTT(30)
<1>23. f # NULL
  BY <1>3
<1> QED
  BY <1>13, <1>15, <1>20, <1>21, <1>22, <1>23

(* The beginning of free: a row that was taken goes behind an empty head.  *)
LEMMA Attached ==
  ASSUME LinkedInv, NEW h \in Anchor, NEW c \in Caller, Attach(h, c)
  PROVE  /\ LinkedInv'
         /\ After(link, h) = <<>>
         /\ After(link', h) = <<first[c]>> \o After(link, first[c])
         /\ \A a \in Starts \ {h, first[c]} : After(link', a) = After(link, a)
<1> PICK f : f = first[c]
  OBVIOUS
<1> PICK n, t, s : n = Size(link, f) /\ t = Row(link, f) /\ s = After(link, f)
  OBVIOUS
<1>1. /\ h \in Starts /\ link \in Links /\ \A a \in Starts : a \in Cell /\ RowOf(link, a) \subseteq Cell
      /\ \A d \in Caller : first[d] # NULL => first[d] \in Starts /\ first[d] \in Node
  BY StartsAreCells
<1>2. /\ f # NULL /\ link[h].next = NULL
      /\ first' = [first EXCEPT ![c] = NULL]
      /\ link' = [link EXCEPT ![h].next = f, ![f].prev = h]
  BY DEF Attach
<1>3. f \in Starts /\ f \in Node /\ f \in Cell /\ h \in Cell /\ f # h
  BY <1>1, <1>2, LinkedListAssumption
<1>4. /\ Chain(link, n, t) /\ n \in Nat /\ t \in [0 .. n -> Cell] /\ t[0] = f
      /\ s \in Seq(Node) /\ n = Len(s)
      /\ \A i \in 1 .. n : s[i] = t[i]
      /\ RowOf(link, f) = Cells(n, t)
  BY <1>3, RowIs DEF LinkedInv, RowOf
<1>5. /\ \A i, j \in 0 .. n : t[i] = t[j] => i = j
      /\ \A i \in 1 .. n : t[i] \in Node
      /\ \A i \in 1 .. n : link[t[i]].prev = t[i - 1] /\ link[t[i - 1]].next = t[i]
      /\ link[t[n]].next = NULL
  BY <1>4 DEF Chain
<1>6. RowOf(link, h) \cap RowOf(link, f) = {} /\ h \in RowOf(link, h)
  BY <1>1, <1>3, RowIs DEF LinkedInv
<1>7. /\ After(link, h) = <<>> /\ RowOf(link, h) = {h} /\ link[h].prev = h
  <2> PICK k, u : k = Size(link, h) /\ u = Row(link, h)
    OBVIOUS
  <2>1. /\ Chain(link, k, u) /\ k \in Nat /\ u[0] = h /\ k = Len(After(link, h))
        /\ After(link, h) \in Seq(Node) /\ RowOf(link, h) = {h} \cup ToSet(After(link, h))
    BY <1>1, RowIs DEF LinkedInv
  <2>2. /\ \A i \in 1 .. k : u[i] \in Node /\ link[u[i - 1]].next = u[i]
        /\ link[u[0]].prev = u[0]
    BY <2>1 DEF Chain
  <2>3. k = 0
    <3> SUFFICES ASSUME k # 0 PROVE FALSE
      OBVIOUS
    <3>1. 1 \in 1 .. k /\ 1 - 1 = 0
      BY <2>1
    <3>2. link[u[1 - 1]].next = u[1] /\ u[1] \in Node
      BY <2>2, <3>1
    <3> QED
      BY <1>2, <2>1, <3>1, <3>2, LinkedListAssumption DEF Cell
  <2>4. After(link, h) = <<>>
    <3> PICK r : r = After(link, h)
      OBVIOUS
    <3>1. r \in Seq(Node) /\ Len(r) = 0
      BY <2>1, <2>3
    <3>2. r = <<>>
      BY <3>1
    <3> QED
      BY <3>2
  <2> QED
    BY <2>1, <2>2, <2>4, EmptyList
<1>8. /\ link' \in Links
      /\ link'[h] = [prev |-> h, next |-> f]
      /\ link'[f] = [prev |-> h, next |-> link[f].next]
      /\ \A y \in Cell \ {h, f} : link'[y] = link[y]
  BY <1>1, <1>2, <1>3, <1>7 DEF Links
<1> DEFINE g == [i \in 0 .. n + 1 |-> IF i = 0 THEN h ELSE t[i - 1]]
<1>9. /\ n + 1 \in Nat /\ g \in [0 .. n + 1 -> Cell] /\ g[0] = h
      /\ \A i \in 1 .. n + 1 : g[i] = t[i - 1] /\ i - 1 \in 0 .. n
  <2>1. \A i \in 0 .. n + 1 : i # 0 => i - 1 \in 0 .. n
    BY <1>4
  <2>2. g \in [0 .. n + 1 -> Cell]
    BY <1>3, <1>4, <2>1
  <2>3. 0 \in 0 .. n + 1 /\ \A i \in 1 .. n + 1 : i \in 0 .. n + 1 /\ i # 0
    BY <1>4
  <2> QED
    BY <1>4, <2>1, <2>2, <2>3
<1>10. Cells(n + 1, g) = {h} \cup RowOf(link, f)
  <2>1. ASSUME NEW y \in Cells(n + 1, g) PROVE y \in {h} \cup RowOf(link, f)
    <3>1. PICK i \in 0 .. n + 1 : y = g[i]
      BY DEF Cells
    <3>2. CASE i = 0
      BY <1>9, <3>1, <3>2
    <3>3. CASE i # 0
      <4>1. i \in 1 .. n + 1
        BY <1>4, <3>3
      <4> HIDE DEF g
      <4> QED
        BY <1>4, <1>9, <3>1, <4>1 DEF Cells
    <3> QED
      BY <3>2, <3>3
  <2>2. ASSUME NEW y \in RowOf(link, f) PROVE y \in Cells(n + 1, g)
    <3>1. PICK i \in 0 .. n : y = t[i]
      BY <1>4 DEF Cells
    <3>2. i + 1 \in 1 .. n + 1 /\ i + 1 \in 0 .. n + 1 /\ (i + 1) - 1 = i
      BY <1>4
    <3> HIDE DEF g
    <3>3. g[i + 1] = t[(i + 1) - 1]
      BY <1>9, <3>2
    <3> QED
      BY <3>1, <3>2, <3>3 DEF Cells
  <2>3. h \in Cells(n + 1, g)
    <3>1. 0 \in 0 .. n + 1
      BY <1>4
    <3> HIDE DEF g
    <3> QED
      BY <1>9, <3>1 DEF Cells
  <2> QED
    BY <2>1, <2>2, <2>3
<1> HIDE DEF g
<1>11. Chain(link', n + 1, g)
  <2>1. \A i \in 0 .. n : t[i] \in RowOf(link, f) /\ t[i] # h /\ t[i] \in Cell
    <3>1. \A i \in 0 .. n : t[i] \in RowOf(link, f)
      BY <1>4 DEF Cells
    <3> QED
      BY <1>4, <1>6, <3>1
  <2>2. \A i, j \in 0 .. n + 1 : g[i] = g[j] => i = j
    <3>1. \A i, j \in 1 .. n + 1 : g[i] = g[j] => i = j
      <4>1. \A i, j \in 1 .. n + 1 : i - 1 = j - 1 => i = j
        OBVIOUS
      <4> QED
        BY <1>5, <1>9, <4>1
    <3>2. \A i \in 1 .. n + 1 : g[i] # g[0]
      BY <1>9, <2>1
    <3>3. \A i \in 0 .. n + 1 : i = 0 \/ i \in 1 .. n + 1
      BY <1>4
    <3> QED
      BY <3>1, <3>2, <3>3
  <2>3. \A i \in 1 .. n + 1 : g[i] \in Node
    <3>1. \A i \in 0 .. n : t[i] \in Node
      <4>1. \A i \in 0 .. n : i = 0 \/ i \in 1 .. n
        BY <1>4
      <4> QED
        BY <1>3, <1>4, <1>5, <4>1
    <3> QED
      BY <1>9, <3>1
  <2>4. link'[g[0]].prev = g[0]
    BY <1>8, <1>9
  <2>5. \A i \in 1 .. n + 1 : link'[g[i]].prev = g[i - 1] /\ link'[g[i - 1]].next = g[i]
    <3> SUFFICES ASSUME NEW i \in 1 .. n + 1
                 PROVE  link'[g[i]].prev = g[i - 1] /\ link'[g[i - 1]].next = g[i]
      OBVIOUS
    <3>1. CASE i = 1
      <4>1. g[i] = f /\ g[i - 1] = h
        BY <1>4, <1>9, <3>1
      <4> QED
        BY <1>8, <4>1
    <3>2. CASE i # 1
      <4>1. /\ i - 1 \in 1 .. n + 1 /\ i - 1 \in 1 .. n /\ i - 1 \in 0 .. n
            /\ (i - 1) - 1 \in 0 .. n /\ 0 \in 0 .. n /\ i - 1 # 0
        BY <1>4, <3>2
      <4>2. g[i] = t[i - 1] /\ g[i - 1] = t[(i - 1) - 1]
        BY <1>9, <4>1
      <4>3. t[i - 1] # f
        BY <1>4, <1>5, <4>1
      <4>4. link'[t[i - 1]] = link[t[i - 1]]
        BY <1>8, <2>1, <4>1, <4>3
      <4>5. link'[t[(i - 1) - 1]].next = link[t[(i - 1) - 1]].next
        <5>1. CASE t[(i - 1) - 1] = f
          BY <1>8, <5>1
        <5>2. CASE t[(i - 1) - 1] # f
          BY <1>8, <2>1, <4>1, <5>2
        <5> QED
          BY <5>1, <5>2
      <4> QED
        BY <1>5, <4>1, <4>2, <4>4, <4>5
    <3> QED
      BY <3>1, <3>2
  <2>6. link'[g[n + 1]].next = NULL
    <3>1. n + 1 \in 1 .. n + 1 /\ (n + 1) - 1 = n /\ n \in 0 .. n
      BY <1>4
    <3>2. g[n + 1] = t[n]
      <4>1. g[n + 1] = t[(n + 1) - 1]
        BY <1>9, <3>1
      <4> QED
        BY <3>1, <4>1
    <3>3. CASE t[n] = f
      BY <1>5, <1>8, <3>2, <3>3
    <3>4. CASE t[n] # f
      BY <1>5, <1>8, <2>1, <3>1, <3>2, <3>4
    <3> QED
      BY <3>3, <3>4
  <2> QED
    BY <1>9, <2>2, <2>3, <2>4, <2>5, <2>6 DEF Chain
<1>12. /\ IsRow(link', h) /\ RowOf(link', h) = {h} \cup RowOf(link, f)
       /\ After(link', h) = [i \in 1 .. n + 1 |-> g[i]]
  <2>1. \A q : Chain(link', q, g) =>
                 /\ IsRow(link', g[0]) /\ RowOf(link', g[0]) = Cells(q, g)
                 /\ After(link', g[0]) = [i \in 1 .. q |-> g[i]]
    BY ChainIsRow
  <2> QED
    BY <1>9, <1>10, <1>11, <2>1
<1>13. \A a \in Starts \ {h, f} : /\ IsRow(link', a) /\ After(link', a) = After(link, a)
                                  /\ RowOf(link', a) = RowOf(link, a)
                                  /\ RowOf(link, a) \cap RowOf(link', h) = {}
  <2> SUFFICES ASSUME NEW a \in Starts, a # h, a # f
               PROVE  /\ IsRow(link', a) /\ After(link', a) = After(link, a)
                      /\ RowOf(link', a) = RowOf(link, a)
                      /\ RowOf(link, a) \cap RowOf(link', h) = {}
    OBVIOUS
  <2>1. IsRow(link, a) /\ RowOf(link, a) \cap RowOf(link, h) = {} /\ RowOf(link, a) \cap RowOf(link, f) = {}
    BY <1>1, <1>3 DEF LinkedInv
  <2>2. f \in RowOf(link, f)
    BY <1>3, RowIs DEF LinkedInv
  <2>3. \A y \in RowOf(link, a) : link'[y] = link[y]
    BY <1>1, <1>6, <1>8, <2>1, <2>2
  <2> QED
    BY <1>6, <1>12, <2>1, <2>3, RowSame
<1>14. first \in [Caller -> Node \cup {NULL}]
  BY DEF LinkedInv, TypeOK
<1>15. /\ first' \in [Caller -> Node \cup {NULL}] /\ first'[c] = NULL
       /\ \A d \in Caller \ {c} : first'[d] = first[d]
  BY <1>2, <1>14
<1>16. Starts' = Starts \ {f}
  <2>1. \A d \in Caller \ {c} : first[d] # f
    BY <1>2 DEF LinkedInv
  <2>2. f \notin Anchor
    BY <1>3, LinkedListAssumption
  <2> QED
    BY <1>15, <2>1, <2>2 DEF Starts
<1>17. \A d, e \in Caller : first'[d] # NULL /\ first'[d] = first'[e] => d = e
  BY <1>15 DEF LinkedInv
<1>18. \A a \in Starts' : IsRow(link', a)
  BY <1>12, <1>13, <1>16
<1>19. \A a, b \in Starts' : a # b => RowOf(link', a) \cap RowOf(link', b) = {}
  <2>1. \A a, b \in Starts \ {h, f} : a # b => RowOf(link', a) \cap RowOf(link', b) = {}
    BY <1>13 DEF LinkedInv
  <2>2. \A a \in Starts \ {h, f} : RowOf(link', a) \cap RowOf(link', h) = {}
    BY <1>13
  <2> QED
    BY <1>16, <2>1, <2>2
<1>20. LinkedInv'
  BY <1>8, <1>15, <1>17, <1>18, <1>19 DEF LinkedInv, TypeOK
<1>21. <<f>> \o s = [i \in 1 .. n + 1 |-> g[i]]
  <2>1. <<f>> \o s = [i \in 1 .. Len(s) + 1 |-> IF i = 1 THEN f ELSE s[i - 1]]
    BY <1>4, PrependIs
  <2>2. \A i \in 1 .. n + 1 : (IF i = 1 THEN f ELSE s[i - 1]) = g[i]
    <3> SUFFICES ASSUME NEW i \in 1 .. n + 1 PROVE (IF i = 1 THEN f ELSE s[i - 1]) = g[i]
      OBVIOUS
    <3>1. CASE i = 1
      BY <1>4, <1>9, <3>1
    <3>2. CASE i # 1
      <4>1. i - 1 \in 1 .. n
        BY <1>4, <3>2
      <4> QED
        BY <1>4, <1>9, <3>2, <4>1
    <3> QED
      BY <3>1, <3>2
  <2> QED
    BY <1>4, <2>1, <2>2
<1> QED
  BY <1>7, <1>12, <1>13, <1>20, <1>21

-----------------------------------------------------------------------------
(* Every call is one step of the store of sequences.                       *)
Listed == [h \in Anchor |-> After(link, h)]

Taken == [c \in Caller |-> TakenList(c)]

(* The operators of the store are those of Lists.                          *)
LEMMA StoreOperators ==
  ASSUME NEW s, NEW x, NEW k
  PROVE  /\ Store!ToSet(s) = ToSet(s)
         /\ Store!ListAppend(s, x) = ListAppend(s, x)
         /\ Store!ListInsert(s, k, x) = ListInsert(s, k, x)
         /\ Store!ListRemove(s, x) = ListRemove(s, x)
BY DEF ToSet, ListAppend, Cons, ListInsert, InsertAt, ListRemove, RemoveAt,
       Store!ToSet, Store!ListAppend, Store!Cons, Store!ListInsert, Store!InsertAt,
       Store!ListRemove, Store!RemoveAt

LEMMA StoreOnSome ==
  ASSUME LinkedInv, NEW x \in Node, Unlisted(x)
  PROVE  ~Store!OnSome(x)
<1>1. \A h \in Anchor : ToSet(After(link, h)) = OnList(h)
  BY DEF ToSet, OnList
<1>2. \A c \in Caller : ToSet(TakenList(c)) = Held(c)
  <2> SUFFICES ASSUME NEW c \in Caller PROVE ToSet(TakenList(c)) = Held(c)
    OBVIOUS
  <2>1. CASE first[c] = NULL
    BY <2>1, EmptyList DEF TakenList, Held
  <2>2. CASE first[c] # NULL
    <3> PICK f, s : f = first[c] /\ s = After(link, f)
      OBVIOUS
    <3>1. s \in Seq(Node)
      BY <2>2, StartsAreCells, RowIs DEF LinkedInv
    <3> PICK w : w = <<f>> \o s
      OBVIOUS
    <3>2. w = [i \in 1 .. Len(s) + 1 |-> IF i = 1 THEN f ELSE s[i - 1]]
      BY <3>1, PrependIs
    <3>3. ToSet(w) = {f} \cup ToSet(s)
      <4>1. ToSet(w) = {w[i] : i \in 1 .. Len(s) + 1} /\ ToSet(s) = {s[i] : i \in 1 .. Len(s)}
        <5>1. DOMAIN w = 1 .. Len(s) + 1 /\ DOMAIN s = 1 .. Len(s)
          BY <3>1, <3>2
        <5> QED
          BY <5>1, Zenon DEF ToSet
      <4>2. Len(s) \in Nat /\ w[1] = f /\ 1 \in 1 .. Len(s) + 1
        BY <3>1, <3>2
      <4>3. \A i \in 1 .. Len(s) + 1 : i # 1 => i - 1 \in 1 .. Len(s) /\ w[i] = s[i - 1]
        BY <3>2, <4>2
      <4>4. \A i \in 1 .. Len(s) : i + 1 \in 1 .. Len(s) + 1 /\ w[i + 1] = s[i]
        <5> SUFFICES ASSUME NEW i \in 1 .. Len(s)
                     PROVE  i + 1 \in 1 .. Len(s) + 1 /\ w[i + 1] = s[i]
          OBVIOUS
        <5>1. i + 1 \in 1 .. Len(s) + 1 /\ i + 1 # 1 /\ (i + 1) - 1 = i
          BY <4>2
        <5> QED
          BY <3>2, <5>1
      <4>5. \A y \in ToSet(w) : y \in {f} \cup ToSet(s)
        BY <4>1, <4>2, <4>3
      <4>6. ASSUME NEW y \in ToSet(s) PROVE y \in ToSet(w)
        <5>1. PICK i \in 1 .. Len(s) : y = s[i]
          BY <4>1
        <5>2. i + 1 \in 1 .. Len(s) + 1 /\ w[i + 1] = y
          BY <4>4, <5>1
        <5> QED
          BY <4>1, <5>2
      <4>7. f \in ToSet(w)
        BY <4>1, <4>2
      <4> QED
        BY <4>5, <4>6, <4>7
    <3>4. TakenList(c) = w
      BY <2>2 DEF TakenList
    <3>5. Held(c) = {f} \cup ToSet(s)
      BY <2>2 DEF Held, ToSet
    <3> QED
      BY <3>3, <3>4, <3>5
  <2> QED
    BY <2>1, <2>2
<1> QED
  BY <1>1, <1>2, StoreOperators DEF Unlisted, Store!OnSome

(* Where nothing else changes, nothing else changes in the store.          *)
LEMMA StoreChange ==
  ASSUME LinkedInv, UNCHANGED first, NEW h \in Anchor, NEW s, After(link', h) = s,
         \A a \in Starts \ {h} : After(link', a) = After(link, a)
  PROVE  Listed' = [Listed EXCEPT ![h] = s] /\ Taken' = Taken
<1>1. \A a \in Anchor \ {h} : After(link', a) = After(link, a)
  BY StartsAreCells
<1>2. \A c \in Caller : first[c] # NULL => After(link', first[c]) = After(link, first[c])
  BY StartsAreCells, LinkedListAssumption
<1>3. Listed' = [Listed EXCEPT ![h] = s]
  BY <1>1 DEF Listed
<1>4. Taken' = Taken
  BY <1>2 DEF Taken, TakenList
<1> QED
  BY <1>3, <1>4

(* Positions on a list.                                                    *)
LEMMA OnListAt ==
  ASSUME LinkedInv, NEW h \in Anchor, NEW at \in OnList(h)
  PROVE  \E k \in 1 .. Size(link, h) : at = Row(link, h)[k] /\ at = After(link, h)[k]
<1>1. /\ Size(link, h) = Len(After(link, h)) /\ After(link, h) \in Seq(Node)
      /\ \A i \in 1 .. Size(link, h) : After(link, h)[i] = Row(link, h)[i]
  BY StartsAreCells, RowIs DEF LinkedInv
<1>2. DOMAIN After(link, h) = 1 .. Size(link, h)
  BY <1>1
<1> QED
  BY <1>1, <1>2 DEF OnList

LEMMA InitialLinks ==
  ASSUME NEW l \in Links, NEW x \in Node
  PROVE  INIT_LLIST(l, x) \in Links /\ \A y \in Cell \ {x} : INIT_LLIST(l, x)[y] = l[y]
BY DEF INIT_LLIST, Links, Cell

LEMMA AppendNodeStep ==
  ASSUME LinkedInv, NEW h \in Anchor, NEW x \in Node, AppendNode(h, x)
  PROVE  LinkedInv' /\ Store!AddFirst(h, x)
<1>1. Unlisted(x) /\ link' = list_append(link, h, x) /\ UNCHANGED first
  BY DEF AppendNode
<1>2. link \in Links /\ Row(link, h)[0] = h /\ Size(link, h) \in Nat /\ After(link, h) \in Seq(Node)
  BY StartsAreCells, RowIs DEF LinkedInv
<1>3. \A k \in 0 .. Size(link, h) : link' = list_append(link, Row(link, h)[k], x) =>
        /\ LinkedInv'
        /\ After(link', h) = ListInsert(After(link, h), k + 1, x)
        /\ \A a \in Starts \ {h} : After(link', a) = After(link, a)
  BY <1>1, <1>2, Appended
<1>4. /\ LinkedInv'
      /\ After(link', h) = ListInsert(After(link, h), 1, x)
      /\ \A a \in Starts \ {h} : After(link', a) = After(link, a)
  <2>1. 0 \in 0 .. Size(link, h) /\ 0 + 1 = 1
    BY <1>2
  <2> QED
    BY <1>1, <1>2, <1>3, <2>1
<1>5. After(link', h) = ListAppend(After(link, h), x)
  BY <1>2, <1>4, AppendIsInsert
<1>6. Listed' = [Listed EXCEPT ![h] = ListAppend(After(link, h), x)] /\ Taken' = Taken
  BY <1>1, <1>4, <1>5, StoreChange
<1>7. Listed[h] = After(link, h)
  BY DEF Listed
<1>8. ~Store!OnSome(x)
  BY <1>1, StoreOnSome
<1>9. Listed' = [Listed EXCEPT ![h] = ListAppend(@, x)]
  BY <1>6, <1>7
<1> QED
  BY <1>4, <1>6, <1>8, <1>9, StoreOperators DEF Store!AddFirst, Listed, Taken

LEMMA AddAtStep ==
  ASSUME LinkedInv, NEW h \in Anchor, NEW k \in 0 .. Size(link, h), NEW x \in Node, Unlisted(x),
         UNCHANGED first, NEW p \in Links, \A y \in Cell \ {x} : p[y] = link[y],
         link' = list_append(p, Row(link, h)[k], x)
  PROVE  LinkedInv' /\ k + 1 \in 1 .. Len(Listed[h]) + 1 /\ Store!AddAt(h, k + 1, x)
<1>1. /\ LinkedInv'
      /\ After(link', h) = ListInsert(After(link, h), k + 1, x)
      /\ \A a \in Starts \ {h} : After(link', a) = After(link, a)
  BY Appended
<1>2. Listed' = [Listed EXCEPT ![h] = ListInsert(After(link, h), k + 1, x)] /\ Taken' = Taken
  BY <1>1, StoreChange
<1>3. Listed[h] = After(link, h)
  BY DEF Listed
<1>4. Size(link, h) = Len(After(link, h)) /\ Size(link, h) \in Nat
  BY StartsAreCells, RowIs DEF LinkedInv
<1>5. k + 1 \in 1 .. Len(Listed[h]) + 1
  BY <1>3, <1>4
<1>6. Listed' = [Listed EXCEPT ![h] = ListInsert(@, k + 1, x)]
  BY <1>2, <1>3
<1>7. ~Store!OnSome(x)
  BY StoreOnSome
<1> QED
  <2>1. Listed' = [Listed EXCEPT ![h] = Store!ListInsert(@, k + 1, x)]
    BY <1>6, StoreOperators
  <2>2. Store!AddAt(h, k + 1, x)
    BY <1>2, <1>7, <2>1 DEF Store!AddAt, Listed, Taken
  <2> QED
    BY <1>1, <1>5, <2>2

LEMMA AppendAfterStep ==
  ASSUME LinkedInv, NEW h \in Anchor, NEW at \in Node, NEW x \in Node, AppendAfter(h, at, x)
  PROVE  LinkedInv' /\ \E k \in 1 .. Len(Listed[h]) + 1 : Store!AddAt(h, k, x)
<1>1. /\ at \in OnList(h) /\ Unlisted(x) /\ UNCHANGED first
      /\ link' = list_append(INIT_LLIST(link, x), at, x)
  BY DEF AppendAfter
<1>2. PICK k \in 1 .. Size(link, h) : at = Row(link, h)[k]
  BY <1>1, OnListAt
<1>3. INIT_LLIST(link, x) \in Links /\ \A y \in Cell \ {x} : INIT_LLIST(link, x)[y] = link[y]
  BY StartsAreCells, InitialLinks
<1>4. k \in 0 .. Size(link, h) /\ link' = list_append(INIT_LLIST(link, x), Row(link, h)[k], x)
  BY <1>1, <1>2
<1>5. LinkedInv' /\ k + 1 \in 1 .. Len(Listed[h]) + 1 /\ Store!AddAt(h, k + 1, x)
  BY <1>1, <1>3, <1>4, AddAtStep
<1> QED
  BY <1>5

LEMMA InsertBeforeStep ==
  ASSUME LinkedInv, NEW h \in Anchor, NEW at \in Node, NEW x \in Node, InsertBefore(h, at, x)
  PROVE  LinkedInv' /\ \E k \in 1 .. Len(Listed[h]) + 1 : Store!AddAt(h, k, x)
<1>1. /\ at \in OnList(h) /\ Unlisted(x) /\ UNCHANGED first
      /\ link' = list_insert(INIT_LLIST(link, x), at, x)
  BY DEF InsertBefore
<1>2. PICK k \in 1 .. Size(link, h) : at = Row(link, h)[k]
  BY <1>1, OnListAt
<1> PICK n, t, p : n = Size(link, h) /\ t = Row(link, h) /\ p = INIT_LLIST(link, x)
  OBVIOUS
<1>3. p \in Links /\ \A y \in Cell \ {x} : p[y] = link[y]
  BY StartsAreCells, InitialLinks
<1>4. Chain(link, n, t) /\ n \in Nat /\ RowOf(link, h) = Cells(n, t) /\ t \in [0 .. n -> Cell]
  BY StartsAreCells, RowIs DEF LinkedInv, RowOf
<1>5. /\ k \in 0 .. n /\ k - 1 \in 0 .. n /\ k - 1 # k
      /\ link[t[k]].prev = t[k - 1] /\ link[t[k - 1]].next = t[k]
  BY <1>2, <1>4 DEF Chain
<1> PICK b : b = t[k - 1]
  OBVIOUS
<1>6. at \in Cell /\ b \in Cell /\ b # at
  BY <1>2, <1>4, <1>5 DEF Chain
<1>7. x \notin Cells(n, t) /\ x \in Cell
  BY <1>1, <1>4, UnlistedMeans, StartsAreCells DEF Cell
<1>8. at # x /\ b # x
  BY <1>2, <1>5, <1>7 DEF Cells
<1>9. p[at].prev = b /\ p[b].next = at
  BY <1>2, <1>3, <1>5, <1>6, <1>8
<1>10. link' = list_append(p, b, x)
  BY <1>1, <1>3, <1>6, <1>7, <1>8, <1>9, InsertIsAppend
<1>11. \A j \in 0 .. Size(link, h) : link' = list_append(p, Row(link, h)[j], x) =>
         LinkedInv' /\ j + 1 \in 1 .. Len(Listed[h]) + 1 /\ Store!AddAt(h, j + 1, x)
  BY <1>1, <1>3, AddAtStep
<1>12. LinkedInv' /\ (k - 1) + 1 \in 1 .. Len(Listed[h]) + 1 /\ Store!AddAt(h, (k - 1) + 1, x)
  BY <1>5, <1>10, <1>11
<1> QED
  BY <1>12

LEMMA RemoveStep ==
  ASSUME LinkedInv, NEW h \in Anchor, NEW x \in Node, RemoveNode(h, x)
  PROVE  LinkedInv' /\ Store!Drop(h, x)
<1>1. x \in OnList(h) /\ link' = list_remove(link, x) /\ UNCHANGED first
  BY DEF RemoveNode
<1>2. PICK k \in 1 .. Size(link, h) : x = Row(link, h)[k] /\ x = After(link, h)[k]
  BY <1>1, OnListAt
<1>3. /\ LinkedInv'
      /\ After(link', h) = ListRemove(After(link, h), After(link, h)[k])
      /\ \A a \in Starts \ {h} : After(link', a) = After(link, a)
  BY <1>1, <1>2, Removed
<1>4. After(link', h) = ListRemove(After(link, h), x)
  BY <1>2, <1>3
<1>5. Listed' = [Listed EXCEPT ![h] = ListRemove(After(link, h), x)] /\ Taken' = Taken
  BY <1>1, <1>3, <1>4, StoreChange
<1>6. Listed[h] = After(link, h) /\ x \in ToSet(Listed[h])
  BY <1>1 DEF Listed, OnList, ToSet
<1>7. Listed' = [Listed EXCEPT ![h] = ListRemove(@, x)]
  BY <1>5, <1>6
<1> QED
  BY <1>3, <1>5, <1>6, <1>7, StoreOperators DEF Store!Drop, Listed, Taken

LEMMA DetachStep ==
  ASSUME LinkedInv, NEW h \in Anchor, NEW c \in Caller, Detach(h, c)
  PROVE  LinkedInv' /\ Store!Take(h, c)
<1>1. /\ LinkedInv'
      /\ After(link, h) # <<>> /\ After(link', h) = <<>>
      /\ first'[c] # NULL /\ <<first'[c]>> \o After(link', first'[c]) = After(link, h)
      /\ \A a \in Starts \ {h} : After(link', a) = After(link, a)
  BY Detached
<1>2. first[c] = NULL /\ first' = [first EXCEPT ![c] = link[h].next]
  BY DEF Detach
<1>3. \A d \in Caller \ {c} : first'[d] = first[d]
  BY <1>2 DEF LinkedInv, TypeOK
<1>4. Listed' = [Listed EXCEPT ![h] = <<>>]
  <2>1. \A a \in Anchor \ {h} : After(link', a) = After(link, a)
    BY <1>1, StartsAreCells
  <2> QED
    BY <1>1, <2>1 DEF Listed
<1>5. Taken' = [Taken EXCEPT ![c] = Listed[h]]
  <2>1. \A d \in Caller \ {c} : first[d] # NULL => After(link', first[d]) = After(link, first[d])
    BY <1>1, StartsAreCells, LinkedListAssumption
  <2>2. \A d \in Caller \ {c} : TakenList(d)' = TakenList(d)
    BY <1>3, <2>1 DEF TakenList
  <2>3. TakenList(c)' = Listed[h]
    BY <1>1 DEF TakenList, Listed
  <2> QED
    BY <2>2, <2>3 DEF Taken
<1>6. Taken[c] = <<>> /\ Listed[h] # <<>>
  BY <1>1, <1>2 DEF Taken, TakenList, Listed
<1> QED
  BY <1>1, <1>4, <1>5, <1>6 DEF Store!Take, Listed, Taken

LEMMA AttachStep ==
  ASSUME LinkedInv, NEW h \in Anchor, NEW c \in Caller, Attach(h, c)
  PROVE  LinkedInv' /\ Store!Put(h, c)
<1>1. /\ LinkedInv'
      /\ After(link, h) = <<>>
      /\ After(link', h) = <<first[c]>> \o After(link, first[c])
      /\ \A a \in Starts \ {h, first[c]} : After(link', a) = After(link, a)
  BY Attached
<1>2. first[c] # NULL /\ first' = [first EXCEPT ![c] = NULL]
  BY DEF Attach
<1>3. first'[c] = NULL /\ \A d \in Caller \ {c} : first'[d] = first[d]
  BY <1>2 DEF LinkedInv, TypeOK
<1>4. Taken[c] = <<first[c]>> \o After(link, first[c]) /\ Listed[h] = <<>>
  BY <1>1, <1>2 DEF Taken, TakenList, Listed
<1>5. Listed' = [Listed EXCEPT ![h] = Taken[c]]
  <2>1. first[c] \notin Anchor
    BY <1>2, StartsAreCells, LinkedListAssumption
  <2>2. \A a \in Anchor \ {h} : After(link', a) = After(link, a)
    BY <1>1, <2>1, StartsAreCells
  <2> QED
    BY <1>1, <1>4, <2>2 DEF Listed
<1>6. Taken' = [Taken EXCEPT ![c] = <<>>]
  <2>1. \A d \in Caller \ {c} : first[d] # NULL => After(link', first[d]) = After(link, first[d])
    <3> SUFFICES ASSUME NEW d \in Caller, d # c, first[d] # NULL
                 PROVE  After(link', first[d]) = After(link, first[d])
      OBVIOUS
    <3>1. first[d] # first[c]
      BY <1>2 DEF LinkedInv
    <3>2. first[d] \in Starts /\ first[d] # h
      BY StartsAreCells, LinkedListAssumption
    <3> QED
      BY <1>1, <3>1, <3>2
  <2>2. \A d \in Caller \ {c} : TakenList(d)' = TakenList(d)
    BY <1>3, <2>1 DEF TakenList
  <2>3. TakenList(c)' = <<>>
    BY <1>3 DEF TakenList
  <2> QED
    BY <2>2, <2>3 DEF Taken
<1>7. Taken[c] # <<>>
  <2> PICK s : s = After(link, first[c])
    OBVIOUS
  <2>1. s \in Seq(Node)
    BY <1>2, StartsAreCells, RowIs DEF LinkedInv
  <2>2. <<first[c]>> \o s # <<>>
    BY <2>1
  <2> QED
    BY <1>4, <2>2
<1> QED
  BY <1>1, <1>4, <1>5, <1>6, <1>7 DEF Store!Put, Listed, Taken

LEMMA StepOfStore ==
  LinkedInv /\ [Next]_vars => LinkedInv' /\ [Store!Next]_<<Listed, Taken>>
<1> SUFFICES ASSUME LinkedInv, [Next]_vars
             PROVE  LinkedInv' /\ [Store!Next]_<<Listed, Taken>>
  OBVIOUS
<1>1. ASSUME NEW h \in Anchor, NEW x \in Node, AppendNode(h, x)
      PROVE  LinkedInv' /\ Store!Next
  BY <1>1, AppendNodeStep DEF Store!Next
<1>2. ASSUME NEW h \in Anchor, NEW x \in Node, RemoveNode(h, x)
      PROVE  LinkedInv' /\ Store!Next
  BY <1>2, RemoveStep DEF Store!Next
<1>3. ASSUME NEW h \in Anchor, NEW x \in Node, NEW at \in Node,
             AppendAfter(h, at, x) \/ InsertBefore(h, at, x)
      PROVE  LinkedInv' /\ Store!Next
  <2>1. LinkedInv' /\ \E k \in 1 .. Len(Listed[h]) + 1 : Store!AddAt(h, k, x)
    BY <1>3, AppendAfterStep, InsertBeforeStep
  <2> QED
    BY <2>1 DEF Store!Next, Listed
<1>4. ASSUME NEW h \in Anchor, NEW c \in Caller, Detach(h, c) \/ Attach(h, c)
      PROVE  LinkedInv' /\ Store!Next
  BY <1>4, DetachStep, AttachStep DEF Store!Next
<1>5. CASE UNCHANGED vars
  <2>1. Listed' = Listed /\ Taken' = Taken
    BY <1>5 DEF vars, Listed, Taken, TakenList
  <2>2. LinkedInv'
    BY <1>5 DEF vars, LinkedInv, TypeOK, Starts
  <2> QED
    BY <2>1, <2>2
<1> QED
  BY <1>1, <1>2, <1>3, <1>4, <1>5 DEF Next

(* Nothing is listed in the beginning.                                     *)
LEMMA InitialStore == Init => LinkedInv /\ Store!Init
<1> SUFFICES ASSUME Init PROVE LinkedInv /\ Store!Init
  OBVIOUS
<1>1. /\ link = [a \in Cell |-> [prev |-> a, next |-> NULL]]
      /\ first = [c \in Caller |-> NULL]
  BY DEF Init
<1>2. Starts = Anchor
  BY <1>1 DEF Starts
<1>3. \A a \in Cell : /\ Chain(link, 0, [i \in 0 .. 0 |-> a])
  BY <1>1 DEF Chain
<1>4. ASSUME NEW h \in Anchor
      PROVE  IsRow(link, h) /\ RowOf(link, h) = {h} /\ After(link, h) = <<>>
  <2> DEFINE z == [i \in 0 .. 0 |-> h]
  <2>1. Chain(link, 0, z) /\ z[0] = h /\ Cells(0, z) = {h}
    <3>1. z[0] = h /\ 0 .. 0 = {0} /\ h \in Cell
      BY DEF Cell
    <3>2. Chain(link, 0, z)
      BY <1>3, <3>1
    <3>3. Cells(0, z) = {z[0]}
      BY <3>1 DEF Cells
    <3> QED
      BY <3>1, <3>2, <3>3
  <2> HIDE DEF z
  <2>2. \A q : Chain(link, q, z) =>
                 /\ IsRow(link, z[0]) /\ RowOf(link, z[0]) = Cells(q, z)
                 /\ After(link, z[0]) = [i \in 1 .. q |-> z[i]]
    BY ChainIsRow
  <2>3. /\ IsRow(link, h) /\ RowOf(link, h) = {h}
        /\ After(link, h) = [i \in 1 .. 0 |-> z[i]]
    BY <2>1, <2>2
  <2> QED
    BY <2>3
<1>5. TypeOK
  BY <1>1 DEF TypeOK, Links
<1>6. LinkedInv
  BY <1>1, <1>2, <1>4, <1>5 DEF LinkedInv
<1>7. Store!Init
  BY <1>1, <1>4 DEF Store!Init, TakenList
<1> QED
  BY <1>6, <1>7

(* The invariant in every reachable state, for any heads, nodes, callers.  *)
THEOREM LinksInvariance == Spec => []LinkedInv
<1>1. Init => LinkedInv
  BY InitialStore
<1>2. LinkedInv /\ [Next]_vars => LinkedInv'
  BY StepOfStore
<1> QED
  BY <1>1, <1>2, PTL DEF Spec

(* The pointers implement the sequences the other modules use.             *)
THEOREM ListsRefine == Spec => Implements
<1>1. Init => Store!Init
  BY InitialStore
<1>2. LinkedInv /\ [Next]_vars => [Store!Next]_<<Listed, Taken>>
  BY StepOfStore
<1>3. LinkedInv /\ [Next]_vars =>
        [Store!Next]_<<[h \in Anchor |-> After(link, h)], [c \in Caller |-> TakenList(c)]>>
  BY <1>2 DEF Listed, Taken
<1> QED
  BY <1>1, <1>3, LinksInvariance, PTL DEF Spec, Implements, Store!Spec

(* prev is the inverse of next, and count, emptiness and ends of a list    *)
(* are the same from the head and from every node of it.                   *)
THEOREM PointersCorrect == Spec => []PointersInv
<1>1. LinkedInv => BackLinks
  <2> SUFFICES ASSUME LinkedInv PROVE BackLinks
    OBVIOUS
  <2>1. \A a \in Starts : link[a].prev = a
    <3> SUFFICES ASSUME NEW a \in Starts PROVE link[a].prev = a
      OBVIOUS
    <3>1. Chain(link, Size(link, a), Row(link, a)) /\ Row(link, a)[0] = a
      BY RowIs DEF LinkedInv
    <3> QED
      BY <3>1 DEF Chain
  <2>2. ASSUME NEW a \in Cell, a \in Anchor \/ ~Unlisted(a), link[a].next # NULL
        PROVE  link[link[a].next].prev = a
    <3>1. PICK b \in Starts : a \in RowOf(link, b)
      <4>1. CASE a \in Anchor
        BY <4>1, StartsAreCells, RowIs DEF LinkedInv
      <4>2. CASE a \notin Anchor
        BY <2>2, <4>2, UnlistedMeans DEF Cell
      <4> QED
        BY <4>1, <4>2
    <3> PICK n, t : n = Size(link, b) /\ t = Row(link, b)
      OBVIOUS
    <3>2. Chain(link, n, t) /\ n \in Nat /\ RowOf(link, b) = Cells(n, t)
      BY RowIs DEF LinkedInv, RowOf
    <3>3. PICK i \in 0 .. n : a = t[i]
      BY <3>1, <3>2 DEF Cells
    <3>4. i # n
      BY <2>2, <3>2, <3>3 DEF Chain
    <3>5. i + 1 \in 1 .. n /\ (i + 1) - 1 = i
      BY <3>2, <3>4
    <3>6. link[t[i + 1]].prev = t[(i + 1) - 1] /\ link[t[(i + 1) - 1]].next = t[i + 1]
      BY <3>2, <3>5 DEF Chain
    <3> QED
      BY <3>3, <3>5, <3>6
  <2> QED
    BY <2>1, <2>2, StartsAreCells DEF BackLinks
<1>2. LinkedInv => CountAnywhere
  <2> SUFFICES ASSUME LinkedInv, NEW h \in Anchor, NEW a \in OnList(h) \cup {h}
               PROVE  LET s == After(link, h)
                      IN /\ list_count(link, a) = Len(s)
                         /\ list_begin(link, a) = h
                         /\ list_end(link, a) = IF s = <<>> THEN h ELSE s[Len(s)]
                         /\ list_isempty(link, a) <=> s = <<>>
    BY DEF CountAnywhere
  <2> PICK n, t, s : n = Size(link, h) /\ t = Row(link, h) /\ s = After(link, h)
    OBVIOUS
  <2>1. /\ Chain(link, n, t) /\ n \in Nat /\ t[0] = h
        /\ s \in Seq(Node) /\ n = Len(s) /\ \A i \in 1 .. n : s[i] = t[i]
    BY StartsAreCells, RowIs DEF LinkedInv
  <2>2. PICK k \in 0 .. n : a = t[k]
    <3>1. CASE a = h
      <4>1. 0 \in 0 .. n
        BY <2>1
      <4> QED
        BY <2>1, <3>1, <4>1
    <3>2. CASE a \in OnList(h)
      <4>1. PICK j \in 1 .. Size(link, h) : a = Row(link, h)[j]
        BY <3>2, OnListAt
      <4>2. j \in 0 .. n /\ a = t[j]
        BY <2>1, <4>1
      <4> QED
        BY <4>2
    <3> QED
      BY <3>1, <3>2
  <2>3. list_begin(link, a) = h
    BY <2>1, <2>2, BeginChain
  <2>4. list_count(link, a) = Len(s)
    BY <2>3 DEF list_count
  <2>5. list_isempty(link, a) <=> s = <<>>
    <3>1. link[t[n]].next = NULL /\ \A i \in 1 .. n : link[t[i - 1]].next = t[i] /\ t[i] \in Node
      BY <2>1 DEF Chain
    <3>b. list_isempty(link, a) <=> link[h].next = NULL
      BY <2>3 DEF list_isempty
    <3>c. s = <<>> <=> n = 0
      BY <2>1
    <3>2. CASE n = 0
      BY <2>1, <3>1, <3>2, <3>b, <3>c
    <3>3. CASE n # 0
      <4>1. 1 \in 1 .. n /\ 1 - 1 = 0
        BY <2>1, <3>3
      <4>2. link[t[1 - 1]].next = t[1] /\ t[1] \in Node
        BY <3>1, <4>1
      <4>3. link[h].next # NULL
        BY <2>1, <4>1, <4>2, LinkedListAssumption DEF Cell
      <4> QED
        BY <3>3, <4>3, <3>b, <3>c
    <3> QED
      BY <3>2, <3>3
  <2>6. list_end(link, a) = IF s = <<>> THEN h ELSE s[Len(s)]
    <3> PICK r : r = After(link, a)
      OBVIOUS
    <3>a. After(link, t[k]) = [i \in 1 .. n - k |-> t[i + k]]
      BY <2>1, AfterChain
    <3>1. r = [i \in 1 .. n - k |-> t[i + k]]
      BY <2>2, <3>a
    <3>2. list_end(link, a) = IF r = <<>> THEN a ELSE r[Len(r)]
      BY DEF list_end
    <3>3. k \in Nat /\ n \in Nat /\ k <= n /\ n - k \in Nat
      BY <2>1, <2>2
    <3>4. Len(r) = n - k
      BY <3>1, <3>3
    <3>5. CASE k = n
      <4>1. r = <<>>
        BY <3>1, <3>3, <3>5
      <4>2. s = <<>> <=> n = 0
        BY <2>1
      <4> QED
        BY <2>1, <2>2, <3>2, <3>5, <4>1, <4>2
    <3>6. CASE k # n
      <4>1. n - k \in 1 .. n - k /\ (n - k) + k = n /\ n \in 1 .. n
        BY <3>3, <3>6
      <4>2. r # <<>> /\ r[Len(r)] = t[n]
        BY <3>1, <3>4, <4>1
      <4>3. s # <<>> /\ s[Len(s)] = t[n]
        BY <2>1, <4>1
      <4> QED
        BY <3>2, <4>2, <4>3
    <3> QED
      BY <3>5, <3>6
  <2> QED
    BY <2>3, <2>4, <2>5, <2>6
<1>3. LinkedInv => PointersInv
  BY <1>1, <1>2 DEF PointersInv, LinkedInv
<1> QED
  BY <1>3, LinksInvariance, PTL
=============================================================================
