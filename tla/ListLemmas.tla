----------------------------- MODULE ListLemmas -----------------------------
(***************************************************************************)
(* Lemmas about the list operations of module Lists, for lists of any      *)
(* length: what each does to the length of a list and to the set of its    *)
(* nodes, and that a list without repetition stays one.  Before them the   *)
(* least number of a set and the induction that comes of it; behind them   *)
(* loops, and the parts of a number that is a word and a bit.              *)
(***************************************************************************)
EXTENDS Lists, SequenceTheorems, WellFoundedInduction, TLAPS

LEMMA LessThanWellFounded == IsWellFoundedOn({p \in Nat \X Nat : p[1] < p[2]}, Nat)
BY NatLessThanWellFounded, Zenon DEF OpToRel

LEMMA HasLeast ==
  ASSUME NEW T \in SUBSET Nat, T # {}
  PROVE  \E x \in T : \A y \in T : x <= y
<1> DEFINE R == {p \in Nat \X Nat : p[1] < p[2]}
<1>1. \E x \in T : \A y \in T : ~(<<y, x>> \in R)
  <2> HIDE DEF R
  <2>1. IsWellFoundedOn(R, Nat)
    BY LessThanWellFounded, Zenon DEF R
  <2> QED
    BY <2>1, WFMin
<1>2. PICK x \in T : \A y \in T : ~(<<y, x>> \in R)
  BY <1>1
<1>3. \A y \in T : x <= y
  <2> SUFFICES ASSUME NEW y \in T, y < x PROVE FALSE
    OBVIOUS
  <2>1. <<y, x>> \in R
    OBVIOUS
  <2> QED
    BY <1>2, <2>1
<1> QED
  BY <1>3

(* Induction up to n, over a set of numbers.                               *)
LEMMA UpTo ==
  ASSUME NEW n \in Nat, NEW T, 0 \in T, \A k \in 1 .. n : k - 1 \in T => k \in T
  PROVE  \A k \in 0 .. n : k \in T
<1> DEFINE Bad == {k \in 0 .. n : k \notin T}
<1> SUFFICES ASSUME Bad # {} PROVE FALSE
  OBVIOUS
<1>1. PICK k \in Bad : \A j \in Bad : k <= j
  <2>1. Bad \in SUBSET Nat
    OBVIOUS
  <2> HIDE DEF Bad
  <2> QED
    BY <2>1, HasLeast
<1>2. k \in 1 .. n
  OBVIOUS
<1>3. k - 1 \notin Bad
  BY <1>1, <1>2
<1> QED
  BY <1>2, <1>3

-----------------------------------------------------------------------------
LEMMA EmptyList ==
  /\ ToSet(<<>>) = {}
  /\ IsInjective(<<>>)
  /\ Len(<<>>) = 0
  /\ \A S : <<>> \in Seq(S)
BY DEF ToSet, IsInjective

LEMMA ElementsOfList ==
  ASSUME NEW S, NEW s \in Seq(S)
  PROVE  /\ ToSet(s) \subseteq S
         /\ Len(s) \in Nat
         /\ Len(s) = 0 <=> s = <<>>
         /\ s # <<>> <=> ToSet(s) # {}
BY DEF ToSet

(* A list given as a function of the position.                             *)
LEMMA FunctionList ==
  ASSUME NEW S, NEW n \in Nat, NEW s \in [1 .. n -> S]
  PROVE  s \in Seq(S) /\ Len(s) = n
OBVIOUS

(* list_append: the node becomes the first one.                            *)
LEMMA AppendList ==
  ASSUME NEW S, NEW s \in Seq(S), NEW p \in S
  PROVE  /\ ListAppend(s, p) \in Seq(S)
         /\ ListAppend(s, p) # <<>>
         /\ Len(ListAppend(s, p)) = Len(s) + 1
         /\ ToSet(ListAppend(s, p)) = ToSet(s) \cup {p}
         /\ IsInjective(s) /\ p \notin ToSet(s) => IsInjective(ListAppend(s, p))
<1> DEFINE t == ListAppend(s, p)
<1>1. /\ t \in Seq(S)
      /\ Len(t) = Len(s) + 1
      /\ \A i \in 1 .. Len(t) : t[i] = IF i = 1 THEN p ELSE s[i - 1]
  BY DEF ListAppend, Cons
<1>2. t # <<>>
  BY <1>1
<1>3. DOMAIN s = 1 .. Len(s) /\ DOMAIN t = 1 .. Len(t)
  BY <1>1
<1> HIDE DEF t
<1>4. ToSet(t) = ToSet(s) \cup {p}
  <2>1. ASSUME NEW x \in ToSet(t) PROVE x \in ToSet(s) \cup {p}
    BY <1>1, <1>3 DEF ToSet
  <2>2. ASSUME NEW x \in ToSet(s) PROVE x \in ToSet(t)
    <3>1. PICK i \in 1 .. Len(s) : x = s[i]
      BY <1>3 DEF ToSet
    <3>2. i + 1 \in 1 .. Len(t) /\ t[i + 1] = x
      BY <1>1, <3>1
    <3> QED
      BY <1>3, <3>2 DEF ToSet
  <2>3. p \in ToSet(t)
    <3>1. 1 \in 1 .. Len(t) /\ t[1] = p
      BY <1>1
    <3> QED
      BY <1>3, <3>1 DEF ToSet
  <2> QED
    BY <2>1, <2>2, <2>3
<1>5. ASSUME IsInjective(s), p \notin ToSet(s) PROVE IsInjective(t)
  <2> SUFFICES ASSUME NEW i \in 1 .. Len(t), NEW j \in 1 .. Len(t), t[i] = t[j]
               PROVE  i = j
    BY <1>3 DEF IsInjective
  <2>1. \A k \in 1 .. Len(s) : s[k] # p
    BY <1>3, <1>5 DEF ToSet
  <2>2. \A k \in 2 .. Len(t) : k - 1 \in 1 .. Len(s) /\ t[k] = s[k - 1]
    BY <1>1
  <2>3. CASE i = 1 \/ j = 1
    BY <1>1, <2>1, <2>2, <2>3, SMTT(60)
  <2>4. CASE i # 1 /\ j # 1
    <3>1. i \in 2 .. Len(t) /\ j \in 2 .. Len(t)
      BY <1>1, <2>4
    <3>2. i - 1 = j - 1
      BY <1>3, <1>5, <2>2, <3>1 DEF IsInjective
    <3> QED
      BY <3>1, <3>2
  <2> QED
    BY <2>3, <2>4
<1> QED
  BY <1>1, <1>2, <1>4, <1>5 DEF t

(* Taking the first node.                                                  *)
LEMMA PopList ==
  ASSUME NEW S, NEW s \in Seq(S), s # <<>>
  PROVE  /\ Head(s) \in S
         /\ Head(s) \in ToSet(s)
         /\ Tail(s) \in Seq(S)
         /\ Len(Tail(s)) = Len(s) - 1
         /\ IsInjective(s) => /\ ToSet(Tail(s)) = ToSet(s) \ {Head(s)}
                              /\ IsInjective(Tail(s))
<1>1. /\ Len(s) \in Nat \ {0}
      /\ DOMAIN s = 1 .. Len(s)
      /\ Head(s) = s[1]
      /\ Tail(s) \in Seq(S)
      /\ Len(Tail(s)) = Len(s) - 1
      /\ DOMAIN Tail(s) = 1 .. Len(s) - 1
      /\ \A i \in 1 .. Len(s) - 1 : Tail(s)[i] = s[i + 1]
  OBVIOUS
<1>2. Head(s) \in S /\ Head(s) \in ToSet(s)
  BY <1>1 DEF ToSet
<1>3. ASSUME IsInjective(s) PROVE ToSet(Tail(s)) = ToSet(s) \ {Head(s)}
  <2>1. ASSUME NEW x \in ToSet(Tail(s)) PROVE x \in ToSet(s) \ {Head(s)}
    <3>1. PICK i \in 1 .. Len(s) - 1 : x = s[i + 1]
      BY <1>1 DEF ToSet
    <3>2. i + 1 \in 1 .. Len(s) /\ i + 1 # 1 /\ 1 \in 1 .. Len(s)
      BY <1>1
    <3>3. s[i + 1] # s[1]
      BY <1>1, <1>3, <3>2 DEF IsInjective
    <3> QED
      BY <1>1, <3>1, <3>2, <3>3 DEF ToSet
  <2>2. ASSUME NEW x \in ToSet(s) \ {Head(s)} PROVE x \in ToSet(Tail(s))
    <3>1. PICK i \in 1 .. Len(s) : x = s[i]
      BY <1>1 DEF ToSet
    <3>2. i - 1 \in 1 .. Len(s) - 1 /\ Tail(s)[i - 1] = x
      BY <1>1, <3>1, <2>2
    <3> QED
      BY <1>1, <3>2 DEF ToSet
  <2> QED
    BY <2>1, <2>2
<1>4. ASSUME IsInjective(s) PROVE IsInjective(Tail(s))
  <2> SUFFICES ASSUME NEW i \in 1 .. Len(s) - 1, NEW j \in 1 .. Len(s) - 1,
                      Tail(s)[i] = Tail(s)[j]
               PROVE  i = j
    BY <1>1 DEF IsInjective
  <2>1. i + 1 \in 1 .. Len(s) /\ j + 1 \in 1 .. Len(s) /\ s[i + 1] = s[j + 1]
    BY <1>1
  <2>2. i + 1 = j + 1
    BY <1>1, <1>4, <2>1 DEF IsInjective
  <2> QED
    BY <2>2
<1> QED
  BY <1>1, <1>2, <1>3, <1>4

(* list_insert in front of the node at position k.                         *)
LEMMA InsertList ==
  ASSUME NEW S, NEW s \in Seq(S), NEW k \in DOMAIN s, NEW p \in S
  PROVE  /\ ListInsert(s, k, p) \in Seq(S)
         /\ ToSet(ListInsert(s, k, p)) = ToSet(s) \cup {p}
<1> DEFINE u == SubSeq(s, 1, k - 1)
           v == SubSeq(s, k, Len(s))
           w == <<p>>
           t == ListInsert(s, k, p)
<1>1. DOMAIN s = 1 .. Len(s) /\ k \in Int /\ 1 <= k /\ k <= Len(s) /\ Len(s) \in Int
  OBVIOUS
<1>2. /\ u \in Seq(S)
      /\ Len(u) = k - 1
      /\ \A i \in 1 .. k - 1 : u[i] = s[i]
  BY <1>1
<1>3. /\ v \in Seq(S)
      /\ Len(v) = Len(s) - k + 1
      /\ \A i \in 1 .. Len(s) - k + 1 : v[i] = s[k + i - 1]
  BY <1>1, SubSeqProperties
<1>4. t = (u \o w) \o v
  BY DEF ListInsert, InsertAt
<1>5. w \in Seq(S) /\ Range(w) = {p}
  <2>1. w \in Seq(S) /\ DOMAIN w = {1} /\ w[1] = p
    OBVIOUS
  <2> QED
    BY <2>1 DEF Range
<1> HIDE DEF u, v, w, t
<1>6. t \in Seq(S) /\ Range(t) = Range(u) \cup {p} \cup Range(v)
  <2>1. u \o w \in Seq(S) /\ Range(u \o w) = Range(u) \cup Range(w)
    BY <1>2, <1>5, RangeConcatenation
  <2> DEFINE uw == u \o w
  <2>2. uw \in Seq(S) /\ t = uw \o v
    BY <1>4, <2>1
  <2> HIDE DEF uw
  <2>3. t \in Seq(S) /\ Range(t) = Range(uw) \cup Range(v)
    BY <1>3, <2>2, RangeConcatenation
  <2> QED
    BY <1>5, <2>1, <2>3 DEF uw
<1>7. Range(u) \cup Range(v) = ToSet(s)
  <2>1. Range(u) = {u[i] : i \in 1 .. k - 1} /\ Range(v) = {v[i] : i \in 1 .. Len(s) - k + 1}
    BY <1>2, <1>3, RangeEquality
  <2>2. ASSUME NEW x \in Range(u) \cup Range(v) PROVE x \in ToSet(s)
    <3>1. CASE x \in Range(u)
      <4>1. PICK i \in 1 .. k - 1 : x = s[i]
        BY <1>2, <2>1, <3>1
      <4> QED
        BY <1>1, <4>1 DEF ToSet
    <3>2. CASE x \in Range(v)
      <4>1. PICK i \in 1 .. Len(s) - k + 1 : x = s[k + i - 1]
        BY <1>3, <2>1, <3>2
      <4>2. k + i - 1 \in 1 .. Len(s)
        BY <1>1, <4>1
      <4> QED
        BY <1>1, <4>1, <4>2 DEF ToSet
    <3> QED
      BY <3>1, <3>2
  <2>3. ASSUME NEW x \in ToSet(s) PROVE x \in Range(u) \cup Range(v)
    <3>1. PICK i \in 1 .. Len(s) : x = s[i]
      BY <1>1 DEF ToSet
    <3>2. CASE i < k
      <4>1. i \in 1 .. k - 1 /\ u[i] = x
        BY <1>1, <1>2, <3>1, <3>2
      <4> QED
        BY <2>1, <4>1
    <3>3. CASE i >= k
      <4>1. i - k + 1 \in 1 .. Len(s) - k + 1 /\ k + (i - k + 1) - 1 = i
        BY <1>1, <3>1, <3>3
      <4>2. v[i - k + 1] = x
        BY <1>3, <3>1, <4>1
      <4> QED
        BY <2>1, <4>1, <4>2
    <3> QED
      BY <1>1, <3>2, <3>3
  <2> QED
    BY <2>2, <2>3
<1>8. ToSet(t) = Range(t)
  BY DEF ToSet, Range
<1> QED
  BY <1>6, <1>7, <1>8 DEF t

(* list_remove closes the gap: the nodes behind it move up by one.          *)
LEMMA RemoveNodes ==
  ASSUME NEW S, NEW s \in Seq(S), NEW k \in 1 .. Len(s)
  PROVE  /\ RemoveAt(s, k) \in Seq(S)
         /\ Len(RemoveAt(s, k)) = Len(s) - 1
         /\ DOMAIN RemoveAt(s, k) = 1 .. Len(s) - 1
         /\ \A i \in 1 .. Len(s) - 1 :
              RemoveAt(s, k)[i] = IF i < k THEN s[i] ELSE s[i + 1]
<1> DEFINE t == RemoveAt(s, k)
<1>1. DOMAIN s = 1 .. Len(s) /\ Len(s) \in Nat
  OBVIOUS
<1>2. k \in 1 .. Len(s)
  OBVIOUS
<1>2a. k \in Int /\ 1 <= k /\ k <= Len(s) /\ Len(s) \in Int
  BY <1>1, <1>2
<1>3. t = SubSeq(s, 1, k - 1) \o SubSeq(s, k + 1, Len(s))
  BY DEF RemoveAt
<1> HIDE DEF t
<1>4. /\ SubSeq(s, 1, k - 1) \in Seq(S)
      /\ Len(SubSeq(s, 1, k - 1)) = k - 1
      /\ \A i \in 1 .. k - 1 : SubSeq(s, 1, k - 1)[i] = s[i]
  <2>1. k - 1 \in Nat /\ k - 1 <= Len(s)
    BY <1>1, <1>2
  <2> QED
    BY <2>1, SubSeqProperties
<1>5. /\ SubSeq(s, k + 1, Len(s)) \in Seq(S)
      /\ Len(SubSeq(s, k + 1, Len(s))) = Len(s) - k
      /\ \A i \in 1 .. Len(s) - k : SubSeq(s, k + 1, Len(s))[i] = s[i + k]
  <2> DEFINE u == SubSeq(s, k + 1, Len(s))
  <2>1. k + 1 \in Int /\ Len(s) \in Int /\ \A i \in k + 1 .. Len(s) : s[i] \in S
    BY <1>1, <1>2
  <2>2. /\ u \in Seq(S)
        /\ Len(u) = IF k + 1 <= Len(s) THEN Len(s) - (k + 1) + 1 ELSE 0
        /\ \A i \in 1 .. Len(s) - (k + 1) + 1 : u[i] = s[(k + 1) + i - 1]
    BY <2>1, SubSeqProperties
  <2> HIDE DEF u
  <2>3. Len(u) = Len(s) - k
    BY <1>2a, <2>2
  <2>4. ASSUME NEW i \in 1 .. Len(s) - k PROVE u[i] = s[i + k]
    <3>1. i \in 1 .. Len(s) - (k + 1) + 1 /\ (k + 1) + i - 1 = i + k
      BY <1>1, <1>2
    <3> QED
      BY <2>2, <3>1
  <2> QED
    BY <2>2, <2>3, <2>4 DEF u
<1>6. /\ t \in Seq(S)
      /\ Len(t) = Len(s) - 1
      /\ DOMAIN t = 1 .. Len(s) - 1
      /\ \A i \in 1 .. Len(s) - 1 : t[i] = IF i < k THEN s[i] ELSE s[i + 1]
  <2> DEFINE u == SubSeq(s, 1, k - 1)
             v == SubSeq(s, k + 1, Len(s))
  <2>1. /\ t = u \o v
        /\ u \in Seq(S) /\ Len(u) = k - 1 /\ \A i \in 1 .. k - 1 : u[i] = s[i]
        /\ v \in Seq(S) /\ Len(v) = Len(s) - k
        /\ \A i \in 1 .. Len(s) - k : v[i] = s[i + k]
    BY <1>3, <1>4, <1>5
  <2> HIDE DEF u, v
  <2>2. /\ t \in Seq(S)
        /\ Len(t) = Len(u) + Len(v)
        /\ \A i \in 1 .. Len(u) + Len(v) :
             t[i] = IF i <= Len(u) THEN u[i] ELSE v[i - Len(u)]
    BY <2>1, ConcatProperties
  <2>3. Len(t) = Len(s) - 1 /\ DOMAIN t = 1 .. Len(s) - 1
    <3>1. Len(t) = Len(s) - 1
      BY <1>2a, <2>1, <2>2
    <3> QED
      BY <2>2, <3>1
  <2>4. ASSUME NEW i \in 1 .. Len(s) - 1
        PROVE  t[i] = IF i < k THEN s[i] ELSE s[i + 1]
    <3>1. CASE i < k
      BY <1>1, <1>2, <2>1, <2>2, <3>1
    <3>2. CASE i >= k
      <4>1. t[i] = v[i - (k - 1)]
        BY <1>1, <1>2, <2>1, <2>2, <3>2
      <4>2. i - (k - 1) \in 1 .. Len(s) - k /\ (i - (k - 1)) + k = i + 1
        BY <1>1, <1>2, <3>2
      <4> QED
        <5>1. v[i - (k - 1)] = s[i + 1]
          BY <2>1, <4>2
        <5> QED
          BY <1>2a, <3>2, <4>1, <5>1
    <3> QED
      BY <1>2, <3>1, <3>2
  <2> QED
    BY <2>2, <2>3, <2>4
<1> QED
  BY <1>6 DEF t

(* list_remove of a node that is on the list.                              *)
LEMMA RemoveList ==
  ASSUME NEW S, NEW s \in Seq(S), NEW p \in ToSet(s)
  PROVE  /\ ListRemove(s, p) \in Seq(S)
         /\ Len(ListRemove(s, p)) = Len(s) - 1
         /\ IsInjective(s) => /\ ToSet(ListRemove(s, p)) = ToSet(s) \ {p}
                              /\ IsInjective(ListRemove(s, p))
<1> DEFINE k == CHOOSE i \in DOMAIN s : s[i] = p
           t == ListRemove(s, p)
<1>1. DOMAIN s = 1 .. Len(s) /\ Len(s) \in Nat
  OBVIOUS
<1>2. k \in 1 .. Len(s) /\ s[k] = p
  BY <1>1 DEF ToSet
<1>2a. k \in Int /\ 1 <= k /\ k <= Len(s) /\ Len(s) \in Int
  BY <1>1, <1>2
<1> HIDE DEF k, t
<1>6. /\ t \in Seq(S)
      /\ Len(t) = Len(s) - 1
      /\ DOMAIN t = 1 .. Len(s) - 1
      /\ \A i \in 1 .. Len(s) - 1 : t[i] = IF i < k THEN s[i] ELSE s[i + 1]
  <2>1. t = RemoveAt(s, k)
    BY DEF t, k, ListRemove
  <2> QED
    BY <1>2, <2>1, RemoveNodes
<1>7. ASSUME IsInjective(s) PROVE ToSet(t) = ToSet(s) \ {p}
  <2>1. ASSUME NEW x \in ToSet(t) PROVE x \in ToSet(s) \ {p}
    <3>1. PICK i \in 1 .. Len(s) - 1 : x = t[i]
      BY <1>6 DEF ToSet
    <3>2. \E j \in 1 .. Len(s) : j # k /\ x = s[j]
      BY <1>1, <1>2, <1>6, <3>1
    <3> QED
      BY <1>1, <1>2, <1>7, <3>2 DEF IsInjective, ToSet
  <2>2. ASSUME NEW x \in ToSet(s) \ {p} PROVE x \in ToSet(t)
    <3>1. PICK j \in 1 .. Len(s) : x = s[j]
      BY <1>1 DEF ToSet
    <3>2. j # k
      BY <1>2, <2>2, <3>1
    <3>3. CASE j < k
      <4>1. j \in 1 .. Len(s) - 1 /\ t[j] = x
        BY <1>1, <1>2, <1>6, <3>1, <3>3
      <4> QED
        BY <1>6, <4>1 DEF ToSet
    <3>4. CASE j > k
      <4>1. j - 1 \in 1 .. Len(s) - 1 /\ t[j - 1] = x
        BY <1>1, <1>2, <1>6, <3>1, <3>4
      <4> QED
        BY <1>6, <4>1 DEF ToSet
    <3> QED
      BY <1>2, <3>2, <3>3, <3>4
  <2> QED
    BY <2>1, <2>2
<1>8. ASSUME IsInjective(s) PROVE IsInjective(t)
  <2> SUFFICES ASSUME NEW i \in 1 .. Len(s) - 1, NEW j \in 1 .. Len(s) - 1,
                      t[i] = t[j]
               PROVE  i = j
    BY <1>6 DEF IsInjective
  <2> DEFINE src(n) == IF n < k THEN n ELSE n + 1
  <2>1. src(i) \in 1 .. Len(s) /\ src(j) \in 1 .. Len(s) /\ s[src(i)] = s[src(j)]
    BY <1>1, <1>2, <1>6
  <2>2. src(i) = src(j)
    BY <1>1, <1>8, <2>1 DEF IsInjective
  <2> QED
    BY <1>2, <2>2
<1> QED
  BY <1>6, <1>7, <1>8 DEF t

(* The same of a list without repetition, for a result that has a name.    *)
LEMMA RemoveOnce ==
  ASSUME NEW S, NEW s \in Seq(S), NEW p \in ToSet(s), IsInjective(s),
         NEW r, r = ListRemove(s, p)
  PROVE  /\ r \in Seq(S)
         /\ Len(r) = Len(s) - 1
         /\ ToSet(r) = ToSet(s) \ {p}
         /\ IsInjective(r)
BY RemoveList, ZenonT(60)

LEMMA AppendOnce ==
  ASSUME NEW S, NEW s \in Seq(S), NEW p \in S, p \notin ToSet(s), IsInjective(s),
         NEW r, r = ListAppend(s, p)
  PROVE  /\ r \in Seq(S)
         /\ r # <<>>
         /\ Len(r) = Len(s) + 1
         /\ ToSet(r) = ToSet(s) \cup {p}
         /\ IsInjective(r)
BY AppendList, ZenonT(60)

(* list_insert moves the nodes from the k-th one on back by one.           *)
LEMMA InsertNodes ==
  ASSUME NEW S, NEW s \in Seq(S), NEW k \in 1 .. Len(s) + 1, NEW p \in S
  PROVE  ListInsert(s, k, p) =
           [i \in 1 .. Len(s) + 1 |-> IF i < k THEN s[i] ELSE IF i = k THEN p ELSE s[i - 1]]
<1>1. DOMAIN s = 1 .. Len(s) /\ Len(s) \in Nat /\ k \in Nat /\ 1 <= k /\ k <= Len(s) + 1
  OBVIOUS
<1> DEFINE u == SubSeq(s, 1, k - 1)
           v == SubSeq(s, k, Len(s))
           w == u \o <<p>>
           t == w \o v
<1>2. ListInsert(s, k, p) = t
  BY DEF ListInsert, InsertAt
<1>3. u \in Seq(S) /\ Len(u) = k - 1 /\ \A i \in 1 .. k - 1 : u[i] = s[i]
  BY <1>1, SubSeqProperties
<1>4. v \in Seq(S) /\ Len(v) = Len(s) + 1 - k /\ \A i \in 1 .. Len(s) + 1 - k : v[i] = s[i + k - 1]
  BY <1>1
<1> HIDE DEF u, v
<1>5. /\ w \in Seq(S) /\ Len(w) = k /\ w[k] = p
      /\ \A i \in 1 .. k - 1 : w[i] = s[i]
  BY <1>1, <1>3
<1> HIDE DEF w
<1>6. /\ t \in Seq(S) /\ Len(t) = Len(s) + 1
      /\ \A i \in 1 .. Len(s) + 1 : t[i] = IF i <= k THEN w[i] ELSE v[i - k]
  <2>1. /\ t \in Seq(S) /\ Len(t) = k + (Len(s) + 1 - k)
        /\ \A i \in 1 .. k + (Len(s) + 1 - k) : t[i] = IF i <= k THEN w[i] ELSE v[i - k]
    BY <1>4, <1>5, ConcatProperties
  <2>2. k + (Len(s) + 1 - k) = Len(s) + 1
    BY <1>1
  <2> QED
    BY <2>1, <2>2
<1> HIDE DEF t
<1>7. ASSUME NEW i \in 1 .. Len(s) + 1
      PROVE  t[i] = IF i < k THEN s[i] ELSE IF i = k THEN p ELSE s[i - 1]
  <2>1. CASE i < k
    <3>1. i \in 1 .. k - 1 /\ i <= k
      BY <1>1, <2>1
    <3> QED
      BY <1>5, <1>6, <2>1, <3>1
  <2>2. CASE i = k
    BY <1>1, <1>5, <1>6, <2>2
  <2>3. CASE i > k
    <3>1. i - k \in 1 .. Len(s) + 1 - k /\ (i - k) + k - 1 = i - 1 /\ ~(i <= k) /\ ~(i < k) /\ i # k
      BY <1>1, <2>3
    <3>2. v[i - k] = s[(i - k) + k - 1]
      BY <1>4, <3>1
    <3> QED
      BY <1>6, <3>1, <3>2
  <2> QED
    BY <1>1, <2>1, <2>2, <2>3
<1>8. t = [i \in 1 .. Len(s) + 1 |-> t[i]]
  BY <1>6
<1> QED
  BY <1>2, <1>7, <1>8

(* list_append is an insertion in front of the first node.                 *)
LEMMA AppendIsInsert ==
  ASSUME NEW S, NEW s \in Seq(S), NEW p
  PROVE  ListAppend(s, p) = ListInsert(s, 1, p)
<1>1. SubSeq(s, 1, 1 - 1) = <<>> /\ SubSeq(s, 1, Len(s)) = s
  OBVIOUS
<1>2. <<>> \o <<p>> = <<p>>
  OBVIOUS
<1> QED
  BY <1>1, <1>2 DEF ListAppend, ListInsert, InsertAt, Cons

(* A concatenation from its elements.                                       *)
LEMMA JoinIs ==
  ASSUME NEW S, NEW s \in Seq(S), NEW t \in Seq(S), NEW u \in Seq(S),
         Len(u) = Len(s) + Len(t),
         \A i \in 1 .. Len(u) : u[i] = IF i <= Len(s) THEN s[i] ELSE t[i - Len(s)]
  PROVE  s \o t = u
<1>1. /\ s \o t \in Seq(S) /\ Len(s \o t) = Len(u)
      /\ \A i \in 1 .. Len(u) : (s \o t)[i] = u[i]
  BY ConcatProperties
<1> QED
  BY <1>1, SeqEqual

-----------------------------------------------------------------------------
(* A loop over 1 .. n that takes one state to the next has a run.          *)
LoopRun(n, S, p, step) ==
  CHOOSE f \in [0 .. n -> S] : f[0] = p /\ \A k \in 1 .. n : f[k] = step[k][f[k - 1]]

LEMMA RunExists ==
  ASSUME NEW n \in Nat, NEW S, NEW p \in S, NEW step \in [1 .. n -> [S -> S]]
  PROVE  LET f == LoopRun(n, S, p, step)
         IN f \in [0 .. n -> S] /\ f[0] = p /\ \A k \in 1 .. n : f[k] = step[k][f[k - 1]]
<1> DEFINE Run(i, f) == f[0] = p /\ \A k \in 1 .. i : f[k] = step[k][f[k - 1]]
           Runs(i) == \E f \in [0 .. i -> S] : Run(i, f)
           T == {i \in 0 .. n : Runs(i)}
<1>1. Runs(0)
  <2> DEFINE f == [k \in 0 .. 0 |-> p]
  <2>1. f \in [0 .. 0 -> S] /\ Run(0, f)
    OBVIOUS
  <2> QED
    BY <2>1
<1>2. ASSUME NEW i \in 1 .. n, Runs(i - 1) PROVE Runs(i)
  <2>1. PICK f \in [0 .. i - 1 -> S] : Run(i - 1, f)
    BY <1>2
  <2> DEFINE new == step[i][f[i - 1]]
             g == [k \in 0 .. i |-> IF k = i THEN new ELSE f[k]]
  <2>2. new \in S /\ g \in [0 .. i -> S] /\ g[i] = new /\ \A k \in 0 .. i - 1 : g[k] = f[k]
    OBVIOUS
  <2> HIDE DEF g, new
  <2>3. g[0] = p
    BY <2>1, <2>2
  <2>4. ASSUME NEW k \in 1 .. i PROVE g[k] = step[k][g[k - 1]]
    <3>1. g[k - 1] = f[k - 1]
      BY <2>2
    <3>2. CASE k = i
      BY <2>2, <3>1, <3>2 DEF new
    <3>3. CASE k # i
      BY <2>1, <2>2, <3>1, <3>3
    <3> QED
      BY <3>2, <3>3
  <2> QED
    BY <2>2, <2>3, <2>4
<1> HIDE DEF Runs
<1>3. 0 \in T /\ \A i \in 1 .. n : i - 1 \in T => i \in T
  BY <1>1, <1>2
<1> HIDE DEF T
<1>4. n \in T
  <2>1. \A i \in 0 .. n : i \in T
    BY <1>3, UpTo
  <2> QED
    BY <2>1
<1> QED
  BY <1>4 DEF T, Runs, LoopRun

-----------------------------------------------------------------------------
(* FoldLeft, which the community modules define over the subsets of a      *)
(* list's domain, is such a loop.                                          *)
LEMMA MaxOf ==
  ASSUME NEW n \in Nat, NEW u \in SUBSET (1 .. n), u # {}
  PROVE  Max(u) \in u /\ \A y \in u : y <= Max(u)
<1> DEFINE T == {n - y : y \in u}
<1>1. T \in SUBSET Nat /\ T # {}
  OBVIOUS
<1> HIDE DEF T
<1>2. PICK least \in T : \A y \in T : least <= y
  BY <1>1, HasLeast
<1>3. PICK x \in u : least = n - x
  BY DEF T
<1>4. \A y \in u : x >= y
  <2> SUFFICES ASSUME NEW y \in u PROVE x >= y
    OBVIOUS
  <2>1. n - x <= n - y
    BY <1>2, <1>3 DEF T
  <2> QED
    BY <2>1
<1>5. Max(u) \in u /\ \A y \in u : Max(u) >= y
  BY <1>4 DEF Max
<1> QED
  BY <1>5

LEMMA MaxIs ==
  ASSUME NEW n \in Nat, NEW u \in SUBSET (1 .. n), NEW k \in u, \A y \in u : y <= k
  PROVE  Max(u) = k
<1>1. Max(u) \in u /\ k <= Max(u) /\ Max(u) <= k
  BY MaxOf
<1>2. PICK m \in 1 .. n : m = Max(u)
  BY <1>1
<1> QED
  BY <1>1, <1>2

LEMMA MaxUpTo ==
  ASSUME NEW n \in Nat, NEW k \in 1 .. n
  PROVE  1 .. k # {} /\ Max(1 .. k) = k /\ (1 .. k) \ {k} = 1 .. k - 1
<1>1. 1 .. k \in SUBSET (1 .. n) /\ k \in 1 .. k /\ \A y \in 1 .. k : y <= k
  OBVIOUS
<1>2. Max(1 .. k) = k
  BY <1>1, MaxIs, Zenon
<1>3. (1 .. k) \ {k} = 1 .. k - 1
  OBVIOUS
<1> QED
  BY <1>1, <1>2, <1>3

(* What the fold's recursion asks of a function on sets; some function     *)
(* meets it.                                                               *)
IsSetRun(n, f, p, step) ==
  \A u \in SUBSET (1 .. n) :
    f[u] = IF u = {} THEN p ELSE step[Max(u)][f[u \ {Max(u)}]]

SetRun(n, S, p, step) == CHOOSE f \in [SUBSET (1 .. n) -> S] : IsSetRun(n, f, p, step)

LEMMA SetRunExists ==
  ASSUME NEW n \in Nat, NEW S, NEW p \in S, NEW step \in [1 .. n -> [S -> S]]
  PROVE  LET f == SetRun(n, S, p, step)
         IN f \in [SUBSET (1 .. n) -> S] /\ IsSetRun(n, f, p, step)
<1> DEFINE Runs(i) == \E f \in [SUBSET (1 .. i) -> S] : IsSetRun(i, f, p, step)
           T == {i \in 0 .. n : Runs(i)}
<1>1. Runs(0)
  <2> DEFINE f == [u \in SUBSET (1 .. 0) |-> p]
  <2>1. f \in [SUBSET (1 .. 0) -> S]
    OBVIOUS
  <2>2. \A u \in SUBSET (1 .. 0) : u = {} /\ f[u] = p
    OBVIOUS
  <2> QED
    BY <2>1, <2>2 DEF IsSetRun
<1>2. ASSUME NEW i \in 1 .. n, Runs(i - 1) PROVE Runs(i)
  <2>1. PICK f \in [SUBSET (1 .. i - 1) -> S] : IsSetRun(i - 1, f, p, step)
    BY <1>2
  <2> DEFINE g == [u \in SUBSET (1 .. i) |-> IF i \in u THEN step[i][f[u \ {i}]] ELSE f[u]]
  <2>2. ASSUME NEW u \in SUBSET (1 .. i)
        PROVE  /\ i \in u => u \ {i} \in SUBSET (1 .. i - 1)
               /\ i \notin u => u \in SUBSET (1 .. i - 1)
    OBVIOUS
  <2>3. ASSUME NEW u \in SUBSET (1 .. i)
        PROVE  (IF i \in u THEN step[i][f[u \ {i}]] ELSE f[u]) \in S
    BY <2>2
  <2>4. g \in [SUBSET (1 .. i) -> S]
    BY <2>3
  <2>5. /\ \A u \in SUBSET (1 .. i) : i \in u => g[u] = step[i][f[u \ {i}]]
        /\ \A u \in SUBSET (1 .. i - 1) : g[u] = f[u]
    OBVIOUS
  <2> HIDE DEF g
  <2>6. ASSUME NEW u \in SUBSET (1 .. i)
        PROVE  g[u] = IF u = {} THEN p ELSE step[Max(u)][g[u \ {Max(u)}]]
    <3>1. CASE i \in u
      <4>1. Max(u) = i
        <5>1. i \in Nat /\ \A y \in u : y <= i
          OBVIOUS
        <5> QED
          BY <3>1, <5>1, MaxIs, Zenon
      <4>2. g[u] = step[i][f[u \ {i}]] /\ g[u \ {i}] = f[u \ {i}]
        BY <2>2, <2>5, <3>1
      <4> QED
        BY <3>1, <4>1, <4>2
    <3>2. CASE i \notin u
      <4>1. u \in SUBSET (1 .. i - 1) /\ g[u] = f[u]
        BY <2>2, <2>5, <3>2
      <4>2. f[u] = IF u = {} THEN p ELSE step[Max(u)][f[u \ {Max(u)}]]
        BY <2>1, <4>1 DEF IsSetRun
      <4>3. g[u \ {Max(u)}] = f[u \ {Max(u)}]
        <5>1. u \ {Max(u)} \in SUBSET (1 .. i - 1)
          BY <4>1
        <5> QED
          BY <2>5, <5>1
      <4> QED
        BY <4>1, <4>2, <4>3
    <3> QED
      BY <3>1, <3>2
  <2> QED
    BY <2>4, <2>6 DEF IsSetRun
<1> HIDE DEF Runs
<1>3. 0 \in T /\ \A i \in 1 .. n : i - 1 \in T => i \in T
  BY <1>1, <1>2
<1> HIDE DEF T
<1>4. n \in T
  <2>1. \A i \in 0 .. n : i \in T
    BY <1>3, UpTo
  <2> QED
    BY <2>1
<1> QED
  BY <1>4 DEF T, Runs, SetRun

(* A function that follows the loop from one initial set to the next ends  *)
(* where the loop does, and two runs with the same steps are the same.     *)
Follows(n, S, p, step, f) ==
  f[0] = p /\ \A k \in 1 .. n : f[k - 1] \in S => f[k] = step[k][f[k - 1]]

LoopOf(n, S, p, step, f) ==
  n \in Nat /\ p \in S /\ step \in [1 .. n -> [S -> S]] /\ Follows(n, S, p, step, f)

LEMMA FollowsLoop ==
  ASSUME NEW n, NEW S, NEW p, NEW step, NEW f, LoopOf(n, S, p, step, f)
  PROVE  \A k \in 0 .. n : f[k] = LoopRun(n, S, p, step)[k]
<1>1. n \in Nat /\ p \in S /\ step \in [1 .. n -> [S -> S]] /\ Follows(n, S, p, step, f)
  BY DEF LoopOf
<1> DEFINE run == LoopRun(n, S, p, step)
           T == {k \in 0 .. n : f[k] = run[k]}
<1>2. run \in [0 .. n -> S] /\ run[0] = p /\ \A k \in 1 .. n : run[k] = step[k][run[k - 1]]
  BY <1>1, RunExists
<1> HIDE DEF run
<1>3. 0 \in T
  BY <1>1, <1>2 DEF Follows
<1>4. ASSUME NEW k \in 1 .. n, k - 1 \in T PROVE k \in T
  <2>1. f[k - 1] = run[k - 1] /\ run[k - 1] \in S
    BY <1>1, <1>2, <1>4
  <2> QED
    BY <1>1, <1>2, <2>1 DEF Follows
<1>5. \A k \in 0 .. n : k \in T
  <2> HIDE DEF T
  <2> QED
    BY <1>1, <1>3, <1>4, UpTo
<1> QED
  BY <1>5 DEF run

(* The values of a finite sequence have a bound.                           *)
LEMMA SequenceBounded ==
  ASSUME NEW n \in Nat, NEW f, \A k \in 1 .. n : f[k] \in Nat
  PROVE  \E b \in Nat : \A k \in 1 .. n : f[k] <= b
<1> DEFINE Bounded(i) == \E b \in Nat : \A k \in 1 .. i : f[k] <= b
           T == {i \in 0 .. n : Bounded(i)}
<1>1. Bounded(0)
  <2>1. 0 \in Nat /\ \A k \in 1 .. 0 : f[k] <= 0
    OBVIOUS
  <2> QED
    BY <2>1
<1>2. ASSUME NEW i \in 1 .. n, Bounded(i - 1) PROVE Bounded(i)
  <2>1. PICK b \in Nat : \A k \in 1 .. i - 1 : f[k] <= b
    BY <1>2
  <2>2. f[i] \in Nat /\ b + f[i] \in Nat
    OBVIOUS
  <2>3. \A k \in 1 .. i : f[k] <= b + f[i]
    <3> SUFFICES ASSUME NEW k \in 1 .. i PROVE f[k] <= b + f[i]
      OBVIOUS
    <3>1. f[k] \in Nat /\ (k = i \/ k \in 1 .. i - 1)
      OBVIOUS
    <3> QED
      BY <2>1, <2>2, <3>1
  <2> QED
    BY <2>2, <2>3
<1> HIDE DEF Bounded
<1>3. 0 \in T /\ \A i \in 1 .. n : i - 1 \in T => i \in T
  BY <1>1, <1>2
<1> HIDE DEF T
<1>4. n \in T
  <2>1. \A i \in 0 .. n : i \in T
    BY <1>3, UpTo
  <2> QED
    BY <2>1
<1> QED
  BY <1>4 DEF T, Bounded

-----------------------------------------------------------------------------
(* Words and bits.                                                         *)
LEMMA DivMod ==
  ASSUME NEW k \in Nat, NEW w \in Nat \ {0}
  PROVE  k \div w \in Nat /\ k % w \in 0 .. w - 1 /\ k = (k \div w) * w + (k % w)
OBVIOUS

LEMMA DivOfWord ==
  ASSUME NEW i \in Nat, NEW w \in Nat \ {0}, NEW b \in 0 .. w - 1
  PROVE  (i * w + b) \div w = i
OBVIOUS

LEMMA TimesMonotone ==
  ASSUME NEW a \in Int, NEW b \in Int, a <= b, NEW w \in Nat
  PROVE  a * w <= b * w
OBVIOUS

LEMMA TimesNat == ASSUME NEW a \in Nat, NEW w \in Nat PROVE a * w \in Nat
OBVIOUS

LEMMA DivMonotone ==
  ASSUME NEW a \in Nat, NEW b \in Nat, a <= b, NEW w \in Nat \ {0}
  PROVE  a \div w <= b \div w
OBVIOUS

LEMMA TimesNext == ASSUME NEW a \in Int, NEW w \in Int PROVE (a + 1) * w = a * w + w
OBVIOUS
=============================================================================
