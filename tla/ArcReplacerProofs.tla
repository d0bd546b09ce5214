------------------------- MODULE ArcReplacerProofs -------------------------
(***************************************************************************)
(* Lemmas about the lists of ArcReplacer.tla and about its methods, which  *)
(* the proofs about the replacer and about the buffer pool share.          *)
(*                                                                         *)
(* Retain is defined by recursion.  What it computes is shown by looking   *)
(* at the shortest prefix of the list for which it would be wrong.         *)
(***************************************************************************)
EXTENDS ArcReplacer, SequenceTheorems, FiniteSetTheorems, WellFoundedInduction,
        TLAPS

-----------------------------------------------------------------------------
(* A set of natural numbers has a least element. *)
LEMMA Least ==
  ASSUME NEW T \in SUBSET Nat, T # {}
  PROVE  \E m \in T : \A k \in T : m <= k
<1>1. PICK R : R = OpToRel(<, Nat)
  BY Zenon
<1>2. IsWellFoundedOn(R, Nat)
  BY <1>1, NatLessThanWellFounded, Zenon
<1>3. PICK m \in T : \A k \in T : ~(<<k, m>> \in R)
  BY <1>2, WFMin
<1>4. \A k \in T : ~(k < m)
  BY <1>1, <1>3 DEF OpToRel
<1> QED BY <1>4

(* Entry i of the table of prefixes that Retain builds. *)
KeptAt(k, list, gone, i) ==
  IF i = 0 THEN <<>>
  ELSE IF list[i] \in gone THEN k[i - 1]
  ELSE Append(k[i - 1], list[i])

IsKept(k, list, gone) == k = [i \in 0 .. Len(list) |-> KeptAt(k, list, gone, i)]

(* The table exists for every prefix, hence for the whole list. *)
LEMMA KeptExists ==
  ASSUME NEW S, NEW list \in Seq(S), NEW gone
  PROVE  \E k : IsKept(k, list, gone)
<1> DEFINE Upto(n) == \E g : g = [i \in 0 .. n |-> KeptAt(g, list, gone, i)]
           T == {n \in Nat : ~Upto(n)}
<1>1. SUFFICES T = {}
  <2>1. Len(list) \in Nat
    BY LenProperties
  <2> QED BY <1>1, <2>1 DEF IsKept
<1>2. SUFFICES ASSUME T # {} PROVE FALSE
  OBVIOUS
<1>3. PICK m \in T : \A k \in T : m <= k
  BY <1>2, Least
<1>4. Upto(0)
  <2> DEFINE g == [i \in 0 .. 0 |-> <<>>]
  <2>1. g = [i \in 0 .. 0 |-> KeptAt(g, list, gone, i)]
    BY DEF KeptAt
  <2> QED BY <2>1
<1>5. m \in Nat /\ m # 0 /\ m - 1 \in Nat
  BY <1>3, <1>4
<1>6. Upto(m - 1)
  BY <1>3, <1>5
<1>7. PICK g : g = [i \in 0 .. m - 1 |-> KeptAt(g, list, gone, i)]
  BY <1>6
<1> DEFINE new == KeptAt(g, list, gone, m)
           h == [i \in 0 .. m |-> IF i = m THEN new ELSE g[i]]
<1>8. \A i \in 0 .. m : h[i] = KeptAt(h, list, gone, i)
  <2>1. TAKE i \in 0 .. m
  <2>2. CASE i = m
    BY <1>5, <2>2 DEF KeptAt
  <2>3. CASE i # m
    <3>1. i \in 0 .. m - 1 /\ h[i] = g[i]
      BY <1>5, <2>3
    <3>2. g[i] = KeptAt(g, list, gone, i)
      BY <1>7, <3>1, Zenon
    <3>3. i # 0 => h[i - 1] = g[i - 1]
      BY <1>5, <3>1
    <3> QED BY <3>1, <3>2, <3>3 DEF KeptAt
  <2> QED BY <2>2, <2>3
<1>9. h = [i \in 0 .. m |-> KeptAt(h, list, gone, i)]
  BY <1>8, Zenon
<1> QED BY <1>3, <1>9

LEMMA RetainIsKept ==
  ASSUME NEW S, NEW list \in Seq(S), NEW gone
  PROVE  \E k : /\ Retain(list, gone) = k[Len(list)]
                /\ \A i \in 0 .. Len(list) : k[i] = KeptAt(k, list, gone, i)
<1>1. Retain(list, gone) = (CHOOSE k : IsKept(k, list, gone))[Len(list)]
  BY DEF Retain, IsKept, KeptAt
<1>2. PICK k : k = CHOOSE c : IsKept(c, list, gone)
  OBVIOUS
<1>3. IsKept(k, list, gone)
  BY <1>2, KeptExists
<1>4. \A i \in 0 .. Len(list) : k[i] = KeptAt(k, list, gone, i)
  BY <1>3, Zenon DEF IsKept
<1> QED BY <1>1, <1>2, <1>4

(* Sequence r is what is left of the first n entries of list: entries that *)
(* stay, each from a place of its own, and it is shorter than n if one of  *)
(* them is gone.                                                           *)
Places(h, r, list, gone, n) ==
  /\ h \in [1 .. Len(r) -> 1 .. n]
  /\ \A i, j \in 1 .. Len(r) : h[i] = h[j] => i = j
  /\ \A j \in 1 .. Len(r) : r[j] = list[h[j]] /\ r[j] \notin gone

LeftOf(r, list, gone, n) ==
  /\ Len(r) <= n
  /\ \A j \in 1 .. n : list[j] \in gone => Len(r) < n
  /\ \A j \in 1 .. n : list[j] \notin gone => list[j] \in Range(r)
  /\ \E h : Places(h, r, list, gone, n)

(* One entry more, which is gone or stays. *)
LEMMA LeftOfLonger ==
  ASSUME NEW S, NEW list \in Seq(S), NEW gone, NEW n \in 1 .. Len(list),
         NEW r \in Seq(S), LeftOf(r, list, gone, n - 1),
         NEW t, t = IF list[n] \in gone THEN r ELSE Append(r, list[n])
  PROVE  t \in Seq(S) /\ LeftOf(t, list, gone, n)
<1>1. /\ Len(list) \in Nat /\ n \in Nat /\ n > 0 /\ list[n] \in S
      /\ Len(r) \in Nat /\ DOMAIN r = 1 .. Len(r)
  BY LenProperties, ElementOfSeq
<1>2. PICK m \in Nat : m = Len(r)
  BY <1>1
<1>3. PICK h \in [1 .. m -> 1 .. n - 1] :
        /\ \A i, j \in 1 .. m : h[i] = h[j] => i = j
        /\ \A j \in 1 .. m : r[j] = list[h[j]] /\ r[j] \notin gone
  BY <1>2 DEF LeftOf, Places
<1>4. CASE list[n] \in gone
  <2>1. t = r
    BY <1>4
  <2>2. h \in [1 .. m -> 1 .. n]
    BY <1>1, <1>3
  <2>3. Len(r) < n /\ Len(r) <= n
    <3>1. m <= n - 1
      BY <1>2 DEF LeftOf
    <3> QED BY <1>1, <1>2, <3>1
  <2>4. \A j \in 1 .. n : list[j] \notin gone => list[j] \in Range(r)
    BY <1>1, <1>4 DEF LeftOf
  <2>5. Places(h, r, list, gone, n)
    BY <1>2, <1>3, <2>2 DEF Places
  <2>6. LeftOf(r, list, gone, n)
    BY <2>3, <2>4, <2>5, Zenon DEF LeftOf
  <2> QED BY <2>1, <2>6
<1>5. CASE list[n] \notin gone
  <2>1. /\ t \in Seq(S) /\ Len(t) = m + 1 /\ DOMAIN t = 1 .. m + 1
        /\ \A i \in 1 .. m : t[i] = r[i]
        /\ t[m + 1] = list[n]
    BY <1>1, <1>2, <1>5, AppendProperties, LenProperties
  <2>2. m <= n - 1 /\ \A j \in 1 .. n - 1 : list[j] \in gone => m < n - 1
    BY <1>2 DEF LeftOf
  <2>3. \A j \in 1 .. n : list[j] \in gone => m + 1 < n
    BY <1>1, <1>5, <2>2
  <2>4. \A j \in 1 .. n : list[j] \notin gone => list[j] \in Range(t)
    <3>1. Range(r) \subseteq Range(t)
      BY <1>1, <1>2, <2>1 DEF Range
    <3>2. list[n] \in Range(t)
      BY <1>2, <2>1 DEF Range
    <3>3. \A j \in 1 .. n - 1 : list[j] \notin gone => list[j] \in Range(t)
      BY <3>1 DEF LeftOf
    <3> QED BY <1>1, <3>2, <3>3
  <2> DEFINE k == [i \in 1 .. m + 1 |-> IF i = m + 1 THEN n ELSE h[i]]
  <2>5. k \in [1 .. m + 1 -> 1 .. n]
    BY <1>1, <1>3
  <2>6. \A i, j \in 1 .. m + 1 : k[i] = k[j] => i = j
    BY <1>1, <1>3
  <2>7. \A j \in 1 .. m + 1 : t[j] = list[k[j]] /\ t[j] \notin gone
    BY <1>3, <1>5, <2>1
  <2> HIDE DEF k
  <2>8. Places(k, t, list, gone, n)
    BY <2>1, <2>5, <2>6, <2>7 DEF Places
  <2> QED BY <1>1, <2>1, <2>2, <2>3, <2>4, <2>8 DEF LeftOf
<1> QED BY <1>4, <1>5

(* What retain leaves of a list. *)
LEMMA RetainLeaves ==
  ASSUME NEW S, NEW list \in Seq(S), NEW gone
  PROVE  /\ Retain(list, gone) \in Seq(S)
         /\ LeftOf(Retain(list, gone), list, gone, Len(list))
<1>1. PICK n \in Nat : n = Len(list)
  BY LenProperties
<1>2. PICK k : /\ Retain(list, gone) = k[n]
               /\ \A i \in 0 .. n : k[i] = KeptAt(k, list, gone, i)
  BY <1>1, RetainIsKept
<1> DEFINE T == {i \in 0 .. n : ~(k[i] \in Seq(S) /\ LeftOf(k[i], list, gone, i))}
<1>3. SUFFICES ASSUME T # {} PROVE FALSE
  BY <1>1, <1>2
<1>4. PICK i \in T : \A j \in T : i <= j
  <2>1. T \in SUBSET Nat
    OBVIOUS
  <2> QED BY <1>3, <2>1, Least
<1>5. i # 0
  <2>1. k[0] = <<>>
    BY <1>2 DEF KeptAt
  <2>2. <<>> \in Seq(S) /\ Len(<<>>) = 0
    BY EmptySeq
  <2>3. LeftOf(<<>>, list, gone, 0)
    <3> DEFINE h == [j \in 1 .. 0 |-> 0]
    <3>1. h \in [1 .. 0 -> 1 .. 0]
      OBVIOUS
    <3>2. Places(h, <<>>, list, gone, 0)
      BY <2>2, <3>1 DEF Places
    <3> HIDE DEF h
    <3> QED BY <2>2, <3>2 DEF LeftOf
  <2> QED BY <1>4, <2>1, <2>2, <2>3
<1>6. i \in 1 .. n /\ i - 1 \in 0 .. n
  BY <1>4, <1>5
<1>7. k[i - 1] \in Seq(S) /\ LeftOf(k[i - 1], list, gone, i - 1)
  BY <1>4, <1>6
<1>8. k[i] = IF list[i] \in gone THEN k[i - 1] ELSE Append(k[i - 1], list[i])
  BY <1>2, <1>6 DEF KeptAt
<1>9. k[i] \in Seq(S) /\ LeftOf(k[i], list, gone, i)
  BY <1>1, <1>6, <1>7, <1>8, LeftOfLonger
<1> QED BY <1>4, <1>9

-----------------------------------------------------------------------------
(* The operations on the lists: the entries and the length they leave, and *)
(* that they put no entry, and no frame, on a list twice.                  *)

Frames(list) == [i \in DOMAIN list |-> list[i][1]]

LEMMA Retained ==
  ASSUME NEW S, NEW list \in Seq(S), NEW gone, NEW r, r = Retain(list, gone)
  PROVE  /\ r \in Seq(S)
         /\ Range(r) = Range(list) \ gone
         /\ Len(r) <= Len(list)
         /\ Range(list) \cap gone # {} => Len(r) < Len(list)
         /\ IsInjective(list) => IsInjective(r)
         /\ IsInjective(Frames(list)) => IsInjective(Frames(r))
<1>1. PICK n \in Nat : n = Len(list) /\ DOMAIN list = 1 .. n
  BY LenProperties
<1>2. r \in Seq(S) /\ LeftOf(r, list, gone, n)
  BY <1>1, RetainLeaves
<1>3. PICK m \in Nat : m = Len(r) /\ DOMAIN r = 1 .. m
  BY <1>2, LenProperties
<1>4. PICK h : /\ h \in [1 .. m -> 1 .. n]
               /\ \A i, j \in 1 .. m : h[i] = h[j] => i = j
               /\ \A j \in 1 .. m : r[j] = list[h[j]] /\ r[j] \notin gone
  BY <1>2, <1>3 DEF LeftOf, Places
<1>5. Range(r) = Range(list) \ gone
  <2>1. \A j \in 1 .. m : r[j] \in Range(list) \ gone
    BY <1>1, <1>4 DEF Range
  <2>2. \A j \in 1 .. n : list[j] \notin gone => list[j] \in Range(r)
    BY <1>2 DEF LeftOf
  <2> QED BY <1>1, <1>3, <2>1, <2>2 DEF Range
<1>6. Len(r) <= Len(list) /\ (Range(list) \cap gone # {} => Len(r) < Len(list))
  BY <1>1, <1>2 DEF LeftOf, Range
<1>7. IsInjective(list) => IsInjective(r)
  BY <1>1, <1>3, <1>4 DEF IsInjective
<1>8. IsInjective(Frames(list)) => IsInjective(Frames(r))
  <2>1. \A j \in 1 .. m : Frames(r)[j] = Frames(list)[h[j]]
    BY <1>1, <1>3, <1>4 DEF Frames
  <2>2. DOMAIN Frames(r) = 1 .. m /\ DOMAIN Frames(list) = 1 .. n
    BY <1>1, <1>3 DEF Frames
  <2> QED BY <1>4, <2>1, <2>2 DEF IsInjective
<1> QED BY <1>2, <1>5, <1>6, <1>7, <1>8

LEMMA Prepended ==
  ASSUME NEW S, NEW list \in Seq(S), NEW e \in S, NEW r, r = Prepend(e, list)
  PROVE  /\ r \in Seq(S)
         /\ Range(r) = Range(list) \cup {e}
         /\ Len(r) = Len(list) + 1
         /\ IsInjective(list) /\ e \notin Range(list) => IsInjective(r)
         /\ IsInjective(Frames(list)) /\ e[1] \notin Range(Frames(list))
              => IsInjective(Frames(r))
<1>1. PICK n \in Nat : n = Len(list) /\ DOMAIN list = 1 .. n
  BY LenProperties
<1>2. <<e>> \in Seq(S) /\ Len(<<e>>) = 1 /\ <<e>>[1] = e
  OBVIOUS
<1>3. /\ r \in Seq(S) /\ Len(r) = n + 1 /\ DOMAIN r = 1 .. n + 1
      /\ r[1] = e /\ \A i \in 2 .. n + 1 : r[i] = list[i - 1]
  BY <1>1, <1>2, ConcatProperties, LenProperties DEF Prepend
<1>4. Range(r) = Range(list) \cup {e}
  <2>1. \A i \in 1 .. n + 1 : r[i] \in Range(list) \cup {e}
    <3> TAKE i \in 1 .. n + 1
    <3>1. i # 1 => i \in 2 .. n + 1 /\ i - 1 \in 1 .. n
      OBVIOUS
    <3> QED BY <1>1, <1>3, <3>1 DEF Range
  <2>2. e \in Range(r)
    BY <1>3 DEF Range
  <2>3. ASSUME NEW i \in 1 .. n PROVE list[i] \in Range(r)
    <3>1. PICK j \in 2 .. n + 1 : j - 1 = i
      OBVIOUS
    <3>2. j \in DOMAIN r /\ r[j] = list[i]
      BY <1>3, <3>1
    <3> QED BY <3>2 DEF Range
  <2> QED BY <1>1, <1>3, <2>1, <2>2, <2>3 DEF Range
<1>5. \A i \in 2 .. n + 1 : i - 1 \in 1 .. n
  OBVIOUS
<1>6. ASSUME NEW v, NEW w, DOMAIN v = 1 .. n, DOMAIN w = 1 .. n + 1,
             \A i \in 2 .. n + 1 : w[i] = v[i - 1],
             IsInjective(v), w[1] \notin Range(v)
      PROVE  IsInjective(w)
  <2>1. \A i \in 2 .. n + 1 : w[i] # w[1]
    BY <1>5, <1>6 DEF Range
  <2>2. ASSUME NEW i \in 2 .. n + 1, NEW j \in 2 .. n + 1, w[i] = w[j] PROVE i = j
    <3>1. i - 1 = j - 1
      BY <1>5, <1>6, <2>2 DEF IsInjective
    <3> QED BY <3>1
  <2>3. \A i \in 1 .. n + 1 : i = 1 \/ i \in 2 .. n + 1
    OBVIOUS
  <2> QED BY <1>6, <2>1, <2>2, <2>3 DEF IsInjective
<1>7. IsInjective(list) /\ e \notin Range(list) => IsInjective(r)
  BY <1>1, <1>3, <1>6
<1>8. IsInjective(Frames(list)) /\ e[1] \notin Range(Frames(list)) => IsInjective(Frames(r))
  <2>1. DOMAIN Frames(r) = 1 .. n + 1 /\ DOMAIN Frames(list) = 1 .. n
    BY <1>1, <1>3 DEF Frames
  <2>2. Frames(r)[1] = e[1] /\ \A i \in 2 .. n + 1 : Frames(r)[i] = Frames(list)[i - 1]
    BY <1>1, <1>3, <1>5 DEF Frames
  <2> QED BY <1>6, <2>1, <2>2
<1> QED BY <1>1, <1>3, <1>4, <1>7, <1>8

(* pop_back takes one entry off a list that has any. *)
LEMMA BackDropped ==
  ASSUME NEW S, NEW list \in Seq(S), NEW r, r = DropBack(list)
  PROVE  /\ r \in Seq(S)
         /\ Range(r) \subseteq Range(list)
         /\ Len(list) > 0 => Len(r) = Len(list) - 1
         /\ Len(r) <= Len(list)
         /\ IsInjective(list) => IsInjective(r)
<1>1. PICK n \in Nat : n = Len(list) /\ DOMAIN list = 1 .. n
  BY LenProperties
<1>2. CASE list = <<>>
  BY <1>2 DEF DropBack
<1>3. CASE list # <<>>
  <2>1. n > 0
    BY <1>1, <1>3, EmptySeq
  <2>2. /\ r \in Seq(S) /\ Len(r) = n - 1 /\ DOMAIN r = 1 .. n - 1
        /\ \A i \in 1 .. n - 1 : r[i] = list[i]
    BY <1>1, <1>3, <2>1, SubSeqProperties, LenProperties, ElementOfSeq DEF DropBack, Front
  <2> QED BY <1>1, <2>1, <2>2 DEF IsInjective, Range
<1> QED BY <1>2, <1>3

(* VecDeque::remove takes out the one entry it is told to. *)
LEMMA EntryRemoved ==
  ASSUME NEW S, NEW list \in Seq(S), NEW i \in DOMAIN list, NEW r, r = RemoveAt(list, i)
  PROVE  /\ r \in Seq(S)
         /\ list[i] \in S /\ list[i] \in Range(list)
         /\ Range(r) \subseteq Range(list)
         /\ Range(list) \ {list[i]} \subseteq Range(r)
         /\ Len(r) = Len(list) - 1
         /\ IsInjective(list) => IsInjective(r) /\ list[i] \notin Range(r)
         /\ IsInjective(Frames(list)) =>
              IsInjective(Frames(r)) /\ list[i] \notin Range(r)
<1>1. PICK n \in Nat : n = Len(list) /\ DOMAIN list = 1 .. n
  BY LenProperties
<1>2. \A j \in 1 .. n : list[j] \in S
  BY <1>1, ElementOfSeq
<1>3. PICK c \in 1 .. n : c = i
  BY <1>1
<1>4. r = SubSeq(list, 1, c - 1) \o SubSeq(list, c + 1, n)
  BY <1>1, <1>3 DEF RemoveAt
<1>5. PICK p \in Nat, q \in Nat, m \in Nat :
        c = p + 1 /\ m = p + q /\ n = m + 1 /\ p = c - 1 /\ q = n - c
  <2>1. /\ c - 1 \in Nat /\ n - c \in Nat /\ n - 1 \in Nat
        /\ (c - 1) + (n - c) = n - 1 /\ c = (c - 1) + 1 /\ n = (n - 1) + 1
    OBVIOUS
  <2> QED BY <2>1
<1>6. PICK a : a = SubSeq(list, 1, p)
  OBVIOUS
<1>7. PICK b : b = SubSeq(list, c + 1, n)
  OBVIOUS
<1>8. PICK from : from = [j \in 1 .. m |-> IF j <= p THEN j ELSE j + 1]
  OBVIOUS
<1>9. /\ \A j \in 1 .. m : from[j] \in 1 .. n /\ from[j] # c
      /\ \A j, k \in 1 .. m : from[j] = from[k] => j = k
      /\ \A k \in 1 .. n : k # c => \E j \in 1 .. m : from[j] = k
  <2>1. /\ \A j \in 1 .. m : from[j] \in 1 .. n /\ from[j] # c
        /\ \A j, k \in 1 .. m : from[j] = from[k] => j = k
    BY <1>5, <1>8
  <2>2. ASSUME NEW k \in 1 .. n, k # c PROVE \E j \in 1 .. m : from[j] = k
    <3>1. CASE k <= p
      <4>1. k \in 1 .. m /\ from[k] = k
        BY <1>5, <1>8, <3>1
      <4> QED BY <4>1
    <3>2. CASE ~(k <= p)
      <4>1. k - 1 \in 1 .. m /\ ~(k - 1 <= p) /\ (k - 1) + 1 = k
        BY <1>5, <2>2, <3>2
      <4> QED BY <1>8, <4>1
    <3> QED BY <3>1, <3>2
  <2> QED BY <2>1, <2>2
<1>10. /\ r \in Seq(S) /\ Len(r) = m /\ DOMAIN r = 1 .. m
       /\ \A j \in 1 .. m : r[j] = list[from[j]]
  <2>1. r = a \o b
    BY <1>4, <1>5, <1>6, <1>7
  <2>2. \A j \in 1 .. p : j \in 1 .. n /\ 1 + j - 1 = j
    BY <1>5
  <2>3. /\ a \in Seq(S) /\ Len(a) = p
        /\ \A j \in 1 .. p : a[j] = list[j]
    BY <1>2, <1>6, <2>2, SubSeqProperties
  <2>4. /\ \A j \in c + 1 .. n : j \in 1 .. n
        /\ \A j \in 1 .. q : (c + 1) + j - 1 = j + c
        /\ n - (c + 1) + 1 = q /\ (~(c + 1 <= n) => q = 0)
    BY <1>5
  <2>5. /\ b \in Seq(S) /\ Len(b) = q
        /\ \A j \in 1 .. q : b[j] = list[j + c]
    BY <1>2, <1>7, <2>4, SubSeqProperties
  <2>6. a \o b \in Seq(S) /\ Len(a \o b) = m
    BY <1>5, <2>3, <2>5, ConcatProperties
  <2>7. \A j \in 1 .. m : (a \o b)[j] = IF j <= p THEN a[j] ELSE b[j - p]
    BY <1>5, <2>3, <2>5, ConcatProperties
  <2>8. ASSUME NEW j \in 1 .. m PROVE (a \o b)[j] = list[from[j]]
    <3>1. CASE j <= p
      BY <1>8, <2>3, <2>7, <3>1
    <3>2. CASE ~(j <= p)
      <4>1. j - p \in 1 .. q /\ (j - p) + c = j + 1
        BY <1>5, <3>2
      <4> QED BY <1>8, <2>5, <2>7, <3>2, <4>1
    <3> QED BY <3>1, <3>2
  <2> QED BY <2>1, <2>6, <2>8, LenProperties
<1>11. Range(r) \subseteq Range(list)
  BY <1>1, <1>9, <1>10 DEF Range
<1>12. Range(list) \ {list[c]} \subseteq Range(r)
  <2>1. ASSUME NEW k \in 1 .. n, k # c PROVE list[k] \in Range(r)
    <3>1. PICK j \in 1 .. m : from[j] = k
      BY <1>9, <2>1
    <3> QED BY <1>10, <3>1 DEF Range
  <2> QED BY <1>1, <2>1 DEF Range
<1>13. IsInjective(list) => IsInjective(r) /\ list[c] \notin Range(r)
  <2> SUFFICES ASSUME IsInjective(list) PROVE IsInjective(r) /\ list[c] \notin Range(r)
    OBVIOUS
  <2>1. \A j, k \in 1 .. m : r[j] = r[k] => from[j] = from[k]
    BY <1>1, <1>9, <1>10 DEF IsInjective
  <2>2. \A j \in 1 .. m : r[j] # list[c]
    <3> TAKE j \in 1 .. m
    <3>1. from[j] \in DOMAIN list /\ from[j] # c /\ c \in DOMAIN list /\ r[j] = list[from[j]]
      BY <1>1, <1>9, <1>10
    <3> QED BY <3>1 DEF IsInjective
  <2> QED BY <1>9, <1>10, <2>1, <2>2 DEF IsInjective, Range
<1>14. IsInjective(Frames(list)) => IsInjective(Frames(r)) /\ list[c] \notin Range(r)
  <2>1. /\ DOMAIN Frames(list) = 1 .. n /\ DOMAIN Frames(r) = 1 .. m
        /\ \A j \in 1 .. n : Frames(list)[j] = list[j][1]
        /\ \A j \in 1 .. m : Frames(r)[j] = r[j][1]
    BY <1>1, <1>10 DEF Frames
  <2>2. IsInjective(Frames(list)) => IsInjective(Frames(r))
    <3> SUFFICES ASSUME IsInjective(Frames(list)) PROVE IsInjective(Frames(r))
      OBVIOUS
    <3>1. \A j \in 1 .. m : from[j] \in 1 .. n /\ Frames(r)[j] = Frames(list)[from[j]]
      BY <1>9, <1>10, <2>1
    <3>2. \A j, k \in 1 .. n : Frames(list)[j] = Frames(list)[k] => j = k
      BY <2>1 DEF IsInjective
    <3>3. \A j, k \in 1 .. m : Frames(r)[j] = Frames(r)[k] => from[j] = from[k]
      BY <3>1, <3>2
    <3> QED BY <1>9, <2>1, <3>3 DEF IsInjective
  <2>3. IsInjective(Frames(list)) => IsInjective(list)
    BY <1>1, <2>1 DEF IsInjective
  <2> QED BY <1>13, <2>2, <2>3
<1>15. Len(r) = Len(list) - 1 /\ list[i] \in S /\ list[i] \in Range(list)
  BY <1>1, <1>2, <1>5, <1>10 DEF Range
<1> QED BY <1>3, <1>10, <1>11, <1>12, <1>13, <1>14, <1>15

-----------------------------------------------------------------------------
(* The methods keep the types of the replacer's state, for whatever frame  *)
(* they are called.                                                        *)

LEMMA InitTypes == ArcInit => ArcTypeOK
<1>1. \A S : <<>> \in Seq(S)
  BY EmptySeq
<1>2. 0 \in 0 .. U32 - 1
  BY ReplacerAssumption
<1> QED BY <1>1, <1>2 DEF ArcInit, ArcTypeOK

LEMMA SetEvictableTypes ==
  ASSUME ArcTypeOK, NEW f \in FrameId, set_evictable(f)
  PROVE  ArcTypeOK'
BY DEF ArcTypeOK, set_evictable

(* The divisor of the new target is the length of the list that was hit,   *)
(* which is not empty.                                                     *)
LEMMA TargetTypes ==
  ASSUME ArcTypeOK
  PROVE  /\ mru_ghost # <<>> => RaisedTarget \in 0 .. U32 - 1
         /\ mfu_ghost # <<>> => LoweredTarget \in 0 .. U32 - 1
<1>1. PICK a \in Nat, b \in Nat : a = Len(mru_ghost) /\ b = Len(mfu_ghost)
  BY LenProperties DEF ArcTypeOK
<1>2. PICK u \in Nat \ {0} : u = U32
  BY ReplacerAssumption
<1>3. PICK t \in 0 .. u - 1 : t = mru_target_size
  BY <1>2 DEF ArcTypeOK
<1>4. \A n \in Int : n % u \in 0 .. u - 1
  OBVIOUS
<1>5. a # 0 => b \div a \in Nat
  OBVIOUS
<1>6. b # 0 => a \div b \in Nat
  OBVIOUS
<1>7. ASSUME mru_ghost # <<>> PROVE RaisedTarget \in 0 .. u - 1
  <2>1. a # 0
    BY <1>1, <1>7, EmptySeq DEF ArcTypeOK
  <2>2. PICK d \in Nat : d = b \div a
    BY <1>5, <2>1
  <2>3. (t + 1) % u \in 0 .. u - 1 /\ (t + d) % u \in 0 .. u - 1
    BY <1>4
  <2> QED BY <1>1, <1>3, <1>2, <2>2, <2>3 DEF RaisedTarget
<1>8. ASSUME mfu_ghost # <<>> PROVE LoweredTarget \in 0 .. u - 1
  <2>1. b # 0
    BY <1>1, <1>8, EmptySeq DEF ArcTypeOK
  <2>2. PICK d \in Nat : d = a \div b
    BY <1>6, <2>1
  <2>3. (t - 1) % u \in 0 .. u - 1 /\ (t >= d => t - d \in 0 .. u - 1)
    BY <1>4
  <2> QED BY <1>1, <1>3, <1>2, <2>2, <2>3 DEF LoweredTarget
<1> QED BY <1>2, <1>7, <1>8

LEMMA RecordAccessTypes ==
  ASSUME ArcTypeOK, NEW f \in FrameId, NEW p \in PageId, record_access(f, p)
  PROVE  ArcTypeOK'
<1>1. PICK Entry : Entry = FrameId \X PageId
  OBVIOUS
<1>2. <<f, p>> \in Entry /\ mru \in Seq(Entry) /\ mfu \in Seq(Entry)
  BY <1>1 DEF ArcTypeOK
<1>3. evictable_pages' = evictable_pages
  BY DEF record_access
<1>4. CASE HitResident(f, p)
  <2>1. mru' \in Seq(Entry)
    BY <1>2, <1>4, Retained DEF HitResident, Without
  <2>2. PICK r : r = Without(mfu, <<f, p>>)
    OBVIOUS
  <2>3. r \in Seq(Entry)
    BY <1>2, <2>2, Retained DEF Without
  <2>4. mfu' \in Seq(Entry)
    BY <1>2, <1>4, <2>2, <2>3, Prepended DEF HitResident
  <2> QED BY <1>1, <1>3, <1>4, <2>1, <2>4 DEF ArcTypeOK, HitResident
<1>5. CASE HitMruGhost(f, p)
  <2>1. mru_ghost # <<>>
    BY <1>5 DEF HitMruGhost, Range
  <2>2. mru_target_size' \in 0 .. U32 - 1
    BY <1>5, <2>1, TargetTypes DEF HitMruGhost
  <2>3. mru_ghost' \in Seq(PageId)
    BY <1>5, Retained DEF ArcTypeOK, HitMruGhost, Without
  <2>4. mfu' \in Seq(Entry)
    BY <1>2, <1>5, Prepended DEF HitMruGhost
  <2> QED BY <1>1, <1>3, <1>5, <2>2, <2>3, <2>4 DEF ArcTypeOK, HitMruGhost
<1>6. CASE HitMfuGhost(f, p)
  <2>1. mfu_ghost # <<>>
    BY <1>6 DEF HitMfuGhost, Range
  <2>2. CASE Panic
    BY <1>3, <1>6, <2>2 DEF ArcTypeOK, HitMfuGhost, Panic
  <2>3. CASE /\ mru_target_size' = LoweredTarget
             /\ mfu_ghost' = Without(mfu_ghost, p)
             /\ mfu' = Prepend(<<f, p>>, mfu)
             /\ UNCHANGED <<mru, mru_ghost, poisoned>>
    <3>1. mru_target_size' \in 0 .. U32 - 1
      BY <2>1, <2>3, TargetTypes
    <3>2. mfu_ghost' \in Seq(PageId)
      BY <2>3, Retained DEF ArcTypeOK, Without
    <3>3. mfu' \in Seq(Entry)
      BY <1>2, <2>3, Prepended
    <3> QED BY <1>1, <1>3, <2>3, <3>1, <3>2, <3>3 DEF ArcTypeOK
  <2> QED BY <1>6, <2>2, <2>3 DEF HitMfuGhost
<1>7. CASE Miss(f, p)
  <2>1. /\ mru' = Prepend(<<f, p>>, mru) \/ mru' = mru
        /\ mru_ghost' = DropBack(mru_ghost) \/ mru_ghost' = mru_ghost
        /\ mfu_ghost' = DropBack(mfu_ghost) \/ mfu_ghost' = mfu_ghost
        /\ UNCHANGED <<mfu, mru_target_size, poisoned>>
    BY <1>7 DEF Miss
  <2>2. mru' \in Seq(Entry)
    BY <1>2, <2>1, Prepended
  <2>3. mru_ghost' \in Seq(PageId) /\ mfu_ghost' \in Seq(PageId)
    BY <2>1, BackDropped DEF ArcTypeOK
  <2> QED BY <1>1, <1>3, <2>1, <2>2, <2>3 DEF ArcTypeOK
<1> QED BY <1>4, <1>5, <1>6, <1>7 DEF record_access

(* The victim of evict is a frame that was reported, and leaves the set. *)
LEMMA EvictTakesReported ==
  ASSUME NEW f, evict(f)
  PROVE  f \in evictable_pages /\ evictable_pages' = evictable_pages \ {f}
BY DEF evict, evict_from_mru_ghost, evict_from_mfu_ghost, IsVictim

LEMMA EvictTypes ==
  ASSUME ArcTypeOK, NEW f, evict(f)
  PROVE  ArcTypeOK'
<1>1. PICK Entry : Entry = FrameId \X PageId
  OBVIOUS
<1>2. /\ mru \in Seq(Entry) /\ mfu \in Seq(Entry)
      /\ \A e \in Entry : e[2] \in PageId
  BY <1>1 DEF ArcTypeOK
<1>3. evictable_pages' \subseteq FrameId
  BY EvictTakesReported DEF ArcTypeOK
<1>4. CASE evict_from_mru_ghost(f)
  <2>1. PICK i \in DOMAIN mru :
          /\ mru' = RemoveAt(mru, i)
          /\ mru_ghost' = Prepend(mru[i][2], mru_ghost)
          /\ UNCHANGED <<mfu, mfu_ghost, mru_target_size, poisoned>>
    BY <1>4 DEF evict_from_mru_ghost
  <2>2. mru' \in Seq(Entry) /\ mru[i] \in Entry
    BY <1>2, <2>1, EntryRemoved
  <2>3. mru_ghost' \in Seq(PageId)
    BY <1>2, <2>1, <2>2, Prepended DEF ArcTypeOK
  <2> QED BY <1>1, <1>3, <2>1, <2>2, <2>3 DEF ArcTypeOK
<1>5. CASE evict_from_mfu_ghost(f)
  <2>1. PICK i \in DOMAIN mfu :
          /\ mfu' = RemoveAt(mfu, i)
          /\ mfu_ghost' = Prepend(mfu[i][2], mfu_ghost)
          /\ UNCHANGED <<mru, mru_ghost, mru_target_size, poisoned>>
    BY <1>5 DEF evict_from_mfu_ghost
  <2>2. mfu' \in Seq(Entry) /\ mfu[i] \in Entry
    BY <1>2, <2>1, EntryRemoved
  <2>3. mfu_ghost' \in Seq(PageId)
    BY <1>2, <2>1, <2>2, Prepended DEF ArcTypeOK
  <2> QED BY <1>1, <1>3, <2>1, <2>2, <2>3 DEF ArcTypeOK
<1> QED BY <1>4, <1>5 DEF evict

LEMMA RemoveTypes ==
  ASSUME ArcTypeOK, NEW f, remove(f)
  PROVE  ArcTypeOK'
<1>1. PICK Entry : Entry = FrameId \X PageId
  OBVIOUS
<1>2. mru \in Seq(Entry) /\ mfu \in Seq(Entry)
  BY <1>1 DEF ArcTypeOK
<1>3. CASE f \in evictable_pages
  BY <1>3 DEF remove, arc_vars, ArcTypeOK
<1>4. CASE f \notin evictable_pages
  <2>1. mru' \in Seq(Entry)
    BY <1>2, <1>4, Retained DEF remove, WithoutFrame
  <2>2. mfu' \in Seq(Entry)
    BY <1>2, <1>4, Retained DEF remove, WithoutFrame
  <2>3. mru_ghost' \in Seq(PageId) /\ mfu_ghost' \in Seq(PageId)
    BY <1>4, Retained DEF remove, Without, ArcTypeOK
  <2> QED BY <1>1, <1>4, <2>1, <2>2, <2>3 DEF remove, ArcTypeOK
<1> QED BY <1>3, <1>4
=============================================================================
