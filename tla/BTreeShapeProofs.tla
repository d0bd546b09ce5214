-------------------------- MODULE BTreeShapeProofs --------------------------
(***************************************************************************)
(* Proofs about the tree that the inserts of BTree.tla build, for any      *)
(* keys, record ids and node sizes: its types, its balance, the order of   *)
(* its keys and its binary searches.                                       *)
(***************************************************************************)
EXTENDS BTreeProofs, FiniteSetTheorems, WellFoundedInduction

-----------------------------------------------------------------------------
(* Recursion.  A search of the model goes on in one smaller problem until  *)
(* it can answer: next leads from a problem to the smaller one, done tells *)
(* where the answer is in val, and size falls along next.                  *)

(* A set of natural numbers has a least element. *)
LEMMA LeastNumber ==
  ASSUME NEW T \in SUBSET Nat, T # {}
  PROVE  \E m \in T : \A k \in T : m <= k
<1>1. PICK R : R = OpToRel(<, Nat)
  BY Zenon
<1>2. IsWellFoundedOn(R, Nat)
  BY <1>1, NatLessThanWellFounded, Zenon
<1>3. PICK m \in T : \A k \in T : ~(<<k, m>> \in R)
  BY <1>2, WFMin
<1>4. \A k \in T : ~(k < m)
  BY <1>1, <1>3 DEF OpToRel
<1> QED BY <1>4

Falls(D, done, next, size) ==
  \A x \in D : ~done[x] => next[x] \in D /\ size[next[x]] < size[x]

Searches(f, D, done, val, next) ==
  f = [x \in D |-> IF done[x] THEN val[x] ELSE f[next[x]]]

(* A search answers every problem. *)
LEMMA SearchExists ==
  ASSUME NEW D, NEW done, NEW val, NEW next, NEW size \in [D -> Nat],
         Falls(D, done, next, size), NEW N \in Nat, \A x \in D : size[x] < N
  PROVE  \E f : Searches(f, D, done, val, next)
<1> DEFINE Part(n) == {x \in D : size[x] < n}
           Upto(n) == \E g : Searches(g, Part(n), done, val, next)
           T == {n \in Nat : ~Upto(n)}
<1>1. SUFFICES T = {}
  <2>1. Part(N) = D
    OBVIOUS
  <2> QED BY <1>1, <2>1
<1>2. SUFFICES ASSUME T # {} PROVE FALSE
  OBVIOUS
<1>3. PICK n \in T : \A k \in T : n <= k
  BY <1>2, LeastNumber
<1>4. Upto(0)
  <2>1. Part(0) = {}
    OBVIOUS
  <2> DEFINE g == [x \in {} |-> 0]
  <2>2. Searches(g, {}, done, val, next)
    BY DEF Searches
  <2> QED BY <2>1, <2>2
<1>5. n \in Nat /\ n # 0 /\ n - 1 \in Nat
  BY <1>3, <1>4
<1>6. PICK g : Searches(g, Part(n - 1), done, val, next)
  <2>1. ~(n <= n - 1)
    BY <1>5
  <2>2. n - 1 \notin T
    BY <1>3, <2>1
  <2>3. Upto(n - 1)
    BY <1>5, <2>2
  <2> QED BY <2>3
<1>7. \A x \in Part(n - 1) : g[x] = IF done[x] THEN val[x] ELSE g[next[x]]
  BY <1>6, Zenon DEF Searches
<1> DEFINE h == [x \in Part(n) |-> IF done[x] THEN val[x] ELSE g[next[x]]]
<1>8. \A x \in Part(n) : ~done[x] => next[x] \in Part(n - 1) /\ next[x] \in Part(n)
  BY <1>5 DEF Falls
<1>9. \A x \in Part(n) : h[x] = IF done[x] THEN val[x] ELSE h[next[x]]
  <2> TAKE x \in Part(n)
  <2>1. CASE done[x]
    BY <2>1
  <2>2. CASE ~done[x]
    <3>1. h[x] = g[next[x]]
      BY <2>2
    <3>2. h[next[x]] = g[next[x]]
      BY <1>7, <1>8, <2>2, Zenon
    <3> QED BY <2>2, <3>1, <3>2
  <2> QED BY <2>1, <2>2
<1>10. Searches(h, Part(n), done, val, next)
  BY <1>9, Zenon DEF Searches
<1> QED BY <1>3, <1>10

Leads(R, D, done, val, next) ==
  \A x \in D : IF done[x] THEN val[x] \in R[x] ELSE R[next[x]] \subseteq R[x]

(* Its answer to x is in R[x] if this holds where it ends and what is in   *)
(* R of the smaller problem is in R of the larger one.                     *)
LEMMA SearchFinds ==
  ASSUME NEW D, NEW done, NEW val, NEW next, NEW size \in [D -> Nat],
         Falls(D, done, next, size), NEW f, Searches(f, D, done, val, next),
         NEW R, Leads(R, D, done, val, next)
  PROVE  \A x \in D : f[x] \in R[x]
<1> DEFINE T == {size[x] : x \in {y \in D : f[y] \notin R[y]}}
<1>1. SUFFICES ASSUME T # {} PROVE FALSE
  OBVIOUS
<1>2. T \in SUBSET Nat
  OBVIOUS
<1> HIDE DEF T
<1>3. PICK n \in T : \A k \in T : n <= k
  BY <1>1, <1>2, LeastNumber
<1>4. PICK x \in D : n = size[x] /\ f[x] \notin R[x]
  BY <1>3 DEF T
<1>5. f[x] = IF done[x] THEN val[x] ELSE f[next[x]]
  BY Zenon DEF Searches
<1>6. ~done[x]
  BY <1>4, <1>5 DEF Leads
<1>7. next[x] \in D /\ size[next[x]] < n
  BY <1>4, <1>6 DEF Falls
<1>8. f[next[x]] \notin R[next[x]]
  BY <1>4, <1>5, <1>6 DEF Leads
<1>9. size[next[x]] \in T
  BY <1>7, <1>8 DEF T
<1>10. n <= size[next[x]] /\ n \in Nat /\ size[next[x]] \in Nat
  BY <1>2, <1>3, <1>7, <1>9
<1> QED BY <1>7, <1>10

-----------------------------------------------------------------------------
(* The two binary searches. *)

(* A range that is not empty is split into two smaller ones. *)
LEMMA RangeHalves ==
  ASSUME NEW n \in Nat, NEW r \in (0 .. n) \X (0 .. n), r[1] < r[2]
  PROVE  /\ Mid(r) \in r[1] .. r[2] - 1 /\ Mid(r) + 1 \in 1 .. n
         /\ r[1] = 0 /\ r[2] > 1 => Mid(r) > 0
         /\ LeftOf(r) \in (0 .. n) \X (0 .. n)
         /\ LeftOf(r)[1] = r[1] /\ LeftOf(r)[2] = Mid(r)
         /\ RightOf(r) \in (0 .. n) \X (0 .. n)
         /\ RightOf(r)[1] = Mid(r) + 1 /\ RightOf(r)[2] = r[2]
<1>1. PICK lo \in 0 .. n : lo = r[1]
  OBVIOUS
<1>2. PICK hi \in 0 .. n : hi = r[2]
  OBVIOUS
<1>3. lo < hi
  BY <1>1, <1>2
<1>4. PICK mid : mid = lo + (hi - lo) \div 2
  OBVIOUS
<1>5. mid \in lo .. hi - 1 /\ (lo = 0 /\ hi > 1 => mid > 0)
  BY <1>3, <1>4
<1>6. Mid(r) = mid /\ LeftOf(r) = <<lo, mid>> /\ RightOf(r) = <<mid + 1, hi>>
  BY <1>1, <1>2, <1>4 DEF Mid, LeftOf, RightOf
<1>7. mid \in 0 .. n /\ mid + 1 \in 0 .. n /\ mid + 1 \in 1 .. n
  BY <1>3, <1>5
<1> QED BY <1>1, <1>2, <1>5, <1>6, <1>7

(* The size of a range, and the other parts of the two searches. *)
RangeSize(n) == [r \in (0 .. n) \X (0 .. n) |-> IF r[1] < r[2] THEN r[2] - r[1] ELSE 0]

LEMMA RangesShrink ==
  ASSUME NEW n \in Nat, NEW done, NEW next,
         \A r \in (0 .. n) \X (0 .. n) :
           ~done[r] => r[1] < r[2] /\ next[r] \in {LeftOf(r), RightOf(r)}
  PROVE  /\ RangeSize(n) \in [(0 .. n) \X (0 .. n) -> Nat]
         /\ \A r \in (0 .. n) \X (0 .. n) : RangeSize(n)[r] < n + 1
         /\ Falls((0 .. n) \X (0 .. n), done, next, RangeSize(n))
<1> DEFINE D == (0 .. n) \X (0 .. n)
<1>1. ASSUME NEW r \in D
      PROVE  RangeSize(n)[r] \in Nat /\ RangeSize(n)[r] < n + 1
  <2>1. r[1] \in 0 .. n /\ r[2] \in 0 .. n
    OBVIOUS
  <2>2. RangeSize(n)[r] = IF r[1] < r[2] THEN r[2] - r[1] ELSE 0
    BY DEF RangeSize
  <2> QED BY <2>1, <2>2
<1>2. RangeSize(n) \in [D -> Nat]
  BY <1>1 DEF RangeSize
<1>3. ASSUME NEW r \in D, ~done[r]
      PROVE  next[r] \in D /\ RangeSize(n)[next[r]] < RangeSize(n)[r]
  <2>1. r[1] < r[2] /\ next[r] \in {LeftOf(r), RightOf(r)}
    BY <1>3
  <2>2. PICK lo \in 0 .. n : lo = r[1]
    OBVIOUS
  <2>3. PICK hi \in 0 .. n : hi = r[2]
    OBVIOUS
  <2>4. PICK mid : mid = Mid(r)
    OBVIOUS
  <2>5. /\ lo < hi /\ mid \in lo .. hi - 1
        /\ LeftOf(r) \in D /\ LeftOf(r)[1] = lo /\ LeftOf(r)[2] = mid
        /\ RightOf(r) \in D /\ RightOf(r)[1] = mid + 1 /\ RightOf(r)[2] = hi
    BY <2>1, <2>2, <2>3, <2>4, RangeHalves
  <2>6. RangeSize(n)[r] = hi - lo
    BY <2>2, <2>3, <2>5 DEF RangeSize
  <2>7. RangeSize(n)[LeftOf(r)] = IF lo < mid THEN mid - lo ELSE 0
    BY <2>5 DEF RangeSize
  <2>8. RangeSize(n)[RightOf(r)] = IF mid + 1 < hi THEN hi - (mid + 1) ELSE 0
    BY <2>5 DEF RangeSize
  <2>9. RangeSize(n)[LeftOf(r)] < hi - lo /\ RangeSize(n)[RightOf(r)] < hi - lo
    BY <2>5, <2>7, <2>8
  <2> QED BY <2>1, <2>5, <2>6, <2>9
<1> QED BY <1>1, <1>2, <1>3 DEF Falls

IsLow(f, entries, k) ==
  f = [r \in Ranges(entries) |->
         IF r[1] >= r[2] THEN r[1]
         ELSE f[IF KeyOf(entries[Mid(r) + 1]) <= k THEN RightOf(r) ELSE LeftOf(r)]]

(* find_child_index returns the place of a key not above k whose successor *)
(* is above k, if the first key is not above k.  The order of the keys is  *)
(* not needed for this.                                                    *)
LEMMA ChildIndexFound ==
  ASSUME NEW entries, Len(entries) \in Nat \ {0}, NEW k \in Int,
         \A i \in 1 .. Len(entries) : KeyOf(entries[i]) \in Int,
         KeyOf(entries[1]) <= k
  PROVE  /\ find_child_index(entries, k) \in 1 .. Len(entries)
         /\ IsChildIndex(entries, k, find_child_index(entries, k))
<1>1. PICK n \in Nat \ {0} : n = Len(entries)
  OBVIOUS
<1>2. PICK key : key = [i \in 1 .. n |-> KeyOf(entries[i])]
  OBVIOUS
<1>3. key \in [1 .. n -> Int] /\ \A i \in 1 .. n : key[i] = KeyOf(entries[i])
  BY <1>1, <1>2
<1> DEFINE D == (0 .. n) \X (0 .. n)
           done == [r \in D |-> r[1] >= r[2]]
           val == [r \in D |-> r[1]]
           next == [r \in D |-> IF KeyOf(entries[Mid(r) + 1]) <= k THEN RightOf(r) ELSE LeftOf(r)]
<1>4. \A f : IsLow(f, entries, k) <=> Searches(f, D, done, val, next)
  BY <1>1 DEF IsLow, Searches, Ranges
<1>5. \A r \in D : ~done[r] => r[1] < r[2] /\ next[r] \in {LeftOf(r), RightOf(r)}
  <2> TAKE r \in D
  <2>1. r[1] \in Int /\ r[2] \in Int
    OBVIOUS
  <2>2. next[r] \in {LeftOf(r), RightOf(r)}
    OBVIOUS
  <2> HIDE DEF D, next
  <2>3. done[r] <=> (r[1] >= r[2])
    BY Zenon
  <2> HIDE DEF done
  <2> QED BY <2>1, <2>2, <2>3
<1>6. \A r \in D : ~done[r] =>
        next[r] = IF key[Mid(r) + 1] <= k THEN RightOf(r) ELSE LeftOf(r)
  BY <1>3, <1>5, RangeHalves DEF D
<1>7. \A r \in D : done[r] => r[1] >= r[2] /\ val[r] = r[1]
  OBVIOUS
<1> HIDE DEF done, val, next
<1>8. PICK size \in [D -> Nat] : Falls(D, done, next, size) /\ \A r \in D : size[r] < n + 1
  BY <1>5, RangesShrink DEF D
<1> HIDE DEF D
<1>9. \E f : Searches(f, D, done, val, next)
  <2>1. n + 1 \in Nat
    OBVIOUS
  <2> QED BY <1>8, <2>1, SearchExists
<1>10. find_child_index(entries, k) = (CHOOSE f : IsLow(f, entries, k))[<<0, Len(entries)>>]
  BY DEF find_child_index, IsLow
<1>11. PICK f : f = CHOOSE g : IsLow(g, entries, k)
  OBVIOUS
<1>12. IsLow(f, entries, k)
  BY <1>4, <1>9, <1>11, Zenon
<1>13. Searches(f, D, done, val, next)
  BY <1>4, <1>12
<1> DEFINE Boundary(lo, hi) == {v \in 0 .. n : lo <= hi =>
                                  /\ lo <= v /\ v <= hi
                                  /\ v > lo => key[v] <= k
                                  /\ v < hi => key[v + 1] > k}
<1>14. PICK R : R = [r \in D |-> Boundary(r[1], r[2])]
  OBVIOUS
<1>14a. \A r \in D : R[r] = Boundary(r[1], r[2])
  BY <1>14, Zenon
<1>14b. ASSUME NEW r \in D, done[r]
        PROVE  val[r] \in R[r]
  <2>1. r[1] \in 0 .. n /\ r[2] \in 0 .. n /\ r[1] >= r[2] /\ val[r] = r[1]
    BY <1>7, <1>14b DEF D
  <2>2. r[1] \in Boundary(r[1], r[2])
    BY <2>1
  <2> QED BY <1>14a, <2>1, <2>2
<1>15. ASSUME NEW r \in D, ~done[r]
       PROVE  R[next[r]] \subseteq R[r]
  <2>2. PICK lo \in 0 .. n : lo = r[1]
    BY DEF D
  <2>3. PICK hi \in 0 .. n : hi = r[2]
    BY DEF D
  <2>4. PICK mid : mid = Mid(r)
    OBVIOUS
  <2>5. /\ lo < hi /\ mid \in lo .. hi - 1 /\ mid + 1 \in 1 .. n
        /\ LeftOf(r) \in D /\ LeftOf(r)[1] = lo /\ LeftOf(r)[2] = mid
        /\ RightOf(r) \in D /\ RightOf(r)[1] = mid + 1 /\ RightOf(r)[2] = hi
    BY <1>5, <1>15, <2>2, <2>3, <2>4, RangeHalves DEF D
  <2>6. R[r] = Boundary(lo, hi)
    BY <1>14a, <2>2, <2>3
  <2>7. CASE key[mid + 1] <= k
    <3>1. R[next[r]] = Boundary(mid + 1, hi)
      <4>1. next[r] = RightOf(r)
        BY <1>6, <1>15, <2>4, <2>7
      <4>2. R[RightOf(r)] = Boundary(mid + 1, hi)
        <5> HIDE DEF Boundary
        <5> QED BY <1>14a, <2>5
      <4> QED BY <4>1, <4>2
    <3>2. Boundary(mid + 1, hi) \subseteq Boundary(lo, hi)
      BY <2>5, <2>7
    <3> QED BY <2>6, <3>1, <3>2
  <2>8. CASE ~(key[mid + 1] <= k)
    <3>1. R[next[r]] = Boundary(lo, mid)
      <4>1. next[r] = LeftOf(r)
        BY <1>6, <1>15, <2>4, <2>8
      <4>2. R[LeftOf(r)] = Boundary(lo, mid)
        <5> HIDE DEF Boundary
        <5> QED BY <1>14a, <2>5
      <4> QED BY <4>1, <4>2
    <3>2. key[mid + 1] > k
      BY <1>3, <2>5, <2>8
    <3>3. Boundary(lo, mid) \subseteq Boundary(lo, hi)
      BY <2>5, <3>2, SMTT(30)
    <3> QED BY <2>6, <3>1, <3>3
  <2> QED BY <2>7, <2>8
<1>16. \A r \in D : f[r] \in R[r]
  <2>1. Leads(R, D, done, val, next)
    BY <1>14b, <1>15, Zenon DEF Leads
  <2> QED BY <1>8, <1>13, <2>1, SearchFinds
<1>17. <<0, n>> \in D
  BY DEF D
<1>18. f[<<0, n>>] \in Boundary(0, n)
  <2>1. R[<<0, n>>] = Boundary(0, n)
    BY <1>14a, <1>17
  <2> QED BY <1>16, <1>17, <2>1
<1>19. PICK v \in 0 .. n : /\ v = f[<<0, n>>]
                           /\ v > 0 => key[v] <= k
                           /\ v < n => key[v + 1] > k
  BY <1>18
<1>20. key[1] <= k /\ key[1] \in Int
  BY <1>1, <1>3
<1>21. v # 0
  BY <1>1, <1>19, <1>20
<1>22. v = find_child_index(entries, k)
  BY <1>1, <1>10, <1>11, <1>19
<1>23. v \in 1 .. n /\ KeyOf(entries[v]) <= k
  BY <1>3, <1>19, <1>21
<1>24. v < n => KeyOf(entries[v + 1]) > k
  BY <1>3, <1>19, <1>21, SMTT(30)
<1> QED BY <1>1, <1>22, <1>23, <1>24 DEF IsChildIndex

(* The keys of the entries are in order. *)
InOrder(entries) ==
  \A i, j \in 1 .. Len(entries) : i <= j => KeyOf(entries[i]) <= KeyOf(entries[j])

(* Among keys in order, only one place is a child index. *)
LEMMA OneChildIndex ==
  ASSUME NEW entries, Len(entries) \in Nat, NEW k \in Int,
         \A i \in 1 .. Len(entries) : KeyOf(entries[i]) \in Int,
         InOrder(entries),
         NEW i \in 1 .. Len(entries), IsChildIndex(entries, k, i),
         NEW j \in 1 .. Len(entries), IsChildIndex(entries, k, j)
  PROVE  i = j
<1>1. ASSUME NEW a \in 1 .. Len(entries), IsChildIndex(entries, k, a),
             NEW b \in 1 .. Len(entries), IsChildIndex(entries, k, b), a < b
      PROVE  FALSE
  <2>1. a + 1 \in 1 .. Len(entries) /\ a + 1 <= b
    BY <1>1
  <2>2. KeyOf(entries[a + 1]) > k /\ KeyOf(entries[b]) <= k
    BY <1>1, <2>1 DEF IsChildIndex
  <2>3. KeyOf(entries[a + 1]) <= KeyOf(entries[b])
    BY <2>1 DEF InOrder
  <2>4. KeyOf(entries[a + 1]) \in Int /\ KeyOf(entries[b]) \in Int
    BY <2>1
  <2> QED BY <2>2, <2>3, <2>4
<1>2. i \in Int /\ j \in Int
  OBVIOUS
<1> QED BY <1>1, <1>2

IsProbe(f, entries, k) ==
  f = [r \in Ranges(entries) |->
         IF r[1] >= r[2] THEN None
         ELSE IF KeyOf(entries[Mid(r) + 1]) = k THEN entries[Mid(r) + 1]
         ELSE f[IF KeyOf(entries[Mid(r) + 1]) < k THEN RightOf(r) ELSE LeftOf(r)]]

(* find_kv finds an entry of key k among keys in order, if there is one. *)
LEMMA KvFound ==
  ASSUME NEW entries, Len(entries) \in Nat, NEW k \in Int,
         \A i \in 1 .. Len(entries) : KeyOf(entries[i]) \in Int,
         InOrder(entries)
  PROVE  IF \E i \in 1 .. Len(entries) : KeyOf(entries[i]) = k
         THEN \E i \in 1 .. Len(entries) :
                find_kv(entries, k) = entries[i] /\ KeyOf(entries[i]) = k
         ELSE find_kv(entries, k) = None
<1>1. PICK n \in Nat : n = Len(entries)
  OBVIOUS
<1>2. PICK key : key = [i \in 1 .. n |-> KeyOf(entries[i])]
  OBVIOUS
<1>3. /\ key \in [1 .. n -> Int] /\ \A i \in 1 .. n : key[i] = KeyOf(entries[i])
      /\ \A i, j \in 1 .. n : i <= j => key[i] <= key[j]
  BY <1>1, <1>2 DEF InOrder
<1> DEFINE D == (0 .. n) \X (0 .. n)
           Hit(r) == KeyOf(entries[Mid(r) + 1]) = k
           done == [r \in D |-> r[1] >= r[2] \/ Hit(r)]
           val == [r \in D |-> IF r[1] >= r[2] THEN None ELSE entries[Mid(r) + 1]]
           next == [r \in D |-> IF KeyOf(entries[Mid(r) + 1]) < k THEN RightOf(r) ELSE LeftOf(r)]
<1>4. \A r \in D : r[1] \in 0 .. n /\ r[2] \in 0 .. n
  OBVIOUS
<1>5. Ranges(entries) = D
  BY <1>1 DEF Ranges
<1> HIDE DEF D
<1>6. \A r \in D : /\ done[r] <=> (r[1] >= r[2] \/ Hit(r))
                   /\ val[r] = IF r[1] >= r[2] THEN None ELSE entries[Mid(r) + 1]
                   /\ next[r] = IF KeyOf(entries[Mid(r) + 1]) < k THEN RightOf(r) ELSE LeftOf(r)
  BY Zenon
<1> HIDE DEF done, val, next
<1>7. ASSUME NEW f
      PROVE  IsProbe(f, entries, k) <=> Searches(f, D, done, val, next)
  <2>1. \A r \in D :
          (IF r[1] >= r[2] THEN None
           ELSE IF KeyOf(entries[Mid(r) + 1]) = k THEN entries[Mid(r) + 1]
           ELSE f[IF KeyOf(entries[Mid(r) + 1]) < k THEN RightOf(r) ELSE LeftOf(r)])
            = IF done[r] THEN val[r] ELSE f[next[r]]
    BY <1>6
  <2> QED BY <1>5, <2>1, Zenon DEF IsProbe, Searches
<1>8. \A r \in D : ~done[r] => r[1] < r[2] /\ next[r] \in {LeftOf(r), RightOf(r)}
  <2> TAKE r \in D
  <2>1. (done[r] <=> (r[1] >= r[2] \/ Hit(r))) /\ next[r] \in {LeftOf(r), RightOf(r)}
    BY <1>6
  <2> HIDE DEF Hit
  <2> QED BY <1>4, <2>1
<1>9. PICK size \in [D -> Nat] : Falls(D, done, next, size) /\ \A r \in D : size[r] < n + 1
  BY <1>8, RangesShrink DEF D
<1>10. \E f : Searches(f, D, done, val, next)
  <2>1. n + 1 \in Nat
    OBVIOUS
  <2> QED BY <1>9, <2>1, SearchExists
<1>11. find_kv(entries, k) = (CHOOSE f : IsProbe(f, entries, k))[<<0, Len(entries)>>]
  BY DEF find_kv, IsProbe
<1>12. PICK f : f = CHOOSE g : IsProbe(g, entries, k)
  OBVIOUS
<1>13. IsProbe(f, entries, k)
  BY <1>7, <1>10, <1>12, Zenon
<1>14. Searches(f, D, done, val, next)
  BY <1>7, <1>13
<1> DEFINE Hits == {entries[i] : i \in {j \in 1 .. n : key[j] = k}}
           Between(lo, hi) == \E i \in 1 .. n : lo < i /\ i <= hi /\ key[i] = k
           Answers(lo, hi) == IF Between(lo, hi) THEN Hits ELSE {None}
<1>15. PICK R : R = [r \in D |-> Answers(r[1], r[2])]
  OBVIOUS
<1>16. \A r \in D : R[r] = Answers(r[1], r[2])
  BY <1>15, Zenon
<1>17. ASSUME NEW r \in D
       PROVE  IF done[r] THEN val[r] \in R[r] ELSE R[next[r]] \subseteq R[r]
  <2>2. PICK lo \in 0 .. n : lo = r[1]
    BY <1>4
  <2>3. PICK hi \in 0 .. n : hi = r[2]
    BY <1>4
  <2>4. PICK mid : mid = Mid(r)
    OBVIOUS
  <2>5. R[r] = Answers(lo, hi)
    BY <1>16, <2>2, <2>3
  <2>6. CASE lo >= hi
    <3>1. done[r] /\ val[r] = None
      BY <1>6, <2>2, <2>3, <2>6
    <3>2. ~Between(lo, hi)
      BY <2>6
    <3> QED BY <2>5, <3>1, <3>2
  <2>7. CASE lo < hi
    <3>1. /\ mid \in lo .. hi - 1 /\ mid + 1 \in 1 .. n
          /\ LeftOf(r) \in D /\ LeftOf(r)[1] = lo /\ LeftOf(r)[2] = mid
          /\ RightOf(r) \in D /\ RightOf(r)[1] = mid + 1 /\ RightOf(r)[2] = hi
      BY <2>2, <2>3, <2>4, <2>7, RangeHalves DEF D
    <3>2. /\ done[r] <=> (key[mid + 1] = k)
          /\ val[r] = entries[mid + 1]
          /\ next[r] = IF key[mid + 1] < k THEN RightOf(r) ELSE LeftOf(r)
      <4>1. KeyOf(entries[Mid(r) + 1]) = key[mid + 1]
        BY <1>3, <2>4, <3>1
      <4>2. ~(lo >= hi)
        BY <2>7
      <4>3. ~(r[1] >= r[2])
        BY <2>2, <2>3, <4>2
      <4> QED BY <1>6, <2>4, <4>1, <4>3
    <3>3. CASE key[mid + 1] = k
      <4>1. Between(lo, hi)
        BY <3>1, <3>3
      <4>2. entries[mid + 1] \in Hits
        BY <3>1, <3>3
      <4> QED BY <2>5, <3>2, <3>3, <4>1, <4>2
    <3>4. CASE key[mid + 1] # k /\ key[mid + 1] < k
      <4>1. R[next[r]] = Answers(mid + 1, hi)
        BY <1>16, <3>1, <3>2, <3>4
      <4>2. Between(mid + 1, hi) <=> Between(lo, hi)
        <5>1. \A i \in 1 .. n : i <= mid + 1 => key[i] # k
          BY <1>3, <3>1, <3>4
        <5> QED BY <3>1, <5>1
      <4> QED BY <2>5, <3>2, <3>4, <4>1, <4>2
    <3>5. CASE key[mid + 1] # k /\ ~(key[mid + 1] < k)
      <4>1. R[next[r]] = Answers(lo, mid)
        BY <1>16, <3>1, <3>2, <3>5
      <4>2. Between(lo, mid) <=> Between(lo, hi)
        <5>1. \A i \in 1 .. n : i >= mid + 1 => key[i] # k
          BY <1>3, <3>1, <3>5
        <5> QED BY <3>1, <5>1
      <4> QED BY <2>5, <3>2, <3>5, <4>1, <4>2
    <3> QED BY <3>3, <3>4, <3>5
  <2> QED BY <2>6, <2>7
<1>18. \A r \in D : f[r] \in R[r]
  <2>1. Leads(R, D, done, val, next)
    BY <1>17, Zenon DEF Leads
  <2> QED BY <1>9, <1>14, <2>1, SearchFinds
<1>19. <<0, n>> \in D
  BY DEF D
<1>20. f[<<0, n>>] \in Answers(0, n)
  <2>1. R[<<0, n>>] = Answers(0, n)
    BY <1>16, <1>19
  <2> QED BY <1>18, <1>19, <2>1
<1>21. f[<<0, n>>] = find_kv(entries, k)
  BY <1>1, <1>11, <1>12
<1>22. CASE Between(0, n)
  <2>1. PICK i \in 1 .. n : key[i] = k /\ find_kv(entries, k) = entries[i]
    BY <1>20, <1>21, <1>22
  <2> QED BY <1>1, <1>3, <2>1
<1>23. CASE ~Between(0, n)
  <2>1. find_kv(entries, k) = None
    BY <1>20, <1>21, <1>23
  <2>2. \A i \in 1 .. n : key[i] # k
    BY <1>23
  <2> QED BY <1>1, <1>3, <2>1, <2>2
<1> QED BY <1>22, <1>23
-----------------------------------------------------------------------------
(* The entries of nodes: what keeps them in order. *)

LEMMA EntryParts ==
  ASSUME NEW T, NEW e \in Key \X T
  PROVE  KeyOf(e) \in Key /\ KeyOf(e) \in Nat /\ Child(e) \in T
<1>1. KeyOf(e) \in Key /\ Child(e) \in T
  BY DEF KeyOf, Child
<1>2. Key \subseteq Nat
  BY TreeAssumption
<1> QED BY <1>1, <1>2

LEMMA Monotone ==
  ASSUME NEW n \in Nat, NEW key \in [1 .. n -> Int],
         \A i \in 1 .. n - 1 : key[i] <= key[i + 1]
  PROVE  \A i, j \in 1 .. n : i <= j => key[i] <= key[j]
<1> DEFINE Wrong(d) == \E i \in 1 .. n : i + d \in 1 .. n /\ ~(key[i] <= key[i + d])
           T == {d \in Nat : Wrong(d)}
<1>1. T = {}
  <2> SUFFICES ASSUME T # {} PROVE FALSE
    OBVIOUS
  <2>1. PICK d \in T : \A e \in T : d <= e
    BY LeastNumber
  <2>2. PICK i \in 1 .. n : i + d \in 1 .. n /\ ~(key[i] <= key[i + d])
    BY <2>1
  <2>3. d \in Nat
    BY <2>1
  <2>4. d # 0
    BY <2>2, <2>3
  <2>5. d - 1 \in Nat /\ i + (d - 1) \in 1 .. n - 1 /\ i + (d - 1) \in 1 .. n
        /\ ~(d <= d - 1) /\ (i + (d - 1)) + 1 = i + d
    BY <2>2, <2>3, <2>4
  <2>6. d - 1 \notin T
    BY <2>1, <2>5
  <2>7. ~Wrong(d - 1)
    BY <2>5, <2>6
  <2>8. key[i] <= key[i + (d - 1)]
    BY <2>2, <2>5, <2>7
  <2>9. key[i + (d - 1)] <= key[i + d]
    BY <2>5
  <2>10. key[i] \in Int /\ key[i + (d - 1)] \in Int /\ key[i + d] \in Int
    BY <2>2, <2>5
  <2>11. \A x, y, z \in Int : x <= y /\ y <= z => x <= z
    OBVIOUS
  <2>12. key[i] <= key[i + d]
    BY <2>8, <2>9, <2>10, <2>11, ZenonT(30)
  <2> QED BY <2>2, <2>12
<1>2. TAKE i, j \in 1 .. n
<1>3. HAVE i <= j
<1>4. j - i \in Nat /\ i + (j - i) = j
  BY <1>3
<1>5. ~Wrong(j - i)
  BY <1>1, <1>4
<1> QED BY <1>4, <1>5

LEMMA EntriesInOrder ==
  ASSUME NEW t, Len(t) \in Nat, \A i \in 1 .. Len(t) : KeyOf(t[i]) \in Int,
         \A i \in 1 .. Len(t) - 1 : KeyOf(t[i]) <= KeyOf(t[i + 1])
  PROVE  InOrder(t)
<1>1. PICK n \in Nat : n = Len(t)
  OBVIOUS
<1>2. PICK key : key = [i \in 1 .. n |-> KeyOf(t[i])]
  OBVIOUS
<1>3. key \in [1 .. n -> Int] /\ \A i \in 1 .. n : key[i] = KeyOf(t[i])
  BY <1>1, <1>2
<1>4. \A i \in 1 .. n - 1 : key[i] <= key[i + 1]
  <2> TAKE i \in 1 .. n - 1
  <2>1. i \in 1 .. n /\ i + 1 \in 1 .. n
    OBVIOUS
  <2> QED BY <1>1, <1>3, <2>1
<1>5. \A i, j \in 1 .. n : i <= j => key[i] <= key[j]
  BY <1>3, <1>4, Monotone
<1> QED BY <1>1, <1>3, <1>5 DEF InOrder

(* push and sort: the entries are those there were and the new one. *)
LEMMA SortedEntries ==
  ASSUME NEW s \in LeafEntries, NEW e \in Key \X Rid, NEW t \in SortedWith(s, e)
  PROVE  /\ t \in LeafEntries /\ Len(t) = Len(s) + 1 /\ Len(s) \in Nat
         /\ InOrder(t)
         /\ \A i \in 1 .. Len(t) : t[i] = e \/ \E j \in 1 .. Len(s) : t[i] = s[j]
<1>1. t \in Seq(Key \X Rid) /\ Len(t) = Len(s) + 1 /\ Len(s) \in Nat
  BY EntrySorted, LenProperties DEF LeafEntries
<1>2. \A i \in 1 .. Len(t) : KeyOf(t[i]) \in Int
  <2> TAKE i \in 1 .. Len(t)
  <2>1. t[i] \in Key \X Rid
    BY <1>1, ElementOfSeq
  <2> QED BY <2>1, EntryParts
<1> DEFINE all == Append(s, e)
           n == Len(all)
<1>3. /\ n = Len(s) + 1 /\ n \in Nat /\ all[Len(s) + 1] = e
      /\ \A i \in 1 .. Len(s) : all[i] = s[i]
  BY AppendProperties, LenProperties DEF LeafEntries
<1> HIDE DEF all
<1>4. PICK p \in Bijection(1 .. n, 1 .. n) : t = [i \in 1 .. n |-> all[p[i]]]
  BY DEF SortedWith, all
<1>5. \A i \in 1 .. n - 1 : KeyOf(t[i]) <= KeyOf(t[i + 1])
  BY DEF SortedWith, all
<1>6. p \in [1 .. n -> 1 .. n]
  BY DEF Bijection, Injection
<1>7. InOrder(t)
  BY <1>1, <1>2, <1>3, <1>5, EntriesInOrder
<1>8. ASSUME NEW i \in 1 .. Len(t)
      PROVE  t[i] = e \/ \E j \in 1 .. Len(s) : t[i] = s[j]
  <2>1. i \in 1 .. n /\ t[i] = all[p[i]]
    BY <1>1, <1>3, <1>4
  <2>2. PICK j \in 1 .. n : j = p[i]
    BY <1>6, <2>1
  <2>3. CASE j = Len(s) + 1
    BY <2>1, <2>2, <2>3, <1>3
  <2>4. CASE j # Len(s) + 1
    <3>1. j \in 1 .. Len(s)
      BY <2>4, <1>1, <1>3
    <3> QED BY <3>1, <2>1, <2>2, <1>3
  <2> QED BY <2>3, <2>4
<1> QED BY <1>1, <1>7, <1>8 DEF LeafEntries

(* No entry is lost. *)
LEMMA EntriesKept ==
  ASSUME NEW S, NEW s \in Seq(S), NEW e \in S, NEW t \in SortedWith(s, e),
         NEW j \in 1 .. Len(s)
  PROVE  \E i \in 1 .. Len(t) : t[i] = s[j]
<1> DEFINE all == Append(s, e)
           n == Len(all)
<1>1. /\ n = Len(s) + 1 /\ n \in Nat /\ Len(s) \in Nat
      /\ \A i \in 1 .. Len(s) : all[i] = s[i]
  BY AppendProperties, LenProperties
<1> HIDE DEF all
<1>2. PICK p \in Bijection(1 .. n, 1 .. n) : t = [i \in 1 .. n |-> all[p[i]]]
  BY DEF SortedWith, all
<1>3. j \in 1 .. n /\ Len(t) = n
  BY <1>1, EntrySorted
<1>4. PICK i \in 1 .. n : p[i] = j
  BY <1>3 DEF Bijection, Surjection
<1>5. t[i] = s[j]
  BY <1>1, <1>2, <1>4
<1> QED BY <1>3, <1>5

(* Entering an entry behind position slot. *)
Entered(s, slot, e, t) ==
  /\ Len(t) = Len(s) + 1
  /\ \A i \in 1 .. slot : t[i] = s[i]
  /\ t[slot + 1] = e
  /\ \A i \in slot + 1 .. Len(s) : t[i + 1] = s[i]

LEMMA EntriesAround ==
  ASSUME NEW S, NEW s \in Seq(S), NEW e \in S, NEW slot \in 1 .. Len(s),
         NEW t, t = InsertAt(s, slot + 1, e)
  PROVE  Entered(s, slot, e, t)
<1>1. Len(s) \in Nat /\ t \in Seq(S) /\ Len(t) = Len(s) + 1
  BY LenProperties, EntryInserted
<1> DEFINE a == SubSeq(s, 1, slot)
           b == SubSeq(s, slot + 1, Len(s))
           m == a \o <<e>>
<1>2. \A i \in 1 .. Len(s) : s[i] \in S
  BY <1>1, ElementOfSeq
<1>3. a \in Seq(S) /\ Len(a) = slot /\ \A i \in 1 .. slot : a[i] = s[i]
  BY <1>1, <1>2, SubSeqProperties
<1>4. /\ b \in Seq(S) /\ Len(b) = Len(s) - slot
      /\ \A i \in 1 .. Len(s) - slot : b[i] = s[slot + i]
  BY <1>1, <1>2, SubSeqProperties
<1>5. InsertAt(s, slot + 1, e) = SubSeq(s, 1, (slot + 1) - 1) \o <<e>> \o SubSeq(s, slot + 1, Len(s))
  BY DEF InsertAt
<1>6. (slot + 1) - 1 = slot
  OBVIOUS
<1>7. t = m \o b
  BY <1>5, <1>6, Zenon
<1> HIDE DEF a, b
<1>8. /\ m \in Seq(S) /\ Len(m) = slot + 1
      /\ \A i \in 1 .. slot : m[i] = a[i]
      /\ m[slot + 1] = e
  <2>1. <<e>> \in Seq(S) /\ Len(<<e>>) = 1 /\ <<e>>[1] = e
    OBVIOUS
  <2> QED BY <1>3, <2>1, ConcatProperties
<1> HIDE DEF m
<1>9. /\ \A i \in 1 .. Len(m) : t[i] = m[i]
      /\ \A i \in Len(m) + 1 .. Len(m) + Len(b) : t[i] = b[i - Len(m)]
  <2>1. \A i \in 1 .. Len(m) + Len(b) : t[i] = IF i <= Len(m) THEN m[i] ELSE b[i - Len(m)]
    <3>1. m \in Seq(S) /\ b \in Seq(S)
      BY <1>4, <1>8
    <3> QED BY <1>7, <3>1, ConcatProperties, SMTT(30)
  <2>2. Len(m) \in Nat /\ Len(b) \in Nat
    BY <1>1, <1>4, <1>8
  <2> QED BY <2>1, <2>2
<1>10. \A i \in 1 .. slot : t[i] = s[i]
  <2> TAKE i \in 1 .. slot
  <2>1. i \in 1 .. Len(m)
    BY <1>8
  <2> QED BY <2>1, <1>3, <1>8, <1>9
<1>11. t[slot + 1] = e
  BY <1>8, <1>9
<1>12. \A i \in slot + 1 .. Len(s) : t[i + 1] = s[i]
  <2> TAKE i \in slot + 1 .. Len(s)
  <2>1. /\ i + 1 \in Len(m) + 1 .. Len(m) + Len(b)
        /\ (i + 1) - Len(m) = i - slot /\ i - slot \in 1 .. Len(s) - slot
        /\ slot + (i - slot) = i
    BY <1>1, <1>4, <1>8
  <2>2. t[i + 1] = b[i - slot]
    BY <1>9, <2>1
  <2>3. b[i - slot] = s[slot + (i - slot)]
    BY <1>4, <2>1
  <2> QED BY <2>1, <2>2, <2>3
<1> QED BY <1>1, <1>10, <1>11, <1>12 DEF Entered

-----------------------------------------------------------------------------
(* What each step that changes pages does to them. *)

Size(p) == Len(pages[p].entries)
KeyAt(p, i) == KeyOf(pages[p].entries[i])

PageIsAdded(new) ==
  new \in Nat \ {0} /\ new \notin PageIds /\ PageIds' = PageIds \cup {new}

FirstLeaf(new) ==
  /\ At("start") /\ root_page_id = INVALID_PAGE_ID
  /\ PageIsAdded(new) /\ \A q \in PageIds : pages'[q] = pages[q]
  /\ IsLeaf(new)' /\ pages'[new].next = INVALID_PAGE_ID
  /\ pages'[new].entries = <<call.entry>>
  /\ root_page_id' = new /\ header_root' = new /\ call' = Idle

(* t are the entries of leaf p and the entry that is inserted, in order. *)
WithEntry(p, t) ==
  /\ p = Bottom /\ p \in PageIds /\ IsLeaf(p)
  /\ call.entry \in Key \X Rid
  /\ t \in SortedWith(pages[p].entries, call.entry)
  /\ t \in LeafEntries /\ Len(t) = Size(p) + 1 /\ InOrder(t)
  /\ \A i \in 1 .. Len(t) :
       t[i] = call.entry \/ \E j \in 1 .. Size(p) : t[i] = pages[p].entries[j]

LeafTakes(p, t) ==
  /\ At("leaf") /\ WithEntry(p, t)
  /\ PageIds' = PageIds /\ \A q \in PageIds \ {p} : pages'[q] = pages[q]
  /\ IsLeaf(p)' /\ pages'[p].next = pages[p].next /\ pages'[p].entries = t
  /\ UNCHANGED <<root_page_id, header_root>> /\ call' = Idle

(* Page p is split into itself and page new, mid entries of t stay. *)
SplitInto(p, new, t, mid) ==
  /\ p \in PageIds /\ PageIsAdded(new) /\ \A q \in PageIds \ {p} : pages'[q] = pages[q]
  /\ mid = Len(t) \div 2 /\ mid \in 1 .. Len(t) - 1
  /\ Len(t) = MaxSize(p) + 1 /\ MaxSize(p) \in Nat \ {0}
  /\ IsLeaf(p)' = IsLeaf(p) /\ IsLeaf(new)' = IsLeaf(p)
  /\ Len(pages'[p].entries) = mid /\ \A i \in 1 .. mid : pages'[p].entries[i] = t[i]
  /\ Len(pages'[new].entries) = Len(t) - mid
  /\ At("propagate")' /\ call'.left = p /\ call'.separator = <<KeyOf(t[mid + 1]), new>>
  /\ root_page_id \in PageIds /\ UNCHANGED <<root_page_id, header_root>>

LeafSplits(p, new, t, mid) ==
  /\ At("split") /\ WithEntry(p, t) /\ SplitInto(p, new, t, mid)
  /\ \A i \in 1 .. Len(t) - mid : pages'[new].entries[i] = t[mid + i]
  /\ pages'[p].next = new /\ pages'[new].next = pages[p].next
  /\ call'.path = call.path

(* t are the entries of the parent p with the separator behind the left    *)
(* page, which is in slot.                                                 *)
WithSeparator(p, slot, t) ==
  /\ At("propagate") /\ call.path # <<>> /\ p = Last(call.path)
  /\ p \in PageIds /\ ~IsLeaf(p)
  /\ slot \in 1 .. Size(p) /\ ChildAt(p, slot) = call.left
  /\ t \in InternalEntries
  /\ Entered(pages[p].entries, slot, call.separator, t)

ParentTakes(p, slot, t) ==
  /\ WithSeparator(p, slot, t)
  /\ PageIds' = PageIds /\ \A q \in PageIds \ {p} : pages'[q] = pages[q]
  /\ ~IsLeaf(p)' /\ pages'[p].entries = t
  /\ UNCHANGED <<root_page_id, header_root>> /\ call' = Idle

ParentSplits(p, new, slot, t, mid) ==
  /\ WithSeparator(p, slot, t) /\ SplitInto(p, new, t, mid)
  /\ pages'[new].entries[1] = <<INVALID_KEY, Child(t[mid + 1])>>
  /\ \A i \in 2 .. Len(t) - mid : pages'[new].entries[i] = t[mid + i]
  /\ call'.path = Front(call.path)

RootGrows(new) ==
  /\ At("propagate") /\ call.path = <<>> /\ call.left = root_page_id
  /\ PageIsAdded(new) /\ \A q \in PageIds : pages'[q] = pages[q]
  /\ ~IsLeaf(new)' /\ pages'[new].entries = <<<<INVALID_KEY, call.left>>, call.separator>>
  /\ root_page_id' = new /\ header_root' = new /\ call' = Idle

LEMMA FirstLeafMade ==
  ASSUME IInv, insert_first
  PROVE  \E new : FirstLeaf(new)
<1> DEFINE node == Leaf(INVALID_PAGE_ID, <<call.entry>>)
<1>1. call.entry \in Key \X Rid /\ call' = Idle /\ root_page_id' = NewPage
      /\ header_root' = NewPage /\ At("start") /\ root_page_id = INVALID_PAGE_ID
      /\ pages' = Append(pages, node) /\ Shape
  BY DEF insert_first, IInv, Shape, Inserting, At, NewRoot
<1>2. <<call.entry>> \in LeafEntries
  BY <1>1 DEF LeafEntries
<1>3. node \in Node /\ node.type = "leaf" /\ node.entries = <<call.entry>>
      /\ node.next = INVALID_PAGE_ID
  BY <1>2 DEF Leaf, Node, INVALID_PAGE_ID
<1> HIDE DEF node
<1>4. /\ PageIds' = PageIds \cup {NewPage} /\ NewPage \notin PageIds
      /\ NewPage \in Nat \ {0} /\ pages'[NewPage] = node
      /\ \A q \in PageIds : pages'[q] = pages[q]
  BY <1>1, <1>3, PageAdded
<1>5. PICK new : new = NewPage
  OBVIOUS
<1>6. FirstLeaf(new)
  BY <1>1, <1>3, <1>4, <1>5 DEF FirstLeaf, PageIsAdded, IsLeaf
<1> QED BY <1>6

(* The leaf takes the entry, or it is full and nothing changes but the pc. *)
LEMMA LeafTaken ==
  ASSUME IInv, insert_leaf
  PROVE  \/ \E p, t : LeafTakes(p, t)
         \/ /\ UNCHANGED <<pages, root_page_id, header_root>>
            /\ At("leaf") /\ At("split")' /\ Bottom' = Bottom
            /\ call'.entry = call.entry /\ call'.path = Front(call.path)
<1>1. /\ At("leaf") /\ Inserting /\ OnPath /\ Shape
      /\ UNCHANGED <<root_page_id, header_root>>
  BY DEF insert_leaf, IInv, At, Inserting, OnPath
<1>2. /\ call.path \in Seq(PageIds) /\ call.path # <<>>
      /\ call.entry \in Key \X Rid
  BY <1>1 DEF Shape
<1>3. PICK p : p = Last(call.path)
  OBVIOUS
<1>4. Bottom = p /\ p \in PageIds /\ IsLeaf(p)
  BY <1>1, <1>2, <1>3, BottomIs, FrontAndLast DEF IInv, PathReachesRoot, OnPath
<1>5. /\ pages[p].entries \in LeafEntries /\ pages[p].next \in Int
      /\ pages[p] \in Node /\ pages[p].type = "leaf"
  BY <1>1, <1>4, NodeFacts DEF IsLeaf
<1>6. PICK t \in SortedWith(pages[p].entries, call.entry) :
        IF Len(t) > leaf_node_max_size
        THEN /\ call' = [pc |-> "split", entry |-> call.entry,
                         path |-> Front(call.path), left |-> p]
             /\ UNCHANGED pages
        ELSE /\ pages' = [pages EXCEPT ![p].entries = t]
             /\ call' = Idle
  BY <1>3 DEF insert_leaf
<1>7. WithEntry(p, t)
  BY <1>2, <1>4, <1>5, <1>6, SortedEntries DEF WithEntry, Size
<1>8. CASE Len(t) > leaf_node_max_size
  <2>1. /\ call' = [pc |-> "split", entry |-> call.entry, path |-> Front(call.path), left |-> p]
        /\ pages' = pages
    BY <1>6, <1>8
  <2>2. At("split")' /\ call'.entry = call.entry /\ call'.left = p /\ call'.path = Front(call.path)
    BY <2>1 DEF At
  <2>3. Bottom' = p
    BY <2>2, BottomIsNext DEF At
  <2> QED BY <1>1, <1>4, <2>1, <2>2, <2>3
<1>9. CASE ~(Len(t) > leaf_node_max_size)
  <2> DEFINE node == [pages[p] EXCEPT !.entries = t]
  <2>1. pages' = [pages EXCEPT ![p] = node] /\ call' = Idle
    BY <1>6, <1>9
  <2>2. /\ node \in Node /\ node.entries = t /\ node.type = "leaf"
        /\ node.next = pages[p].next
    BY <1>5, <1>7 DEF Node, WithEntry
  <2> HIDE DEF node
  <2>3. /\ PageIds' = PageIds /\ pages'[p] = node
        /\ \A q \in PageIds \ {p} : pages'[q] = pages[q]
    BY <1>1, <1>4, <2>1, <2>2, PageChanged
  <2>4. LeafTakes(p, t)
    BY <1>1, <1>7, <2>1, <2>2, <2>3 DEF LeafTakes, IsLeaf
  <2> QED BY <2>4
<1> QED BY <1>8, <1>9

LEMMA LeafSplitMade ==
  ASSUME IInv, split_leaf
  PROVE  \E p, new, t, mid : LeafSplits(p, new, t, mid)
<1>0. PICK p : p = call.left
  OBVIOUS
<1>1. /\ At("split") /\ OnPath /\ Inserting /\ Shape
      /\ UNCHANGED <<root_page_id, header_root>> /\ Bottom = p
  BY <1>0, BottomIs DEF split_leaf, IInv, OnPath, Inserting, At
<1>2. /\ root_page_id \in PageIds /\ p \in PageIds
      /\ call.entry \in Key \X Rid /\ IsLeaf(p) /\ ~HasRoom(p)
  BY <1>0, <1>1 DEF Shape
<1>3. /\ pages[p].entries \in LeafEntries /\ pages[p].next \in Int
      /\ MaxSize(p) = leaf_node_max_size
  BY <1>1, <1>2, NodeFacts
<1>4. Len(pages[p].entries) = leaf_node_max_size
  <2>1. Len(pages[p].entries) \in 1 .. MaxSize(p) /\ ~(Len(pages[p].entries) < MaxSize(p))
    BY <1>1, <1>2 DEF Shape, NodesFit, Fits, HasRoom
  <2> QED BY <2>1, <1>3, TreeAssumption
<1>5. PICK t \in SortedWith(pages[p].entries, call.entry) :
        /\ pages' = Append([pages EXCEPT ![p] = Leaf(NewPage, KeptAt(t, Middle(t)))],
                           Leaf(NextOfRight(p), SplitOff(t, Middle(t))))
        /\ Propagate(call.path, p, MiddleKey(t), NewPage)
  BY <1>0 DEF split_leaf
<1>6. WithEntry(p, t)
  BY <1>1, <1>2, <1>3, <1>5, SortedEntries DEF WithEntry, Size
<1>7. t \in LeafEntries /\ Len(t) = leaf_node_max_size + 1
  BY <1>4, <1>6 DEF WithEntry, Size
<1>8. PICK mid : mid = Middle(t)
  OBVIOUS
<1>9. mid = Len(t) \div 2 /\ mid \in 1 .. Len(t) - 1 /\ mid \in 0 .. Len(t)
  BY <1>7, <1>8, TreeAssumption DEF Middle
<1>10. /\ KeptAt(t, mid) \in LeafEntries /\ Len(KeptAt(t, mid)) = mid
       /\ \A i \in 1 .. mid : KeptAt(t, mid)[i] = t[i]
       /\ SplitOff(t, mid) \in LeafEntries
       /\ Len(SplitOff(t, mid)) = Len(t) - mid
       /\ \A i \in 1 .. Len(t) - mid : SplitOff(t, mid)[i] = t[mid + i]
  <2>1. t \in Seq(Key \X Rid) /\ mid \in 0 .. Len(t)
    BY <1>7, <1>9 DEF LeafEntries
  <2> QED BY <2>1, Halves DEF LeafEntries
<1>11. PICK new : new = NewPage
  OBVIOUS
<1> DEFINE low == Leaf(new, KeptAt(t, mid))
           high == Leaf(NextOfRight(p), SplitOff(t, mid))
<1>12. new \in Int
  BY <1>1, <1>2, <1>11, NodeFacts DEF NewPage
<1>13. /\ low \in Node /\ low.type = "leaf" /\ low.entries = KeptAt(t, mid) /\ low.next = new
       /\ high \in Node /\ high.type = "leaf" /\ high.entries = SplitOff(t, mid)
       /\ high.next = pages[p].next
  BY <1>3, <1>10, <1>12 DEF Leaf, Node, NextOfRight
<1>14. /\ pages' = Append([pages EXCEPT ![p] = low], high)
       /\ Propagate(call.path, p, MiddleKey(t), new)
  BY <1>5, <1>8, <1>11
<1> HIDE DEF low, high
<1>15. /\ PageIds' = PageIds \cup {new} /\ new \notin PageIds /\ new \in Nat \ {0}
       /\ pages'[p] = low /\ pages'[new] = high
       /\ \A q \in PageIds \ {p} : pages'[q] = pages[q]
  <2>1. Shape /\ p \in PageIds /\ low \in Node /\ high \in Node
    BY <1>1, <1>2, <1>13
  <2>2. /\ PageIds' = PageIds \cup {NewPage} /\ NewPage \notin PageIds
        /\ NewPage \in Nat \ {0}
        /\ pages'[p] = low /\ pages'[NewPage] = high
        /\ \A q \in PageIds \ {p} : pages'[q] = pages[q]
    BY <2>1, <1>14, PageChangedAndAdded
  <2> QED BY <2>2, <1>11
<1>16. /\ At("propagate")' /\ call'.left = p /\ call'.path = call.path
       /\ call'.separator = <<KeyOf(t[mid + 1]), new>>
  BY <1>8, <1>14 DEF Propagate, MiddleKey, At
<1>17. SplitInto(p, new, t, mid)
  <2>1. Len(t) = MaxSize(p) + 1 /\ MaxSize(p) \in Nat \ {0}
    BY <1>3, <1>7, TreeAssumption
  <2>2. IsLeaf(p)' = IsLeaf(p) /\ IsLeaf(new)' = IsLeaf(p)
    BY <1>2, <1>13, <1>15 DEF IsLeaf
  <2>3. /\ Len(pages'[p].entries) = mid /\ \A i \in 1 .. mid : pages'[p].entries[i] = t[i]
        /\ Len(pages'[new].entries) = Len(t) - mid
    BY <1>10, <1>13, <1>15
  <2>4. PageIsAdded(new) /\ \A q \in PageIds \ {p} : pages'[q] = pages[q]
    BY <1>15 DEF PageIsAdded
  <2>5. UNCHANGED <<root_page_id, header_root>> /\ root_page_id \in PageIds /\ p \in PageIds
    BY <1>1, <1>2
  <2> QED BY <1>9, <1>16, <2>1, <2>2, <2>3, <2>4, <2>5, Zenon DEF SplitInto
<1>18. LeafSplits(p, new, t, mid)
  BY <1>1, <1>6, <1>10, <1>13, <1>15, <1>16, <1>17 DEF LeafSplits
<1> QED BY <1>18

LEMMA SeparatorPlaced ==
  ASSUME IInv, At("propagate"), call.path # <<>>, NEW slot \in LeftSlots,
         NEW p, p = Last(call.path), NEW t, t = ParentEntries(slot)
  PROVE  WithSeparator(p, slot, t)
<1>1. PICK level \in [PageIds -> Int] : Leveled(level)
  BY DEF IInv
<1>2. /\ p \in PageIds /\ ~IsLeaf(p) /\ t \in InternalEntries
  BY <1>1, ParentTakesSeparator
<1>3. Shape /\ call.separator \in Key \X PageIds
  BY Propagating
<1>4. PageIds \subseteq Nat /\ pages[p].entries \in Seq(Key \X Nat)
  BY <1>2, <1>3, NodeFacts DEF InternalEntries
<1>5. call.separator \in Key \X Nat
  BY <1>3, <1>4
<1>6. slot \in 1 .. Len(pages[p].entries) /\ Child(pages[p].entries[slot]) = call.left
  BY <1>4, LenProperties DEF LeftSlots
<1>7. PICK s : s = pages[p].entries
  OBVIOUS
<1>8. PICK e : e = call.separator
  OBVIOUS
<1>9. Entered(s, slot, call.separator, t)
  <2>1. s \in Seq(Key \X Nat) /\ e \in Key \X Nat
    BY <1>4, <1>5, <1>7, <1>8
  <2>2. PICK c \in 1 .. Len(s) : c = slot
    BY <1>6, <1>7
  <2>3. t = InsertAt(s, c + 1, e)
    BY <1>7, <1>8, <2>2 DEF ParentEntries
  <2>4. Entered(s, c, e, t)
    BY <2>1, <2>3, EntriesAround
  <2> QED BY <2>2, <2>4, <1>8
<1> QED BY <1>2, <1>6, <1>7, <1>9 DEF WithSeparator, Size, ChildAt

LEMMA ParentTaken ==
  ASSUME IInv, propagate
  PROVE  \E p, slot, t : ParentTakes(p, slot, t)
<1>1. At("propagate") /\ call.path # <<>> /\ call' = Idle /\ UNCHANGED <<root_page_id, header_root>>
  BY DEF propagate
<1>2. Shape
  BY <1>1, Propagating
<1>3. PICK p : p = Last(call.path)
  OBVIOUS
<1>4. PICK slot \in LeftSlots : pages' = [pages EXCEPT ![p] = Internal(ParentEntries(slot))]
  BY <1>3 DEF propagate
<1>5. PICK t : t = ParentEntries(slot)
  OBVIOUS
<1>6. WithSeparator(p, slot, t)
  BY <1>1, <1>3, <1>5, SeparatorPlaced
<1>7. t \in InternalEntries /\ p \in PageIds
  BY <1>6 DEF WithSeparator
<1> DEFINE node == Internal(t)
<1>8. node \in Node /\ node.entries = t /\ node.type = "internal"
  BY <1>7 DEF Node, Internal
<1>9. pages' = [pages EXCEPT ![p] = node]
  BY <1>4, <1>5
<1> HIDE DEF node
<1>10. /\ PageIds' = PageIds /\ pages'[p] = node
       /\ \A q \in PageIds \ {p} : pages'[q] = pages[q]
  BY <1>2, <1>7, <1>8, <1>9, PageChanged
<1>11. ParentTakes(p, slot, t)
  BY <1>1, <1>6, <1>8, <1>10 DEF ParentTakes, IsLeaf
<1> QED BY <1>11

LEMMA ParentSplitMade ==
  ASSUME IInv, split_internal
  PROVE  \E p, new, slot, t, mid : ParentSplits(p, new, slot, t, mid)
<1>1. At("propagate") /\ call.path # <<>> /\ UNCHANGED <<root_page_id, header_root>>
  BY DEF split_internal
<1>2. Shape /\ root_page_id \in PageIds
  BY <1>1, Propagating
<1>3. PICK p : p = Last(call.path)
  OBVIOUS
<1> DEFINE Right(t) == [SplitOff(t, Middle(t)) EXCEPT ![1] = <<INVALID_KEY, @[2]>>]
<1>4. PICK slot \in LeftSlots :
        /\ Len(ParentEntries(slot)) > internal_node_max_size
        /\ pages' = Append([pages EXCEPT ![p] =
                              Internal(KeptAt(ParentEntries(slot), Middle(ParentEntries(slot))))],
                           Internal(Right(ParentEntries(slot))))
        /\ Propagate(Front(call.path), p, MiddleKey(ParentEntries(slot)), NewPage)
  BY <1>3 DEF split_internal
<1>5. PICK t : t = ParentEntries(slot)
  OBVIOUS
<1>6. WithSeparator(p, slot, t)
  BY <1>1, <1>3, <1>5, SeparatorPlaced
<1>7. /\ p \in PageIds /\ ~IsLeaf(p) /\ t \in InternalEntries
      /\ Len(t) = Len(pages[p].entries) + 1
  BY <1>6 DEF WithSeparator, Entered
<1>8. PICK mid : mid = Middle(t)
  OBVIOUS
<1>9. PICK right : right = Right(t)
  OBVIOUS
<1>10. PICK new : new = NewPage
  OBVIOUS
<1>11. /\ Len(t) > internal_node_max_size
       /\ pages' = Append([pages EXCEPT ![p] = Internal(KeptAt(t, mid))], Internal(right))
       /\ Propagate(Front(call.path), p, MiddleKey(t), new)
  BY <1>4, <1>5, <1>8, <1>9, <1>10
<1>12. right = [SplitOff(t, mid) EXCEPT ![1] = <<INVALID_KEY, @[2]>>]
  BY <1>8, <1>9
<1> HIDE DEF Right
<1>13. MaxSize(p) = internal_node_max_size /\ Len(pages[p].entries) \in 1 .. internal_node_max_size
  BY <1>2, <1>7, NodeFacts DEF Shape, NodesFit, Fits
<1>14. Len(t) = internal_node_max_size + 1
  BY <1>7, <1>11, <1>13, TreeAssumption
<1>15. mid = Len(t) \div 2 /\ mid \in 1 .. Len(t) - 1 /\ mid \in 0 .. Len(t)
  BY <1>8, <1>14, TreeAssumption DEF Middle
<1> DEFINE kept == KeptAt(t, mid)
           off == SplitOff(t, mid)
<1>16. /\ kept \in InternalEntries /\ Len(kept) = mid
       /\ \A i \in 1 .. mid : kept[i] = t[i]
       /\ off \in InternalEntries /\ Len(off) = Len(t) - mid
       /\ \A i \in 1 .. Len(t) - mid : off[i] = t[mid + i]
  <2>1. t \in Seq(Key \X Nat) /\ mid \in 0 .. Len(t)
    BY <1>7, <1>15 DEF InternalEntries
  <2>2. PICK S : S = Key \X Nat
    OBVIOUS
  <2>3. t \in Seq(S) /\ mid \in 0 .. Len(t)
    BY <2>1, <2>2
  <2>4. /\ KeptAt(t, mid) \in Seq(S) /\ Len(KeptAt(t, mid)) = mid
        /\ \A i \in 1 .. mid : KeptAt(t, mid)[i] = t[i]
        /\ SplitOff(t, mid) \in Seq(S) /\ Len(SplitOff(t, mid)) = Len(t) - mid
        /\ \A i \in 1 .. Len(t) - mid : SplitOff(t, mid)[i] = t[mid + i]
    BY <2>3, Halves
  <2>5. /\ kept \in Seq(S) /\ Len(kept) = mid
        /\ \A i \in 1 .. mid : kept[i] = t[i]
        /\ off \in Seq(S) /\ Len(off) = Len(t) - mid
        /\ \A i \in 1 .. Len(t) - mid : off[i] = t[mid + i]
    BY <2>4
  <2> QED BY <2>2, <2>5 DEF InternalEntries
<1> HIDE DEF kept, off
<1>17. /\ right \in InternalEntries /\ Len(right) = Len(t) - mid
       /\ right[1] = <<INVALID_KEY, Child(t[mid + 1])>>
       /\ \A i \in 2 .. Len(t) - mid : right[i] = t[mid + i]
  <2>1. 1 \in 1 .. Len(off) /\ off \in Seq(Key \X Nat) /\ Len(t) \in Nat
    BY <1>14, <1>15, <1>16, TreeAssumption DEF InternalEntries
  <2>2. off[1] \in Key \X Nat /\ off[1] = t[mid + 1]
    BY <1>16, <2>1, ElementOfSeq
  <2>3. PICK first : first = <<INVALID_KEY, off[1][2]>>
    OBVIOUS
  <2>4. first \in Key \X Nat /\ first = <<INVALID_KEY, Child(t[mid + 1])>>
    BY <2>2, <2>3, TreeAssumption DEF Child
  <2>5. right = [off EXCEPT ![1] = first]
    BY <1>12, <2>3 DEF off
  <2>6. /\ right \in Seq(Key \X Nat) /\ Len(right) = Len(off)
        /\ \A i \in 1 .. Len(off) : right[i] = IF i = 1 THEN first ELSE off[i]
    BY <2>1, <2>4, <2>5, ExceptSeq
  <2>7. right \in InternalEntries
    BY <2>6 DEF InternalEntries
  <2>8. Len(right) = Len(t) - mid /\ right[1] = first
    BY <1>16, <2>1, <2>6
  <2>9. \A i \in 2 .. Len(t) - mid : right[i] = t[mid + i]
    <3> TAKE i \in 2 .. Len(t) - mid
    <3>1. i \in 1 .. Len(t) - mid /\ i # 1
      BY <2>1
    <3> QED BY <1>16, <2>6, <3>1
  <2> QED BY <2>4, <2>7, <2>8, <2>9
<1> DEFINE low == Internal(kept)
           high == Internal(right)
<1>18. /\ low \in Node /\ low.type = "internal" /\ low.entries = kept
       /\ high \in Node /\ high.type = "internal" /\ high.entries = right
  BY <1>16, <1>17 DEF Internal, Node
<1>19. pages' = Append([pages EXCEPT ![p] = low], high)
  BY <1>11 DEF kept
<1> HIDE DEF low, high
<1>20. /\ PageIds' = PageIds \cup {new} /\ new \notin PageIds /\ new \in Nat \ {0}
       /\ pages'[p] = low /\ pages'[new] = high
       /\ \A q \in PageIds \ {p} : pages'[q] = pages[q]
  <2>1. Shape /\ p \in PageIds /\ low \in Node /\ high \in Node
    BY <1>2, <1>7, <1>18
  <2>2. /\ PageIds' = PageIds \cup {NewPage} /\ NewPage \notin PageIds
        /\ NewPage \in Nat \ {0}
        /\ pages'[p] = low /\ pages'[NewPage] = high
        /\ \A q \in PageIds \ {p} : pages'[q] = pages[q]
    BY <2>1, <1>19, PageChangedAndAdded
  <2> QED BY <2>2, <1>10
<1>21. /\ At("propagate")' /\ call'.left = p /\ call'.path = Front(call.path)
       /\ call'.separator = <<KeyOf(t[mid + 1]), new>>
  BY <1>8, <1>11 DEF Propagate, MiddleKey, At
<1>22. SplitInto(p, new, t, mid)
  <2>1. Len(t) = MaxSize(p) + 1 /\ MaxSize(p) \in Nat \ {0}
    BY <1>13, <1>14, TreeAssumption
  <2>2. IsLeaf(p)' = IsLeaf(p) /\ IsLeaf(new)' = IsLeaf(p)
    BY <1>7, <1>18, <1>20 DEF IsLeaf
  <2> QED BY <1>1, <1>2, <1>7, <1>15, <1>16, <1>17, <1>18, <1>20, <1>21, <2>1, <2>2
          DEF SplitInto, PageIsAdded
<1>23. ParentSplits(p, new, slot, t, mid)
  BY <1>6, <1>17, <1>18, <1>20, <1>21, <1>22 DEF ParentSplits
<1> QED BY <1>23

LEMMA RootGrowsUp ==
  ASSUME IInv, grow_root
  PROVE  \E new : RootGrows(new)
<1> DEFINE first == <<INVALID_KEY, call.left>>
           node == Internal(<<first, call.separator>>)
<1>1. /\ At("propagate") /\ call.path = <<>> /\ call' = Idle
      /\ pages' = Append(pages, node) /\ root_page_id' = NewPage /\ header_root' = NewPage
  BY DEF grow_root, NewRoot
<1>2. /\ Shape /\ call.left \in PageIds /\ call.separator \in Key \X PageIds
      /\ OnPath /\ Bottom = call.left /\ Above = call.path
  BY <1>1, Propagating
<1>3. call.left = root_page_id
  BY <1>1, <1>2 DEF IInv, PathReachesRoot, OnPath, At
<1>4. first \in Key \X Nat /\ call.separator \in Key \X Nat
  BY <1>2, NodeFacts, TreeAssumption
<1>5. PICK t : t = <<first, call.separator>>
  OBVIOUS
<1>6. t \in InternalEntries
  <2> HIDE DEF first
  <2> QED BY <1>4, <1>5 DEF InternalEntries
<1>7. node \in Node /\ node.entries = t /\ node.type = "internal"
  BY <1>5, <1>6 DEF Node, Internal
<1> HIDE DEF node
<1>8. /\ PageIds' = PageIds \cup {NewPage} /\ NewPage \notin PageIds
      /\ NewPage \in Nat \ {0} /\ pages'[NewPage] = node
      /\ \A q \in PageIds : pages'[q] = pages[q]
  BY <1>1, <1>2, <1>7, PageAdded
<1>9. PICK new : new = NewPage
  OBVIOUS
<1>10. RootGrows(new)
  BY <1>1, <1>3, <1>5, <1>7, <1>8, <1>9 DEF RootGrows, PageIsAdded, IsLeaf
<1> QED BY <1>10

-----------------------------------------------------------------------------
(* The steps of Next, by what they do to the pages. *)

Quiet ==
  /\ UNCHANGED <<pages, root_page_id, header_root>>
  /\ At("propagate") \/ At("propagate")' => UNCHANGED call

LEMMA StepKinds ==
  ASSUME IInv, [Next]_vars
  PROVE  \/ \E new : FirstLeaf(new)
         \/ \E p, t : LeafTakes(p, t)
         \/ \E p, new, t, mid : LeafSplits(p, new, t, mid)
         \/ \E p, slot, t : ParentTakes(p, slot, t)
         \/ \E p, new, slot, t, mid : ParentSplits(p, new, slot, t, mid)
         \/ \E new : RootGrows(new)
         \/ Quiet
<1>1. CASE insert_first
  BY <1>1, FirstLeafMade
<1>2. ASSUME NEW p, NEW path, Visit(p, path)
      PROVE  At("leaf")' \/ At("descend")'
  BY <1>2 DEF Visit, At
<1>3. CASE insert_at_root
  <2>1. At("start") /\ (At("leaf")' \/ At("descend")')
        /\ UNCHANGED <<pages, root_page_id, header_root>>
    BY <1>2, <1>3 DEF insert_at_root
  <2> QED BY <2>1 DEF Quiet, At
<1>4. CASE descend
  <2>1. At("descend") /\ (At("leaf")' \/ At("descend")')
        /\ UNCHANGED <<pages, root_page_id, header_root>>
    BY <1>2, <1>4 DEF descend
  <2> QED BY <2>1 DEF Quiet, At
<1>5. CASE insert_leaf
  BY <1>5, LeafTaken DEF Quiet, At
<1>6. CASE split_leaf
  BY <1>6, LeafSplitMade
<1>7. CASE propagate
  BY <1>7, ParentTaken
<1>8. CASE split_internal
  BY <1>8, ParentSplitMade
<1>9. CASE grow_root
  BY <1>9, RootGrowsUp
<1>10. CASE scan_next
  <2>1. /\ At("scan") /\ UNCHANGED <<pages, root_page_id, header_root>>
        /\ "pc" \in DOMAIN call
        /\ \/ call' = Idle
           \/ call' = [call EXCEPT !.page = pages[call.page].next,
                                   !.seen = @ \o pages[call.page].entries]
    BY <1>10 DEF scan_next, IInv, Shape, At
  <2>2. call'.pc \in {"idle", "scan"}
    <3>1. CASE call' = Idle
      BY <3>1 DEF Idle
    <3>2. ASSUME NEW next, NEW seen, call' = [call EXCEPT !.page = next, !.seen = seen]
          PROVE  call'.pc = call.pc
      BY <2>1, <3>2
    <3> QED BY <2>1, <3>1, <3>2 DEF At
  <2> QED BY <2>1, <2>2 DEF Quiet, At
<1>11. CASE find_in_empty
  BY <1>11 DEF find_in_empty, Quiet, At
<1>12. ASSUME NEW k \in Key, find(k)
       PROVE  Quiet
  BY <1>12 DEF find, Quiet
<1>13. ASSUME NEW k \in Key, scan(k)
       PROVE  Quiet
  <2>1. /\ At("idle") /\ UNCHANGED <<pages, root_page_id, header_root>>
        /\ call' = [pc |-> "scan", from |-> k, page |-> LeafFor(k), seen |-> <<>>]
    BY <1>13 DEF scan
  <2> QED BY <2>1 DEF Quiet, At
<1>14. ASSUME NEW k \in Key, NEW r \in Rid, insert(k, r)
       PROVE  Quiet
  BY <1>14 DEF insert, Quiet, At
<1>15. CASE UNCHANGED vars
  BY <1>15 DEF vars, Quiet
<1> QED BY <1>1, <1>3, <1>4, <1>5, <1>6, <1>7, <1>8, <1>9, <1>10, <1>11, <1>12, <1>13,
          <1>14, <1>15 DEF Next, InsertContinues, Halted

-----------------------------------------------------------------------------
(* The root.  Only a tree without pages has no root, and the header page   *)
(* names the root in memory.                                               *)

Rooted ==
  /\ PageIds = {} => root_page_id = INVALID_PAGE_ID /\ header_root = HeaderPage
  /\ PageIds # {} => root_page_id \in PageIds /\ header_root = root_page_id

LEMMA StepKeepsRoot ==
  ASSUME IInv, [Next]_vars, Rooted
  PROVE  Rooted'
<1>1. ASSUME NEW new, FirstLeaf(new) \/ RootGrows(new)
      PROVE  Rooted'
  BY <1>1 DEF Rooted, FirstLeaf, RootGrows, PageIsAdded
<1>2. ASSUME NEW p, NEW slot, NEW t, LeafTakes(p, t) \/ ParentTakes(p, slot, t)
      PROVE  Rooted'
  BY <1>2 DEF Rooted, LeafTakes, ParentTakes
<1>3. ASSUME NEW p, NEW new, NEW t, NEW mid, SplitInto(p, new, t, mid)
      PROVE  Rooted'
  BY <1>3 DEF Rooted, SplitInto, PageIsAdded
<1>4. CASE Quiet
  BY <1>4 DEF Quiet, Rooted, PageIds
<1> QED BY <1>1, <1>2, <1>3, <1>4, StepKinds DEF LeafSplits, ParentSplits

(* The number of levels below a page.  A leaf has none, all children of a  *)
(* page have the same, and no page has more than the root.                 *)
Ranked(rank) ==
  /\ \A p \in PageIds : IsLeaf(p) => rank[p] = 0
  /\ TreeLevels(rank)
  /\ \A p \in PageIds : rank[p] <= rank[root_page_id]
  /\ At("propagate") => rank[Child(call.separator)] = rank[call.left]

HasRanks == \E rank \in [PageIds -> Nat] : Ranked(rank)

(* What has to be shown of the ranks after nodes have been changed. *)
LEMMA RanksChanged ==
  ASSUME IInv, PageIds \subseteq PageIds',
         NEW rank \in [PageIds -> Nat], Ranked(rank),
         NEW changed, \A q \in PageIds' \ changed : q \in PageIds /\ pages'[q] = pages[q],
         NEW rk \in [PageIds' -> Nat], \A q \in PageIds : rk[q] = rank[q],
         \A q \in changed : IF IsLeaf(q)' THEN rk[q] = 0
                            ELSE \A c \in Children(q)' : rk[q] = rk[c] + 1
  PROVE  TreeLevels(rk)' /\ \A q \in PageIds' : IsLeaf(q)' => rk[q] = 0
<1>1. \A q \in PageIds' \ changed :
        q \in PageIds /\ IsLeaf(q)' = IsLeaf(q) /\ Children(q)' = Children(q)
  BY SameNode
<1>2. ASSUME NEW q \in PageIds', IsLeaf(q)'
      PROVE  rk[q] = 0
  BY <1>1, <1>2 DEF Ranked
<1>3. ASSUME NEW q \in PageIds', ~IsLeaf(q)', NEW c \in Children(q)'
      PROVE  rk[q] = rk[c] + 1
  <2>1. CASE q \in changed
    BY <1>3, <2>1
  <2>2. CASE q \notin changed
    <3>1. q \in Inner /\ c \in Children(q) /\ q \in PageIds
      BY <1>1, <1>3, <2>2 DEF Inner, Leaves
    <3>2. c \in PageIds /\ rank[q] = rank[c] + 1
      BY <3>1 DEF IInv, Shape, Ranked, TreeLevels
    <3> QED BY <3>1, <3>2
  <2> QED BY <2>1, <2>2
<1> QED BY <1>2, <1>3 DEF TreeLevels, Inner, Leaves

(* The children among the entries of a parent that takes a separator. *)
Separated(p, slot, t) ==
  /\ Size(p) \in Nat \ {0} /\ Len(t) = Size(p) + 1 /\ p \in Inner /\ slot \in 1 .. Size(p)
  /\ t[slot + 1] = call.separator
  /\ call.left \in Children(p) /\ call.left \in PageIds
  /\ Child(call.separator) \in PageIds /\ KeyOf(call.separator) \in Key
  /\ \A i \in 1 .. Size(p) : ChildAt(p, i) \in Children(p) /\ ChildAt(p, i) \in PageIds
  /\ \A i \in 1 .. Len(t) : i # slot + 1 =>
       \E j \in 1 .. Size(p) : /\ j = (IF i <= slot THEN i ELSE i - 1)
                               /\ t[i] = pages[p].entries[j]
  /\ \A i \in 1 .. Len(t) : KeyOf(t[i]) \in Nat

LEMMA SeparatedChild ==
  ASSUME IInv, NEW p, NEW slot, NEW t, WithSeparator(p, slot, t)
  PROVE  Separated(p, slot, t)
<1>1. /\ At("propagate") /\ p \in PageIds /\ ~IsLeaf(p) /\ slot \in 1 .. Size(p)
      /\ ChildAt(p, slot) = call.left /\ t \in Seq(Key \X Nat)
      /\ Entered(pages[p].entries, slot, call.separator, t)
  BY DEF WithSeparator, InternalEntries
<1>2. Shape /\ call.left \in PageIds /\ call.separator \in Key \X PageIds
  BY <1>1, Propagating
<1>3. /\ pages[p].entries \in Seq(Key \X Nat) /\ Size(p) \in Nat
      /\ DOMAIN pages[p].entries = 1 .. Size(p) /\ p \in Inner
  BY <1>1, <1>2, NodeFacts, LenProperties DEF InternalEntries, Size, Inner, Leaves
<1>4. Size(p) # 0
  BY <1>1, <1>3
<1>5. \A i \in 1 .. Size(p) : ChildAt(p, i) \in Children(p)
  BY <1>3 DEF Children, ChildAt
<1>6. Children(p) \subseteq PageIds
  BY <1>2, <1>3 DEF Shape
<1>7. Child(call.separator) \in PageIds /\ KeyOf(call.separator) \in Key
  BY <1>2, EntryParts
<1>8. /\ Len(t) = Size(p) + 1 /\ t[slot + 1] = call.separator
      /\ \A i \in 1 .. slot : t[i] = pages[p].entries[i]
      /\ \A i \in slot + 1 .. Size(p) : t[i + 1] = pages[p].entries[i]
  BY <1>1 DEF Entered, Size
<1>9. ASSUME NEW i \in 1 .. Len(t), i # slot + 1
      PROVE  \E j \in 1 .. Size(p) : /\ j = (IF i <= slot THEN i ELSE i - 1)
                                     /\ t[i] = pages[p].entries[j]
  <2>1. CASE i <= slot
    <3>1. i \in 1 .. slot /\ i \in 1 .. Size(p)
      BY <1>1, <1>3, <1>8, <2>1
    <3> QED BY <1>8, <2>1, <3>1
  <2>2. CASE ~(i <= slot)
    <3>1. PICK j \in slot + 1 .. Size(p) : j = i - 1
      BY <1>1, <1>3, <1>8, <1>9, <2>2
    <3>2. j \in 1 .. Size(p) /\ j + 1 = i
      BY <1>1, <1>3, <3>1
    <3> QED BY <1>8, <2>2, <3>1, <3>2
  <2> QED BY <2>1, <2>2
<1>10. \A i \in 1 .. Len(t) : KeyOf(t[i]) \in Nat
  <2> TAKE i \in 1 .. Len(t)
  <2>1. t[i] \in Key \X Nat
    BY <1>1, ElementOfSeq
  <2> QED BY <2>1, EntryParts
<1> QED BY <1>1, <1>2, <1>3, <1>4, <1>5, <1>6, <1>7, <1>8, <1>9, <1>10 DEF Separated

LEMMA EntriesNow ==
  ASSUME Shape, NEW q \in PageIds
  PROVE  /\ Size(q) \in Nat \ {0} /\ DOMAIN pages[q].entries = 1 .. Size(q)
         /\ Size(q) <= MaxSize(q) /\ MaxSize(q) \in Nat \ {0}
         /\ \A i \in 1 .. Size(q) : KeyAt(q, i) \in Key /\ KeyAt(q, i) \in Nat
         /\ Children(q) = {ChildAt(q, i) : i \in 1 .. Size(q)}
<1>1. \/ IsLeaf(q) /\ pages[q].entries \in Seq(Key \X Rid)
         /\ MaxSize(q) = leaf_node_max_size
      \/ ~IsLeaf(q) /\ pages[q].entries \in Seq(Key \X Nat)
         /\ MaxSize(q) = internal_node_max_size
  BY NodeFacts DEF LeafEntries, InternalEntries
<1>2. MaxSize(q) \in Nat \ {0}
  BY <1>1, TreeAssumption
<1>3. DOMAIN pages[q].entries = 1 .. Size(q)
  BY <1>1, LenProperties DEF Size
<1>4. Size(q) \in 1 .. MaxSize(q)
  BY DEF Shape, NodesFit, Fits, Size
<1>5. ASSUME NEW i \in 1 .. Size(q)
      PROVE  KeyAt(q, i) \in Key /\ KeyAt(q, i) \in Nat
  <2>1. pages[q].entries[i] \in Key \X Rid \/ pages[q].entries[i] \in Key \X Nat
    BY <1>1, ElementOfSeq DEF Size
  <2> QED BY <2>1, EntryParts DEF KeyAt
<1>6. Children(q) = {ChildAt(q, i) : i \in 1 .. Size(q)}
  BY <1>3 DEF Children, ChildAt
<1> QED BY <1>2, <1>3, <1>4, <1>5, <1>6

LEMMA EntriesNext ==
  ASSUME Shape', NEW q \in PageIds'
  PROVE  /\ Size(q)' \in Nat \ {0} /\ DOMAIN pages'[q].entries = 1 .. Size(q)'
         /\ Size(q)' = Len(pages'[q].entries)
         /\ \A i \in 1 .. Size(q)' : KeyAt(q, i)' \in Key /\ KeyAt(q, i)' \in Nat
         /\ Children(q)' = {Child(pages'[q].entries[i]) : i \in 1 .. Size(q)'}
<1>1. /\ PageIds' = 1 .. Len(pages') /\ Len(pages') \in Nat /\ pages'[q] \in Node
  BY LenProperties, ElementOfSeq DEF Shape, PageIds
<1>2. \/ pages'[q].type = "leaf" /\ pages'[q].entries \in Seq(Key \X Rid)
      \/ pages'[q].type = "internal" /\ pages'[q].entries \in Seq(Key \X Nat)
  BY <1>1 DEF Node, LeafEntries, InternalEntries
<1>3. DOMAIN pages'[q].entries = 1 .. Len(pages'[q].entries)
  BY <1>2, LenProperties
<1>4. Len(pages'[q].entries) \in 1 .. MaxSize(q)' /\ MaxSize(q)' \in Nat
  BY TreeAssumption DEF Shape, NodesFit, Fits, MaxSize
<1>5. Size(q)' = Len(pages'[q].entries)
  BY DEF Size
<1>6. ASSUME NEW i \in 1 .. Len(pages'[q].entries)
      PROVE  KeyAt(q, i)' \in Key /\ KeyAt(q, i)' \in Nat
  <2>1. pages'[q].entries[i] \in Key \X Rid \/ pages'[q].entries[i] \in Key \X Nat
    BY <1>2, ElementOfSeq
  <2> QED BY <2>1, EntryParts DEF KeyAt
<1>7. Children(q)' = {Child(pages'[q].entries[i]) : i \in 1 .. Len(pages'[q].entries)}
  BY <1>3 DEF Children
<1> QED BY <1>3, <1>4, <1>5, <1>6, <1>7

(* The children of the two halves of a parent. *)
LEMMA SplitChildren ==
  ASSUME IInv, IInv', NEW p, NEW new, NEW slot, NEW t, NEW mid,
         ParentSplits(p, new, slot, t, mid)
  PROVE  /\ mid \in 1 .. Len(t) - 1 /\ Len(t) \in Nat
         /\ Children(p)' = {Child(t[i]) : i \in 1 .. mid}
         /\ Children(new)' = {Child(t[mid + i]) : i \in 1 .. Len(t) - mid}
         /\ \A i \in 1 .. Len(t) - mid : Child(pages'[new].entries[i]) = Child(t[mid + i])
<1>1. /\ SplitInto(p, new, t, mid) /\ p \in PageIds' /\ new \in PageIds' /\ Shape'
      /\ Len(t) \in Nat /\ mid \in 1 .. Len(t) - 1
  <2>1. Len(t) \in Nat
    BY LenProperties DEF ParentSplits, WithSeparator, InternalEntries
  <2> QED BY <2>1 DEF ParentSplits, SplitInto, PageIsAdded, IInv
<1>2. /\ Len(pages'[p].entries) = mid /\ \A i \in 1 .. mid : pages'[p].entries[i] = t[i]
      /\ Len(pages'[new].entries) = Len(t) - mid
  BY <1>1 DEF SplitInto
<1>3. /\ pages'[new].entries[1] = <<INVALID_KEY, Child(t[mid + 1])>>
      /\ \A i \in 2 .. Len(t) - mid : pages'[new].entries[i] = t[mid + i]
  BY DEF ParentSplits
<1>4. ASSUME NEW i \in 1 .. Len(t) - mid
      PROVE  Child(pages'[new].entries[i]) = Child(t[mid + i])
  <2>1. CASE i = 1
    BY <1>3, <2>1 DEF Child
  <2>2. CASE i # 1
    <3>1. i \in 2 .. Len(t) - mid
      BY <1>1, <2>2
    <3> QED BY <1>3, <3>1
  <2> QED BY <2>1, <2>2
<1>5. Children(p)' = {Child(pages'[p].entries[i]) : i \in 1 .. mid}
  BY <1>1, <1>2, EntriesNext
<1>6. Children(new)' = {Child(pages'[new].entries[i]) : i \in 1 .. Len(t) - mid}
  BY <1>1, <1>2, EntriesNext
<1>7. Children(p)' = {Child(t[i]) : i \in 1 .. mid}
  BY <1>2, <1>5
<1>8. Children(new)' = {Child(t[mid + i]) : i \in 1 .. Len(t) - mid}
  BY <1>4, <1>6
<1> QED BY <1>1, <1>4, <1>7, <1>8

LEMMA SeparatedRanks ==
  ASSUME IInv, NEW rank \in [PageIds -> Nat], Ranked(rank),
         NEW p, NEW slot, NEW t, WithSeparator(p, slot, t)
  PROVE  /\ rank[p] = rank[call.left] + 1 /\ p \in PageIds
         /\ \A i \in 1 .. Len(t) : Child(t[i]) \in PageIds /\ rank[p] = rank[Child(t[i])] + 1
<1>1. /\ Len(t) = Size(p) + 1 /\ p \in Inner /\ t[slot + 1] = call.separator
      /\ call.left \in Children(p) /\ Child(call.separator) \in PageIds
      /\ \A i \in 1 .. Size(p) : ChildAt(p, i) \in Children(p) /\ ChildAt(p, i) \in PageIds
      /\ \A i \in 1 .. Len(t) : i # slot + 1 =>
           \E j \in 1 .. Size(p) : /\ j = (IF i <= slot THEN i ELSE i - 1)
                                   /\ t[i] = pages[p].entries[j]
  <2>1. Separated(p, slot, t)
    BY SeparatedChild
  <2> QED BY <2>1 DEF Separated
<1>2. \A c \in Children(p) : rank[p] = rank[c] + 1
  BY <1>1 DEF Ranked, TreeLevels
<1>3. rank[Child(call.separator)] = rank[call.left]
  BY DEF Ranked, WithSeparator
<1>4. ASSUME NEW i \in 1 .. Len(t)
      PROVE  Child(t[i]) \in PageIds /\ rank[p] = rank[Child(t[i])] + 1
  <2>1. CASE i = slot + 1
    BY <1>1, <1>2, <1>3, <2>1
  <2>2. CASE i # slot + 1
    <3>1. PICK j \in 1 .. Size(p) : t[i] = pages[p].entries[j]
      BY <1>1, <2>2
    <3>2. Child(t[i]) = ChildAt(p, j)
      BY <3>1 DEF ChildAt
    <3> QED BY <1>1, <1>2, <3>2
  <2> QED BY <2>1, <2>2
<1>5. p \in PageIds
  BY DEF WithSeparator
<1> QED BY <1>1, <1>2, <1>4, <1>5

(* The ranks stay as they are when a node is split. *)
RanksKept(rank) ==
  \E rk \in [PageIds' -> Nat] : Ranked(rk)' /\ \A q \in PageIds : rk[q] = rank[q]

LEMMA SplitRanked ==
  ASSUME IInv, NEW rank \in [PageIds -> Nat], Ranked(rank),
         NEW p, NEW new, NEW t, NEW mid, SplitInto(p, new, t, mid),
         IF IsLeaf(p) THEN TRUE
         ELSE \A c \in Children(p)' \cup Children(new)' : c \in PageIds /\ rank[p] = rank[c] + 1
  PROVE  RanksKept(rank)
<1>1. /\ p \in PageIds /\ PageIds' = PageIds \cup {new} /\ new \notin PageIds
      /\ \A q \in PageIds \ {p} : pages'[q] = pages[q]
      /\ IsLeaf(p)' = IsLeaf(p) /\ IsLeaf(new)' = IsLeaf(p)
      /\ root_page_id \in PageIds /\ root_page_id' = root_page_id
      /\ call'.left = p /\ Child(call'.separator) = new
  BY DEF SplitInto, PageIsAdded, Child
<1>2. PICK rk : rk = [q \in PageIds' |-> IF q \in PageIds THEN rank[q] ELSE rank[p]]
  OBVIOUS
<1>3. /\ rk \in [PageIds' -> Nat] /\ \A q \in PageIds : rk[q] = rank[q]
      /\ rk[new] = rank[p] /\ rk[p] = rank[p]
  BY <1>1, <1>2
<1>4. \A q \in {p, new} : IF IsLeaf(q)' THEN rk[q] = 0
                          ELSE \A c \in Children(q)' : rk[q] = rk[c] + 1
  <2>1. CASE IsLeaf(p)
    BY <1>1, <1>3, <2>1 DEF Ranked
  <2>2. CASE ~IsLeaf(p)
    BY <1>1, <1>3, <2>2
  <2> QED BY <2>1, <2>2
<1> DEFINE changed == {p, new}
<1>5. /\ PageIds \subseteq PageIds'
      /\ \A q \in PageIds' \ changed : q \in PageIds /\ pages'[q] = pages[q]
      /\ \A q \in changed : IF IsLeaf(q)' THEN rk[q] = 0
                            ELSE \A c \in Children(q)' : rk[q] = rk[c] + 1
  BY <1>1, <1>4
<1> HIDE DEF changed
<1>6. TreeLevels(rk)' /\ \A q \in PageIds' : IsLeaf(q)' => rk[q] = 0
  BY <1>3, <1>5, RanksChanged
<1>7. \A q \in PageIds' : rk[q] <= rk[root_page_id']
  BY <1>1, <1>3 DEF Ranked
<1>8. rk[Child(call'.separator)] = rk[call'.left]
  BY <1>1, <1>3
<1>9. Ranked(rk)'
  BY <1>6, <1>7, <1>8 DEF Ranked, Child
<1> QED BY <1>3, <1>9 DEF RanksKept

LEMMA LeafSplitsRanked ==
  ASSUME IInv, NEW rank \in [PageIds -> Nat], Ranked(rank),
         NEW p, NEW new, NEW t, NEW mid, LeafSplits(p, new, t, mid)
  PROVE  RanksKept(rank)
BY SplitRanked DEF LeafSplits, WithEntry

LEMMA ParentSplitsRanked ==
  ASSUME IInv, IInv', NEW rank \in [PageIds -> Nat], Ranked(rank),
         NEW p, NEW new, NEW slot, NEW t, NEW mid, ParentSplits(p, new, slot, t, mid)
  PROVE  RanksKept(rank)
<1>1. WithSeparator(p, slot, t) /\ SplitInto(p, new, t, mid)
  BY DEF ParentSplits
<1>2. \A i \in 1 .. Len(t) : Child(t[i]) \in PageIds /\ rank[p] = rank[Child(t[i])] + 1
  BY <1>1, SeparatedRanks
<1>3. /\ mid \in 1 .. Len(t) - 1 /\ Len(t) \in Nat
      /\ Children(p)' = {Child(t[i]) : i \in 1 .. mid}
      /\ Children(new)' = {Child(t[mid + i]) : i \in 1 .. Len(t) - mid}
  BY SplitChildren
<1>4. \A i \in 1 .. mid : i \in 1 .. Len(t)
  BY <1>3
<1>5. \A i \in 1 .. Len(t) - mid : mid + i \in 1 .. Len(t)
  BY <1>3
<1>6. \A c \in Children(p)' \cup Children(new)' : c \in PageIds /\ rank[p] = rank[c] + 1
  BY <1>2, <1>3, <1>4, <1>5
<1> QED BY <1>1, <1>6, SplitRanked DEF WithSeparator

LEMMA StepKeepsRanks ==
  ASSUME IInv, IInv', [Next]_vars, Rooted, HasRanks
  PROVE  HasRanks'
<1>1. PICK rank \in [PageIds -> Nat] : Ranked(rank)
  BY DEF HasRanks
<1>2. ASSUME NEW new, FirstLeaf(new)
      PROVE  HasRanks'
  <2>1. PageIds = {}
    <3>1. root_page_id \notin PageIds
      <4>1. PageIds \subseteq Nat
        BY NodeFacts DEF IInv
      <4> QED BY <1>2, <4>1 DEF FirstLeaf, INVALID_PAGE_ID
    <3> QED BY <3>1 DEF Rooted
  <2>2. PageIds' = {new} /\ IsLeaf(new)' /\ root_page_id' = new /\ ~At("propagate")'
    BY <1>2, <2>1 DEF FirstLeaf, PageIsAdded, Idle, At
  <2>3. PICK rk : rk = [q \in PageIds' |-> 0]
    OBVIOUS
  <2>4. rk \in [PageIds' -> Nat] /\ Ranked(rk)'
    BY <2>2, <2>3 DEF Ranked, TreeLevels, Inner, Leaves
  <2> QED BY <2>4 DEF HasRanks
<1>3. ASSUME NEW p, NEW t, LeafTakes(p, t)
      PROVE  HasRanks'
  <2>1. /\ PageIds' = PageIds /\ p \in PageIds /\ IsLeaf(p) /\ IsLeaf(p)'
        /\ \A q \in PageIds \ {p} : pages'[q] = pages[q]
        /\ root_page_id' = root_page_id /\ ~At("propagate")'
    BY <1>3 DEF LeafTakes, WithEntry, Idle, At
  <2>2. rank[p] = 0
    BY <1>1, <2>1 DEF Ranked
  <2> DEFINE changed == {p}
  <2>3. /\ \A q \in PageIds' \ changed : q \in PageIds /\ pages'[q] = pages[q]
        /\ \A q \in changed : IF IsLeaf(q)' THEN rank[q] = 0
                              ELSE \A c \in Children(q)' : rank[q] = rank[c] + 1
    BY <2>1, <2>2
  <2> HIDE DEF changed
  <2>4. TreeLevels(rank)' /\ \A q \in PageIds' : IsLeaf(q)' => rank[q] = 0
    BY <1>1, <2>1, <2>3, RanksChanged
  <2>5. Ranked(rank)'
    BY <1>1, <2>1, <2>4 DEF Ranked
  <2> QED BY <1>1, <2>1, <2>5 DEF HasRanks
<1>4. ASSUME NEW p, NEW slot, NEW t, ParentTakes(p, slot, t)
      PROVE  HasRanks'
  <2>1. /\ WithSeparator(p, slot, t) /\ PageIds' = PageIds /\ p \in PageIds /\ ~IsLeaf(p)'
        /\ \A q \in PageIds \ {p} : pages'[q] = pages[q] /\ pages'[p].entries = t
        /\ root_page_id' = root_page_id /\ ~At("propagate")'
    BY <1>4 DEF ParentTakes, WithSeparator, Idle, At
  <2>2. \A i \in 1 .. Len(t) : rank[p] = rank[Child(t[i])] + 1
    BY <1>1, <2>1, SeparatedRanks
  <2>3. Children(p)' = {Child(t[i]) : i \in 1 .. Len(t)}
    <3>1. pages'[p].entries = t
      BY <1>4 DEF ParentTakes
    <3> QED BY <3>1, <2>1, EntriesNext DEF IInv
  <2> DEFINE changed == {p}
  <2>4. /\ \A q \in PageIds' \ changed : q \in PageIds /\ pages'[q] = pages[q]
        /\ \A q \in changed : IF IsLeaf(q)' THEN rank[q] = 0
                              ELSE \A c \in Children(q)' : rank[q] = rank[c] + 1
    BY <2>1, <2>2, <2>3
  <2> HIDE DEF changed
  <2>5. TreeLevels(rank)' /\ \A q \in PageIds' : IsLeaf(q)' => rank[q] = 0
    BY <1>1, <2>1, <2>4, RanksChanged
  <2>6. Ranked(rank)'
    BY <1>1, <2>1, <2>5 DEF Ranked
  <2> QED BY <1>1, <2>1, <2>6 DEF HasRanks
<1>5. ASSUME NEW p, NEW new, NEW t, NEW mid, LeafSplits(p, new, t, mid)
      PROVE  HasRanks'
  BY <1>1, <1>5, LeafSplitsRanked DEF RanksKept, HasRanks
<1>6. ASSUME NEW p, NEW new, NEW slot, NEW t, NEW mid, ParentSplits(p, new, slot, t, mid)
      PROVE  HasRanks'
  BY <1>1, <1>6, ParentSplitsRanked DEF RanksKept, HasRanks
<1>7. ASSUME NEW new, RootGrows(new)
      PROVE  HasRanks'
  <2>1. /\ At("propagate") /\ call.left = root_page_id
        /\ PageIds' = PageIds \cup {new} /\ new \notin PageIds /\ ~IsLeaf(new)'
        /\ \A q \in PageIds : pages'[q] = pages[q]
        /\ pages'[new].entries = <<<<INVALID_KEY, call.left>>, call.separator>>
        /\ root_page_id' = new /\ ~At("propagate")'
    BY <1>7 DEF RootGrows, PageIsAdded, Idle, At
  <2>2. PICK top \in PageIds : top = root_page_id
    BY <2>1, Propagating
  <2>3. PICK rk : rk = [q \in PageIds' |-> IF q \in PageIds THEN rank[q] ELSE rank[top] + 1]
    OBVIOUS
  <2>4. /\ rk \in [PageIds' -> Nat] /\ \A q \in PageIds : rk[q] = rank[q]
        /\ rk[new] = rank[top] + 1
    BY <2>1, <2>2, <2>3
  <2>5. ASSUME NEW c \in Children(new)'
        PROVE  rk[new] = rk[c] + 1
    <3>1. PICK s : s = <<<<INVALID_KEY, call.left>>, call.separator>>
      OBVIOUS
    <3>2. Len(s) = 2 /\ Child(s[1]) = call.left /\ s[2] = call.separator
      BY <3>1 DEF Child
    <3>3. Children(new)' = {Child(s[i]) : i \in 1 .. 2}
      <4>1. new \in PageIds' /\ Shape' /\ pages'[new].entries = s
        BY <2>1, <3>1 DEF IInv
      <4>2. Size(new)' = Len(pages'[new].entries)
            /\ Children(new)' = {Child(pages'[new].entries[i]) : i \in 1 .. Size(new)'}
        BY <4>1, EntriesNext
      <4> QED BY <3>2, <4>1, <4>2
    <3>4. c = call.left \/ c = Child(call.separator)
      BY <2>5, <3>2, <3>3
    <3>5. rank[Child(call.separator)] = rank[top] /\ Child(call.separator) \in PageIds
      BY <1>1, <2>1, <2>2, Propagating, EntryParts DEF Ranked
    <3> QED BY <2>1, <2>2, <2>4, <3>4, <3>5
  <2> DEFINE changed == {new}
  <2>6. /\ PageIds \subseteq PageIds'
        /\ \A q \in PageIds' \ changed : q \in PageIds /\ pages'[q] = pages[q]
        /\ \A q \in changed : IF IsLeaf(q)' THEN rk[q] = 0
                              ELSE \A c \in Children(q)' : rk[q] = rk[c] + 1
    BY <2>1, <2>5
  <2> HIDE DEF changed
  <2>7. TreeLevels(rk)' /\ \A q \in PageIds' : IsLeaf(q)' => rk[q] = 0
    BY <1>1, <2>4, <2>6, RanksChanged
  <2>8. \A q \in PageIds' : rk[q] <= rk[root_page_id']
    <3> TAKE q \in PageIds'
    <3>1. CASE q = new
      BY <2>1, <2>2, <2>4, <3>1
    <3>2. CASE q # new
      <4>1. q \in PageIds /\ rank[q] <= rank[top] /\ rank[q] \in Nat /\ rank[top] \in Nat
        BY <1>1, <2>1, <2>2, <3>2 DEF Ranked
      <4> QED BY <2>1, <2>4, <4>1
    <3> QED BY <3>1, <3>2
  <2>9. Ranked(rk)'
    BY <2>1, <2>7, <2>8 DEF Ranked
  <2> QED BY <2>4, <2>9 DEF HasRanks
<1>8. CASE Quiet
  <2>1. \A q : IsLeaf(q)' = IsLeaf(q) /\ Children(q)' = Children(q)
    BY <1>8, SameNode DEF Quiet
  <2>2. PageIds' = PageIds /\ Inner' = Inner /\ root_page_id' = root_page_id
    BY <1>8, <2>1 DEF Quiet, PageIds, Inner, Leaves
  <2>3. At("propagate")' => At("propagate") /\ call' = call
    BY <1>8 DEF Quiet, At
  <2>4. Ranked(rank)'
    BY <1>1, <2>1, <2>2, <2>3 DEF Ranked, TreeLevels
  <2> QED BY <1>1, <2>2, <2>4 DEF HasRanks
<1> QED BY <1>2, <1>3, <1>4, <1>5, <1>6, <1>7, <1>8, StepKinds

-----------------------------------------------------------------------------
(* Every page but the root is half full, and so is the page that has been  *)
(* split, even if it is the root: the root that grows above it takes over. *)

HalfFull(p) == 2 * Size(p) >= MaxSize(p)

HalvesKept ==
  /\ \A p \in PageIds \ {root_page_id} : HalfFull(p)
  /\ At("propagate") => HalfFull(call.left)

LEMMA NoLeafBeforeRoot ==
  ASSUME IInv, Rooted, NEW new, FirstLeaf(new)
  PROVE  /\ PageIds = {} /\ PageIds' = {new} /\ IsLeaf(new)' /\ Inner' = {}
         /\ root_page_id' = new /\ ~At("propagate")'
<1>1. PageIds = {}
  <2>1. PageIds \subseteq Nat
    BY NodeFacts DEF IInv
  <2>2. root_page_id \notin PageIds
    BY <2>1 DEF FirstLeaf, INVALID_PAGE_ID
  <2> QED BY <2>2 DEF Rooted
<1> QED BY <1>1 DEF FirstLeaf, PageIsAdded, Idle, At, Inner, Leaves

LEMMA StepKeepsHalves ==
  ASSUME IInv, IInv', [Next]_vars, Rooted, HalvesKept
  PROVE  HalvesKept'
<1>1. \A q : pages'[q] = pages[q] => HalfFull(q)' = HalfFull(q)
  BY SameNode DEF HalfFull, Size
<1>2. ASSUME NEW new, FirstLeaf(new)
      PROVE  HalvesKept'
  BY <1>2, NoLeafBeforeRoot DEF HalvesKept
<1>3. ASSUME NEW p, NEW t, p \in PageIds, PageIds' = PageIds,
             \A q \in PageIds \ {p} : pages'[q] = pages[q],
             IsLeaf(p)' = IsLeaf(p), pages'[p].entries = t, Len(t) = Size(p) + 1,
             call' = Idle, UNCHANGED root_page_id
      PROVE  HalvesKept'
  <2>1. HalfFull(p) => HalfFull(p)'
    <3>1. MaxSize(p)' = MaxSize(p) /\ Size(p)' = Size(p) + 1
      BY <1>3 DEF MaxSize, Size
    <3>2. Size(p) \in Nat /\ MaxSize(p) \in Nat
      BY <1>3, EntriesNow DEF IInv
    <3> QED BY <3>1, <3>2 DEF HalfFull
  <2>2. ~At("propagate")'
    BY <1>3 DEF Idle, At
  <2> QED BY <1>1, <1>3, <2>1, <2>2 DEF HalvesKept
<1>4. ASSUME NEW p, NEW t, LeafTakes(p, t)
      PROVE  HalvesKept'
  <2>1. /\ p \in PageIds /\ PageIds' = PageIds
        /\ \A q \in PageIds \ {p} : pages'[q] = pages[q]
        /\ IsLeaf(p)' = IsLeaf(p) /\ pages'[p].entries = t /\ Len(t) = Size(p) + 1
        /\ call' = Idle /\ UNCHANGED root_page_id
    BY <1>4 DEF LeafTakes, WithEntry, IsLeaf
  <2> QED BY <1>3, <2>1
<1>5. ASSUME NEW p, NEW slot, NEW t, ParentTakes(p, slot, t)
      PROVE  HalvesKept'
  <2>1. /\ p \in PageIds /\ PageIds' = PageIds
        /\ \A q \in PageIds \ {p} : pages'[q] = pages[q]
        /\ IsLeaf(p)' = IsLeaf(p) /\ pages'[p].entries = t /\ Len(t) = Size(p) + 1
        /\ call' = Idle /\ UNCHANGED root_page_id
    BY <1>5 DEF ParentTakes, WithSeparator, Entered, Size, IsLeaf
  <2> QED BY <1>3, <2>1
<1>6. ASSUME NEW p, NEW new, NEW t, NEW mid, SplitInto(p, new, t, mid)
      PROVE  HalvesKept'
  <2>1. /\ p \in PageIds /\ PageIds' = PageIds \cup {new} /\ new \notin PageIds
        /\ \A q \in PageIds \ {p} : pages'[q] = pages[q]
        /\ IsLeaf(p)' = IsLeaf(p) /\ IsLeaf(new)' = IsLeaf(p)
        /\ root_page_id' = root_page_id /\ call'.left = p
    BY <1>6 DEF SplitInto, PageIsAdded
  <2>2. PICK max \in Nat \ {0} : max = MaxSize(p)
    BY <1>6 DEF SplitInto
  <2>3. Len(t) = max + 1 /\ mid = (max + 1) \div 2
    BY <1>6, <2>2 DEF SplitInto
  <2>4. Size(p)' = mid /\ Size(new)' = (max + 1) - mid
    BY <1>6, <2>3 DEF SplitInto, Size
  <2>5. MaxSize(p)' = max /\ MaxSize(new)' = max
    BY <2>1, <2>2 DEF MaxSize
  <2>6. 2 * mid >= max /\ 2 * ((max + 1) - mid) >= max
    BY <2>3
  <2>7. HalfFull(p)' /\ HalfFull(new)'
    BY <2>4, <2>5, <2>6 DEF HalfFull
  <2> QED BY <1>1, <2>1, <2>7 DEF HalvesKept
<1>7. ASSUME NEW new, RootGrows(new)
      PROVE  HalvesKept'
  <2>1. /\ At("propagate") /\ call.left = root_page_id
        /\ PageIds' = PageIds \cup {new} /\ new \notin PageIds
        /\ \A q \in PageIds : pages'[q] = pages[q]
        /\ root_page_id' = new /\ ~At("propagate")'
    BY <1>7 DEF RootGrows, PageIsAdded, Idle, At
  <2> QED BY <1>1, <2>1 DEF HalvesKept
<1>8. CASE Quiet
  BY <1>1, <1>8 DEF Quiet, HalvesKept, PageIds, At
<1> QED BY <1>2, <1>4, <1>5, <1>6, <1>7, <1>8, StepKinds DEF LeafSplits, ParentSplits

-----------------------------------------------------------------------------
(* Every page is in one place of the tree: it is the child of one entry    *)
(* at most, and the page that a separator leads to is not in the tree yet. *)

OneParent ==
  /\ \A p, q \in Inner : \A i \in 1 .. Size(p) : \A j \in 1 .. Size(q) :
       ChildAt(p, i) = ChildAt(q, j) => p = q /\ i = j
  /\ At("propagate") => /\ Child(call.separator) # call.left
                        /\ \A p \in Inner : Child(call.separator) \notin Children(p)

LEMMA RootHasNoParent ==
  ASSUME IInv, Rooted, HasRanks, NEW q \in Inner
  PROVE  root_page_id \notin Children(q)
<1>1. PICK rank \in [PageIds -> Nat] : Ranked(rank)
  BY DEF HasRanks
<1>2. q \in PageIds /\ root_page_id \in PageIds
  BY DEF Inner, Rooted
<1>3. root_page_id \in Children(q) => rank[q] = rank[root_page_id] + 1
  BY <1>1 DEF Ranked, TreeLevels
<1>4. rank[q] <= rank[root_page_id] /\ rank[q] \in Nat /\ rank[root_page_id] \in Nat
  BY <1>1, <1>2 DEF Ranked
<1> QED BY <1>3, <1>4

LEMMA SeparatedOnce ==
  ASSUME IInv, OneParent, NEW p, NEW slot, NEW t, WithSeparator(p, slot, t)
  PROVE  /\ \A i, j \in 1 .. Len(t) : Child(t[i]) = Child(t[j]) => i = j
         /\ \A q \in Inner \ {p} : \A i \in 1 .. Len(t) : Child(t[i]) \notin Children(q)
<1>1. Separated(p, slot, t) /\ At("propagate")
  BY SeparatedChild DEF WithSeparator
<1>2. /\ Size(p) \in Nat \ {0} /\ Len(t) = Size(p) + 1 /\ p \in Inner /\ slot \in 1 .. Size(p)
      /\ t[slot + 1] = call.separator
      /\ \A i \in 1 .. Size(p) : ChildAt(p, i) \in Children(p)
  BY <1>1 DEF Separated
<1>2a. \A i, j \in 1 .. Size(p) : ChildAt(p, i) = ChildAt(p, j) => i = j
  BY <1>2 DEF OneParent
<1>3. ASSUME NEW i \in 1 .. Len(t), i # slot + 1
      PROVE  \E j \in 1 .. Size(p) : /\ j = (IF i <= slot THEN i ELSE i - 1)
                                     /\ Child(t[i]) = ChildAt(p, j)
  BY <1>1, <1>3 DEF Separated, ChildAt
<1>4. ASSUME NEW i \in 1 .. Len(t), NEW j \in 1 .. Len(t), Child(t[i]) = Child(t[j]),
             i = slot + 1, j # slot + 1
      PROVE  FALSE
  <2>1. Child(t[j]) \in Children(p)
    BY <1>2, <1>3, <1>4
  <2>2. Child(t[i]) \notin Children(p)
    BY <1>1, <1>2, <1>4 DEF OneParent
  <2> QED BY <1>4, <2>1, <2>2
<1>5. ASSUME NEW i \in 1 .. Len(t), NEW j \in 1 .. Len(t), Child(t[i]) = Child(t[j]),
             i # slot + 1, j # slot + 1
      PROVE  i = j
  <2>1. PICK a \in 1 .. Size(p) : /\ a = (IF i <= slot THEN i ELSE i - 1)
                                  /\ Child(t[i]) = ChildAt(p, a)
    BY <1>3, <1>5
  <2>2. PICK b \in 1 .. Size(p) : /\ b = (IF j <= slot THEN j ELSE j - 1)
                                  /\ Child(t[j]) = ChildAt(p, b)
    BY <1>3, <1>5
  <2>3. a = b
    BY <1>2a, <1>5, <2>1, <2>2
  <2>4. PICK c \in 1 .. Size(p) : c = slot
    BY <1>2
  <2>5. i \in Int /\ j \in Int /\ c \in Int /\ a \in Int
        /\ a = (IF i <= c THEN i ELSE i - 1) /\ a = (IF j <= c THEN j ELSE j - 1)
        /\ i # c + 1 /\ j # c + 1
    BY <1>2, <1>5, <2>1, <2>2, <2>3, <2>4
  <2> QED BY <2>5
<1>6. ASSUME NEW q \in Inner \ {p}, NEW i \in 1 .. Len(t), Child(t[i]) \in Children(q)
      PROVE  FALSE
  <2>1. CASE i = slot + 1
    BY <1>1, <1>2, <1>6, <2>1 DEF OneParent
  <2>2. CASE i # slot + 1
    <3>1. PICK j \in 1 .. Size(p) : Child(t[i]) = ChildAt(p, j)
      BY <1>3, <2>2
    <3>2. PICK k \in 1 .. Size(q) : Child(t[i]) = ChildAt(q, k)
      <4>1. q \in PageIds
        BY <1>6 DEF Inner
      <4> QED BY <1>6, <4>1, EntriesNow DEF IInv
    <3> QED BY <1>2, <1>6, <3>1, <3>2 DEF OneParent
  <2> QED BY <2>1, <2>2
<1> QED BY <1>4, <1>5, <1>6

LEMMA StepKeepsOneParent ==
  ASSUME IInv, IInv', [Next]_vars, Rooted, HasRanks, OneParent
  PROVE  OneParent'
<1>0. ASSUME NEW q \in Inner
      PROVE  q \in PageIds /\ ~IsLeaf(q) /\ Children(q) \subseteq PageIds
  BY DEF IInv, Shape, Inner, Leaves
<1>1. ASSUME NEW q, pages'[q] = pages[q]
      PROVE  /\ Size(q)' = Size(q) /\ Children(q)' = Children(q) /\ IsLeaf(q)' = IsLeaf(q)
             /\ \A i : ChildAt(q, i)' = ChildAt(q, i)
  BY <1>1, SameNode DEF Size, ChildAt
<1>2. ASSUME NEW new, FirstLeaf(new)
      PROVE  OneParent'
  BY <1>2, NoLeafBeforeRoot DEF OneParent
<1>3. ASSUME Inner' = Inner, \A q \in Inner : pages'[q] = pages[q],
             At("propagate")' => \/ At("propagate") /\ call' = call
                                 \/ /\ Child(call'.separator) \notin PageIds
                                    /\ call'.left \in PageIds
      PROVE  OneParent'
  <2>1. \A q \in Inner : /\ Size(q)' = Size(q) /\ Children(q)' = Children(q)
                         /\ \A i : ChildAt(q, i)' = ChildAt(q, i)
    BY <1>1, <1>3
  <2>2. \A p, q \in Inner' : \A i \in 1 .. Size(p)' : \A j \in 1 .. Size(q)' :
          ChildAt(p, i)' = ChildAt(q, j)' => p = q /\ i = j
    BY <1>3, <2>1 DEF OneParent
  <2>3. At("propagate")' => /\ Child(call'.separator) # call'.left
                            /\ \A p \in Inner' : Child(call'.separator) \notin Children(p)'
    <3>1. CASE At("propagate") /\ call' = call
      BY <1>3, <2>1, <3>1 DEF OneParent
    <3>2. CASE Child(call'.separator) \notin PageIds /\ call'.left \in PageIds
      BY <1>0, <1>3, <2>1, <3>2
    <3> QED BY <1>3, <3>1, <3>2
  <2> QED BY <2>2, <2>3 DEF OneParent, Child
<1>4. ASSUME NEW p, NEW t, LeafTakes(p, t)
      PROVE  OneParent'
  <2>1. /\ PageIds' = PageIds /\ IsLeaf(p) /\ IsLeaf(p)' /\ ~At("propagate")'
        /\ \A q \in PageIds \ {p} : pages'[q] = pages[q]
    BY <1>4 DEF LeafTakes, WithEntry, Idle, At
  <2>2. Inner' = Inner /\ \A q \in Inner : pages'[q] = pages[q]
    BY <1>1, <2>1 DEF Inner, Leaves
  <2> QED BY <1>3, <2>1, <2>2
<1>5. ASSUME NEW p, NEW new, NEW t, NEW mid, LeafSplits(p, new, t, mid)
      PROVE  OneParent'
  <2>1. /\ PageIds' = PageIds \cup {new} /\ new \notin PageIds /\ p \in PageIds
        /\ IsLeaf(p) /\ IsLeaf(p)' /\ IsLeaf(new)'
        /\ \A q \in PageIds \ {p} : pages'[q] = pages[q]
        /\ call'.left = p /\ Child(call'.separator) = new
    BY <1>5 DEF LeafSplits, SplitInto, PageIsAdded, WithEntry, Child
  <2>2. Inner' = Inner /\ \A q \in Inner : pages'[q] = pages[q]
    BY <1>1, <2>1 DEF Inner, Leaves
  <2> QED BY <1>3, <2>1, <2>2
<1>6. ASSUME NEW p, NEW slot, NEW t, ParentTakes(p, slot, t)
      PROVE  OneParent'
  <2>1. /\ WithSeparator(p, slot, t) /\ PageIds' = PageIds /\ p \in PageIds
        /\ ~IsLeaf(p) /\ ~IsLeaf(p)' /\ ~At("propagate")'
        /\ \A q \in PageIds \ {p} : pages'[q] = pages[q]
        /\ pages'[p].entries = t
    BY <1>6 DEF ParentTakes, WithSeparator, Idle, At
  <2>2. Inner' = Inner /\ \A q \in Inner \ {p} : pages'[q] = pages[q]
    BY <1>1, <2>1 DEF Inner, Leaves
  <2>3. /\ \A i, j \in 1 .. Len(t) : Child(t[i]) = Child(t[j]) => i = j
        /\ \A q \in Inner \ {p} : \A i \in 1 .. Len(t) : Child(t[i]) \notin Children(q)
    BY <2>1, SeparatedOnce
  <2>4. Size(p)' = Len(t) /\ \A i : ChildAt(p, i)' = Child(t[i])
    BY <2>1 DEF Size, ChildAt
  <2>5. \A q \in Inner \ {p} : \A j \in 1 .. Size(q)' : ChildAt(q, j)' \in Children(q)
    <3> TAKE q \in Inner \ {p}
    <3>1. q \in PageIds /\ Size(q)' = Size(q) /\ \A i : ChildAt(q, i)' = ChildAt(q, i)
      BY <1>0, <1>1, <2>2
    <3> QED BY <3>1, EntriesNow DEF IInv
  <2>6. ASSUME NEW q \in Inner', NEW r \in Inner', NEW i \in 1 .. Size(q)', NEW j \in 1 .. Size(r)',
               ChildAt(q, i)' = ChildAt(r, j)'
        PROVE  q = r /\ i = j
    <3>1. CASE q = p /\ r = p
      BY <2>3, <2>4, <2>6, <3>1
    <3>2. CASE q = p /\ r # p
      BY <2>2, <2>3, <2>4, <2>5, <2>6, <3>2
    <3>3. CASE q # p /\ r = p
      BY <2>2, <2>3, <2>4, <2>5, <2>6, <3>3
    <3>4. CASE q # p /\ r # p
      <4>1. /\ Size(q)' = Size(q) /\ Size(r)' = Size(r) /\ q \in Inner /\ r \in Inner
            /\ ChildAt(q, i)' = ChildAt(q, i) /\ ChildAt(r, j)' = ChildAt(r, j)
        BY <1>1, <2>2, <3>4
      <4>2. i \in 1 .. Size(q) /\ j \in 1 .. Size(r) /\ ChildAt(q, i) = ChildAt(r, j)
        BY <2>6, <4>1
      <4> QED BY <4>1, <4>2 DEF OneParent
    <3> QED BY <3>1, <3>2, <3>3, <3>4
  <2> QED BY <2>1, <2>6 DEF OneParent
<1>7. ASSUME NEW p, NEW new, NEW slot, NEW t, NEW mid, ParentSplits(p, new, slot, t, mid)
      PROVE  OneParent'
  <2>1. /\ WithSeparator(p, slot, t) /\ PageIds' = PageIds \cup {new} /\ new \notin PageIds
        /\ p \in PageIds /\ ~IsLeaf(p) /\ ~IsLeaf(p)' /\ ~IsLeaf(new)'
        /\ \A q \in PageIds \ {p} : pages'[q] = pages[q]
        /\ Size(p)' = mid /\ \A i \in 1 .. mid : ChildAt(p, i)' = Child(t[i])
        /\ Size(new)' = Len(t) - mid
        /\ call'.left = p /\ Child(call'.separator) = new
    <3>1. WithSeparator(p, slot, t) /\ SplitInto(p, new, t, mid)
      BY <1>7 DEF ParentSplits
    <3>2. p \in PageIds /\ ~IsLeaf(p)
      BY <3>1 DEF WithSeparator
    <3>3. ~IsLeaf(p)' /\ ~IsLeaf(new)'
      BY <3>1, <3>2, Zenon DEF SplitInto
    <3>4. PageIds' = PageIds \cup {new} /\ new \notin PageIds
      BY <3>1 DEF SplitInto, PageIsAdded
    <3>5. /\ \A q \in PageIds \ {p} : pages'[q] = pages[q]
          /\ call'.left = p /\ Child(call'.separator) = new
      BY <3>1 DEF SplitInto, Child
    <3>6. /\ Size(p)' = mid /\ \A i \in 1 .. mid : ChildAt(p, i)' = Child(t[i])
          /\ Size(new)' = Len(t) - mid
      BY <3>1 DEF SplitInto, Size, ChildAt, Child
    <3> QED BY <3>1, <3>2, <3>3, <3>4, <3>5, <3>6
  <2>2. Inner' = Inner \cup {new} /\ p \in Inner /\ \A q \in Inner \ {p} : pages'[q] = pages[q]
    BY <1>1, <2>1 DEF Inner, Leaves
  <2>3. /\ \A i, j \in 1 .. Len(t) : Child(t[i]) = Child(t[j]) => i = j
        /\ \A q \in Inner \ {p} : \A i \in 1 .. Len(t) : Child(t[i]) \notin Children(q)
    BY <2>1, SeparatedOnce
  <2>4. /\ mid \in 1 .. Len(t) - 1 /\ Len(t) \in Nat
        /\ \A i \in 1 .. Len(t) - mid : ChildAt(new, i)' = Child(t[mid + i])
    BY <1>7, SplitChildren DEF ChildAt
  <2>5. ASSUME NEW q \in Inner \ {p}, NEW j \in 1 .. Size(q)'
        PROVE  ChildAt(q, j)' \in Children(q) /\ q # new
    <3>1. q \in PageIds /\ Size(q)' = Size(q) /\ \A i : ChildAt(q, i)' = ChildAt(q, i)
      BY <1>0, <1>1, <2>2
    <3> QED BY <2>1, <3>1, EntriesNow DEF IInv
  (* Where the entry of a half comes from. *)
  <2> DEFINE From(q, i) == IF q = p THEN i ELSE mid + i
  <2>6. ASSUME NEW q \in {p, new}, NEW i \in 1 .. Size(q)'
        PROVE  From(q, i) \in 1 .. Len(t) /\ ChildAt(q, i)' = Child(t[From(q, i)])
    <3>1. CASE q = p
      BY <2>1, <2>4, <2>6, <3>1
    <3>2. CASE q # p
      <4>1. q = new /\ i \in 1 .. Len(t) - mid
        BY <2>1, <2>6, <3>2
      <4>2. mid + i \in 1 .. Len(t)
        BY <2>4, <4>1
      <4> QED BY <2>4, <3>2, <4>1, <4>2
    <3> QED BY <3>1, <3>2
  <2>7. ASSUME NEW q \in {p, new}, NEW r \in {p, new}, NEW i \in 1 .. Size(q)',
               NEW j \in 1 .. Size(r)', From(q, i) = From(r, j)
        PROVE  q = r /\ i = j
    BY <2>1, <2>4, <2>7
  <2> HIDE DEF From
  <2>8. ASSUME NEW q \in Inner', NEW r \in Inner', NEW i \in 1 .. Size(q)', NEW j \in 1 .. Size(r)',
               ChildAt(q, i)' = ChildAt(r, j)'
        PROVE  q = r /\ i = j
    <3>1. CASE q \in {p, new} /\ r \in {p, new}
      BY <2>3, <2>6, <2>7, <2>8, <3>1
    <3>2. CASE q \in {p, new} /\ r \notin {p, new}
      BY <2>2, <2>3, <2>5, <2>6, <2>8, <3>2
    <3>3. CASE q \notin {p, new} /\ r \in {p, new}
      BY <2>2, <2>3, <2>5, <2>6, <2>8, <3>3
    <3>4. CASE q \notin {p, new} /\ r \notin {p, new}
      <4>1. /\ Size(q)' = Size(q) /\ Size(r)' = Size(r) /\ q \in Inner /\ r \in Inner
            /\ ChildAt(q, i)' = ChildAt(q, i) /\ ChildAt(r, j)' = ChildAt(r, j)
        BY <1>1, <2>2, <3>4
      <4> QED BY <2>8, <3>4, <4>1 DEF OneParent
    <3> QED BY <3>1, <3>2, <3>3, <3>4
  <2>9. ASSUME NEW q \in Inner'
        PROVE  new \notin Children(q)'
    <3>1. CASE q \in {p, new}
      <4>1. PICK rank \in [PageIds -> Nat] : Ranked(rank)
        BY DEF HasRanks
      <4>2. \A i \in 1 .. Len(t) : Child(t[i]) \in PageIds
        BY <2>1, <4>1, SeparatedRanks
      <4>3. \A i \in 1 .. Size(q)' : ChildAt(q, i)' \in PageIds
        BY <2>6, <3>1, <4>2
      <4>4. Children(q)' = {ChildAt(q, i)' : i \in 1 .. Size(q)'}
        <5>1. q \in PageIds'
          BY <2>9 DEF Inner
        <5> QED BY <5>1, EntriesNext DEF IInv, ChildAt
      <4> QED BY <2>1, <4>3, <4>4
    <3>2. CASE q \notin {p, new}
      BY <1>0, <1>1, <2>1, <2>2, <3>2
    <3> QED BY <3>1, <3>2
  <2> QED BY <2>1, <2>8, <2>9 DEF OneParent, Child
<1>8. ASSUME NEW new, RootGrows(new)
      PROVE  OneParent'
  <2>1. /\ At("propagate") /\ call.left = root_page_id
        /\ PageIds' = PageIds \cup {new} /\ new \notin PageIds /\ ~IsLeaf(new)'
        /\ \A q \in PageIds : pages'[q] = pages[q]
        /\ pages'[new].entries = <<<<INVALID_KEY, call.left>>, call.separator>>
        /\ ~At("propagate")'
    BY <1>8 DEF RootGrows, PageIsAdded, Idle, At
  <2>2. Inner' = Inner \cup {new} /\ \A q \in Inner : pages'[q] = pages[q]
    BY <1>1, <2>1 DEF Inner, Leaves
  <2>3. Size(new)' = 2 /\ ChildAt(new, 1)' = call.left /\ ChildAt(new, 2)' = Child(call.separator)
    BY <2>1 DEF Size, ChildAt, Child
  <2>4. \A q \in Inner : call.left \notin Children(q) /\ Child(call.separator) \notin Children(q)
    BY <2>1, RootHasNoParent DEF OneParent
  <2>5. call.left # Child(call.separator)
    BY <2>1 DEF OneParent
  <2>6. ASSUME NEW q \in Inner, NEW j \in 1 .. Size(q)'
        PROVE  ChildAt(q, j)' \in Children(q) /\ q # new
    <3>1. q \in PageIds /\ Size(q)' = Size(q) /\ \A i : ChildAt(q, i)' = ChildAt(q, i)
      BY <1>0, <1>1, <2>2
    <3> QED BY <2>1, <3>1, EntriesNow DEF IInv
  <2>7. \A i \in 1 .. Size(new)' : i = 1 \/ i = 2
    BY <2>3
  <2>8. ASSUME NEW q \in Inner', NEW r \in Inner', NEW i \in 1 .. Size(q)', NEW j \in 1 .. Size(r)',
               ChildAt(q, i)' = ChildAt(r, j)'
        PROVE  q = r /\ i = j
    <3>1. CASE q = new /\ r = new
      BY <2>3, <2>5, <2>7, <2>8, <3>1
    <3>2. CASE q = new /\ r # new
      BY <2>2, <2>3, <2>4, <2>6, <2>7, <2>8, <3>2
    <3>3. CASE q # new /\ r = new
      BY <2>2, <2>3, <2>4, <2>6, <2>7, <2>8, <3>3
    <3>4. CASE q # new /\ r # new
      <4>1. /\ Size(q)' = Size(q) /\ Size(r)' = Size(r) /\ q \in Inner /\ r \in Inner
            /\ ChildAt(q, i)' = ChildAt(q, i) /\ ChildAt(r, j)' = ChildAt(r, j)
        BY <1>1, <2>2, <3>4
      <4> QED BY <2>8, <3>4, <4>1 DEF OneParent
    <3> QED BY <3>1, <3>2, <3>3, <3>4
  <2> QED BY <2>1, <2>8 DEF OneParent
<1>9. CASE Quiet
  <2>1. \A q : pages'[q] = pages[q]
    BY <1>9 DEF Quiet
  <2>2. Inner' = Inner
    BY <1>1, <1>9, <2>1 DEF Inner, Leaves, PageIds, Quiet
  <2> QED BY <1>3, <1>9, <2>1, <2>2 DEF Quiet, At
<1> QED BY <1>2, <1>4, <1>5, <1>6, <1>7, <1>8, <1>9, StepKinds

-----------------------------------------------------------------------------
(* An inner root has two children, except while the root itself is split.  *)

Forked ==
  root_page_id \in Inner /\ ~(At("propagate") /\ call.path = <<>>) =>
    \E c, d \in Children(root_page_id) : c # d

LEMMA StepKeepsFork ==
  ASSUME IInv, IInv', [Next]_vars, Rooted, HasRanks, OneParent, Forked
  PROVE  Forked'
<1>1. ASSUME NEW q, pages'[q] = pages[q]
      PROVE  Children(q)' = Children(q) /\ IsLeaf(q)' = IsLeaf(q)
  BY <1>1, SameNode
<1>2. ASSUME NEW new, FirstLeaf(new)
      PROVE  Forked'
  BY <1>2, NoLeafBeforeRoot DEF Forked
<1>3. ASSUME root_page_id' = root_page_id, root_page_id \in PageIds,
             root_page_id \in Inner' => pages'[root_page_id] = pages[root_page_id],
             ~(At("propagate") /\ call.path = <<>>)
      PROVE  Forked'
  <2>1. root_page_id \in Inner' =>
          root_page_id \in Inner /\ Children(root_page_id)' = Children(root_page_id)
    BY <1>1, <1>3 DEF Inner, Leaves
  <2>2. root_page_id \in Inner' => \E c, d \in Children(root_page_id)' : c # d
    BY <1>3, <2>1 DEF Forked
  <2> QED BY <1>3, <2>2 DEF Forked
<1>4. ASSUME NEW p, NEW t, LeafTakes(p, t)
      PROVE  Forked'
  <2>1. /\ PageIds' = PageIds /\ IsLeaf(p)' /\ p \in PageIds /\ At("leaf")
        /\ \A q \in PageIds \ {p} : pages'[q] = pages[q]
        /\ root_page_id' = root_page_id
    BY <1>4 DEF LeafTakes, WithEntry
  <2>2. root_page_id \in PageIds
    BY <2>1 DEF Rooted
  <2> QED BY <1>3, <2>1, <2>2 DEF Inner, Leaves, At
<1>5. ASSUME NEW p, NEW new, NEW t, NEW mid, LeafSplits(p, new, t, mid)
      PROVE  Forked'
  <2>1. /\ IsLeaf(p)' /\ At("split") /\ root_page_id \in PageIds
        /\ \A q \in PageIds \ {p} : pages'[q] = pages[q]
        /\ root_page_id' = root_page_id
    BY <1>5 DEF LeafSplits, SplitInto, WithEntry
  <2> QED BY <1>3, <2>1 DEF Inner, Leaves, At
<1>6. ASSUME NEW p, NEW slot, NEW t, ParentTakes(p, slot, t)
      PROVE  Forked'
  <2>1. /\ WithSeparator(p, slot, t) /\ PageIds' = PageIds /\ p \in PageIds
        /\ call.path # <<>> /\ At("propagate") /\ p \in Inner
        /\ \A q \in PageIds \ {p} : pages'[q] = pages[q]
        /\ pages'[p].entries = t /\ root_page_id' = root_page_id
    BY <1>6 DEF ParentTakes, WithSeparator, Inner, Leaves
  <2>2. root_page_id \in PageIds
    BY <2>1 DEF Rooted
  <2>3. CASE root_page_id # p
    BY <1>3, <2>1, <2>2, <2>3
  <2>4. CASE root_page_id = p
    <3>1. Children(p)' = {Child(t[i]) : i \in 1 .. Len(t)}
      BY <2>1, EntriesNext DEF IInv
    <3>2. PICK c \in Children(p), d \in Children(p) : c # d
      BY <2>1, <2>4 DEF Forked
    <3>3. Children(p) \subseteq Children(p)'
      <4>1. Separated(p, slot, t)
        BY <2>1, SeparatedChild
      <4>2. /\ Size(p) \in Nat /\ Len(t) = Size(p) + 1 /\ slot \in 1 .. Size(p)
            /\ \A i \in 1 .. slot : t[i] = pages[p].entries[i]
            /\ \A i \in slot + 1 .. Size(p) : t[i + 1] = pages[p].entries[i]
        BY <2>1, <4>1 DEF Separated, WithSeparator, Entered, Size
      <4>3. ASSUME NEW i \in 1 .. Size(p)
            PROVE  \E j \in 1 .. Len(t) : ChildAt(p, i) = Child(t[j])
        <5>1. CASE i <= slot
          <6>1. i \in 1 .. slot /\ i \in 1 .. Len(t)
            BY <4>2, <5>1
          <6> QED BY <4>2, <6>1 DEF ChildAt
        <5>2. CASE ~(i <= slot)
          <6>1. i \in slot + 1 .. Size(p) /\ i + 1 \in 1 .. Len(t)
            BY <4>2, <5>2
          <6> QED BY <4>2, <6>1 DEF ChildAt
        <5> QED BY <5>1, <5>2
      <4>4. Children(p) = {ChildAt(p, i) : i \in 1 .. Size(p)}
        BY <2>1, EntriesNow DEF IInv
      <4> QED BY <3>1, <4>3, <4>4
    <3> QED BY <2>1, <2>4, <3>2, <3>3 DEF Forked
  <2> QED BY <2>3, <2>4
<1>7. ASSUME NEW p, NEW new, NEW slot, NEW t, NEW mid, ParentSplits(p, new, slot, t, mid)
      PROVE  Forked'
  <2>1. /\ At("propagate") /\ call.path # <<>> /\ p = Last(call.path)
        /\ p \in PageIds /\ root_page_id \in PageIds
        /\ \A q \in PageIds \ {p} : pages'[q] = pages[q]
        /\ root_page_id' = root_page_id /\ At("propagate")' /\ call'.path = Front(call.path)
    BY <1>7 DEF ParentSplits, SplitInto, WithSeparator
  <2>2. CASE root_page_id # p
    BY <1>3, <2>1, <2>2
  <2>3. CASE root_page_id = p
    <3>1. /\ OnPath /\ Bottom = call.left /\ Above = call.path /\ call.path \in Seq(PageIds)
      BY <2>1, Propagating
    <3>2. PICK n : n = Len(call.path)
      OBVIOUS
    <3>3. /\ n \in Nat \ {0} /\ p = call.path[n] /\ Front(call.path) \in Seq(PageIds)
          /\ Len(Front(call.path)) = n - 1 /\ \A i \in 1 .. n : call.path[i] \in PageIds
      BY <2>1, <3>1, <3>2, FrontAndLast, ElementOfSeq
    <3>4. n = 1
      <4> SUFFICES ASSUME n # 1 PROVE FALSE
        OBVIOUS
      <4>1. PICK m \in 1 .. n : m = n - 1
        BY <3>3
      <4>2. m # n /\ m + 1 = n
        BY <3>3, <4>1
      <4>3. \A i \in 1 .. n : (IF i = n THEN call.left ELSE call.path[i + 1])
                                \in Children(call.path[i])
        BY <3>1, <3>2 DEF IInv, PathReachesRoot, OnPath
      <4>4. p \in Children(call.path[m])
        BY <3>3, <4>1, <4>2, <4>3
      <4>5. ~IsLeaf(call.path[m])
        <5>1. PICK level \in [PageIds -> Int] : Leveled(level)
          BY DEF IInv
        <5> QED BY <3>1, <3>2, <4>1, <5>1 DEF Leveled, PathLevels
      <4>6. call.path[m] \in Inner
        BY <3>3, <4>1, <4>5 DEF Inner, Leaves
      <4> QED BY <2>3, <4>4, <4>6, RootHasNoParent
    <3>5. call'.path = <<>>
      BY <2>1, <3>3, <3>4, EmptySeq
    <3> QED BY <2>1, <3>5 DEF Forked
  <2> QED BY <2>2, <2>3
<1>8. ASSUME NEW new, RootGrows(new)
      PROVE  Forked'
  <2>1. /\ At("propagate") /\ new \in PageIds' /\ root_page_id' = new
        /\ pages'[new].entries = <<<<INVALID_KEY, call.left>>, call.separator>>
    BY <1>8 DEF RootGrows, PageIsAdded
  <2>2. Size(new)' = 2 /\ ChildAt(new, 1)' = call.left /\ ChildAt(new, 2)' = Child(call.separator)
    BY <2>1 DEF Size, ChildAt, Child
  <2>3. Children(new)' = {ChildAt(new, i)' : i \in 1 .. 2}
    BY <2>1, <2>2, EntriesNext DEF IInv, ChildAt
  <2>4. call.left # Child(call.separator)
    BY <2>1 DEF OneParent
  <2>5. \E c, d \in Children(new)' : c # d
    BY <2>2, <2>3, <2>4
  <2> QED BY <2>1, <2>5 DEF Forked
<1>9. CASE Quiet
  <2>1. Children(root_page_id)' = Children(root_page_id) /\ Inner' = Inner
    BY <1>1, <1>9 DEF Quiet, Inner, Leaves, PageIds
  <2> QED BY <1>9, <2>1 DEF Quiet, Forked, At
<1> QED BY <1>2, <1>4, <1>5, <1>6, <1>7, <1>8, <1>9, StepKinds

-----------------------------------------------------------------------------
(* Height counts the levels that the ranks count. *)

IsHeight(h) ==
  h = [p \in PageIds |-> IF IsLeaf(p) THEN 0 ELSE 1 + h[Child(pages[p].entries[1])]]

LEMMA HeightIsRank ==
  ASSUME Shape, NEW rank \in [PageIds -> Nat], Ranked(rank)
  PROVE  \A p \in PageIds : Height[p] = rank[p]
<1>1. ASSUME NEW p \in PageIds, ~IsLeaf(p)
      PROVE  /\ Child(pages[p].entries[1]) \in PageIds
             /\ rank[p] = 1 + rank[Child(pages[p].entries[1])]
  <2>1. p \in Inner /\ 1 \in 1 .. Size(p)
    BY <1>1, EntriesNow DEF Inner, Leaves
  <2>2. ChildAt(p, 1) \in Children(p)
    BY <2>1, EntriesNow
  <2>3. ChildAt(p, 1) \in PageIds /\ rank[p] = rank[ChildAt(p, 1)] + 1
    BY <2>1, <2>2 DEF Shape, Ranked, TreeLevels
  <2>4. rank[ChildAt(p, 1)] \in Nat
    BY <2>3
  <2> QED BY <2>3, <2>4 DEF ChildAt
<1>2. IsHeight(rank)
  <2>1. \A p \in PageIds : rank[p] = IF IsLeaf(p) THEN 0
                                     ELSE 1 + rank[Child(pages[p].entries[1])]
    BY <1>1 DEF Ranked
  <2> QED BY <2>1, Zenon DEF IsHeight
<1>3. PICK h : h = Height
  OBVIOUS
<1>4. IsHeight(h)
  <2>1. Height = CHOOSE g : IsHeight(g)
    BY DEF Height, IsHeight
  <2> QED BY <1>2, <1>3, <2>1, Zenon
<1>5. \A p \in PageIds : h[p] = IF IsLeaf(p) THEN 0 ELSE 1 + h[Child(pages[p].entries[1])]
  BY <1>4, Zenon DEF IsHeight
<1> DEFINE T == {rank[p] : p \in {q \in PageIds : h[q] # rank[q]}}
<1>6. ASSUME T # {} PROVE FALSE
  <2>1. T \in SUBSET Nat
    OBVIOUS
  <2> HIDE DEF T
  <2>2. PICK n \in T : \A m \in T : n <= m
    BY <1>6, <2>1, LeastNumber
  <2>3. PICK p \in PageIds : n = rank[p] /\ h[p] # rank[p]
    BY <2>2 DEF T
  <2>4. ~IsLeaf(p)
    BY <1>5, <2>3 DEF Ranked
  <2>5. PICK c \in PageIds : c = Child(pages[p].entries[1]) /\ rank[p] = 1 + rank[c]
    BY <1>1, <2>4
  <2>6. h[p] = 1 + h[c]
    BY <1>5, <2>4, <2>5
  <2>7. h[c] # rank[c]
    BY <2>3, <2>5, <2>6
  <2>8. n <= rank[c]
    BY <2>2, <2>7 DEF T
  <2> QED BY <2>3, <2>5, <2>8
<1> QED BY <1>3, <1>6

(* Two children are two elements of a finite set. *)
LEMMA TwoChildren ==
  ASSUME Shape, NEW p \in Inner, NEW c \in Children(p), NEW d \in Children(p), c # d
  PROVE  Cardinality(Children(p)) >= 2
<1>1. Children(p) \in SUBSET PageIds /\ PageIds = 1 .. Len(pages) /\ Len(pages) \in Nat
  BY NodeFacts DEF Shape, Inner
<1>2. IsFiniteSet(Children(p))
  <2>1. 1 \in Int /\ Len(pages) \in Int
    BY <1>1
  <2>2. IsFiniteSet(1 .. Len(pages))
    BY <2>1, FS_Interval
  <2> QED BY <1>1, <2>2, FS_Subset
<1>3. PICK two : two = {c} \cup {d}
  OBVIOUS
<1>4. Cardinality(two) = 2
  <2>1. IsFiniteSet({c}) /\ Cardinality({c}) = 1
    BY FS_Singleton
  <2>2. d \notin {c}
    OBVIOUS
  <2>3. Cardinality({c} \cup {d}) = Cardinality({c}) + 1
    BY <2>1, <2>2, FS_AddElement
  <2> QED BY <1>3, <2>1, <2>3
<1>5. two \in SUBSET Children(p)
  BY <1>3
<1>6. Cardinality(two) <= Cardinality(Children(p)) /\ Cardinality(Children(p)) \in Nat
  BY <1>2, <1>5, FS_Subset, FS_CardinalityType
<1> QED BY <1>4, <1>6

LEMMA TreeIsBalanced ==
  ASSUME IInv, HasRanks, HalvesKept, Forked
  PROVE  Balanced
<1>1. PICK rank \in [PageIds -> Nat] : Ranked(rank)
  BY DEF HasRanks
<1>2. Shape
  BY DEF IInv
<1>3. ASSUME NEW p \in Inner, NEW c \in Children(p), NEW d \in Children(p)
      PROVE  Height[c] = Height[d]
  <2>1. c \in PageIds /\ d \in PageIds
    BY <1>2 DEF Shape
  <2>2. Height[c] = rank[c] /\ Height[d] = rank[d]
    BY <1>1, <1>2, <2>1, HeightIsRank
  <2>3. rank[p] = rank[c] + 1 /\ rank[p] = rank[d] + 1
    BY <1>1 DEF Ranked, TreeLevels
  <2>4. rank[c] \in Nat /\ rank[d] \in Nat
    BY <2>1
  <2> QED BY <2>2, <2>3, <2>4
<1>4. \A p \in PageIds \ {root_page_id} : 2 * Len(pages[p].entries) >= MaxSize(p)
  BY DEF HalvesKept, HalfFull, Size
<1>5. ASSUME ~Inserting, root_page_id \in Inner
      PROVE  Cardinality(Children(root_page_id)) >= 2
  <2>1. ~At("propagate")
    BY <1>5 DEF Inserting, At
  <2>2. PICK c \in Children(root_page_id) : \E d \in Children(root_page_id) : c # d
    BY <1>5, <2>1 DEF Forked
  <2>3. PICK d \in Children(root_page_id) : c # d
    BY <2>2
  <2> QED BY <1>2, <1>5, <2>3, TwoChildren
<1> QED BY <1>3, <1>4, <1>5 DEF Balanced

-----------------------------------------------------------------------------
(* The order of the keys.  Every page has a range of keys, from lo to hi,  *)
(* that the records below it are in.  The keys of an inner node divide its *)
(* range among its children.                                               *)

Unbounded == -1
Below(k, bound) == bound = Unbounded \/ k <= bound

(* The entries t divide the range from a to b: the range of a child starts *)
(* in lo and ends in end.                                                  *)
Divide(t, a, b, lo, end) ==
  /\ Len(t) \in Nat \ {0} /\ a \in Nat /\ b \in Int
  /\ \A i \in 1 .. Len(t) : KeyOf(t[i]) \in Nat
  /\ KeyOf(t[1]) = INVALID_KEY /\ InOrder(t)
  /\ \A i \in 2 .. Len(t) : a <= KeyOf(t[i]) /\ Below(KeyOf(t[i]), b)
  /\ \A i \in 1 .. Len(t) :
       /\ lo[Child(t[i])] = (IF i = 1 THEN a ELSE KeyOf(t[i]))
       /\ end[Child(t[i])] = (IF i = Len(t) THEN b ELSE KeyOf(t[i + 1]))

(* A child whose range was cut at the key of e, and what was cut off. *)
CutAt(s, slot, e, lo, hi, end) ==
  /\ \A i \in 1 .. Len(s) : i # slot => hi[Child(s[i])] = end[Child(s[i])]
  /\ hi[Child(s[slot])] = KeyOf(e) /\ lo[Child(s[slot])] <= KeyOf(e)
  /\ lo[Child(e)] = KeyOf(e) /\ hi[Child(e)] = end[Child(s[slot])]
  /\ Below(KeyOf(e), hi[Child(e)])

(* The parent's entries divide its range again once they have e. *)
LEMMA SeparatorDivides ==
  ASSUME NEW s, NEW a, NEW b, NEW lo, NEW hi, NEW end, Divide(s, a, b, lo, end),
         NEW slot \in 1 .. Len(s), NEW e, KeyOf(e) \in Nat,
         CutAt(s, slot, e, lo, hi, end), NEW t, Entered(s, slot, e, t)
  PROVE  Divide(t, a, b, lo, hi)
<1>1. PICK n \in Nat \ {0} : n = Len(s)
  BY DEF Divide
<1>2. a \in Nat /\ b \in Int /\ slot \in 1 .. n /\ Len(t) = n + 1
  BY <1>1 DEF Divide, Entered
<1>3. PICK c : c = KeyOf(e)
  OBVIOUS
<1>4. PICK key : key = [i \in 1 .. n |-> KeyOf(s[i])]
  OBVIOUS
<1>5. key \in [1 .. n -> Nat] /\ \A i \in 1 .. n : key[i] = KeyOf(s[i])
  BY <1>1, <1>4 DEF Divide
<1>6. /\ key[1] = INVALID_KEY /\ INVALID_KEY = 0 /\ c \in Nat
      /\ \A i, j \in 1 .. n : i <= j => key[i] <= key[j]
      /\ \A i \in 2 .. n : a <= key[i] /\ Below(key[i], b)
  <2>1. 1 \in 1 .. n
    OBVIOUS
  <2>2. \A i \in 2 .. n : i \in 1 .. n
    OBVIOUS
  <2> QED BY <1>1, <1>3, <1>5, <2>1, <2>2 DEF Divide, InOrder, INVALID_KEY
<1>7. \A i \in 1 .. n : /\ lo[Child(s[i])] = (IF i = 1 THEN a ELSE key[i])
                        /\ end[Child(s[i])] = (IF i = n THEN b ELSE key[i + 1])
  <2> TAKE i \in 1 .. n
  <2>1. i # n => i + 1 \in 1 .. n
    OBVIOUS
  <2> QED BY <1>1, <1>5, <2>1 DEF Divide
<1>8. PICK new : new = [i \in 1 .. n + 1 |-> KeyOf(t[i])]
  OBVIOUS
<1>9. /\ \A i \in 1 .. slot : t[i] = s[i]
      /\ t[slot + 1] = e
      /\ \A i \in slot + 1 .. n : t[i + 1] = s[i]
  BY <1>1 DEF Entered
<1>10. /\ \A i \in 1 .. slot : new[i] = key[i]
       /\ new[slot + 1] = c
       /\ \A i \in slot + 2 .. n + 1 : new[i] = key[i - 1] /\ t[i] = s[i - 1]
       /\ \A i \in 1 .. n + 1 : new[i] = KeyOf(t[i])
  <2>1. \A i \in 1 .. n + 1 : new[i] = KeyOf(t[i])
    BY <1>8
  <2>2. \A i \in 1 .. slot : i \in 1 .. n + 1 /\ i \in 1 .. n
    BY <1>2
  <2>3. slot + 1 \in 1 .. n + 1
    BY <1>2
  <2>4. ASSUME NEW i \in slot + 2 .. n + 1
        PROVE  t[i] = s[i - 1] /\ i \in 1 .. n + 1 /\ i - 1 \in 1 .. n
    <3>1. PICK j \in slot + 1 .. n : j = i - 1
      BY <1>2, <2>4
    <3>2. j + 1 = i /\ j \in 1 .. n /\ i \in 1 .. n + 1
      BY <1>2, <3>1
    <3> QED BY <1>9, <3>1, <3>2
  <2> QED BY <1>3, <1>5, <1>9, <2>1, <2>2, <2>3, <2>4
<1>11. lo[Child(s[slot])] <= c /\ hi[Child(s[slot])] = c /\ lo[Child(e)] = c
       /\ hi[Child(e)] = end[Child(s[slot])] /\ Below(c, hi[Child(e)])
  BY <1>3 DEF CutAt
<1>12. key[slot] <= c /\ a <= c
  <2>1. CASE slot = 1
    BY <1>2, <1>6, <1>7, <1>11, <2>1
  <2>2. CASE slot # 1
    <3>1. slot \in 2 .. n /\ lo[Child(s[slot])] = key[slot]
      BY <1>2, <1>7, <2>2
    <3>2. a <= key[slot] /\ key[slot] <= c /\ key[slot] \in Nat
      BY <1>2, <1>5, <1>6, <1>11, <3>1
    <3> QED BY <1>2, <1>6, <3>2
  <2> QED BY <2>1, <2>2
<1>13. /\ slot # n => c <= key[slot + 1]
       /\ Below(c, b)
  <2>1. CASE slot = n
    BY <1>2, <1>7, <1>11, <2>1
  <2>2. CASE slot # n
    <3>1. slot + 1 \in 2 .. n /\ slot + 1 \in 1 .. n
      BY <1>2, <2>2
    <3>2. end[Child(s[slot])] = key[slot + 1]
      BY <1>2, <1>7, <2>2
    <3>3. key[slot + 1] \in Nat /\ Below(key[slot + 1], b)
      BY <1>5, <1>6, <3>1
    <3>4. c <= key[slot + 1]
      BY <1>11, <3>2, <3>3 DEF Below, Unbounded
    <3> QED BY <1>2, <1>6, <3>3, <3>4 DEF Below, Unbounded
  <2> QED BY <2>1, <2>2
<1>14. \A i \in 1 .. n + 1 : i <= slot \/ i = slot + 1 \/ i \in slot + 2 .. n + 1
  BY <1>2
<1>15. ASSUME NEW i \in 1 .. n + 1
       PROVE  /\ KeyOf(t[i]) \in Nat
              /\ i # 1 => a <= KeyOf(t[i]) /\ Below(KeyOf(t[i]), b)
  <2>1. CASE i <= slot
    <3>1. i \in 1 .. slot /\ i \in 1 .. n /\ (i # 1 => i \in 2 .. n)
      BY <1>2, <2>1
    <3> QED BY <1>5, <1>6, <1>10, <3>1
  <2>2. CASE i = slot + 1
    BY <1>6, <1>10, <1>12, <1>13, <2>2
  <2>3. CASE i \in slot + 2 .. n + 1
    <3>1. i - 1 \in 2 .. n /\ i - 1 \in 1 .. n
      BY <1>2, <2>3
    <3> QED BY <1>5, <1>6, <1>10, <2>3, <3>1
  <2> QED BY <1>14, <2>1, <2>2, <2>3
<1>16. ASSUME NEW i \in 1 .. n
       PROVE  KeyOf(t[i]) <= KeyOf(t[i + 1])
  <2>1. KeyOf(t[i]) = new[i] /\ KeyOf(t[i + 1]) = new[i + 1]
    BY <1>10
  <2>2. CASE i + 1 <= slot
    <3>1. i \in 1 .. slot /\ i + 1 \in 1 .. slot /\ i + 1 \in 1 .. n
      BY <1>2, <2>2
    <3> QED BY <1>6, <1>10, <2>1, <3>1
  <2>3. CASE i = slot
    BY <1>2, <1>10, <1>12, <2>1, <2>3
  <2>4. CASE i = slot + 1
    <3>1. slot # n /\ i + 1 \in slot + 2 .. n + 1 /\ (i + 1) - 1 = slot + 1
      BY <1>2, <2>4
    <3> QED BY <1>10, <1>13, <2>1, <2>4, <3>1
  <2>5. CASE i \in slot + 2 .. n
    <3>1. i \in slot + 2 .. n + 1 /\ i + 1 \in slot + 2 .. n + 1 /\ (i + 1) - 1 = i
          /\ i - 1 \in 1 .. n /\ i - 1 <= i
      BY <1>2, <2>5
    <3> QED BY <1>6, <1>10, <2>1, <3>1
  <2>6. i + 1 <= slot \/ i = slot \/ i = slot + 1 \/ i \in slot + 2 .. n
    BY <1>2
  <2> QED BY <2>2, <2>3, <2>4, <2>5, <2>6
<1>17. InOrder(t)
  <2>1. Len(t) \in Nat /\ \A i \in 1 .. Len(t) : KeyOf(t[i]) \in Int
    BY <1>2, <1>15
  <2>2. \A i \in 1 .. Len(t) - 1 : KeyOf(t[i]) <= KeyOf(t[i + 1])
    BY <1>2, <1>16
  <2> QED BY <2>1, <2>2, EntriesInOrder
<1>18. ASSUME NEW i \in 1 .. n + 1
       PROVE  /\ lo[Child(t[i])] = (IF i = 1 THEN a ELSE KeyOf(t[i]))
              /\ hi[Child(t[i])] = (IF i = n + 1 THEN b ELSE KeyOf(t[i + 1]))
  <2>1. KeyOf(t[i]) = new[i] /\ (i # n + 1 => KeyOf(t[i + 1]) = new[i + 1])
    BY <1>10
  <2>2. \A j \in 1 .. n : j # slot => hi[Child(s[j])] = end[Child(s[j])]
    BY <1>1 DEF CutAt
  <2>3. CASE i <= slot
    <3>1. i \in 1 .. slot /\ i \in 1 .. n /\ i # n + 1
      BY <1>2, <2>3
    <3>2. t[i] = s[i] /\ new[i] = key[i]
      BY <1>9, <1>10, <3>1
    <3>3. CASE i = slot
      BY <1>7, <1>10, <1>11, <2>1, <3>1, <3>2, <3>3
    <3>4. CASE i # slot
      <4>1. i + 1 \in 1 .. slot /\ i # n
        BY <1>2, <3>1, <3>4
      <4> QED BY <1>7, <1>10, <2>1, <2>2, <3>1, <3>2, <3>4, <4>1
    <3> QED BY <3>3, <3>4
  <2>4. CASE i = slot + 1
    <3>1. t[i] = e /\ new[i] = c /\ i # 1
      BY <1>2, <1>9, <1>10, <2>4
    <3>2. hi[Child(e)] = (IF i = n + 1 THEN b ELSE new[i + 1])
      <4>1. CASE slot = n
        BY <1>2, <1>7, <1>11, <2>4, <4>1
      <4>2. CASE slot # n
        <5>1. i # n + 1 /\ i + 1 \in slot + 2 .. n + 1 /\ (i + 1) - 1 = slot + 1
          BY <1>2, <2>4, <4>2
        <5> QED BY <1>2, <1>7, <1>10, <1>11, <4>2, <5>1
      <4> QED BY <4>1, <4>2
    <3> QED BY <1>11, <2>1, <3>1, <3>2
  <2>5. CASE i \in slot + 2 .. n + 1
    <3>1. PICK j \in 1 .. n : j = i - 1
      BY <1>2, <2>5
    <3>2. j # slot /\ j # 1 /\ i # 1 /\ (i = n + 1 <=> j = n)
          /\ (i # n + 1 => i + 1 \in slot + 2 .. n + 1 /\ (i + 1) - 1 = j + 1)
      BY <1>2, <2>5, <3>1
    <3>3. t[i] = s[j] /\ new[i] = key[j] /\ (i # n + 1 => new[i + 1] = key[j + 1])
      BY <1>10, <2>5, <3>1, <3>2
    <3> QED BY <1>7, <2>1, <2>2, <3>2, <3>3
  <2> QED BY <1>14, <2>3, <2>4, <2>5
<1>19. KeyOf(t[1]) = INVALID_KEY
  BY <1>2, <1>6, <1>10
<1>20. \A i \in 2 .. n + 1 : i \in 1 .. n + 1 /\ i # 1
  OBVIOUS
<1> QED BY <1>2, <1>15, <1>17, <1>18, <1>19, <1>20 DEF Divide

(* u and v are the halves of t: of inner nodes, v starts without a key. *)
LeftHalf(t, mid, u) == Len(u) = mid /\ \A i \in 1 .. mid : u[i] = t[i]

RightHalf(t, mid, v) ==
  /\ Len(v) = Len(t) - mid
  /\ v[1] = <<INVALID_KEY, Child(t[mid + 1])>>
  /\ \A i \in 2 .. Len(t) - mid : v[i] = t[mid + i]

SameRanges(t, lo, end, lo2, end2) ==
  \A i \in 1 .. Len(t) : /\ lo2[Child(t[i])] = lo[Child(t[i])]
                         /\ end2[Child(t[i])] = end[Child(t[i])]

LEMMA StillDivide ==
  ASSUME NEW t, NEW a, NEW b, NEW lo, NEW end, NEW lo2, NEW end2,
         Divide(t, a, b, lo, end), SameRanges(t, lo, end, lo2, end2)
  PROVE  Divide(t, a, b, lo2, end2)
BY DEF Divide, SameRanges

(* Each half divides its part of the range. *)
LEMMA HalvesDivide ==
  ASSUME NEW t, NEW a, NEW b, NEW lo, NEW end, Divide(t, a, b, lo, end),
         NEW mid \in 1 .. Len(t) - 1, NEW k, k = KeyOf(t[mid + 1]),
         NEW u, LeftHalf(t, mid, u), NEW v, RightHalf(t, mid, v)
  PROVE  /\ k \in Nat /\ a <= k /\ Below(k, b)
         /\ Divide(u, a, k, lo, end) /\ Divide(v, k, b, lo, end)
<1>1. PICK n \in Nat \ {0} : n = Len(t)
  BY DEF Divide
<1>2. a \in Nat /\ b \in Int /\ mid \in 1 .. n - 1 /\ mid + 1 \in 2 .. n /\ mid + 1 \in 1 .. n
  BY <1>1 DEF Divide
<1>3. PICK key : key = [i \in 1 .. n |-> KeyOf(t[i])]
  OBVIOUS
<1>4. key \in [1 .. n -> Nat] /\ \A i \in 1 .. n : key[i] = KeyOf(t[i])
  BY <1>1, <1>3 DEF Divide
<1>5. /\ \A i, j \in 1 .. n : i <= j => key[i] <= key[j]
      /\ \A i \in 2 .. n : a <= key[i] /\ Below(key[i], b)
      /\ KeyOf(t[1]) = INVALID_KEY
  <2>1. \A i \in 2 .. n : i \in 1 .. n
    OBVIOUS
  <2> QED BY <1>1, <1>4, <2>1, SMTT(30) DEF Divide, InOrder
<1>6. \A i \in 1 .. n : /\ lo[Child(t[i])] = (IF i = 1 THEN a ELSE key[i])
                        /\ end[Child(t[i])] = (IF i = n THEN b ELSE key[i + 1])
  <2> TAKE i \in 1 .. n
  <2>1. i # n => i + 1 \in 1 .. n
    OBVIOUS
  <2> QED BY <1>1, <1>4, <2>1 DEF Divide
<1>7. k = key[mid + 1] /\ k \in Nat /\ a <= k /\ Below(k, b)
  BY <1>2, <1>4, <1>5
<1>8. Divide(u, a, k, lo, end)
  <2>1. Len(u) = mid /\ \A i \in 1 .. mid : u[i] = t[i] /\ i \in 1 .. n /\ KeyOf(u[i]) = key[i]
    <3>1. \A i \in 1 .. mid : i \in 1 .. n
      BY <1>2
    <3> QED BY <1>4, <3>1 DEF LeftHalf
  <2>2. mid \in Nat \ {0} /\ KeyOf(u[1]) = INVALID_KEY
    <3>1. mid \in Nat \ {0} /\ 1 \in 1 .. mid
      BY <1>2
    <3> QED BY <1>5, <2>1, <3>1
  <2>3. InOrder(u)
    BY <1>5, <2>1 DEF InOrder
  <2>4. ASSUME NEW i \in 1 .. mid
        PROVE  /\ KeyOf(u[i]) \in Nat
               /\ i \in 2 .. mid => a <= KeyOf(u[i]) /\ Below(KeyOf(u[i]), k)
               /\ lo[Child(u[i])] = (IF i = 1 THEN a ELSE KeyOf(u[i]))
               /\ end[Child(u[i])] = (IF i = mid THEN k ELSE KeyOf(u[i + 1]))
    <3>1. KeyOf(u[i]) \in Nat /\ KeyOf(u[i]) = key[i] /\ u[i] = t[i]
      BY <1>4, <2>1
    <3>2. key[i] <= k
      <4>1. i <= mid + 1 /\ i \in 1 .. n
        BY <1>2
      <4> QED BY <1>2, <1>5, <1>7, <4>1
    <3>3. i \in 2 .. mid => i \in 2 .. n
      BY <1>2
    <3>4. i # n /\ (i # mid => i + 1 \in 1 .. mid)
      BY <1>2
    <3>5. end[Child(u[i])] = key[i + 1]
      BY <1>6, <2>1, <3>1, <3>4
    <3>6. end[Child(u[i])] = (IF i = mid THEN k ELSE KeyOf(u[i + 1]))
      BY <1>7, <2>1, <3>4, <3>5
    <3>7. lo[Child(u[i])] = (IF i = 1 THEN a ELSE KeyOf(u[i]))
      BY <1>6, <2>1, <3>1
    <3> QED BY <1>5, <3>1, <3>2, <3>3, <3>6, <3>7 DEF Below
  <2>5. \A i \in 2 .. mid : i \in 1 .. mid
    OBVIOUS
  <2>6. k \in Int
    BY <1>7
  <2> QED BY <1>2, <2>1, <2>2, <2>3, <2>4, <2>5, <2>6 DEF Divide
<1>9. Divide(v, k, b, lo, end)
  <2>1. PICK m \in Nat \ {0} : m = n - mid
    BY <1>2
  <2>2. /\ Len(v) = m /\ v[1] = <<INVALID_KEY, Child(t[mid + 1])>>
        /\ \A i \in 2 .. m : v[i] = t[mid + i]
    BY <1>1, <2>1 DEF RightHalf
  <2>3. KeyOf(v[1]) = INVALID_KEY /\ Child(v[1]) = Child(t[mid + 1])
    BY <2>2 DEF KeyOf, Child
  <2>4. ASSUME NEW i \in 2 .. m
        PROVE  /\ mid + i \in 2 .. n /\ mid + i \in 1 .. n /\ mid + 1 <= mid + i
               /\ KeyOf(v[i]) = key[mid + i] /\ v[i] = t[mid + i]
    <3>1. mid + i \in 2 .. n /\ mid + i \in 1 .. n /\ mid + 1 <= mid + i
      BY <1>2, <2>1
    <3> QED BY <1>4, <2>2, <3>1
  <2>5. INVALID_KEY = 0
    BY DEF INVALID_KEY
  <2>6. ASSUME NEW i \in 1 .. m
        PROVE  i = 1 \/ i \in 2 .. m
    OBVIOUS
  <2>7. \A i \in 1 .. m : KeyOf(v[i]) \in Nat
    BY <1>4, <2>3, <2>4, <2>5, <2>6
  <2>8. InOrder(v)
    <3>1. ASSUME NEW i \in 1 .. m, NEW j \in 1 .. m, i <= j
          PROVE  KeyOf(v[i]) <= KeyOf(v[j])
      <4>1. CASE i = 1
        BY <2>3, <2>5, <2>7, <4>1
      <4>2. CASE i # 1
        <5>1. i \in 2 .. m /\ j \in 2 .. m /\ mid + i <= mid + j
          BY <1>2, <3>1, <4>2
        <5> QED BY <1>5, <2>4, <5>1
      <4> QED BY <4>1, <4>2
    <3> QED BY <2>2, <3>1 DEF InOrder
  <2>9. \A i \in 2 .. m : k <= KeyOf(v[i]) /\ Below(KeyOf(v[i]), b)
    BY <1>2, <1>5, <1>7, <2>4
  <2>10. ASSUME NEW i \in 1 .. m
         PROVE  /\ lo[Child(v[i])] = (IF i = 1 THEN k ELSE KeyOf(v[i]))
                /\ end[Child(v[i])] = (IF i = m THEN b ELSE KeyOf(v[i + 1]))
    <3>1. Child(v[i]) = Child(t[mid + i]) /\ mid + i \in 1 .. n
      BY <1>2, <2>3, <2>4, <2>6
    <3>2. mid + i # 1 /\ (mid + i = n <=> i = m) /\ (i # m => i + 1 \in 2 .. m)
          /\ (mid + i) + 1 = mid + (i + 1)
      BY <1>2, <2>1
    <3>3. lo[Child(v[i])] = key[mid + i]
      BY <1>6, <3>1, <3>2
    <3>4. end[Child(v[i])] = (IF i = m THEN b ELSE key[mid + (i + 1)])
      BY <1>6, <3>1, <3>2
    <3>5. end[Child(v[i])] = (IF i = m THEN b ELSE KeyOf(v[i + 1]))
      BY <2>4, <3>2, <3>4
    <3>6. lo[Child(v[i])] = (IF i = 1 THEN k ELSE KeyOf(v[i]))
      BY <1>7, <2>4, <2>6, <3>3
    <3> QED BY <3>5, <3>6
  <2> QED BY <1>2, <1>7, <2>1, <2>2, <2>3, <2>7, <2>8, <2>9, <2>10 DEF Divide
<1> QED BY <1>7, <1>8, <1>9

(* The records t of a leaf are in its range. *)
Within(t, a, b) ==
  /\ Len(t) \in Nat /\ a \in Nat /\ b \in Int /\ InOrder(t)
  /\ \A i \in 1 .. Len(t) : /\ KeyOf(t[i]) \in Nat
                            /\ a <= KeyOf(t[i]) /\ Below(KeyOf(t[i]), b)

RightPart(t, mid, v) ==
  Len(v) = Len(t) - mid /\ \A i \in 1 .. Len(t) - mid : v[i] = t[mid + i]

LEMMA HalvesWithin ==
  ASSUME NEW t, NEW a, NEW b, Within(t, a, b),
         NEW mid \in 1 .. Len(t) - 1, NEW k, k = KeyOf(t[mid + 1]),
         NEW u, LeftHalf(t, mid, u),
         NEW v, RightPart(t, mid, v)
  PROVE  /\ k \in Nat /\ a <= k /\ Below(k, b)
         /\ Within(u, a, k) /\ Within(v, k, b)
<1>1. PICK n \in Nat : n = Len(t)
  BY DEF Within
<1>2. a \in Nat /\ b \in Int /\ mid \in 1 .. n - 1 /\ mid + 1 \in 1 .. n
  BY <1>1 DEF Within
<1>3. PICK key : key = [i \in 1 .. n |-> KeyOf(t[i])]
  OBVIOUS
<1>4. /\ key \in [1 .. n -> Nat] /\ \A i \in 1 .. n : key[i] = KeyOf(t[i])
      /\ \A i, j \in 1 .. n : i <= j => key[i] <= key[j]
      /\ \A i \in 1 .. n : a <= key[i] /\ Below(key[i], b)
  BY <1>1, <1>3 DEF Within, InOrder
<1>5. k = key[mid + 1] /\ k \in Nat /\ a <= k /\ Below(k, b)
  BY <1>2, <1>4
<1>6. Within(u, a, k)
  <2>1. Len(u) = mid /\ mid \in Nat /\ k \in Int
    BY <1>2, <1>5 DEF LeftHalf
  <2>2. ASSUME NEW i \in 1 .. mid
        PROVE  i \in 1 .. n /\ i <= mid + 1 /\ KeyOf(u[i]) = key[i]
    <3>1. i \in 1 .. n /\ i <= mid + 1
      BY <1>2
    <3> QED BY <1>4, <3>1 DEF LeftHalf
  <2>3. InOrder(u)
    BY <1>4, <2>1, <2>2 DEF InOrder
  <2> QED BY <1>2, <1>4, <1>5, <2>1, <2>2, <2>3 DEF Within, Below
<1>7. Within(v, k, b)
  <2>1. PICK m \in Nat : m = n - mid
    BY <1>2
  <2>2. Len(v) = m
    BY <1>1, <2>1 DEF RightPart
  <2>3. ASSUME NEW i \in 1 .. m
        PROVE  mid + i \in 1 .. n /\ mid + 1 <= mid + i /\ KeyOf(v[i]) = key[mid + i]
    <3>1. mid + i \in 1 .. n /\ mid + 1 <= mid + i
      BY <1>2, <2>1
    <3> QED BY <1>1, <1>4, <2>1, <3>1 DEF RightPart
  <2>4. InOrder(v)
    <3>1. ASSUME NEW i \in 1 .. m, NEW j \in 1 .. m, i <= j
          PROVE  KeyOf(v[i]) <= KeyOf(v[j])
      <4>1. mid + i <= mid + j
        BY <1>2, <3>1
      <4> QED BY <1>4, <2>3, <4>1
    <3> QED BY <2>2, <3>1 DEF InOrder
  <2> QED BY <1>2, <1>4, <1>5, <2>2, <2>3, <2>4 DEF Within
<1> QED BY <1>5, <1>6, <1>7

-----------------------------------------------------------------------------
(* Every node keeps to the range of its page.  The range of a page that    *)
(* has been split ends at the separator, while its parent still takes it   *)
(* to end where that of the new page does.                                 *)

NodeInOrder(p, lo, hi, end) ==
  IF IsLeaf(p) THEN Within(pages[p].entries, lo[p], hi[p])
  ELSE Divide(pages[p].entries, lo[p], hi[p], lo, end)

Ends(hi, end) ==
  \A c \in PageIds :
    end[c] = IF At("propagate") /\ c = call.left THEN hi[Child(call.separator)] ELSE hi[c]

SplitInRange(lo, hi) ==
  At("propagate") =>
    /\ hi[call.left] = KeyOf(call.separator) /\ lo[call.left] <= KeyOf(call.separator)
    /\ lo[Child(call.separator)] = KeyOf(call.separator)
    /\ Below(KeyOf(call.separator), hi[Child(call.separator)])

Ordered(lo, hi, end) ==
  /\ \A p \in PageIds : NodeInOrder(p, lo, hi, end)
  /\ Ends(hi, end)
  /\ SplitInRange(lo, hi)
  /\ root_page_id \in PageIds => lo[root_page_id] = 0 /\ end[root_page_id] = Unbounded

(* The entry that is inserted is in the range of the page it has reached. *)
EntryInRange(lo, hi) ==
  OnPath /\ ~At("propagate") =>
    lo[Bottom] <= KeyOf(call.entry) /\ Below(KeyOf(call.entry), hi[Bottom])

(* The leaves link to leaves. *)
Linked == \A p \in Leaves : pages[p].next \in Leaves \cup {INVALID_PAGE_ID}

(* The range of a leaf that another one links to starts with a record of   *)
(* the leaf: the key that went up when the leaf was made, or a duplicate.  *)
LowestKept(lo) ==
  \A q \in Leaves : pages[q].next \in Leaves => lo[pages[q].next] \in Keys(pages[q].next)

HasOrder ==
  \E lo \in [PageIds -> Nat] : \E hi \in [PageIds -> Int] : \E end \in [PageIds -> Int] :
    Ordered(lo, hi, end) /\ EntryInRange(lo, hi) /\ LowestKept(lo)

(* The steps that touch no leaf. *)
LEMMA LowestUntouched ==
  ASSUME NEW lo, NEW lo2, LowestKept(lo), Leaves' = Leaves,
         \A q \in Leaves : pages'[q] = pages[q] /\ lo2[q] = lo[q]
  PROVE  LowestKept(lo2)'
<1>1. \A q \in Leaves : Keys(q)' = Keys(q)
  BY DEF Keys
<1> QED BY <1>1 DEF LowestKept

LEMMA SameNodeInOrder ==
  ASSUME Shape, NEW lo, NEW hi, NEW end, NEW lo2, NEW hi2, NEW end2, NEW q \in PageIds,
         NodeInOrder(q, lo, hi, end), pages'[q] = pages[q], lo2[q] = lo[q], hi2[q] = hi[q],
         q \in Inner => \A c \in Children(q) : lo2[c] = lo[c] /\ end2[c] = end[c]
  PROVE  NodeInOrder(q, lo2, hi2, end2)'
<1>1. IsLeaf(q)' = IsLeaf(q)
  BY SameNode
<1>2. CASE IsLeaf(q)
  BY <1>1, <1>2 DEF NodeInOrder
<1>3. CASE ~IsLeaf(q)
  <2>1. q \in Inner /\ Divide(pages[q].entries, lo[q], hi[q], lo, end)
    BY <1>3 DEF NodeInOrder, Inner, Leaves
  <2>2. SameRanges(pages[q].entries, lo, end, lo2, end2)
    <3>1. \A i \in 1 .. Size(q) : ChildAt(q, i) \in Children(q)
      BY EntriesNow
    <3> QED BY <2>1, <3>1 DEF SameRanges, Size, ChildAt
  <2>3. Divide(pages[q].entries, lo[q], hi[q], lo2, end2)
    BY <2>1, <2>2, StillDivide
  <2> QED BY <1>1, <1>3, <2>3 DEF NodeInOrder
<1> QED BY <1>2, <1>3

LEMMA EntryWithin ==
  ASSUME IInv, NEW lo \in [PageIds -> Nat], NEW hi \in [PageIds -> Int], NEW end,
         Ordered(lo, hi, end), EntryInRange(lo, hi), OnPath, ~At("propagate"),
         NEW p, NEW t, WithEntry(p, t)
  PROVE  Within(t, lo[p], hi[p])
<1>1. /\ p = Bottom /\ p \in PageIds /\ IsLeaf(p) /\ call.entry \in Key \X Rid
      /\ t \in Seq(Key \X Rid) /\ Len(t) = Size(p) + 1 /\ InOrder(t)
      /\ \A i \in 1 .. Len(t) :
           t[i] = call.entry \/ \E j \in 1 .. Size(p) : t[i] = pages[p].entries[j]
  BY DEF WithEntry, LeafEntries
<1>2. Within(pages[p].entries, lo[p], hi[p])
  BY <1>1 DEF Ordered, NodeInOrder
<1>3. lo[p] <= KeyOf(call.entry) /\ Below(KeyOf(call.entry), hi[p])
  BY <1>1 DEF EntryInRange
<1>4. ASSUME NEW i \in 1 .. Len(t)
      PROVE  KeyOf(t[i]) \in Nat /\ lo[p] <= KeyOf(t[i]) /\ Below(KeyOf(t[i]), hi[p])
  <2>1. KeyOf(t[i]) \in Nat
    <3>1. t[i] \in Key \X Rid
      BY <1>1, ElementOfSeq
    <3> QED BY <3>1, EntryParts
  <2>2. CASE t[i] = call.entry
    BY <1>3, <2>1, <2>2
  <2>3. CASE t[i] # call.entry
    <3>1. PICK j \in 1 .. Size(p) : t[i] = pages[p].entries[j]
      BY <1>1, <2>3
    <3> QED BY <1>2, <2>1, <3>1 DEF Within, Size
  <2> QED BY <2>2, <2>3
<1>5. Len(t) \in Nat
  BY <1>1, LenProperties
<1> QED BY <1>1, <1>4, <1>5 DEF Within

(* With the separator, the entries of a parent divide its range as it is.  *)
LEMMA ParentDivides ==
  ASSUME IInv, OneParent, NEW lo \in [PageIds -> Nat], NEW hi \in [PageIds -> Int], NEW end,
         Ordered(lo, hi, end), NEW p, NEW slot, NEW t, WithSeparator(p, slot, t)
  PROVE  Divide(t, lo[p], hi[p], lo, hi)
<1>1. /\ At("propagate") /\ p \in PageIds /\ ~IsLeaf(p) /\ slot \in 1 .. Size(p)
      /\ ChildAt(p, slot) = call.left
      /\ Entered(pages[p].entries, slot, call.separator, t)
  BY DEF WithSeparator
<1>2. /\ p \in Inner /\ call.left \in PageIds /\ KeyOf(call.separator) \in Nat
      /\ \A i \in 1 .. Size(p) : ChildAt(p, i) \in PageIds
  <2>1. Separated(p, slot, t)
    BY SeparatedChild
  <2> QED BY <2>1, TreeAssumption DEF Separated
<1>3. Divide(pages[p].entries, lo[p], hi[p], lo, end)
  BY <1>1 DEF Ordered, NodeInOrder
<1>4. \A i \in 1 .. Size(p) : i # slot => ChildAt(p, i) # call.left
  BY <1>1, <1>2 DEF OneParent
<1>5. CutAt(pages[p].entries, slot, call.separator, lo, hi, end)
  <2>1. ASSUME NEW i \in 1 .. Size(p), i # slot
        PROVE  hi[ChildAt(p, i)] = end[ChildAt(p, i)]
    BY <1>2, <1>4, <2>1 DEF Ordered, Ends
  <2>2. end[call.left] = hi[Child(call.separator)]
    BY <1>1, <1>2 DEF Ordered, Ends
  <2> QED BY <1>1, <2>1, <2>2 DEF Ordered, SplitInRange, CutAt, Size, ChildAt
<1>6. slot \in 1 .. Len(pages[p].entries)
  BY <1>1 DEF Size
<1> QED BY <1>1, <1>2, <1>3, <1>5, <1>6, SeparatorDivides

LEMMA SplitKeepsOrder ==
  ASSUME IInv, NEW lo \in [PageIds -> Nat], NEW hi \in [PageIds -> Int], NEW end,
         Ordered(lo, hi, end),
         NEW p, NEW new, NEW t, NEW mid, SplitInto(p, new, t, mid),
         NEW k \in Nat, k = KeyOf(t[mid + 1]), lo[p] <= k, Below(k, hi[p]),
         \A q \in Inner \ {p} : \A c \in Children(q) : end[c] = hi[c],
         end[root_page_id] = hi[root_page_id],
         NEW lo2, lo2 = [q \in PageIds' |-> IF q = new THEN k ELSE lo[q]],
         NEW hi2, hi2 = [q \in PageIds' |-> IF q = p THEN k ELSE IF q = new THEN hi[p] ELSE hi[q]],
         NEW end2, end2 = [q \in PageIds' |-> IF q = new THEN hi[p] ELSE hi[q]],
         NodeInOrder(p, lo2, hi2, end2)', NodeInOrder(new, lo2, hi2, end2)',
         LowestKept(lo2)'
  PROVE  HasOrder'
<1>1. /\ p \in PageIds /\ PageIds' = PageIds \cup {new} /\ new \notin PageIds
      /\ \A q \in PageIds \ {p} : pages'[q] = pages[q]
      /\ At("propagate")' /\ call'.left = p
      /\ Child(call'.separator) = new /\ KeyOf(call'.separator) = k
      /\ root_page_id \in PageIds /\ root_page_id' = root_page_id
  BY DEF SplitInto, PageIsAdded, Child, KeyOf
<1>2. k \in Int /\ hi[p] \in Int
  BY <1>1
<1>3. /\ lo2 \in [PageIds' -> Nat] /\ hi2 \in [PageIds' -> Int] /\ end2 \in [PageIds' -> Int]
      /\ lo2[new] = k /\ hi2[new] = hi[p] /\ hi2[p] = k /\ end2[new] = hi[p]
      /\ \A q \in PageIds : lo2[q] = lo[q] /\ end2[q] = hi[q]
      /\ \A q \in PageIds \ {p} : hi2[q] = hi[q]
  BY <1>1, <1>2
<1>4. Shape
  BY DEF IInv
<1>5. ASSUME NEW q \in PageIds \ {p}
      PROVE  NodeInOrder(q, lo2, hi2, end2)'
  <2>1. ASSUME q \in Inner, NEW c \in Children(q)
        PROVE  lo2[c] = lo[c] /\ end2[c] = end[c]
    <3>1. c \in PageIds
      BY <1>4, <2>1 DEF Shape
    <3> QED BY <1>3, <2>1, <3>1
  <2>2. NodeInOrder(q, lo, hi, end)
    BY DEF Ordered
  <2>3. /\ q \in PageIds /\ pages'[q] = pages[q] /\ lo2[q] = lo[q] /\ hi2[q] = hi[q]
        /\ q \in Inner => \A c \in Children(q) : lo2[c] = lo[c] /\ end2[c] = end[c]
    BY <1>1, <1>3, <2>1
  <2> QED BY <1>4, <2>2, <2>3, SameNodeInOrder
<1>6. \A q \in PageIds' : NodeInOrder(q, lo2, hi2, end2)'
  BY <1>1, <1>5
<1>7. Ends(hi2, end2)'
  <2>1. ASSUME NEW c \in PageIds'
        PROVE  end2[c] = IF c = p THEN hi2[new] ELSE hi2[c]
    BY <1>1, <1>3
  <2> QED BY <1>1, <2>1 DEF Ends
<1>8. SplitInRange(lo2, hi2)'
  BY <1>1, <1>3 DEF SplitInRange
<1>9. lo2[root_page_id'] = 0 /\ end2[root_page_id'] = Unbounded
  BY <1>1, <1>3 DEF Ordered
<1>10. Ordered(lo2, hi2, end2)' /\ EntryInRange(lo2, hi2)'
  BY <1>1, <1>6, <1>7, <1>8, <1>9 DEF Ordered, EntryInRange
<1> QED BY <1>3, <1>10 DEF HasOrder

(* The steps that change no node but the page that is in the path. *)
LEMMA FirstLeafOrdered ==
  ASSUME IInv, IInv', Rooted, NEW new, FirstLeaf(new)
  PROVE  HasOrder'
<1>1. /\ PageIds' = {new} /\ IsLeaf(new)' /\ root_page_id' = new /\ ~At("propagate")'
      /\ pages'[new].entries = <<call.entry>> /\ ~OnPath'
  BY NoLeafBeforeRoot DEF FirstLeaf, Idle, OnPath, Inserting, At
<1>2. KeyOf(call.entry) \in Nat
  BY EntryParts DEF FirstLeaf, IInv, Shape, Inserting, At
<1>3. PICK t : t = <<call.entry>>
  OBVIOUS
<1>4. Len(t) = 1 /\ t[1] = call.entry
  BY <1>3
<1>5. InOrder(t)
  BY <1>2, <1>4 DEF InOrder
<1>6. Within(t, 0, Unbounded)
  BY <1>2, <1>4, <1>5 DEF Within, Below, Unbounded
<1>7. PICK lo : lo = [q \in PageIds' |-> 0]
  OBVIOUS
<1>8. PICK hi : hi = [q \in PageIds' |-> Unbounded]
  OBVIOUS
<1>9. /\ lo \in [PageIds' -> Nat] /\ hi \in [PageIds' -> Int]
      /\ lo[new] = 0 /\ hi[new] = Unbounded
  BY <1>1, <1>7, <1>8 DEF Unbounded
<1>10. NodeInOrder(new, lo, hi, hi)'
  BY <1>1, <1>3, <1>6, <1>9 DEF NodeInOrder
<1>11. Ordered(lo, hi, hi)' /\ EntryInRange(lo, hi)'
  BY <1>1, <1>9, <1>10 DEF Ordered, Ends, SplitInRange, EntryInRange
<1>12. LowestKept(lo)'
  <2>1. pages'[new].next \notin Leaves'
    BY <1>1 DEF FirstLeaf, Leaves, INVALID_PAGE_ID, PageIsAdded
  <2>2. Leaves' \subseteq {new}
    BY <1>1 DEF Leaves
  <2> QED BY <2>1, <2>2 DEF LowestKept
<1> QED BY <1>9, <1>11, <1>12 DEF HasOrder

(* The keys of a leaf are among the keys it has with the entry. *)
LEMMA EntryKeysKept ==
  ASSUME Shape, NEW p, NEW t, WithEntry(p, t)
  PROVE  /\ Keys(p) \subseteq {KeyOf(t[i]) : i \in DOMAIN t}
         /\ DOMAIN t = 1 .. Len(t)
<1>1. /\ p \in PageIds /\ IsLeaf(p) /\ call.entry \in Key \X Rid /\ t \in Seq(Key \X Rid)
      /\ t \in SortedWith(pages[p].entries, call.entry)
  BY DEF WithEntry, LeafEntries
<1>2. pages[p].entries \in Seq(Key \X Rid)
  BY <1>1, NodeFacts DEF LeafEntries
<1>3. DOMAIN t = 1 .. Len(t) /\ DOMAIN pages[p].entries = 1 .. Len(pages[p].entries)
  BY <1>1, <1>2, LenProperties
<1>4. ASSUME NEW j \in DOMAIN pages[p].entries
      PROVE  \E i \in DOMAIN t : t[i] = pages[p].entries[j]
  <2>1. PICK s \in Seq(Key \X Rid) : s = pages[p].entries
    BY <1>2
  <2>2. t \in SortedWith(s, call.entry) /\ j \in 1 .. Len(s)
    BY <1>1, <1>3, <2>1
  <2>3. \E i \in 1 .. Len(t) : t[i] = s[j]
    BY <1>1, <2>2, EntriesKept
  <2> QED BY <1>3, <2>1, <2>3
<1> QED BY <1>3, <1>4 DEF Keys

LEMMA LeafTakesOrdered ==
  ASSUME IInv, NEW lo \in [PageIds -> Nat], NEW hi \in [PageIds -> Int],
         NEW end \in [PageIds -> Int], Ordered(lo, hi, end), EntryInRange(lo, hi),
         LowestKept(lo), NEW p, NEW t, LeafTakes(p, t)
  PROVE  HasOrder'
<1>1. /\ WithEntry(p, t) /\ PageIds' = PageIds /\ p \in PageIds /\ IsLeaf(p)'
      /\ \A q \in PageIds \ {p} : pages'[q] = pages[q] /\ pages'[p].entries = t
      /\ root_page_id' = root_page_id /\ ~At("propagate")' /\ ~At("propagate") /\ ~OnPath'
      /\ OnPath
  BY DEF LeafTakes, WithEntry, Idle, OnPath, Inserting, At
<1>2. pages'[p].entries = t
  BY DEF LeafTakes
<1>3. NodeInOrder(p, lo, hi, end)'
  BY <1>1, <1>2, EntryWithin DEF NodeInOrder
<1>4. \A q \in PageIds \ {p} : NodeInOrder(q, lo, hi, end)'
  BY <1>1, SameNodeInOrder DEF Ordered, IInv
<1>5. \A q \in PageIds' : NodeInOrder(q, lo, hi, end)'
  BY <1>1, <1>3, <1>4
<1>6. Ordered(lo, hi, end)' /\ EntryInRange(lo, hi)'
  BY <1>1, <1>5 DEF Ordered, Ends, SplitInRange, EntryInRange
<1>7. LowestKept(lo)'
  <2>1. Leaves' = Leaves
    <3>1. \A q \in PageIds \ {p} : IsLeaf(q)' = IsLeaf(q)
      BY <1>1, SameNode
    <3> QED BY <1>1, <3>1 DEF Leaves, WithEntry
  <2>2. \A q \in Leaves : pages'[q].next = pages[q].next
    BY <1>1 DEF LeafTakes, Leaves
  <2>3. \A q \in Leaves : Keys(q) \subseteq Keys(q)'
    <3>1. \A q \in PageIds \ {p} : Keys(q)' = Keys(q)
      BY <1>1 DEF Keys
    <3>2. Keys(p) \subseteq Keys(p)'
      <4>1. Keys(p)' = {KeyOf(t[i]) : i \in DOMAIN t}
        BY <1>2 DEF Keys
      <4>2. Keys(p) \subseteq {KeyOf(t[i]) : i \in DOMAIN t}
        BY <1>1, EntryKeysKept DEF IInv
      <4> QED BY <4>1, <4>2
    <3> QED BY <3>1, <3>2 DEF Leaves
  <2> QED BY <2>1, <2>2, <2>3 DEF LowestKept
<1> QED BY <1>1, <1>6, <1>7 DEF HasOrder

LEMMA LeafSplitsOrdered ==
  ASSUME IInv, Linked, NEW lo \in [PageIds -> Nat], NEW hi \in [PageIds -> Int], NEW end,
         Ordered(lo, hi, end), EntryInRange(lo, hi), LowestKept(lo),
         NEW p, NEW new, NEW t, NEW mid, LeafSplits(p, new, t, mid), Shape'
  PROVE  HasOrder'
<1>1. /\ WithEntry(p, t) /\ SplitInto(p, new, t, mid) /\ OnPath /\ ~At("propagate")
      /\ \A i \in 1 .. Len(t) - mid : pages'[new].entries[i] = t[mid + i]
  BY DEF LeafSplits, OnPath, Inserting, At
<1>2. /\ p \in PageIds /\ IsLeaf(p) /\ new \notin PageIds /\ PageIds' = PageIds \cup {new}
      /\ mid \in 1 .. Len(t) - 1 /\ LeftHalf(t, mid, pages'[p].entries)
      /\ Len(pages'[new].entries) = Len(t) - mid /\ root_page_id \in PageIds
  BY <1>1 DEF SplitInto, PageIsAdded, WithEntry, LeftHalf
<1>3. IsLeaf(p)' /\ IsLeaf(new)'
  BY <1>1, <1>2, Zenon DEF SplitInto
<1>4. Within(t, lo[p], hi[p])
  BY <1>1, EntryWithin
<1>5. PICK k : k = KeyOf(t[mid + 1])
  OBVIOUS
<1>6. /\ k \in Nat /\ lo[p] <= k /\ Below(k, hi[p])
      /\ Within(pages'[p].entries, lo[p], k) /\ Within(pages'[new].entries, k, hi[p])
  <2>1. PICK u, v : u = pages'[p].entries /\ v = pages'[new].entries
    OBVIOUS
  <2>2. RightPart(t, mid, v)
    BY <1>1, <1>2, <2>1 DEF RightPart
  <2>3. mid \in 1 .. Len(t) - 1 /\ LeftHalf(t, mid, u)
    BY <1>2, <2>1
  <2>4. k \in Nat /\ lo[p] <= k /\ Below(k, hi[p]) /\ Within(u, lo[p], k) /\ Within(v, k, hi[p])
    BY <1>4, <1>5, <2>2, <2>3, HalvesWithin, SMTT(30)
  <2> QED BY <2>1, <2>4
<1>7. PICK lo2 : lo2 = [q \in PageIds' |-> IF q = new THEN k ELSE lo[q]]
  OBVIOUS
<1>8. PICK hi2 : hi2 = [q \in PageIds' |-> IF q = p THEN k ELSE IF q = new THEN hi[p] ELSE hi[q]]
  OBVIOUS
<1>9. PICK end2 : end2 = [q \in PageIds' |-> IF q = new THEN hi[p] ELSE hi[q]]
  OBVIOUS
<1>10. lo2[p] = lo[p] /\ hi2[p] = k /\ lo2[new] = k /\ hi2[new] = hi[p]
  BY <1>2, <1>7, <1>8
<1>11. NodeInOrder(p, lo2, hi2, end2)' /\ NodeInOrder(new, lo2, hi2, end2)'
  BY <1>3, <1>6, <1>10 DEF NodeInOrder
<1>12. \A c \in PageIds : end[c] = hi[c]
  BY <1>1 DEF Ordered, Ends
<1>13. \A q \in Inner \ {p} : \A c \in Children(q) : end[c] = hi[c]
  BY <1>12 DEF IInv, Shape
<1>14. end[root_page_id] = hi[root_page_id]
  BY <1>2, <1>12
<1>15. SplitInto(p, new, t, mid) /\ k \in Nat /\ lo[p] <= k /\ Below(k, hi[p])
  BY <1>1, <1>6
<1>16. LowestKept(lo2)'
  <2>1. Leaves' = Leaves \cup {new} /\ p \in Leaves /\ new \notin Leaves
    <3>1. \A q \in PageIds \ {p} : IsLeaf(q)' = IsLeaf(q)
      BY <1>1, SameNode DEF SplitInto
    <3> QED BY <1>2, <1>3, <3>1 DEF Leaves
  <2>2. /\ \A q \in Leaves \ {p} : pages'[q] = pages[q]
        /\ pages'[p].next = new /\ pages'[new].next = pages[p].next
    BY <1>1 DEF LeafSplits, SplitInto, Leaves
  <2>3. \A q \in Leaves : lo2[q] = lo[q]
    BY <1>2, <1>7 DEF Leaves
  <2>4. \A q \in Leaves \ {p} : Keys(q)' = Keys(q)
    BY <2>2 DEF Keys
  <2>5. lo2[new] \in Keys(new)'
    <3>1. Len(t) \in Nat
      BY <1>4 DEF Within
    <3>2. 1 \in 1 .. Len(t) - mid /\ mid + 1 \in 1 .. Len(t)
      BY <1>2, <3>1
    <3>3. pages'[new].entries[1] = t[mid + 1]
      BY <1>1, <3>2
    <3>4. 1 \in DOMAIN pages'[new].entries
      BY <1>2, <3>2, EntriesNext DEF Size
    <3> QED BY <1>5, <1>10, <3>3, <3>4 DEF Keys
  <2>6. lo[p] \in Keys(p) => lo2[p] \in Keys(p)'
    <3>1. SUFFICES ASSUME lo[p] \in Keys(p) PROVE lo[p] \in Keys(p)'
      BY <1>10
    <3>2. lo[p] \in {KeyOf(t[i]) : i \in DOMAIN t} /\ DOMAIN t = 1 .. Len(t)
      BY <1>1, <3>1, EntryKeysKept DEF IInv
    <3>3. PICK i \in 1 .. Len(t) : KeyOf(t[i]) = lo[p]
      BY <3>2
    <3>4. 1 \in 1 .. Len(t) /\ 1 \in 1 .. mid
      BY <1>2, <1>4 DEF Within
    <3>5. KeyOf(t[1]) <= lo[p] /\ lo[p] <= KeyOf(t[1]) /\ KeyOf(t[1]) \in Nat /\ lo[p] \in Nat
      BY <1>4, <3>3, <3>4 DEF Within, InOrder
    <3>6. KeyOf(t[1]) = lo[p]
      BY <3>5
    <3>7. pages'[p].entries[1] = t[1] /\ 1 \in DOMAIN pages'[p].entries
      BY <1>2, <3>4, EntriesNext DEF LeftHalf, Size
    <3> QED BY <3>6, <3>7 DEF Keys
  <2>7. ASSUME NEW q \in Leaves, NEW l, l = pages[q].next, l \in Leaves'
        PROVE  lo2[l] \in Keys(l)'
    <3>1. l \in Leaves
      <4>1. l \in Leaves \cup {INVALID_PAGE_ID}
        BY <2>7 DEF Linked
      <4>2. INVALID_PAGE_ID \notin Leaves'
        <5>1. PageIds \subseteq Nat
          <6>1. p \in PageIds /\ Shape
            BY <1>2 DEF IInv
          <6>2. PageIds = 1 .. Len(pages) /\ Len(pages) \in Nat
            BY <6>1, NodeFacts, Zenon
          <6> QED BY <6>2
        <5>2. new \in Nat
          BY <1>1 DEF SplitInto, PageIsAdded
        <5>3. Leaves' \subseteq Nat
          BY <1>2, <5>1, <5>2 DEF Leaves
        <5> QED BY <5>3 DEF INVALID_PAGE_ID
      <4> QED BY <2>7, <4>1, <4>2
    <3>2. lo[l] \in Keys(l)
      BY <2>7, <3>1 DEF LowestKept
    <3> QED BY <2>3, <2>4, <2>6, <3>1, <3>2
  <2>8. ASSUME NEW q \in Leaves', NEW l, l = pages'[q].next, l \in Leaves'
        PROVE  lo2[l] \in Keys(l)'
    <3>1. CASE q = p
      BY <2>2, <2>5, <2>8, <3>1
    <3>2. CASE q = new
      BY <2>1, <2>2, <2>7, <2>8, <3>2
    <3>3. CASE q # p /\ q # new
      BY <2>1, <2>2, <2>7, <2>8, <3>3
    <3> QED BY <3>1, <3>2, <3>3
  <2> QED BY <2>8 DEF LowestKept, Keys
<1> QED BY <1>5, <1>7, <1>8, <1>9, <1>11, <1>13, <1>14, <1>15, <1>16, SplitKeepsOrder

(* No page but the parent has the page that was split as a child. *)
LEMMA LeftIsElsewhere ==
  ASSUME IInv, Rooted, HasRanks, OneParent, NEW hi, NEW end, Ends(hi, end),
         NEW p, NEW slot, NEW t, WithSeparator(p, slot, t)
  PROVE  /\ p # call.left /\ root_page_id # call.left
         /\ end[p] = hi[p] /\ end[root_page_id] = hi[root_page_id]
         /\ \A q \in Inner \ {p} : \A c \in Children(q) : end[c] = hi[c]
<1>1. /\ p \in Inner /\ p \in PageIds /\ call.left \in Children(p) /\ slot \in 1 .. Size(p)
      /\ ChildAt(p, slot) = call.left
  BY SeparatedChild DEF Separated, WithSeparator
<1>2. PICK rank \in [PageIds -> Nat] : Ranked(rank)
  BY DEF HasRanks
<1>3. p # call.left
  <2>1. rank[p] = rank[call.left] + 1 /\ rank[p] \in Nat
    BY <1>1, <1>2, SeparatedRanks
  <2> QED BY <2>1
<1>4. root_page_id # call.left
  BY <1>1, RootHasNoParent
<1>5. root_page_id \in PageIds
  BY <1>1 DEF Rooted
<1>6. ASSUME NEW q \in Inner \ {p}, NEW c \in Children(q)
      PROVE  end[c] = hi[c]
  <2>1. q \in PageIds /\ c \in PageIds
    BY <1>6 DEF Inner, IInv, Shape
  <2>2. PICK j \in 1 .. Size(q) : c = ChildAt(q, j)
    BY <1>6, <2>1, EntriesNow DEF IInv
  <2>3. c # call.left
    BY <1>1, <1>6, <2>2 DEF OneParent
  <2> QED BY <2>1, <2>3 DEF Ends
<1> QED BY <1>1, <1>3, <1>4, <1>5, <1>6 DEF Ends

LEMMA ParentTakesOrdered ==
  ASSUME IInv, Rooted, HasRanks, OneParent,
         NEW lo \in [PageIds -> Nat], NEW hi \in [PageIds -> Int], NEW end,
         Ordered(lo, hi, end), LowestKept(lo), NEW p, NEW slot, NEW t, ParentTakes(p, slot, t)
  PROVE  HasOrder'
<1>1. /\ WithSeparator(p, slot, t) /\ PageIds' = PageIds /\ p \in PageIds /\ ~IsLeaf(p)'
      /\ \A q \in PageIds \ {p} : pages'[q] = pages[q]
      /\ root_page_id' = root_page_id /\ ~At("propagate")' /\ ~OnPath'
  BY DEF ParentTakes, WithSeparator, Idle, OnPath, Inserting, At
<1>2. pages'[p].entries = t
  BY DEF ParentTakes
<1>3. NodeInOrder(p, lo, hi, hi)'
  BY <1>1, <1>2, ParentDivides DEF NodeInOrder
<1>4. /\ end[root_page_id] = hi[root_page_id]
      /\ \A q \in Inner \ {p} : \A c \in Children(q) : end[c] = hi[c]
  BY <1>1, LeftIsElsewhere DEF Ordered
<1>5. ASSUME NEW q \in PageIds \ {p}
      PROVE  NodeInOrder(q, lo, hi, hi)'
  <2>1. /\ q \in PageIds /\ pages'[q] = pages[q] /\ Shape /\ NodeInOrder(q, lo, hi, end)
        /\ q \in Inner => \A c \in Children(q) : lo[c] = lo[c] /\ hi[c] = end[c]
    BY <1>1, <1>4 DEF IInv, Ordered
  <2> QED BY <2>1, SameNodeInOrder
<1>6. \A q \in PageIds' : NodeInOrder(q, lo, hi, hi)'
  BY <1>1, <1>3, <1>5
<1>7. Ordered(lo, hi, hi)' /\ EntryInRange(lo, hi)'
  BY <1>1, <1>4, <1>6 DEF Ordered, Ends, SplitInRange, EntryInRange
<1>8. LowestKept(lo)'
  <2>1. Leaves' = Leaves /\ \A q \in Leaves : pages'[q] = pages[q]
    <3>1. \A q \in PageIds \ {p} : IsLeaf(q)' = IsLeaf(q)
      BY <1>1, SameNode
    <3> QED BY <1>1, <3>1 DEF Leaves, WithSeparator
  <2> QED BY <2>1, LowestUntouched
<1> QED BY <1>1, <1>7, <1>8 DEF HasOrder

LEMMA ParentSplitsOrdered ==
  ASSUME IInv, IInv', Rooted, HasRanks, OneParent,
         NEW lo \in [PageIds -> Nat], NEW hi \in [PageIds -> Int], NEW end,
         Ordered(lo, hi, end), LowestKept(lo),
         NEW p, NEW new, NEW slot, NEW t, NEW mid, ParentSplits(p, new, slot, t, mid)
  PROVE  HasOrder'
<1>1. WithSeparator(p, slot, t) /\ SplitInto(p, new, t, mid)
  BY DEF ParentSplits
<1>2. /\ p \in PageIds /\ new \notin PageIds /\ PageIds' = PageIds \cup {new}
      /\ mid \in 1 .. Len(t) - 1 /\ LeftHalf(t, mid, pages'[p].entries)
      /\ Len(pages'[new].entries) = Len(t) - mid
  BY <1>1 DEF SplitInto, PageIsAdded, LeftHalf
<1>3. ~IsLeaf(p)' /\ ~IsLeaf(new)'
  <2>1. ~IsLeaf(p)
    BY <1>1 DEF WithSeparator
  <2> QED BY <1>1, <2>1, Zenon DEF SplitInto
<1>4. RightHalf(t, mid, pages'[new].entries)
  BY <1>2 DEF ParentSplits, RightHalf
<1>5. PICK k : k = KeyOf(t[mid + 1])
  OBVIOUS
<1>6. PICK lo2 : lo2 = [q \in PageIds' |-> IF q = new THEN k ELSE lo[q]]
  OBVIOUS
<1>7. PICK hi2 : hi2 = [q \in PageIds' |-> IF q = p THEN k ELSE IF q = new THEN hi[p] ELSE hi[q]]
  OBVIOUS
<1>8. PICK end2 : end2 = [q \in PageIds' |-> IF q = new THEN hi[p] ELSE hi[q]]
  OBVIOUS
<1>9. /\ lo2[p] = lo[p] /\ hi2[p] = k /\ lo2[new] = k /\ hi2[new] = hi[p]
      /\ \A q \in PageIds : lo2[q] = lo[q] /\ end2[q] = hi[q]
  BY <1>2, <1>6, <1>7, <1>8
<1>10. SameRanges(t, lo, hi, lo2, end2)
  <2>1. PICK rank \in [PageIds -> Nat] : Ranked(rank)
    BY DEF HasRanks
  <2>2. \A i \in 1 .. Len(t) : Child(t[i]) \in PageIds
    BY <1>1, <2>1, SeparatedRanks
  <2> QED BY <1>9, <2>2 DEF SameRanges
<1>11. Divide(t, lo[p], hi[p], lo, hi)
  BY <1>1, ParentDivides
<1>12. Divide(t, lo[p], hi[p], lo2, end2)
  BY <1>10, <1>11, StillDivide
<1>13. /\ k \in Nat /\ lo[p] <= k /\ Below(k, hi[p])
       /\ Divide(pages'[p].entries, lo[p], k, lo2, end2)
       /\ Divide(pages'[new].entries, k, hi[p], lo2, end2)
  BY <1>2, <1>4, <1>5, <1>12, HalvesDivide
<1>14. NodeInOrder(p, lo2, hi2, end2)' /\ NodeInOrder(new, lo2, hi2, end2)'
  BY <1>3, <1>9, <1>13 DEF NodeInOrder
<1>15. /\ end[root_page_id] = hi[root_page_id]
       /\ \A q \in Inner \ {p} : \A c \in Children(q) : end[c] = hi[c]
  BY <1>1, LeftIsElsewhere DEF Ordered
<1>16. LowestKept(lo2)'
  <2>1. Leaves' = Leaves /\ \A q \in Leaves : pages'[q] = pages[q] /\ lo2[q] = lo[q]
    <3>1. \A q \in PageIds \ {p} : pages'[q] = pages[q] /\ IsLeaf(q)' = IsLeaf(q)
      BY <1>1, SameNode DEF SplitInto
    <3>2. ~IsLeaf(p)
      BY <1>1 DEF WithSeparator
    <3> QED BY <1>2, <1>3, <1>9, <3>1, <3>2 DEF Leaves
  <2> QED BY <2>1, LowestUntouched
<1> QED BY <1>1, <1>5, <1>6, <1>7, <1>8, <1>13, <1>14, <1>15, <1>16, SplitKeepsOrder

LEMMA RootGrowsOrdered ==
  ASSUME IInv, Rooted, HasRanks,
         NEW lo \in [PageIds -> Nat], NEW hi \in [PageIds -> Int], NEW end,
         Ordered(lo, hi, end), LowestKept(lo), NEW new, RootGrows(new)
  PROVE  HasOrder'
<1>1. /\ At("propagate") /\ call.left = root_page_id
      /\ PageIds' = PageIds \cup {new} /\ new \notin PageIds /\ ~IsLeaf(new)'
      /\ \A q \in PageIds : pages'[q] = pages[q]
      /\ root_page_id' = new /\ ~At("propagate")' /\ ~OnPath'
  BY DEF RootGrows, PageIsAdded, Idle, OnPath, Inserting, At
<1>2. PICK s : s = <<<<INVALID_KEY, call.left>>, call.separator>>
  OBVIOUS
<1>3. pages'[new].entries = s
  BY <1>2 DEF RootGrows
<1>4. PICK k : k = KeyOf(call.separator)
  OBVIOUS
<1>5. PICK d : d = Child(call.separator)
  OBVIOUS
<1>6. PICK top : top = root_page_id
  OBVIOUS
<1>7. k \in Nat /\ d \in PageIds /\ top \in PageIds /\ call.left = top
  BY <1>1, <1>4, <1>5, <1>6, Propagating, EntryParts
<1>8. /\ Len(s) = 2 /\ KeyOf(s[1]) = INVALID_KEY /\ Child(s[1]) = top
      /\ KeyOf(s[2]) = k /\ Child(s[2]) = d
  BY <1>2, <1>4, <1>5, <1>7 DEF KeyOf, Child
<1>9. /\ lo[top] = 0 /\ hi[top] = k /\ lo[d] = k /\ hi[d] = Unbounded
  BY <1>1, <1>4, <1>5, <1>6, <1>7 DEF Ordered, Ends, SplitInRange
<1>10. PICK lo2 : lo2 = [q \in PageIds' |-> IF q = new THEN 0 ELSE lo[q]]
  OBVIOUS
<1>11. PICK hi2 : hi2 = [q \in PageIds' |-> IF q = new THEN Unbounded ELSE hi[q]]
  OBVIOUS
<1>12. /\ lo2 \in [PageIds' -> Nat] /\ hi2 \in [PageIds' -> Int]
       /\ lo2[new] = 0 /\ hi2[new] = Unbounded
       /\ \A q \in PageIds : lo2[q] = lo[q] /\ hi2[q] = hi[q]
  BY <1>1, <1>10, <1>11 DEF Unbounded
<1>13. Divide(s, 0, Unbounded, lo2, hi2)
  <2>1. \A i \in 1 .. Len(s) : i = 1 \/ i = 2
    BY <1>8
  <2>2. InOrder(s)
    <3>1. ASSUME NEW i \in 1 .. Len(s), NEW j \in 1 .. Len(s), i <= j
          PROVE  KeyOf(s[i]) <= KeyOf(s[j])
      <4>1. CASE i = 1
        BY <1>7, <1>8, <2>1, <4>1 DEF INVALID_KEY
      <4>2. CASE i = 2
        BY <1>7, <1>8, <2>1, <3>1, <4>2
      <4> QED BY <2>1, <4>1, <4>2
    <3> QED BY <3>1 DEF InOrder
  <2>3. \A i \in 1 .. Len(s) : KeyOf(s[i]) \in Nat
    BY <1>7, <1>8, <2>1 DEF INVALID_KEY
  <2>4. \A i \in 2 .. Len(s) : 0 <= KeyOf(s[i]) /\ Below(KeyOf(s[i]), Unbounded)
    BY <1>7, <1>8 DEF Below
  <2>5. ASSUME NEW i \in 1 .. Len(s)
        PROVE  /\ lo2[Child(s[i])] = (IF i = 1 THEN 0 ELSE KeyOf(s[i]))
               /\ hi2[Child(s[i])] = (IF i = Len(s) THEN Unbounded ELSE KeyOf(s[i + 1]))
    <3>1. CASE i = 1
      BY <1>7, <1>8, <1>9, <1>12, <3>1
    <3>2. CASE i = 2
      BY <1>7, <1>8, <1>9, <1>12, <3>2
    <3> QED BY <2>1, <3>1, <3>2
  <2> QED BY <1>8, <2>2, <2>3, <2>4, <2>5 DEF Divide, Unbounded
<1>14. NodeInOrder(new, lo2, hi2, hi2)'
  BY <1>1, <1>3, <1>12, <1>13 DEF NodeInOrder
<1>15. ASSUME NEW q \in PageIds
       PROVE  NodeInOrder(q, lo2, hi2, hi2)'
  <2>1. ASSUME q \in Inner, NEW c \in Children(q)
        PROVE  lo2[c] = lo[c] /\ hi2[c] = end[c]
    <3>1. c \in PageIds /\ c # call.left
      BY <1>1, <2>1, RootHasNoParent DEF IInv, Shape
    <3>2. end[c] = hi[c]
      BY <3>1 DEF Ordered, Ends
    <3> QED BY <1>12, <3>1, <3>2
  <2>2. /\ pages'[q] = pages[q] /\ lo2[q] = lo[q] /\ hi2[q] = hi[q] /\ Shape
        /\ NodeInOrder(q, lo, hi, end)
        /\ q \in Inner => \A c \in Children(q) : lo2[c] = lo[c] /\ hi2[c] = end[c]
    BY <1>1, <1>12, <2>1 DEF IInv, Ordered
  <2> QED BY <2>2, SameNodeInOrder
<1>16. \A q \in PageIds' : NodeInOrder(q, lo2, hi2, hi2)'
  BY <1>1, <1>14, <1>15
<1>17. Ordered(lo2, hi2, hi2)' /\ EntryInRange(lo2, hi2)'
  BY <1>1, <1>12, <1>16 DEF Ordered, Ends, SplitInRange, EntryInRange
<1>18. LowestKept(lo2)'
  <2>1. Leaves' = Leaves /\ \A q \in Leaves : pages'[q] = pages[q] /\ lo2[q] = lo[q]
    <3>1. \A q \in PageIds : IsLeaf(q)' = IsLeaf(q)
      BY <1>1, SameNode
    <3> QED BY <1>1, <1>12, <3>1 DEF Leaves
  <2> QED BY <2>1, LowestUntouched
<1> QED BY <1>12, <1>17, <1>18 DEF HasOrder

(* find_child_index leads the entry into the range of a child. *)
LEMMA VisitInRange ==
  ASSUME IInv, NEW lo \in [PageIds -> Nat], NEW hi \in [PageIds -> Int], NEW end,
         Ordered(lo, hi, end), Inserting, ~At("propagate"),
         NEW p \in PageIds, lo[p] <= KeyOf(call.entry), Below(KeyOf(call.entry), hi[p]),
         NEW path, p = Last(path), Visit(p, path)
  PROVE  EntryInRange(lo, hi)'
<1>1. PICK k \in Nat : k = KeyOf(call.entry)
  BY EntryParts DEF IInv, Shape
<1>2. CASE IsLeaf(p)
  <2>1. At("leaf")' /\ call'.entry = call.entry /\ call'.path = path
    BY <1>2 DEF Visit, At
  <2>2. Bottom' = p
    BY <2>1, BottomIsNext
  <2> QED BY <2>1, <2>2 DEF EntryInRange
<1>3. CASE ~IsLeaf(p)
  <2>1. PICK slot \in DOMAIN pages[p].entries :
          /\ IsChildIndex(pages[p].entries, k, slot)
          /\ call' = [pc |-> "descend", entry |-> call.entry, path |-> path,
                      child |-> ChildAt(p, slot)]
    BY <1>1, <1>3 DEF Visit
  <2>2. At("descend")' /\ call'.entry = call.entry /\ call'.child = ChildAt(p, slot)
    BY <2>1 DEF At
  <2>3. Bottom' = ChildAt(p, slot)
    BY <2>2, BottomIsNext
  <2>4. p \in Inner /\ Shape /\ Divide(pages[p].entries, lo[p], hi[p], lo, end)
    BY <1>3 DEF IInv, Ordered, NodeInOrder, Inner, Leaves
  <2>5. PICK n \in Nat \ {0} : n = Size(p)
    BY <2>4, EntriesNow
  <2>6. PICK i \in 1 .. n : i = slot
    BY <2>1, <2>4, <2>5, EntriesNow
  <2>7. PICK c \in PageIds : c = ChildAt(p, i)
    BY <2>4, <2>5, EntriesNow DEF Shape
  <2>8. hi[c] = end[c]
    BY DEF Ordered, Ends
  <2>9. KeyAt(p, i) <= k /\ (i < n => KeyAt(p, i + 1) > k)
    BY <2>1, <2>5, <2>6 DEF IsChildIndex, KeyAt, Size
  <2>10. /\ lo[c] = (IF i = 1 THEN lo[p] ELSE KeyAt(p, i))
         /\ end[c] = (IF i = n THEN hi[p] ELSE KeyAt(p, i + 1))
    BY <2>4, <2>5, <2>7 DEF Divide, KeyAt, ChildAt, Size
  <2>11. lo[c] <= k
    BY <1>1, <2>9, <2>10
  <2>12. Below(k, hi[c])
    <3>1. CASE i = n
      BY <1>1, <2>8, <2>10, <3>1
    <3>2. CASE i # n
      <4>1. i < n /\ i + 1 \in 1 .. n
        BY <3>2
      <4>2. KeyAt(p, i + 1) \in Nat /\ KeyAt(p, i + 1) > k
        BY <2>4, <2>5, <2>9, <4>1, EntriesNow
      <4> QED BY <2>8, <2>10, <3>2, <4>2 DEF Below
    <3> QED BY <3>1, <3>2
  <2> QED BY <1>1, <2>2, <2>3, <2>6, <2>7, <2>11, <2>12 DEF EntryInRange
<1> QED BY <1>2, <1>3

LEMMA EntryStaysInRange ==
  ASSUME IInv, [Next]_vars, NEW lo \in [PageIds -> Nat], NEW hi \in [PageIds -> Int], NEW end,
         Ordered(lo, hi, end), EntryInRange(lo, hi)
  PROVE  (OnPath /\ ~At("propagate"))' => EntryInRange(lo, hi)'
<1>1. CASE insert_at_root
  <2>1. /\ At("start") /\ Inserting /\ ~At("propagate") /\ root_page_id \in PageIds
        /\ Visit(root_page_id, <<root_page_id>>)
    BY <1>1 DEF insert_at_root, IInv, Shape, Inserting, At
  <2>2. PICK p \in PageIds : p = root_page_id
    BY <2>1
  <2>3. KeyOf(call.entry) \in Nat
    BY <2>1, EntryParts DEF IInv, Shape
  <2>4. lo[p] = 0 /\ hi[p] = Unbounded
    BY <2>1, <2>2 DEF Ordered, Ends
  <2>5. lo[p] <= KeyOf(call.entry) /\ Below(KeyOf(call.entry), hi[p])
    BY <2>3, <2>4 DEF Below
  <2>6. PICK path : path = <<p>>
    OBVIOUS
  <2>7. p = Last(path) /\ Visit(p, path)
    BY <2>1, <2>2, <2>6 DEF Last
  <2> QED BY <2>1, <2>5, <2>7, VisitInRange
<1>2. CASE descend
  <2>1. /\ At("descend") /\ Inserting /\ OnPath /\ ~At("propagate")
        /\ Visit(call.child, Append(PathAbove(call.child), call.child))
    BY <1>2 DEF descend, OnPath, Inserting, At
  <2>2. Bottom = call.child /\ call.path \in Seq(PageIds)
    BY <2>1, BottomIs DEF IInv, Shape
  <2>3. PICK p \in PageIds : p = call.child
    BY <2>1, <2>2 DEF IInv, Shape
  <2>4. lo[p] <= KeyOf(call.entry) /\ Below(KeyOf(call.entry), hi[p])
    BY <2>1, <2>2, <2>3 DEF EntryInRange
  <2>5. PICK above \in Seq(PageIds) : above = PathAbove(call.child)
    <3>1. <<>> \in Seq(PageIds)
      BY EmptySeq
    <3> QED BY <2>2, <3>1, Zenon DEF PathAbove
  <2>6. PICK path : path = Append(above, p)
    OBVIOUS
  <2>7. p = Last(path)
    BY <2>5, <2>6, AppendProperties DEF Last
  <2>8. Visit(p, path)
    BY <2>1, <2>3, <2>5, <2>6
  <2> QED BY <2>1, <2>4, <2>7, <2>8, VisitInRange
<1>3. CASE insert_leaf
  <2>1. ASSUME NEW p, NEW t, LeafTakes(p, t)
        PROVE  ~OnPath'
    BY <2>1 DEF LeafTakes, Idle, OnPath, Inserting, At
  <2>2. CASE /\ At("leaf") /\ At("split")' /\ Bottom' = Bottom /\ call'.entry = call.entry
    BY <2>2 DEF EntryInRange, OnPath, Inserting, At
  <2> QED BY <1>3, <2>1, <2>2, LeafTaken
<1>4. CASE insert_first \/ propagate \/ grow_root
  BY <1>4 DEF insert_first, propagate, grow_root, Idle, OnPath, Inserting, At
<1>5. CASE split_leaf \/ split_internal
  BY <1>5, LeafSplitMade, ParentSplitMade DEF LeafSplits, ParentSplits, SplitInto
<1>6. CASE scan_next
  <2>1. /\ At("scan") /\ "pc" \in DOMAIN call
        /\ \/ call' = Idle
           \/ call' = [call EXCEPT !.page = pages[call.page].next,
                                   !.seen = @ \o pages[call.page].entries]
    BY <1>6 DEF scan_next, IInv, Shape, At
  <2>2. call'.pc \in {"idle", "scan"}
    <3>1. CASE call' = Idle
      BY <3>1 DEF Idle
    <3>2. ASSUME NEW next, NEW seen, call' = [call EXCEPT !.page = next, !.seen = seen]
          PROVE  call'.pc = call.pc
      BY <2>1, <3>2
    <3> QED BY <2>1, <3>1, <3>2 DEF At
  <2> QED BY <2>2 DEF OnPath, Inserting
<1>7. CASE find_in_empty
  BY <1>7 DEF find_in_empty, OnPath, Inserting
<1>8. ASSUME NEW k \in Key, find(k) \/ scan(k)
      PROVE  ~OnPath'
  <2>1. \/ At("idle") /\ call' = call
        \/ call' = [pc |-> "scan", from |-> k, page |-> LeafFor(k), seen |-> <<>>]
    BY <1>8 DEF find, scan
  <2> QED BY <2>1 DEF OnPath, Inserting, At
<1>9. ASSUME NEW k \in Key, NEW r \in Rid, insert(k, r)
      PROVE  ~OnPath'
  BY <1>9 DEF insert, OnPath, Inserting, At
<1>10. CASE UNCHANGED vars
  <2>1. call' = call
    BY <1>10 DEF vars
  <2> QED BY <2>1 DEF EntryInRange, OnPath, Inserting, At, Bottom
<1> QED BY <1>1, <1>2, <1>3, <1>4, <1>5, <1>6, <1>7, <1>8, <1>9, <1>10
       DEF Next, InsertContinues, Halted

LEMMA StepKeepsOrder ==
  ASSUME IInv, IInv', [Next]_vars, Rooted, HasRanks, OneParent, Linked, HasOrder
  PROVE  HasOrder'
<1>1. PICK lo \in [PageIds -> Nat], hi \in [PageIds -> Int], end \in [PageIds -> Int] :
        Ordered(lo, hi, end) /\ EntryInRange(lo, hi) /\ LowestKept(lo)
  BY DEF HasOrder
<1>2. ASSUME NEW new, FirstLeaf(new)
      PROVE  HasOrder'
  BY <1>2, FirstLeafOrdered
<1>3. ASSUME NEW p, NEW t, LeafTakes(p, t)
      PROVE  HasOrder'
  BY <1>1, <1>3, LeafTakesOrdered
<1>4. ASSUME NEW p, NEW new, NEW t, NEW mid, LeafSplits(p, new, t, mid)
      PROVE  HasOrder'
  BY <1>1, <1>4, LeafSplitsOrdered DEF IInv
<1>5. ASSUME NEW p, NEW slot, NEW t, ParentTakes(p, slot, t)
      PROVE  HasOrder'
  BY <1>1, <1>5, ParentTakesOrdered
<1>6. ASSUME NEW p, NEW new, NEW slot, NEW t, NEW mid, ParentSplits(p, new, slot, t, mid)
      PROVE  HasOrder'
  BY <1>1, <1>6, ParentSplitsOrdered
<1>7. ASSUME NEW new, RootGrows(new)
      PROVE  HasOrder'
  BY <1>1, <1>7, RootGrowsOrdered
<1>8. CASE Quiet
  <2>1. /\ PageIds' = PageIds /\ root_page_id' = root_page_id /\ pages' = pages
        /\ (At("propagate") \/ At("propagate")') => call' = call
    BY <1>8 DEF Quiet, PageIds
  <2>2. \A q \in PageIds : NodeInOrder(q, lo, hi, end)'
    BY <1>1, <2>1, SameNodeInOrder DEF IInv, Ordered
  <2>3. Ends(hi, end)' /\ SplitInRange(lo, hi)'
    BY <1>1, <2>1 DEF Ordered, Ends, SplitInRange, At
  <2>4. Ordered(lo, hi, end)'
    BY <1>1, <2>1, <2>2, <2>3 DEF Ordered
  <2>5. EntryInRange(lo, hi)'
    BY <1>1, EntryStaysInRange DEF EntryInRange
  <2>6. LowestKept(lo)'
    <3>1. Leaves' = Leaves
      BY <2>1, SameNode DEF Leaves
    <3> QED BY <1>1, <2>1, <3>1, LowestUntouched
  <2> QED BY <1>1, <2>1, <2>4, <2>5, <2>6 DEF HasOrder
<1> QED BY <1>2, <1>3, <1>4, <1>5, <1>6, <1>7, <1>8, StepKinds

-----------------------------------------------------------------------------
(* The searches. *)

(* The entries of a node that is in order, as the searches need them. *)
LEMMA NodeSearched ==
  ASSUME IInv, HasOrder, NEW p \in PageIds, NEW es, es = pages[p].entries
  PROVE  /\ Len(es) \in Nat \ {0} /\ DOMAIN es = 1 .. Len(es) /\ InOrder(es)
         /\ \A i \in 1 .. Len(es) : KeyOf(es[i]) \in Nat /\ KeyOf(es[i]) \in Int
         /\ ~IsLeaf(p) => KeyOf(es[1]) = INVALID_KEY
<1>1. PICK lo \in [PageIds -> Nat], hi \in [PageIds -> Int], end \in [PageIds -> Int] :
        Ordered(lo, hi, end)
  BY DEF HasOrder
<1>2. NodeInOrder(p, lo, hi, end)
  BY <1>1 DEF Ordered
<1>3. InOrder(es) /\ (~IsLeaf(p) => KeyOf(es[1]) = INVALID_KEY)
  <2>1. CASE IsLeaf(p)
    BY <1>2, <2>1 DEF NodeInOrder, Within
  <2>2. CASE ~IsLeaf(p)
    BY <1>2, <2>2 DEF NodeInOrder, Divide
  <2> QED BY <2>1, <2>2
<1>4. /\ Len(es) \in Nat \ {0} /\ DOMAIN es = 1 .. Len(es)
      /\ \A i \in 1 .. Len(es) : KeyOf(es[i]) \in Nat
  BY EntriesNow DEF IInv, Size, KeyAt
<1> QED BY <1>3, <1>4

LEMMA SearchesAreRight ==
  ASSUME IInv, HasOrder
  PROVE  SearchesAgree
<1> SUFFICES ASSUME NEW p \in PageIds, NEW k \in Key
             PROVE  IF IsLeaf(p)
                    THEN IF k \in Keys(p)
                         THEN /\ find_kv(pages[p].entries, k) \in ToSet(pages[p].entries)
                              /\ KeyOf(find_kv(pages[p].entries, k)) = k
                         ELSE find_kv(pages[p].entries, k) = None
                    ELSE {i \in DOMAIN pages[p].entries : IsChildIndex(pages[p].entries, k, i)}
                           = {find_child_index(pages[p].entries, k)}
  BY DEF SearchesAgree
<1>1. PICK es : es = pages[p].entries
  OBVIOUS
<1>2. /\ Len(es) \in Nat \ {0} /\ Len(es) \in Nat /\ DOMAIN es = 1 .. Len(es) /\ InOrder(es)
      /\ \A i \in 1 .. Len(es) : KeyOf(es[i]) \in Int
      /\ ~IsLeaf(p) => KeyOf(es[1]) = INVALID_KEY
  BY <1>1, NodeSearched
<1>3. k \in Nat /\ k \in Int
  BY TreeAssumption
<1>4. CASE IsLeaf(p)
  <2>1. k \in Keys(p) <=> \E i \in 1 .. Len(es) : KeyOf(es[i]) = k
    BY <1>1, <1>2 DEF Keys
  <2>2. IF \E i \in 1 .. Len(es) : KeyOf(es[i]) = k
        THEN \E i \in 1 .. Len(es) : find_kv(es, k) = es[i] /\ KeyOf(es[i]) = k
        ELSE find_kv(es, k) = None
    BY <1>2, <1>3, KvFound
  <2>3. \A i \in 1 .. Len(es) : es[i] \in ToSet(es)
    BY <1>2 DEF ToSet
  <2> QED BY <1>1, <1>4, <2>1, <2>2, <2>3
<1>5. CASE ~IsLeaf(p)
  <2>1. KeyOf(es[1]) <= k
    BY <1>2, <1>3, <1>5 DEF INVALID_KEY
  <2>2. /\ find_child_index(es, k) \in 1 .. Len(es)
        /\ IsChildIndex(es, k, find_child_index(es, k))
    BY <1>2, <1>3, <2>1, ChildIndexFound
  <2>3. PICK j \in 1 .. Len(es) : j = find_child_index(es, k)
    BY <2>2
  <2>4. ASSUME NEW i \in 1 .. Len(es), IsChildIndex(es, k, i)
        PROVE  i = j
    BY <1>2, <1>3, <2>2, <2>3, <2>4, OneChildIndex
  <2>5. {i \in DOMAIN es : IsChildIndex(es, k, i)} = {j}
    BY <1>2, <2>2, <2>3, <2>4
  <2> QED BY <1>1, <1>5, <2>3, <2>5
<1> QED BY <1>4, <1>5

(* A child is a page of a lower rank. *)
LEMMA ChildRank ==
  ASSUME Shape, NEW rank \in [PageIds -> Nat], Ranked(rank), NEW p \in PageIds, ~IsLeaf(p),
         NEW i \in DOMAIN pages[p].entries
  PROVE  Child(pages[p].entries[i]) \in PageIds /\ rank[Child(pages[p].entries[i])] < rank[p]
<1>1. p \in Inner
  BY DEF Inner, Leaves
<1>2. PICK c : c = Child(pages[p].entries[i])
  OBVIOUS
<1>3. c \in Children(p)
  BY <1>2 DEF Children
<1>4. c \in PageIds /\ rank[p] = rank[c] + 1
  BY <1>1, <1>3 DEF Shape, Ranked, TreeLevels
<1> QED BY <1>2, <1>4

(* The way down from a page: find_leaf takes the child that                *)
(* find_child_index gives, one level lower, and ends in a leaf.            *)
IsDescent(f, k) ==
  f = [p \in PageIds |->
         IF IsLeaf(p) THEN p
         ELSE f[Child(pages[p].entries[find_child_index(pages[p].entries, k)])]]

(* Where find_leaf goes from page p. *)
Down(p, k) == Child(pages[p].entries[find_child_index(pages[p].entries, k)])

LEMMA DownIsChild ==
  ASSUME IInv, HasOrder, NEW p \in PageIds, ~IsLeaf(p), NEW k \in Key
  PROVE  \E i \in 1 .. Size(p) :
           /\ Down(p, k) = ChildAt(p, i) /\ ChildAt(p, i) \in PageIds
           /\ IsChildIndex(pages[p].entries, k, i)
<1>1. PICK es : es = pages[p].entries
  OBVIOUS
<1>2. /\ Len(es) \in Nat \ {0} /\ \A i \in 1 .. Len(es) : KeyOf(es[i]) \in Int
      /\ KeyOf(es[1]) = INVALID_KEY
  BY <1>1, NodeSearched
<1>3. k \in Int /\ KeyOf(es[1]) <= k
  BY <1>2, TreeAssumption DEF INVALID_KEY
<1>4. PICK i \in 1 .. Len(es) : i = find_child_index(es, k) /\ IsChildIndex(es, k, i)
  BY <1>2, <1>3, ChildIndexFound
<1>5. Down(p, k) = ChildAt(p, i)
  BY <1>1, <1>4 DEF ChildAt, Down
<1>6. p \in Inner /\ Shape /\ i \in 1 .. Size(p)
  BY <1>1, <1>4 DEF Inner, Leaves, IInv, Size
<1>7. ChildAt(p, i) \in PageIds
  BY <1>6, EntriesNow DEF Shape
<1> QED BY <1>1, <1>4, <1>5, <1>6, <1>7

(* What it finds is in R of the root if this holds of a leaf, and what is  *)
(* in R of the child it takes is in R of the page.                         *)
LEMMA LeafForFinds ==
  ASSUME IInv, Rooted, HasRanks, HasOrder, header_root \in PageIds, NEW k \in Key, NEW R,
         \A p \in PageIds : IF IsLeaf(p) THEN p \in R[p] ELSE R[Down(p, k)] \subseteq R[p]
  PROVE  LeafFor(k) \in R[header_root]
<1>1. PICK rank \in [PageIds -> Nat] : Ranked(rank)
  BY DEF HasRanks
<1>2. ASSUME NEW p \in PageIds, ~IsLeaf(p)
      PROVE  Down(p, k) \in PageIds /\ rank[Down(p, k)] < rank[p]
  <2>1. PICK i \in 1 .. Size(p) : Down(p, k) = ChildAt(p, i)
    BY <1>2, DownIsChild
  <2>2. Shape /\ i \in DOMAIN pages[p].entries
    BY EntriesNow DEF IInv
  <2> QED BY <1>1, <1>2, <2>1, <2>2, ChildRank DEF ChildAt
<1>3. PICK D : D = PageIds
  OBVIOUS
<1>4. PICK done : done = [p \in D |-> IsLeaf(p)]
  OBVIOUS
<1>5. PICK val : val = [p \in D |-> p]
  OBVIOUS
<1>6. PICK next : next = [p \in D |-> Down(p, k)]
  OBVIOUS
<1>7. \A p \in D : (done[p] <=> IsLeaf(p)) /\ val[p] = p /\ next[p] = Down(p, k)
  <2>1. \A p \in D : done[p] <=> IsLeaf(p)
    BY <1>4, Zenon
  <2>2. \A p \in D : val[p] = p
    BY <1>5
  <2>3. \A p \in D : next[p] = Down(p, k)
    BY <1>6
  <2> QED BY <2>1, <2>2, <2>3
<1>8. Falls(D, done, next, rank)
  BY <1>2, <1>3, <1>7 DEF Falls
<1>9. ASSUME NEW f
      PROVE  IsDescent(f, k) <=> Searches(f, D, done, val, next)
  <2>1. \A p \in D : (IF IsLeaf(p) THEN p ELSE f[Down(p, k)])
                       = IF done[p] THEN val[p] ELSE f[next[p]]
    BY <1>7
  <2>2. IsDescent(f, k) <=> f = [p \in D |-> IF IsLeaf(p) THEN p ELSE f[Down(p, k)]]
    BY <1>3, Zenon DEF IsDescent, Down
  <2>3. [p \in D |-> IF IsLeaf(p) THEN p ELSE f[Down(p, k)]]
          = [p \in D |-> IF done[p] THEN val[p] ELSE f[next[p]]]
    BY <2>1, Zenon
  <2> QED BY <2>2, <2>3, Zenon DEF Searches
<1>10. \E f : Searches(f, D, done, val, next)
  <2>1. PICK r \in Nat : r = rank[root_page_id]
    BY DEF Rooted
  <2>2. \A p \in D : rank[p] < r + 1
    BY <1>1, <1>3, <2>1 DEF Ranked
  <2>3. r + 1 \in Nat
    BY <2>1
  <2> QED BY <1>3, <1>8, <2>2, <2>3, SearchExists
<1>11. PICK f : f = CHOOSE g : IsDescent(g, k)
  OBVIOUS
<1>12. Searches(f, D, done, val, next)
  BY <1>9, <1>10, <1>11, Zenon
<1>13. LeafFor(k) = f[header_root]
  BY <1>11 DEF LeafFor, IsDescent
<1>14. Leads(R, D, done, val, next)
  BY <1>3, <1>7 DEF Leads
<1>15. f[header_root] \in R[header_root]
  BY <1>3, <1>8, <1>12, <1>14, SearchFinds
<1> QED BY <1>13, <1>15

LEMMA LeafForIsLeaf ==
  ASSUME IInv, Rooted, HasRanks, HasOrder, header_root \in PageIds, NEW k \in Key
  PROVE  LeafFor(k) \in Leaves
<1>1. PICK R : R = [p \in PageIds |-> Leaves]
  OBVIOUS
<1>2. ASSUME NEW p \in PageIds, ~IsLeaf(p)
      PROVE  Down(p, k) \in PageIds
  BY <1>2, DownIsChild DEF IInv
<1>3. \A p \in PageIds : IF IsLeaf(p) THEN p \in R[p] ELSE R[Down(p, k)] \subseteq R[p]
  BY <1>1, <1>2 DEF Leaves
<1> QED BY <1>1, <1>3, LeafForFinds

-----------------------------------------------------------------------------
(* The links of the leaves, and what a scan and a find have in hand. *)

LEMMA StepKeepsLinks ==
  ASSUME IInv, [Next]_vars, Rooted, Linked
  PROVE  Linked'
<1>1. \A q : pages'[q] = pages[q] => IsLeaf(q)' = IsLeaf(q)
  BY SameNode
<1>2. ASSUME NEW new, FirstLeaf(new)
      PROVE  Linked'
  <2>1. PageIds' = {new} /\ pages'[new].next = INVALID_PAGE_ID
    BY <1>2, NoLeafBeforeRoot DEF FirstLeaf
  <2> QED BY <2>1 DEF Linked, Leaves
<1>3. ASSUME NEW p, NEW t, LeafTakes(p, t)
      PROVE  Linked'
  <2>1. /\ PageIds' = PageIds /\ p \in PageIds /\ IsLeaf(p) /\ IsLeaf(p)'
        /\ \A q \in PageIds \ {p} : pages'[q] = pages[q]
        /\ pages'[p].next = pages[p].next
    BY <1>3 DEF LeafTakes, WithEntry
  <2>2. Leaves' = Leaves
    BY <1>1, <2>1 DEF Leaves
  <2> QED BY <2>1, <2>2 DEF Linked, Leaves
<1>4. ASSUME NEW p, NEW new, NEW t, NEW mid, LeafSplits(p, new, t, mid)
      PROVE  Linked'
  <2>1. /\ PageIds' = PageIds \cup {new} /\ p \in PageIds /\ IsLeaf(p) /\ new \notin PageIds
        /\ \A q \in PageIds \ {p} : pages'[q] = pages[q]
        /\ pages'[p].next = new /\ pages'[new].next = pages[p].next
    BY <1>4 DEF LeafSplits, SplitInto, PageIsAdded, WithEntry
  <2>2. IsLeaf(p)' /\ IsLeaf(new)'
    BY <1>4, <2>1, Zenon DEF LeafSplits, SplitInto
  <2>3. Leaves' = Leaves \cup {new} /\ p \in Leaves
    BY <1>1, <2>1, <2>2 DEF Leaves
  <2>4. \A q \in Leaves \ {p} : pages'[q] = pages[q]
    BY <2>1 DEF Leaves
  <2> QED BY <2>1, <2>3, <2>4 DEF Linked
<1>5. ASSUME NEW p, NEW new, p \in PageIds, ~IsLeaf(p), ~IsLeaf(p)',
             PageIds' = PageIds \/ (PageIds' = PageIds \cup {new} /\ ~IsLeaf(new)'),
             new \notin PageIds, \A q \in PageIds \ {p} : pages'[q] = pages[q]
      PROVE  Linked'
  <2>1. Leaves' = Leaves /\ \A q \in Leaves : pages'[q] = pages[q]
    BY <1>1, <1>5 DEF Leaves
  <2> QED BY <2>1 DEF Linked
<1>6. ASSUME NEW p, NEW slot, NEW t, ParentTakes(p, slot, t)
      PROVE  Linked'
  <2>1. /\ p \in PageIds /\ ~IsLeaf(p) /\ ~IsLeaf(p)' /\ PageIds' = PageIds
        /\ \A q \in PageIds \ {p} : pages'[q] = pages[q]
    BY <1>6 DEF ParentTakes, WithSeparator
  <2>2. Leaves' = Leaves /\ \A q \in Leaves : pages'[q] = pages[q]
    BY <1>1, <2>1 DEF Leaves
  <2> QED BY <2>2 DEF Linked
<1>7. ASSUME NEW p, NEW new, NEW slot, NEW t, NEW mid, ParentSplits(p, new, slot, t, mid)
      PROVE  Linked'
  <2>1. WithSeparator(p, slot, t) /\ SplitInto(p, new, t, mid)
    BY <1>7 DEF ParentSplits
  <2>2. p \in PageIds /\ ~IsLeaf(p)
    BY <2>1 DEF WithSeparator
  <2>3. ~IsLeaf(p)' /\ ~IsLeaf(new)'
    BY <2>1, <2>2, Zenon DEF SplitInto
  <2>4. /\ PageIds' = PageIds \cup {new} /\ new \notin PageIds
        /\ \A q \in PageIds \ {p} : pages'[q] = pages[q]
    BY <2>1 DEF SplitInto, PageIsAdded
  <2> QED BY <1>5, <2>2, <2>3, <2>4
<1>8. ASSUME NEW new, RootGrows(new)
      PROVE  Linked'
  <2>1. /\ PageIds' = PageIds \cup {new} /\ new \notin PageIds /\ ~IsLeaf(new)'
        /\ \A q \in PageIds : pages'[q] = pages[q]
    BY <1>8 DEF RootGrows, PageIsAdded
  <2>2. Leaves' = Leaves /\ \A q \in Leaves : pages'[q] = pages[q]
    BY <1>1, <2>1 DEF Leaves
  <2> QED BY <2>2 DEF Linked
<1>9. CASE Quiet
  <2>1. Leaves' = Leaves /\ \A q : pages'[q] = pages[q]
    BY <1>1, <1>9 DEF Leaves, PageIds, Quiet
  <2> QED BY <2>1 DEF Linked
<1> QED BY <1>2, <1>3, <1>4, <1>6, <1>7, <1>8, <1>9, StepKinds

ScanCall ==
  [pc : {"scan"}, from : Key, page : Leaves \cup {INVALID_PAGE_ID}, seen : LeafEntries]

CallShape ==
  \/ call = Idle
  \/ call = [pc |-> "panicked"] /\ PageIds = {}
  \/ call \in ScanCall
  \/ Inserting

Answered == answer \in (Key \X Rid) \cup {None}

(* A find answers with an entry of the leaf it descends to, or None. *)
LEMMA FindAnswers ==
  ASSUME IInv, HasRanks, HasOrder, Rooted, NEW k \in Key, find(k)
  PROVE  Answered'
<1>1. PageIds # {} /\ header_root \in PageIds
  BY DEF find, Rooted
<1>2. PICK p \in PageIds : p = LeafFor(k) /\ IsLeaf(p)
  BY <1>1, LeafForIsLeaf DEF Leaves
<1>3. PICK es : es = pages[p].entries
  OBVIOUS
<1>4. /\ Len(es) \in Nat /\ InOrder(es) /\ \A i \in 1 .. Len(es) : KeyOf(es[i]) \in Int
  BY <1>3, NodeSearched
<1>5. k \in Int
  BY TreeAssumption
<1>6. find_kv(es, k) = None \/ \E i \in 1 .. Len(es) : find_kv(es, k) = es[i]
  BY <1>4, <1>5, KvFound
<1>7. es \in Seq(Key \X Rid)
  BY <1>2, <1>3, NodeFacts DEF IInv, LeafEntries
<1>8. \A i \in 1 .. Len(es) : es[i] \in Key \X Rid
  BY <1>7, ElementOfSeq
<1>9. answer' = find_kv(es, k)
  BY <1>2, <1>3 DEF find
<1> QED BY <1>6, <1>8, <1>9 DEF Answered

LEMMA ScanGoesOn ==
  ASSUME IInv, Linked, CallShape, scan_next
  PROVE  CallShape'
<1>1. call \in ScanCall /\ UNCHANGED <<pages, root_page_id, header_root, answer>>
  BY DEF scan_next, CallShape, At, Idle, Inserting
<1>2. PageIds' = PageIds /\ Leaves' = Leaves
  BY <1>1 DEF PageIds, Leaves, IsLeaf
<1>3. CASE call.page = INVALID_PAGE_ID
  BY <1>3 DEF scan_next, CallShape, Idle
<1>4. CASE call.page # INVALID_PAGE_ID
  <2>1. PICK p \in Leaves : p = call.page
    BY <1>1, <1>4 DEF ScanCall
  <2>2. p \in PageIds /\ IsLeaf(p)
    BY <2>1 DEF Leaves
  <2>3. PICK next : next = pages[p].next
    OBVIOUS
  <2>4. PICK seen : seen = call.seen \o pages[p].entries
    OBVIOUS
  <2>5. next \in Leaves \cup {INVALID_PAGE_ID}
    BY <2>1, <2>3 DEF Linked
  <2>6. call.seen \in LeafEntries /\ pages[p].entries \in LeafEntries
    BY <1>1, <2>2, NodeFacts DEF IInv, ScanCall
  <2>7. seen \in LeafEntries
    BY <2>4, <2>6, ConcatProperties DEF LeafEntries
  <2>8. call' = [call EXCEPT !.page = next, !.seen = seen]
    BY <1>4, <2>1, <2>3, <2>4 DEF scan_next
  <2>9. call' \in ScanCall
    BY <1>1, <2>5, <2>7, <2>8 DEF ScanCall
  <2>10. ScanCall' = ScanCall
    BY <1>2 DEF ScanCall
  <2> QED BY <2>9, <2>10 DEF CallShape
<1> QED BY <1>3, <1>4

LEMMA ScanStarts ==
  ASSUME IInv, Rooted, HasRanks, HasOrder, NEW k \in Key, scan(k)
  PROVE  CallShape'
<1>1. PageIds # {} /\ header_root \in PageIds
  BY DEF scan, Rooted
<1>2. PICK p \in Leaves : p = LeafFor(k)
  BY <1>1, LeafForIsLeaf
<1>3. Leaves' = Leaves
  BY DEF scan, PageIds, Leaves, IsLeaf
<1>4. call' = [pc |-> "scan", from |-> k, page |-> p, seen |-> <<>>]
  BY <1>2 DEF scan
<1>5. <<>> \in LeafEntries
  BY EmptySeq DEF LeafEntries
<1>6. call' \in ScanCall'
  BY <1>3, <1>4, <1>5 DEF ScanCall
<1> QED BY <1>6 DEF CallShape

LEMMA StepKeepsCall ==
  ASSUME IInv, IInv', [Next]_vars, Rooted, HasRanks, HasOrder, Linked, CallShape, Answered
  PROVE  CallShape' /\ Answered'
<1>1. ASSUME NEW p, NEW path, Visit(p, path)
      PROVE  Inserting'
  BY <1>1 DEF Visit, Inserting
<1>2. CASE insert_at_root
  BY <1>1, <1>2 DEF insert_at_root, CallShape, Answered
<1>3. CASE descend
  BY <1>1, <1>3 DEF descend, CallShape, Answered
<1>4. CASE insert_first \/ propagate \/ grow_root
  BY <1>4 DEF insert_first, propagate, grow_root, CallShape, Answered
<1>5. CASE insert_leaf
  <2>1. answer' = answer
    BY <1>5 DEF insert_leaf
  <2>2. ASSUME NEW p, NEW t, LeafTakes(p, t)
        PROVE  CallShape'
    BY <2>2 DEF LeafTakes, CallShape
  <2>3. ASSUME At("split")'
        PROVE  CallShape'
    BY <2>3 DEF CallShape, Inserting, At
  <2>4. CallShape'
    BY <1>5, <2>2, <2>3, LeafTaken
  <2> QED BY <2>1, <2>4 DEF Answered
<1>6. CASE split_leaf \/ split_internal
  <2>1. answer' = answer
    BY <1>6 DEF split_leaf, split_internal
  <2>2. At("propagate")'
    BY <1>6, LeafSplitMade, ParentSplitMade DEF LeafSplits, ParentSplits, SplitInto
  <2> QED BY <2>1, <2>2 DEF CallShape, Answered, Inserting, At
<1>7. CASE scan_next
  BY <1>7, ScanGoesOn DEF scan_next, Answered
<1>8. CASE find_in_empty
  <2>1. PageIds = {}
    <3>1. header_root = 0
      BY <1>8 DEF find_in_empty, HeaderPage
    <3>2. 0 \notin PageIds
      <4>1. ASSUME NEW q \in PageIds
            PROVE  q # 0
        BY NodeFacts DEF IInv
      <4> QED BY <4>1
    <3> QED BY <3>1, <3>2 DEF Rooted
  <2> QED BY <1>8, <2>1 DEF find_in_empty, CallShape, Answered, PageIds
<1>9. ASSUME NEW k \in Key, find(k)
      PROVE  CallShape' /\ Answered'
  <2>1. call' = call /\ At("idle")
    BY <1>9 DEF find
  <2>2. call = Idle
    BY <2>1 DEF CallShape, ScanCall, Inserting, At
  <2> QED BY <1>9, <2>1, <2>2, FindAnswers DEF CallShape, Idle
<1>10. ASSUME NEW k \in Key, scan(k)
       PROVE  CallShape' /\ Answered'
  BY <1>10, ScanStarts DEF scan, Answered
<1>11. ASSUME NEW k \in Key, NEW r \in Rid, insert(k, r)
       PROVE  CallShape' /\ Answered'
  BY <1>11 DEF insert, CallShape, Answered, Inserting
<1>12. CASE UNCHANGED vars
  <2>1. call' = call /\ pages' = pages /\ answer' = answer
    BY <1>12 DEF vars
  <2>2. PageIds' = PageIds /\ Leaves' = Leaves
    BY <2>1 DEF PageIds, Leaves, IsLeaf
  <2>3. ScanCall' = ScanCall
    BY <2>2 DEF ScanCall
  <2> QED BY <2>1, <2>2, <2>3 DEF CallShape, Answered, Inserting
<1> QED BY <1>2, <1>3, <1>4, <1>5, <1>6, <1>7, <1>8, <1>9, <1>10, <1>11, <1>12
       DEF Next, InsertContinues, Halted

-----------------------------------------------------------------------------
(* The leaves below a page. *)

IsFlat(f, ss, n) == f = [i \in 1 .. n |-> IF i = 1 THEN ss[i] ELSE f[i - 1] \o ss[i]]

LEMMA FlatExists ==
  ASSUME NEW ss, NEW N \in Nat
  PROVE  \E f : IsFlat(f, ss, N)
<1> DEFINE Flat(n) == \E f : IsFlat(f, ss, n)
           T == {n \in Nat : ~Flat(n)}
<1>1. SUFFICES ASSUME T # {} PROVE FALSE
  OBVIOUS
<1>2. PICK n \in T : \A m \in T : n <= m
  BY <1>1, LeastNumber
<1>3. Flat(0)
  <2> DEFINE g == [i \in 1 .. 0 |-> 0]
  <2>1. 1 .. 0 = {}
    OBVIOUS
  <2>2. IsFlat(g, ss, 0)
    BY <2>1, Zenon DEF IsFlat
  <2> QED BY <2>2
<1>4. n \in Nat /\ n # 0 /\ n - 1 \in Nat /\ ~(n <= n - 1)
  BY <1>2, <1>3
<1>5. Flat(n - 1)
  BY <1>2, <1>4
<1>6. PICK g : IsFlat(g, ss, n - 1)
  BY <1>5
<1>7. PICK h : h = [i \in 1 .. n |-> IF i = 1 THEN ss[i] ELSE g[i - 1] \o ss[i]]
  OBVIOUS
<1>8. \A i \in 1 .. n : h[i] = IF i = 1 THEN ss[i] ELSE g[i - 1] \o ss[i]
  BY <1>7, Zenon
<1>9. \A i \in 1 .. n - 1 : g[i] = IF i = 1 THEN ss[i] ELSE g[i - 1] \o ss[i]
  BY <1>6, Zenon DEF IsFlat
<1>10. \A i \in 1 .. n - 1 : h[i] = g[i]
  <2> TAKE i \in 1 .. n - 1
  <2>1. i \in 1 .. n
    BY <1>4
  <2> QED BY <1>8, <1>9, <2>1, Zenon
<1>11. \A i \in 1 .. n : i # 1 => h[i - 1] = g[i - 1]
  BY <1>4, <1>10
<1>12. \A i \in 1 .. n : h[i] = IF i = 1 THEN ss[i] ELSE h[i - 1] \o ss[i]
  BY <1>8, <1>11, Zenon
<1>13. h = [i \in 1 .. n |-> h[i]]
  BY <1>7
<1>14. IsFlat(h, ss, n)
  BY <1>12, <1>13, Zenon DEF IsFlat
<1> QED BY <1>2, <1>14

(* Sequences of elements of U, one behind the other, are one of those. *)
LEMMA FlatMembers ==
  ASSUME NEW U, NEW n \in Nat \ {0}, NEW ss, Len(ss) = n, \A i \in 1 .. n : ss[i] \in Seq(U)
  PROVE  FlattenSeq(ss) \in Seq(U)
<1>1. \E f : IsFlat(f, ss, n)
  BY FlatExists
<1>2. PICK f : f = CHOOSE g : IsFlat(g, ss, n)
  OBVIOUS
<1>3. IsFlat(f, ss, n)
  BY <1>1, <1>2, Zenon
<1>4. FlattenSeq(ss) = f[n]
  <2>1. Len(ss) # 0
    OBVIOUS
  <2> QED BY <1>2, <2>1, Zenon DEF FlattenSeq, IsFlat
<1>5. \A i \in 1 .. n : f[i] = IF i = 1 THEN ss[i] ELSE f[i - 1] \o ss[i]
  BY <1>3, Zenon DEF IsFlat
<1> DEFINE T == {i \in 1 .. n : f[i] \notin Seq(U)}
<1>6. ASSUME T # {} PROVE FALSE
  <2>1. T \in SUBSET Nat
    OBVIOUS
  <2>2. PICK i \in T : \A j \in T : i <= j
    BY <1>6, <2>1, LeastNumber
  <2>3. i \in 1 .. n /\ f[i] \notin Seq(U)
    BY <2>2
  <2>4. i # 1
    BY <1>5, <2>3
  <2>5. i - 1 \in 1 .. n /\ ~(i <= i - 1)
    BY <2>3, <2>4
  <2>6. f[i - 1] \in Seq(U)
    BY <2>2, <2>5
  <2>7. f[i] = f[i - 1] \o ss[i] /\ ss[i] \in Seq(U)
    BY <1>5, <2>3, <2>4
  <2>8. f[i - 1] \o ss[i] \in Seq(U)
    BY <2>6, <2>7, ConcatProperties
  <2> QED BY <2>3, <2>7, <2>8
<1> QED BY <1>4, <1>6

Flattened(f, p) ==
  FlattenSeq([i \in DOMAIN pages[p].entries |-> f[Child(pages[p].entries[i])]])

IsUnder(f, P) == f = [p \in P |-> IF IsLeaf(p) THEN <<p>> ELSE Flattened(f, p)]

LEMMA SameBelow ==
  ASSUME NEW f, NEW g, NEW p,
         \A i \in DOMAIN pages[p].entries :
           f[Child(pages[p].entries[i])] = g[Child(pages[p].entries[i])]
  PROVE  Flattened(f, p) = Flattened(g, p)
BY Zenon DEF Flattened

LEMMA UnderExists ==
  ASSUME Shape, Rooted, NEW rank \in [PageIds -> Nat], Ranked(rank)
  PROVE  \E f : IsUnder(f, PageIds)
<1> DEFINE Part(n) == {p \in PageIds : rank[p] < n}
           Upto(n) == \E f : IsUnder(f, Part(n))
           T == {n \in Nat : ~Upto(n)}
<1>1. T = {}
  <2> SUFFICES ASSUME T # {} PROVE FALSE
    OBVIOUS
  <2>1. PICK n \in T : \A m \in T : n <= m
    BY LeastNumber
  <2>2. Upto(0)
    <3>1. Part(0) = {}
      OBVIOUS
    <3> DEFINE g == [x \in {} |-> 0]
    <3>2. IsUnder(g, {})
      BY Zenon DEF IsUnder
    <3> QED BY <3>1, <3>2
  <2>3. n \in Nat /\ n # 0 /\ n - 1 \in Nat /\ ~(n <= n - 1)
    <3> HIDE DEF Upto
    <3>1. n \in Nat /\ ~Upto(n)
      BY <2>1
    <3>2. n # 0
      BY <2>2, <3>1
    <3> QED BY <3>1, <3>2
  <2>4. Upto(n - 1)
    <3> HIDE DEF Upto
    <3> QED BY <2>1, <2>3
  <2>5. PICK g : IsUnder(g, Part(n - 1))
    BY <2>4
  <2>6. PICK h : h = [p \in Part(n) |-> IF IsLeaf(p) THEN <<p>> ELSE Flattened(g, p)]
    OBVIOUS
  <2>7. \A p \in Part(n) : h[p] = IF IsLeaf(p) THEN <<p>> ELSE Flattened(g, p)
    BY <2>6, Zenon
  <2>8. \A p \in Part(n - 1) : g[p] = IF IsLeaf(p) THEN <<p>> ELSE Flattened(g, p)
    BY <2>5, Zenon DEF IsUnder
  <2>9. \A p \in Part(n - 1) : p \in Part(n)
    BY <2>3
  <2>10. \A p \in Part(n - 1) : h[p] = g[p]
    BY <2>7, <2>8, <2>9, Zenon
  <2>11. ASSUME NEW p \in Part(n), ~IsLeaf(p)
         PROVE  Flattened(h, p) = Flattened(g, p)
    <3>1. \A i \in DOMAIN pages[p].entries : Child(pages[p].entries[i]) \in Part(n - 1)
      BY <2>3, <2>11, ChildRank
    <3>2. \A i \in DOMAIN pages[p].entries :
            h[Child(pages[p].entries[i])] = g[Child(pages[p].entries[i])]
      BY <2>10, <3>1
    <3> QED BY <3>2, SameBelow
  <2>12. \A p \in Part(n) : h[p] = IF IsLeaf(p) THEN <<p>> ELSE Flattened(h, p)
    BY <2>7, <2>11, Zenon
  <2>13. h = [p \in Part(n) |-> h[p]]
    BY <2>6, Zenon
  <2>14. IsUnder(h, Part(n))
    BY <2>12, <2>13, Zenon DEF IsUnder
  <2> QED BY <2>1, <2>14
<1>2. CASE PageIds = {}
  BY <1>2, Zenon DEF IsUnder
<1>3. CASE PageIds # {}
  <2>1. PICK r \in Nat : r = rank[root_page_id]
    BY <1>3 DEF Rooted
  <2>2. Part(r + 1) = PageIds /\ r + 1 \in Nat
    BY <2>1 DEF Ranked
  <2>3. Upto(r + 1)
    BY <1>1, <2>2
  <2> QED BY <2>2, <2>3
<1> QED BY <1>2, <1>3

(* The leaves whose records are in the range of page p. *)
LeavesWithin(p, lo, hi) ==
  {l \in Leaves : \A k \in Keys(l) : k \in Nat /\ lo[p] <= k /\ Below(k, hi[p])}

(* The range of a child is in that of its parent. *)
LEMMA ChildRange ==
  ASSUME IInv, NEW lo \in [PageIds -> Nat], NEW hi \in [PageIds -> Int],
         NEW end \in [PageIds -> Int], Ordered(lo, hi, end),
         NEW p \in Inner, NEW i \in 1 .. Size(p), NEW l \in LeavesWithin(ChildAt(p, i), lo, hi),
         NEW k \in Keys(l)
  PROVE  /\ k \in Nat /\ lo[p] <= k /\ Below(k, hi[p])
         /\ KeyAt(p, i) <= k /\ (i < Size(p) => k <= KeyAt(p, i + 1))
<1>1. PICK c : c = ChildAt(p, i)
  OBVIOUS
<1>2. Shape /\ p \in PageIds /\ ~IsLeaf(p)
  BY DEF IInv, Inner, Leaves
<1>3. PICK n \in Nat \ {0} : n = Size(p)
  BY <1>2, EntriesNow
<1>4. c \in PageIds
  BY <1>1, <1>2, EntriesNow DEF Shape
<1>5. k \in Nat /\ lo[c] <= k /\ Below(k, hi[c])
  BY <1>1 DEF LeavesWithin
<1>6. Divide(pages[p].entries, lo[p], hi[p], lo, end)
  BY <1>2 DEF Ordered, NodeInOrder
<1>7. /\ \A j \in 1 .. n : KeyAt(p, j) \in Nat
      /\ KeyAt(p, 1) = INVALID_KEY
      /\ \A j \in 2 .. n : lo[p] <= KeyAt(p, j) /\ Below(KeyAt(p, j), hi[p])
      /\ lo[c] = (IF i = 1 THEN lo[p] ELSE KeyAt(p, i))
      /\ end[c] = (IF i = n THEN hi[p] ELSE KeyAt(p, i + 1))
  BY <1>1, <1>3, <1>6 DEF Divide, KeyAt, ChildAt, Size
<1>8. Below(k, end[c])
  <2>1. CASE At("propagate") /\ c = call.left
    <3>1. PICK m \in Nat : m = KeyOf(call.separator)
      BY <2>1, Propagating, EntryParts
    <3>2. hi[c] = m /\ Below(m, hi[Child(call.separator)])
      BY <2>1, <3>1 DEF Ordered, SplitInRange
    <3>3. end[c] = hi[Child(call.separator)] /\ end[c] \in Int
      BY <1>4, <2>1 DEF Ordered, Ends
    <3>4. k <= m
      BY <1>5, <3>1, <3>2 DEF Below, Unbounded
    <3> QED BY <1>5, <3>1, <3>2, <3>3, <3>4 DEF Below
  <2>2. CASE ~(At("propagate") /\ c = call.left)
    BY <1>4, <1>5, <2>2 DEF Ordered, Ends
  <2> QED BY <2>1, <2>2
<1>9. i \in 1 .. n /\ lo[p] \in Nat /\ hi[p] \in Int
  BY <1>2, <1>3
<1>10. lo[p] <= k /\ KeyAt(p, i) <= k
  <2>1. CASE i = 1
    BY <1>5, <1>7, <2>1 DEF INVALID_KEY
  <2>2. CASE i # 1
    <3>1. i \in 2 .. n
      BY <1>9, <2>2
    <3>2. lo[p] <= KeyAt(p, i) /\ KeyAt(p, i) <= k /\ KeyAt(p, i) \in Nat
      BY <1>5, <1>7, <1>9, <2>2, <3>1
    <3> QED BY <1>5, <1>9, <3>2
  <2> QED BY <2>1, <2>2
<1>11. Below(k, hi[p]) /\ (i < n => k <= KeyAt(p, i + 1))
  <2>1. CASE i = n
    BY <1>7, <1>8, <2>1
  <2>2. CASE i # n
    <3>1. i + 1 \in 2 .. n /\ i + 1 \in 1 .. n
      BY <1>9, <2>2
    <3>2. KeyAt(p, i + 1) \in Nat /\ end[c] = KeyAt(p, i + 1) /\ Below(KeyAt(p, i + 1), hi[p])
      BY <1>7, <2>2, <3>1
    <3>3. k <= KeyAt(p, i + 1)
      BY <1>8, <3>2 DEF Below, Unbounded
    <3> QED BY <1>5, <1>9, <3>2, <3>3 DEF Below
  <2> QED BY <2>1, <2>2
<1> QED BY <1>3, <1>5, <1>10, <1>11

LEMMA LeavesUnderInRange ==
  ASSUME IInv, Rooted, HasRanks, NEW lo \in [PageIds -> Nat], NEW hi \in [PageIds -> Int],
         NEW end \in [PageIds -> Int], Ordered(lo, hi, end)
  PROVE  \A p \in PageIds : LeavesUnder[p] \in Seq(LeavesWithin(p, lo, hi))
<1>1. PICK rank \in [PageIds -> Nat] : Ranked(rank)
  BY DEF HasRanks
<1>2. Shape
  BY DEF IInv
<1>3. PICK u : u = LeavesUnder
  OBVIOUS
<1>4. IsUnder(u, PageIds)
  <2>1. \E f : IsUnder(f, PageIds)
    BY <1>1, <1>2, UnderExists
  <2>2. LeavesUnder = CHOOSE f : IsUnder(f, PageIds)
    BY Zenon DEF LeavesUnder, IsUnder, Flattened
  <2> QED BY <1>3, <2>1, <2>2, Zenon
<1>5. \A p \in PageIds : u[p] = IF IsLeaf(p) THEN <<p>> ELSE Flattened(u, p)
  BY <1>4, Zenon DEF IsUnder
<1> DEFINE In(p) == LeavesWithin(p, lo, hi)
           T == {rank[p] : p \in {q \in PageIds : u[q] \notin Seq(In(q))}}
<1>6. ASSUME T # {} PROVE FALSE
  <2>1. T \in SUBSET Nat
    OBVIOUS
  <2> HIDE DEF T
  <2>2. PICK n \in T : \A m \in T : n <= m
    BY <1>6, <2>1, LeastNumber
  <2>3. PICK p \in PageIds : n = rank[p] /\ u[p] \notin Seq(In(p))
    BY <2>2 DEF T
  <2>4. CASE IsLeaf(p)
    <3>1. Within(pages[p].entries, lo[p], hi[p])
      BY <2>4 DEF Ordered, NodeInOrder
    <3>2. \A k \in Keys(p) : k \in Nat /\ lo[p] <= k /\ Below(k, hi[p])
      <4>1. DOMAIN pages[p].entries = 1 .. Len(pages[p].entries)
        BY <1>2, EntriesNow DEF Size
      <4> QED BY <3>1, <4>1 DEF Within, Keys
    <3>3. p \in In(p)
      BY <2>4, <3>2 DEF LeavesWithin, Leaves
    <3>4. u[p] = <<p>>
      BY <1>5, <2>4
    <3> HIDE DEF In
    <3> QED BY <2>3, <3>3, <3>4
  <2>5. CASE ~IsLeaf(p)
    <3>1. p \in Inner
      BY <2>5 DEF Inner, Leaves
    <3>2. PICK size \in Nat \ {0} : size = Size(p) /\ DOMAIN pages[p].entries = 1 .. size
      BY <1>2, EntriesNow
    <3>3. PICK ss : ss = [i \in DOMAIN pages[p].entries |-> u[Child(pages[p].entries[i])]]
      OBVIOUS
    <3>4. u[p] = FlattenSeq(ss)
      BY <1>5, <2>5, <3>3 DEF Flattened
    <3>5. Len(ss) = size /\ \A i \in 1 .. size : ss[i] = u[ChildAt(p, i)]
      BY <3>2, <3>3 DEF ChildAt
    <3>6. ASSUME NEW i \in 1 .. size
          PROVE  ss[i] \in Seq(In(p))
      <4>1. PICK c \in PageIds : c = ChildAt(p, i) /\ rank[c] < rank[p]
        BY <1>1, <1>2, <2>5, <3>2, ChildRank DEF ChildAt
      <4>2. rank[c] \notin T
        <5>1. rank[c] \in Nat /\ n \in Nat /\ ~(n <= rank[c])
          BY <2>3, <4>1
        <5> QED BY <2>2, <5>1
      <4>3. u[c] \in Seq(In(c))
        BY <4>2 DEF T
      <4>4. In(c) \subseteq In(p)
        <5>1. ASSUME NEW l \in In(c), NEW k \in Keys(l)
              PROVE  k \in Nat /\ lo[p] <= k /\ Below(k, hi[p])
          BY <3>1, <3>2, <4>1, <5>1, ChildRange
        <5> QED BY <5>1 DEF LeavesWithin
      <4> HIDE DEF In
      <4> QED BY <3>5, <4>1, <4>3, <4>4, SeqMonotonic
    <3> HIDE DEF In
    <3>7. FlattenSeq(ss) \in Seq(In(p))
      BY <3>2, <3>5, <3>6, FlatMembers
    <3> QED BY <2>3, <3>4, <3>7
  <2> QED BY <2>4, <2>5
<1> QED BY <1>3, <1>6

LEMMA SeparatorsDoBound ==
  ASSUME IInv, Rooted, HasRanks, HasOrder
  PROVE  SeparatorsBound
<1>1. PICK lo \in [PageIds -> Nat], hi \in [PageIds -> Int], end \in [PageIds -> Int] :
        Ordered(lo, hi, end)
  BY DEF HasOrder
<1>2. PICK under : under = LeavesUnder
  OBVIOUS
<1>3. ASSUME NEW p \in Inner, NEW i \in DOMAIN pages[p].entries,
             NEW l \in ToSet(under[Child(pages[p].entries[i])]), NEW k \in Keys(l)
      PROVE  /\ KeyOf(pages[p].entries[i]) <= k
             /\ i < Len(pages[p].entries) => k <= KeyOf(pages[p].entries[i + 1])
  <2>1. p \in PageIds /\ Shape
    BY DEF Inner, IInv
  <2>2. PICK j \in 1 .. Size(p) : j = i
    BY <2>1, EntriesNow
  <2>3. PICK c \in PageIds : c = ChildAt(p, j)
    BY <2>1, EntriesNow DEF Shape
  <2>4. c = Child(pages[p].entries[i])
    BY <2>2, <2>3 DEF ChildAt
  <2>5. under[c] \in Seq(LeavesWithin(c, lo, hi))
    BY <1>1, <1>2, LeavesUnderInRange
  <2>6. PICK s : s = under[c]
    OBVIOUS
  <2>7. \A m \in DOMAIN s : s[m] \in LeavesWithin(c, lo, hi)
    BY <2>5, <2>6, LenProperties, ElementOfSeq
  <2>8. l \in LeavesWithin(c, lo, hi)
    BY <1>3, <2>4, <2>6, <2>7 DEF ToSet
  <2>9. KeyAt(p, j) <= k /\ (j < Size(p) => k <= KeyAt(p, j + 1))
    BY <1>1, <1>3, <2>3, <2>8, ChildRange
  <2> QED BY <2>2, <2>9 DEF KeyAt, Size
<1> QED BY <1>2, <1>3 DEF SeparatorsBound

LEMMA TypesAreRight ==
  ASSUME IInv, Rooted, Linked, CallShape, Answered
  PROVE  TypeOK
<1>1. Shape
  BY DEF IInv
<1>2. ASSUME NEW p \in PageIds
      PROVE  NodeOK(p)
  <2>1. Len(pages[p].entries) \in 1 .. MaxSize(p)
    BY <1>1 DEF Shape, NodesFit, Fits
  <2>2. CASE IsLeaf(p)
    <3>1. pages[p].next \in PageIds \cup {INVALID_PAGE_ID}
      BY <2>2 DEF Linked, Leaves
    <3>2. pages[p] \in Node /\ pages[p].type = "leaf"
      BY <1>1, <2>2, NodeFacts DEF IsLeaf
    <3>3. pages[p] \in [type : {"leaf"}, next : Int, entries : LeafEntries]
      BY <3>2 DEF Node
    <3>4. pages[p] \in LeafNode
      BY <3>1, <3>3 DEF LeafNode, LeafEntries
    <3> QED BY <2>1, <3>4 DEF NodeOK
  <2>3. CASE ~IsLeaf(p)
    <3>1. pages[p] \in Node /\ pages[p].type # "leaf" /\ p \in Inner
      BY <1>1, <2>3, NodeFacts DEF IsLeaf, Inner, Leaves
    <3>2. pages[p] \in [type : {"internal"}, entries : InternalEntries]
      BY <3>1 DEF Node
    <3>3. PICK es : es = pages[p].entries
      OBVIOUS
    <3>4. es \in Seq(Key \X Nat)
      BY <3>2, <3>3 DEF InternalEntries
    <3>5. PICK n \in Nat : n = Len(es) /\ es \in [1 .. n -> Key \X Nat]
      BY <3>4, LenProperties
    <3>6. \A i \in 1 .. n : es[i] \in Key \X PageIds
      <4> TAKE i \in 1 .. n
      <4>1. es[i] \in Key \X Nat
        BY <3>5
      <4>2. es[i][2] \in PageIds
        <5>1. ChildAt(p, i) \in Children(p)
          BY <1>1, <3>3, <3>5, EntriesNow DEF Size
        <5> QED BY <1>1, <3>1, <3>3, <5>1 DEF Shape, ChildAt, Child
      <4> QED BY <4>1, <4>2
    <3>7. es \in [1 .. n -> Key \X PageIds]
      BY <3>5, <3>6
    <3>8. es \in Seq(Key \X PageIds)
      BY <3>7
    <3>9. pages[p] \in InternalNode
      BY <3>2, <3>3, <3>8 DEF InternalNode
    <3> QED BY <2>1, <3>9 DEF NodeOK
  <2> QED BY <2>2, <2>3
<1>3. header_root = IF pages = <<>> THEN 0 ELSE root_page_id
  <2>1. PageIds = {} <=> pages = <<>>
    <3>1. pages \in Seq(Node)
      BY <1>1 DEF Shape
    <3>2. PageIds = 1 .. Len(pages) /\ Len(pages) \in Nat
      BY <3>1, LenProperties DEF PageIds
    <3>3. pages # <<>> => Len(pages) \in Nat \ {0}
      BY <3>1, EmptySeq
    <3>4. pages = <<>> => Len(pages) = 0
      BY EmptySeq
    <3> QED BY <3>2, <3>3, <3>4
  <2> QED BY <2>1 DEF Rooted, HeaderPage
<1>4. root_page_id \in PageIds \cup {INVALID_PAGE_ID}
  BY <1>1 DEF Shape
<1>5. CallOK
  <2>1. CASE call = Idle
    BY <2>1 DEF CallOK
  <2>2. CASE call = [pc |-> "panicked"]
    BY <2>2 DEF CallOK
  <2>3. CASE call \in ScanCall
    BY <2>3 DEF CallOK, ScanCall, At, Leaves, LeafEntries
  <2>4. CASE Inserting
    <3>1. call.entry \in Key \X Rid
      BY <1>1, <2>4 DEF Shape
    <3>2. ASSUME ~At("start")
          PROVE  /\ call.path \in Seq(PageIds) /\ Bottom \in PageIds
                 /\ At("propagate") => call.separator \in Key \X PageIds
      BY <1>1, <2>4, <3>2 DEF Shape, OnPath
    <3>3. At("descend") => call.child \in PageIds
      BY <3>2, BottomIs DEF At
    <3>4. call.pc \in {"split", "propagate"} => call.left \in PageIds
      BY <3>2, BottomIs DEF At
    <3>5. At("propagate") => call.separator \in Key \X PageIds
      BY <3>2 DEF At
    <3> QED BY <2>4, <3>1, <3>2, <3>3, <3>4, <3>5 DEF CallOK
  <2> QED BY <2>1, <2>2, <2>3, <2>4 DEF CallShape
<1> QED BY <1>2, <1>3, <1>4, <1>5 DEF TypeOK, Answered

-----------------------------------------------------------------------------
(* The inductive invariant.  IInv has the path of the insert that runs;    *)
(* HasRanks is the balance of the tree, which OneParent and HasOrder need  *)
(* in order to know that a page that is split has one parent and that the  *)
(* root has none; HasOrder has the ranges that an entry comes down through *)
(* and a separator goes up through; the rest is what the calls hold.       *)

TInv ==
  /\ IInv /\ Rooted /\ HasRanks /\ HalvesKept /\ OneParent /\ Forked
  /\ HasOrder /\ Linked /\ CallShape /\ Answered

LEMMA InitIsTree ==
  ASSUME Init
  PROVE  TInv
<1>1. IInv
  BY InitHasNoPath
<1>2. /\ PageIds = {} /\ root_page_id = INVALID_PAGE_ID /\ header_root = HeaderPage
      /\ ~At("propagate") /\ ~OnPath /\ call = Idle /\ answer = None
      /\ Inner = {} /\ Leaves = {}
  BY DEF Init, PageIds, Idle, OnPath, Inserting, At, HeaderPage, Inner, Leaves
<1>3. Rooted /\ HalvesKept /\ OneParent /\ Forked /\ Linked /\ CallShape /\ Answered
  BY <1>2 DEF Rooted, HalvesKept, OneParent, Forked, Linked, CallShape, Answered
<1>4. HasRanks
  <2>1. PICK rank : rank = [q \in PageIds |-> 0]
    OBVIOUS
  <2>2. rank \in [PageIds -> Nat] /\ Ranked(rank)
    BY <1>2, <2>1 DEF Ranked, TreeLevels
  <2> QED BY <2>2 DEF HasRanks
<1>5. HasOrder
  <2>1. PICK lo : lo = [q \in PageIds |-> 0]
    OBVIOUS
  <2>2. lo \in [PageIds -> Nat] /\ lo \in [PageIds -> Int]
    BY <2>1
  <2>3. root_page_id \notin PageIds
    BY <1>2
  <2>4. Ordered(lo, lo, lo) /\ EntryInRange(lo, lo) /\ LowestKept(lo)
    BY <1>2, <2>3 DEF Ordered, Ends, SplitInRange, EntryInRange, LowestKept
  <2> QED BY <2>2, <2>4 DEF HasOrder
<1> QED BY <1>1, <1>3, <1>4, <1>5 DEF TInv

LEMMA StepKeepsTree ==
  ASSUME TInv, [Next]_vars
  PROVE  TInv'
<1>1. /\ IInv /\ Rooted /\ HasRanks /\ HalvesKept /\ OneParent /\ Forked
      /\ HasOrder /\ Linked /\ CallShape /\ Answered
  BY DEF TInv
<1>2. IInv'
  BY <1>1, StepKeepsPath
<1>3. Rooted' /\ HasRanks' /\ HalvesKept'
  BY <1>1, <1>2, StepKeepsRoot, StepKeepsRanks, StepKeepsHalves
<1>4. OneParent' /\ Forked'
  BY <1>1, <1>2, StepKeepsOneParent, StepKeepsFork
<1>5. HasOrder'
  BY <1>1, <1>2, StepKeepsOrder
<1>6. Linked' /\ CallShape' /\ Answered'
  BY <1>1, <1>2, StepKeepsLinks, StepKeepsCall
<1> QED BY <1>2, <1>3, <1>4, <1>5, <1>6 DEF TInv

(* The invariant holds in every state that calls of BTree reach.           *)
THEOREM TreeAlways == Spec => []TInv
<1>1. Init => TInv
  BY InitIsTree
<1>2. TInv /\ [Next]_vars => TInv'
  BY StepKeepsTree
<1> QED BY <1>1, <1>2, PTL DEF Spec

(* Whatever is inserted, into nodes of any size, every page holds a node   *)
(* that fits it and whose children and link are pages, the header page     *)
(* names the root except in an empty tree, find answers with a record or   *)
(* None, and insert and scan work on pages of the tree.                    *)
THEOREM TypeCorrect == Spec => []TypeOK
<1>1. TInv => TypeOK
  BY TypesAreRight DEF TInv
<1> QED BY <1>1, TreeAlways, PTL

(* The splits of insert keep the tree balanced: all leaves are equally     *)
(* deep, every node but the root is half full, and between two inserts an  *)
(* inner root has two children at least.                                   *)
THEOREM TreeStaysBalanced == Spec => []Balanced
<1>1. TInv => Balanced
  BY TreeIsBalanced DEF TInv
<1> QED BY <1>1, TreeAlways, PTL

(* In every node that inserts build, of any size and with any duplicates,  *)
(* the loops of find_child_index and find_kv end with what a search        *)
(* through all entries would give.                                         *)
THEOREM SearchesStayRight == Spec => []SearchesAgree
<1>1. TInv => SearchesAgree
  BY SearchesAreRight DEF TInv
<1> QED BY <1>1, TreeAlways, PTL

(* Whatever is inserted, with any duplicates, and also between the two     *)
(* halves of a split: the records below a child are not under its entry's  *)
(* key and not above the next one's, which find_child_index relies on.     *)
THEOREM SeparatorsStayBounds == Spec => []SeparatorsBound
<1>1. TInv => SeparatorsBound
  BY SeparatorsDoBound DEF TInv
<1> QED BY <1>1, TreeAlways, PTL

-----------------------------------------------------------------------------
(* The loops of an insert: a parent has the page that was split in one     *)
(* slot, and every pass leaves fewer levels to go.                         *)

LEMMA LeftHasOneSlot ==
  ASSUME IInv, OneParent
  PROVE  ParentHasLeft
<1>1. SUFFICES ASSUME At("propagate"), call.path # <<>>
               PROVE  Cardinality(LeftSlots) = 1
  BY DEF ParentHasLeft
<1>2. PICK level \in [PageIds -> Int] : Leveled(level)
  BY DEF IInv
<1>3. /\ Shape /\ OnPath /\ Inserting /\ ~At("start") /\ Above = call.path /\ Bottom = call.left
      /\ call.path \in Seq(PageIds)
  BY <1>1 DEF IInv, Shape, OnPath, Inserting, At, Above, Bottom
<1>4. PICK n \in Nat \ {0} : n = Len(call.path)
  BY <1>1, <1>3, FrontAndLast
<1>5. PICK p : p = Last(call.path) /\ p = call.path[n] /\ p \in PageIds
  BY <1>1, <1>3, <1>4, FrontAndLast
<1>6. n \in 1 .. Len(Above) /\ n = Len(Above) /\ Above[n] = p
  BY <1>3, <1>4, <1>5
<1>7. call.left \in Children(p)
  BY <1>3, <1>6 DEF IInv, PathReachesRoot
<1>8. p \in Inner
  BY <1>2, <1>3, <1>5, <1>6 DEF Leveled, PathLevels, Inner, Leaves
<1>9. PICK m \in Nat \ {0} : m = Size(p) /\ DOMAIN pages[p].entries = 1 .. m
  BY <1>3, <1>5, EntriesNow
<1>10. LeftSlots = {i \in 1 .. m : ChildAt(p, i) = call.left}
  BY <1>5, <1>9 DEF LeftSlots, ChildAt
<1>11. PICK i \in 1 .. m : ChildAt(p, i) = call.left
  BY <1>7, <1>9 DEF Children, ChildAt
<1>12. \A j \in 1 .. m : ChildAt(p, j) = call.left => j = i
  BY <1>8, <1>9, <1>11 DEF OneParent
<1>13. LeftSlots = {i}
  BY <1>10, <1>11, <1>12
<1> QED BY <1>13, FS_Singleton

(* StepsLeft, by the ranks. *)
Steps(rank) ==
  LET h == rank[root_page_id]
  IN  CASE At("start") -> IF root_page_id = INVALID_PAGE_ID THEN 1 ELSE 2 * h + 4
        [] At("descend") -> h + 4 + rank[call.child]
        [] At("leaf") -> h + 3
        [] At("split") -> h + 2
        [] At("propagate") -> h + 1 - rank[call.left]
        [] OTHER -> 0

StepsCounted ==
  \A rank \in [PageIds -> Nat] : Ranked(rank) => StepsLeft = Steps(rank)

LEMMA StepsAreCounted ==
  (Shape => StepsCounted) /\ (Shape' => StepsCounted')
<1>1. ASSUME Shape, NEW rank \in [PageIds -> Nat], Ranked(rank)
      PROVE  StepsLeft = Steps(rank)
  <2>1. \A p \in PageIds : Height[p] = rank[p]
    BY <1>1, HeightIsRank
  <2>2. root_page_id # INVALID_PAGE_ID => Height[root_page_id] = rank[root_page_id]
    BY <1>1, <2>1 DEF Shape
  <2>3. /\ OnPath => root_page_id \in PageIds
        /\ At("descend") => call.child \in PageIds
        /\ At("propagate") => call.left \in PageIds
    BY <1>1 DEF Shape, OnPath, Inserting, At, Bottom
  <2>4. At("leaf") \/ At("split") \/ At("propagate") \/ At("descend") => OnPath
    BY DEF OnPath, Inserting, At
  <2>5. CASE At("start")
    BY <2>2, <2>5 DEF StepsLeft, Steps, At
  <2>6. CASE ~At("start")
    BY <2>1, <2>3, <2>4, <2>6 DEF StepsLeft, Steps, At
  <2> QED BY <2>5, <2>6
<1>2. Shape => StepsCounted
  BY <1>1 DEF StepsCounted
<1> QED BY <1>2, PTL

(* find_child_index leads one level down. *)
LEMMA VisitGoesDown ==
  ASSUME Shape, NEW rank \in [PageIds -> Nat], Ranked(rank),
         NEW p \in PageIds, NEW path, Visit(p, path)
  PROVE  \/ At("leaf")'
         \/ At("descend")' /\ call'.child \in PageIds /\ rank[p] = rank[call'.child] + 1
<1>1. CASE IsLeaf(p)
  BY <1>1 DEF Visit, At
<1>2. CASE ~IsLeaf(p)
  <2>1. PICK slot \in DOMAIN pages[p].entries :
          call' = [pc |-> "descend", entry |-> call.entry, path |-> path,
                   child |-> ChildAt(p, slot)]
    BY <1>2 DEF Visit
  <2>2. p \in Inner /\ ChildAt(p, slot) \in Children(p)
    BY <1>2 DEF Inner, Leaves, Children, ChildAt
  <2>3. ChildAt(p, slot) \in PageIds /\ rank[p] = rank[ChildAt(p, slot)] + 1
    BY <2>2 DEF Shape, Ranked, TreeLevels
  <2> QED BY <2>1, <2>3 DEF At
<1> QED BY <1>1, <1>2

LEMMA InsertGoesOn ==
  ASSUME TInv, TInv', InsertContinues
  PROVE  StepsLeft' \in 0 .. StepsLeft - 1
<1> USE DEF TInv
<1>1. PICK rank \in [PageIds -> Nat] : Ranked(rank)
  BY DEF HasRanks
<1>2. Shape /\ Shape' /\ IInv /\ IInv' /\ StepsLeft = Steps(rank)
  BY <1>1, StepsAreCounted DEF IInv, StepsCounted
<1>3. OnPath => /\ root_page_id \in PageIds /\ rank[root_page_id] \in Nat
                /\ At("descend") => call.child \in PageIds
                /\ At("propagate") => /\ call.left \in PageIds /\ rank[call.left] \in Nat
                                      /\ rank[call.left] <= rank[root_page_id]
  BY <1>1, <1>2 DEF Shape, OnPath, Inserting, At, Bottom, Ranked
<1>4. root_page_id \in PageIds => root_page_id # INVALID_PAGE_ID
  BY <1>2, NodeFacts DEF INVALID_PAGE_ID
<1>5. CASE call' = Idle
  <2>1. StepsLeft' = 0
    BY <1>5 DEF StepsLeft, At, Idle
  <2>2. StepsLeft \in Nat \ {0}
    <3>1. CASE At("start")
      <4>1. root_page_id # INVALID_PAGE_ID => rank[root_page_id] \in Nat
        BY <1>2 DEF Shape
      <4> QED BY <1>2, <3>1, <4>1 DEF Steps, At
    <3>2. CASE ~At("start")
      <4>1. OnPath
        BY <3>2 DEF InsertContinues, insert_first, insert_at_root, descend, insert_leaf,
                    split_leaf, propagate, split_internal, grow_root, OnPath, Inserting, At
      <4>2. At("descend") \/ At("leaf") \/ At("split") \/ At("propagate")
        BY <4>1 DEF OnPath, Inserting, At
      <4> QED BY <1>2, <1>3, <4>1, <4>2 DEF Steps, At
    <3> QED BY <3>1, <3>2
  <2> QED BY <2>1, <2>2
<1>6. ASSUME UNCHANGED <<pages, root_page_id, header_root>>, ~At("propagate")'
      PROVE  StepsLeft' = Steps(rank)'
  <2>1. \A q : IsLeaf(q)' = IsLeaf(q) /\ Children(q)' = Children(q)
    BY <1>6, SameNode
  <2>2. PageIds' = PageIds /\ Inner' = Inner /\ root_page_id' = root_page_id
    BY <1>6, <2>1 DEF PageIds, Inner, Leaves
  <2>3. Ranked(rank)'
    BY <1>1, <1>6, <2>1, <2>2 DEF Ranked, TreeLevels
  <2> QED BY <1>2, <2>2, <2>3, StepsAreCounted DEF StepsCounted
<1>7. CASE insert_at_root
  <2>1. /\ At("start") /\ root_page_id \in PageIds /\ Visit(root_page_id, <<root_page_id>>)
        /\ UNCHANGED <<pages, root_page_id, header_root>>
    BY <1>2, <1>7 DEF insert_at_root, Shape
  <2>2. \/ At("leaf")'
        \/ /\ At("descend")' /\ call'.child \in PageIds
           /\ rank[root_page_id] = rank[call'.child] + 1
    BY <1>1, <1>2, <2>1, VisitGoesDown
  <2>3. StepsLeft' = Steps(rank)'
    BY <1>6, <2>1, <2>2 DEF At
  <2>4. StepsLeft = 2 * rank[root_page_id] + 4 /\ rank[root_page_id] \in Nat
    BY <1>2, <1>4, <2>1 DEF Steps, At
  <2>5. CASE At("leaf")'
    <3>1. StepsLeft' = rank[root_page_id] + 3
      BY <2>1, <2>3, <2>5 DEF Steps, At
    <3> QED BY <2>4, <3>1
  <2>6. CASE /\ At("descend")' /\ call'.child \in PageIds
             /\ rank[root_page_id] = rank[call'.child] + 1
    <3>1. StepsLeft' = rank[root_page_id] + 4 + rank[call'.child] /\ rank[call'.child] \in Nat
      BY <2>1, <2>3, <2>6 DEF Steps, At
    <3> QED BY <2>4, <2>6, <3>1
  <2> QED BY <2>2, <2>5, <2>6
<1>8. CASE descend
  <2>1. /\ At("descend") /\ OnPath /\ Visit(call.child, Append(PathAbove(call.child), call.child))
        /\ UNCHANGED <<pages, root_page_id, header_root>>
    BY <1>8 DEF descend, OnPath, Inserting, At
  <2>2. call.child \in PageIds /\ rank[call.child] \in Nat
    BY <1>3, <2>1
  <2>3. \/ At("leaf")'
        \/ /\ At("descend")' /\ call'.child \in PageIds
           /\ rank[call.child] = rank[call'.child] + 1
    BY <1>1, <1>2, <2>1, <2>2, VisitGoesDown
  <2>4. StepsLeft' = Steps(rank)'
    BY <1>6, <2>1, <2>3 DEF At
  <2>5. StepsLeft = rank[root_page_id] + 4 + rank[call.child] /\ rank[root_page_id] \in Nat
    BY <1>2, <1>3, <2>1 DEF Steps, At
  <2>6. CASE At("leaf")'
    <3>1. StepsLeft' = rank[root_page_id] + 3
      BY <2>1, <2>4, <2>6 DEF Steps, At
    <3> QED BY <2>2, <2>5, <3>1
  <2>7. CASE /\ At("descend")' /\ call'.child \in PageIds
             /\ rank[call.child] = rank[call'.child] + 1
    <3>1. StepsLeft' = rank[root_page_id] + 4 + rank[call'.child] /\ rank[call'.child] \in Nat
      BY <2>1, <2>4, <2>7 DEF Steps, At
    <3> QED BY <2>2, <2>5, <2>7, <3>1
  <2> QED BY <2>3, <2>6, <2>7
<1>9. ASSUME At("leaf"), At("split")', UNCHANGED <<pages, root_page_id, header_root>>
      PROVE  StepsLeft' \in 0 .. StepsLeft - 1
  <2>1. OnPath /\ ~At("propagate")'
    BY <1>9 DEF OnPath, Inserting, At
  <2>2. StepsLeft' = rank[root_page_id] + 2
    BY <1>6, <1>9, <2>1 DEF Steps, At
  <2>3. StepsLeft = rank[root_page_id] + 3
    BY <1>2, <1>9 DEF Steps, At
  <2> QED BY <1>3, <2>1, <2>2, <2>3
<1>10. ASSUME NEW p, NEW new, NEW t, NEW mid, SplitInto(p, new, t, mid), RanksKept(rank),
              OnPath, At("split") \/ (At("propagate") /\ rank[p] = rank[call.left] + 1)
       PROVE  StepsLeft' \in 0 .. StepsLeft - 1
  <2>1. PICK rk \in [PageIds' -> Nat] : Ranked(rk)' /\ \A q \in PageIds : rk[q] = rank[q]
    BY <1>10 DEF RanksKept
  <2>2. /\ At("propagate")' /\ call'.left = p /\ p \in PageIds /\ root_page_id \in PageIds
        /\ root_page_id' = root_page_id /\ PageIds \subseteq PageIds'
    BY <1>10 DEF SplitInto, PageIsAdded
  <2>3. StepsLeft' = Steps(rk)'
    BY <1>2, <2>1, StepsAreCounted DEF StepsCounted
  <2>4. StepsLeft' = rank[root_page_id] + 1 - rank[p]
    BY <2>1, <2>2, <2>3 DEF Steps, At
  <2>5. rank[p] \in Nat /\ rank[root_page_id] \in Nat /\ rank[p] <= rank[root_page_id]
    BY <1>1, <2>2 DEF Ranked
  <2>6. CASE At("split")
    <3>1. StepsLeft = rank[root_page_id] + 2
      BY <1>2, <2>6 DEF Steps, At
    <3> QED BY <2>4, <2>5, <3>1
  <2>7. CASE At("propagate") /\ rank[p] = rank[call.left] + 1
    <3>1. StepsLeft = rank[root_page_id] + 1 - rank[call.left] /\ rank[call.left] \in Nat
      BY <1>2, <1>3, <1>10, <2>7 DEF Steps, At
    <3> QED BY <2>4, <2>5, <2>7, <3>1
  <2> QED BY <1>10, <2>6, <2>7
<1>11. CASE insert_leaf
  <2>1. (\E p, t : LeafTakes(p, t)) => call' = Idle
    BY DEF LeafTakes
  <2> QED BY <1>2, <1>5, <1>9, <1>11, <2>1, LeafTaken
<1>12. CASE split_leaf
  <2>1. PICK p, new, t, mid : LeafSplits(p, new, t, mid)
    BY <1>2, <1>12, LeafSplitMade
  <2>2. RanksKept(rank)
    BY <1>1, <1>2, <2>1, LeafSplitsRanked
  <2>3. SplitInto(p, new, t, mid) /\ OnPath /\ At("split")
    BY <2>1 DEF LeafSplits, OnPath, Inserting, At
  <2> QED BY <1>10, <2>2, <2>3
<1>13. CASE split_internal
  <2>1. PICK p, new, slot, t, mid : ParentSplits(p, new, slot, t, mid)
    BY <1>2, <1>13, ParentSplitMade
  <2>2. RanksKept(rank)
    BY <1>1, <1>2, <2>1, ParentSplitsRanked
  <2>3. SplitInto(p, new, t, mid) /\ WithSeparator(p, slot, t) /\ OnPath /\ At("propagate")
    BY <2>1 DEF ParentSplits, WithSeparator, OnPath, Inserting, At
  <2>4. rank[p] = rank[call.left] + 1
    BY <1>1, <1>2, <2>3, SeparatedRanks
  <2> QED BY <1>10, <2>2, <2>3, <2>4
<1>14. CASE insert_first \/ propagate \/ grow_root
  BY <1>5, <1>14 DEF insert_first, propagate, grow_root
<1> QED BY <1>7, <1>8, <1>11, <1>12, <1>13, <1>14 DEF InsertContinues

(* When the separator of a split goes up, path_stack has the parent on top *)
(* and the page that was split is in one slot of it, so that the unwrap()  *)
(* of the loop up path_stack never panics.                                 *)
THEOREM ParentsHaveLeft == Spec => []ParentHasLeft
<1>1. TInv => ParentHasLeft
  BY LeftHasOneSlot DEF TInv
<1> QED BY <1>1, TreeAlways, PTL

(* No loop of insert runs on: from any call of insert, whatever it splits, *)
(* the steps left get fewer with each pass, so that an insert into a tree  *)
(* of h levels above the leaves takes at most 2h + 4 steps.                *)
THEOREM InsertsGoOn == Spec => InsertsAdvance
<1>1. TInv /\ TInv' /\ [Next]_vars => [Inserting => StepsLeft' \in 0 .. StepsLeft - 1]_vars
  <2> SUFFICES ASSUME TInv, TInv', Next, Inserting
               PROVE  StepsLeft' \in 0 .. StepsLeft - 1 \/ UNCHANGED vars
    OBVIOUS
  <2>1. InsertContinues \/ UNCHANGED vars
    BY DEF Next, Inserting, At, scan_next, find_in_empty, find, scan, insert, Halted
  <2> QED BY <2>1, InsertGoesOn
<1> QED BY <1>1, TreeAlways, PTL DEF Spec, InsertsAdvance
=============================================================================
