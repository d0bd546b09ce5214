-------------------------- MODULE BTreeChainProofs --------------------------
(***************************************************************************)
(* Proofs about the leaves of BTree.tla, for any keys, record ids and node *)
(* sizes: their chain, what find and scan reach through it, and the        *)
(* collection of records that the tree implements.                         *)
(***************************************************************************)
EXTENDS BTreeShapeProofs

-----------------------------------------------------------------------------
(* Every page but the root has a parent, except the page that a separator  *)
(* leads to: no page is lost to find_leaf.                                 *)

HasParent(p) == \E q \in Inner : p \in Children(q)

(* The same in the next state. *)
WillHaveParent(p) == \E q \in Inner' : p \in Children(q)'

Reached ==
  \A p \in PageIds :
    \/ p = root_page_id
    \/ HasParent(p)
    \/ At("propagate") /\ p = Child(call.separator)

(* A parent that takes a separator keeps its children. *)
LEMMA ChildrenKept ==
  ASSUME IInv, NEW p, NEW slot, NEW t, WithSeparator(p, slot, t)
  PROVE  /\ \A c \in Children(p) : \E i \in 1 .. Len(t) : c = Child(t[i])
         /\ \E i \in 1 .. Len(t) : Child(call.separator) = Child(t[i])
<1>1. /\ p \in PageIds /\ slot \in 1 .. Size(p)
      /\ Entered(pages[p].entries, slot, call.separator, t)
  BY DEF WithSeparator
<1>2. PICK n \in Nat \ {0} : n = Size(p) /\ Children(p) = {ChildAt(p, i) : i \in 1 .. n}
  BY <1>1, EntriesNow DEF IInv
<1>3. /\ Len(t) = n + 1 /\ t[slot + 1] = call.separator /\ slot \in 1 .. n
      /\ \A i \in 1 .. slot : t[i] = pages[p].entries[i]
      /\ \A i \in slot + 1 .. n : t[i + 1] = pages[p].entries[i]
  BY <1>1, <1>2 DEF Entered, Size
<1>4. ASSUME NEW j \in 1 .. n
      PROVE  \E i \in 1 .. Len(t) : ChildAt(p, j) = Child(t[i])
  <2>1. CASE j <= slot
    <3>1. j \in 1 .. slot /\ j \in 1 .. Len(t)
      BY <1>3, <2>1
    <3> QED BY <1>3, <3>1 DEF ChildAt
  <2>2. CASE ~(j <= slot)
    <3>1. j \in slot + 1 .. n /\ j + 1 \in 1 .. Len(t)
      BY <1>3, <2>2
    <3> QED BY <1>3, <3>1 DEF ChildAt
  <2> QED BY <2>1, <2>2
<1>5. slot + 1 \in 1 .. Len(t)
  BY <1>3
<1> QED BY <1>2, <1>3, <1>4, <1>5

(* What has to be shown after nodes have been changed: their children are  *)
(* children still, and a new page has its place.                           *)
LEMMA ReachedStill ==
  ASSUME Reached, NEW p, NEW new, PageIds' \subseteq PageIds \cup {new},
         \A q \in Inner \ {p} : q \in Inner' /\ pages'[q] = pages[q],
         p \in Inner => \A c \in Children(p) : WillHaveParent(c),
         At("propagate") => WillHaveParent(Child(call.separator)),
         root_page_id' = root_page_id \/ WillHaveParent(root_page_id),
         \/ new \in PageIds
         \/ new = root_page_id'
         \/ At("propagate")' /\ Child(call'.separator) = new
  PROVE  Reached'
<1>1. ASSUME NEW c, HasParent(c)
      PROVE  WillHaveParent(c)
  <2>1. PICK q \in Inner : c \in Children(q)
    BY <1>1 DEF HasParent
  <2>2. CASE q = p
    BY <2>1, <2>2
  <2>3. CASE q # p
    <3>1. q \in Inner' /\ Children(q)' = Children(q)
      BY <2>1, <2>3, SameNode
    <3> QED BY <2>1, <3>1 DEF WillHaveParent
  <2> QED BY <2>2, <2>3
<1>2. ASSUME NEW q \in PageIds
      PROVE  q = root_page_id' \/ WillHaveParent(q)
  BY <1>1 DEF Reached
<1>3. ASSUME NEW q \in PageIds'
      PROVE  \/ q = root_page_id' \/ WillHaveParent(q)
             \/ At("propagate")' /\ q = Child(call'.separator)
  BY <1>2
<1> QED BY <1>3 DEF Reached, WillHaveParent, HasParent

LEMMA StepKeepsReached ==
  ASSUME IInv, IInv', [Next]_vars, Rooted, Reached
  PROVE  Reached'
<1>0. \A q : pages'[q] = pages[q] => IsLeaf(q)' = IsLeaf(q)
  BY SameNode
<1>1. ASSUME NEW new, FirstLeaf(new)
      PROVE  Reached'
  BY <1>1, NoLeafBeforeRoot DEF Reached
<1>2. ASSUME NEW p, NEW t, LeafTakes(p, t)
      PROVE  Reached'
  <2>1. /\ PageIds' = PageIds /\ ~At("propagate") /\ root_page_id' = root_page_id
        /\ p \in PageIds /\ IsLeaf(p) /\ \A q \in PageIds \ {p} : pages'[q] = pages[q]
    BY <1>2 DEF LeafTakes, WithEntry, At
  <2>2. p \notin Inner /\ \A q \in Inner \ {p} : q \in Inner' /\ pages'[q] = pages[q]
    BY <1>0, <2>1 DEF Inner, Leaves
  <2> QED BY <2>1, <2>2, ReachedStill
<1>3. ASSUME NEW p, NEW new, NEW t, NEW mid, LeafSplits(p, new, t, mid)
      PROVE  Reached'
  <2>1. /\ PageIds' = PageIds \cup {new} /\ ~At("propagate") /\ root_page_id' = root_page_id
        /\ p \in PageIds /\ IsLeaf(p) /\ \A q \in PageIds \ {p} : pages'[q] = pages[q]
        /\ At("propagate")' /\ Child(call'.separator) = new
    BY <1>3 DEF LeafSplits, SplitInto, PageIsAdded, WithEntry, At, Child
  <2>2. p \notin Inner /\ \A q \in Inner \ {p} : q \in Inner' /\ pages'[q] = pages[q]
    BY <1>0, <2>1 DEF Inner, Leaves
  <2> QED BY <2>1, <2>2, ReachedStill
<1>4. ASSUME NEW p, NEW slot, NEW t, ParentTakes(p, slot, t)
      PROVE  Reached'
  <2>1. /\ WithSeparator(p, slot, t) /\ PageIds' = PageIds /\ root_page_id' = root_page_id
        /\ p \in PageIds /\ ~IsLeaf(p)' /\ \A q \in PageIds \ {p} : pages'[q] = pages[q]
        /\ pages'[p].entries = t
    BY <1>4 DEF ParentTakes, WithSeparator
  <2>2. p \in Inner' /\ \A q \in Inner \ {p} : q \in Inner' /\ pages'[q] = pages[q]
    BY <1>0, <2>1 DEF Inner, Leaves
  <2>3. Children(p)' = {Child(t[i]) : i \in 1 .. Len(t)}
    BY <2>1, EntriesNext DEF IInv
  <2>4. /\ \A c \in Children(p) : WillHaveParent(c)
        /\ WillHaveParent(Child(call.separator))
    <3>1. \A i \in 1 .. Len(t) : Child(t[i]) \in Children(p)'
      BY <2>3
    <3>2. \A c \in Children(p) \cup {Child(call.separator)} : \E i \in 1 .. Len(t) : c = Child(t[i])
      BY <2>1, ChildrenKept
    <3>3. \A c \in Children(p) \cup {Child(call.separator)} : c \in Children(p)'
      BY <3>1, <3>2
    <3> QED BY <2>2, <3>3 DEF WillHaveParent
  <2> QED BY <2>1, <2>2, <2>4, ReachedStill
<1>5. ASSUME NEW p, NEW new, NEW slot, NEW t, NEW mid, ParentSplits(p, new, slot, t, mid)
      PROVE  Reached'
  <2>1. WithSeparator(p, slot, t) /\ SplitInto(p, new, t, mid)
    BY <1>5 DEF ParentSplits
  <2>2. /\ PageIds' = PageIds \cup {new} /\ root_page_id' = root_page_id
        /\ p \in PageIds /\ ~IsLeaf(p) /\ \A q \in PageIds \ {p} : pages'[q] = pages[q]
        /\ At("propagate")' /\ Child(call'.separator) = new
    BY <2>1 DEF SplitInto, PageIsAdded, WithSeparator, Child
  <2>3. ~IsLeaf(p)' /\ ~IsLeaf(new)'
    BY <2>1, <2>2, Zenon DEF SplitInto
  <2>4. /\ p \in Inner' /\ new \in Inner'
        /\ \A q \in Inner \ {p} : q \in Inner' /\ pages'[q] = pages[q]
    BY <1>0, <2>2, <2>3 DEF Inner, Leaves
  <2>5. /\ mid \in 1 .. Len(t) - 1 /\ Len(t) \in Nat
        /\ Children(p)' = {Child(t[i]) : i \in 1 .. mid}
        /\ Children(new)' = {Child(t[mid + i]) : i \in 1 .. Len(t) - mid}
    BY <1>5, SplitChildren
  <2>6. ASSUME NEW i \in 1 .. Len(t)
        PROVE  Child(t[i]) \in Children(p)' \/ Child(t[i]) \in Children(new)'
    <3>1. CASE i <= mid
      BY <2>5, <3>1
    <3>2. CASE ~(i <= mid)
      <4>1. i - mid \in 1 .. Len(t) - mid /\ mid + (i - mid) = i
        BY <2>5, <3>2
      <4> QED BY <2>5, <4>1
    <3> QED BY <3>1, <3>2
  <2>7. /\ \A c \in Children(p) : WillHaveParent(c)
        /\ WillHaveParent(Child(call.separator))
    <3>1. \A c \in Children(p) \cup {Child(call.separator)} : \E i \in 1 .. Len(t) : c = Child(t[i])
      BY <2>1, ChildrenKept
    <3>2. \A c \in Children(p) \cup {Child(call.separator)} :
            c \in Children(p)' \/ c \in Children(new)'
      BY <2>6, <3>1
    <3> QED BY <2>4, <3>2 DEF WillHaveParent
  <2> QED BY <2>2, <2>4, <2>7, ReachedStill
<1>6. ASSUME NEW new, RootGrows(new)
      PROVE  Reached'
  <2>1. /\ PageIds' = PageIds \cup {new} /\ new \notin PageIds
        /\ root_page_id' = new /\ call.left = root_page_id
        /\ ~IsLeaf(new)' /\ \A q \in PageIds : pages'[q] = pages[q]
        /\ pages'[new].entries = <<<<INVALID_KEY, call.left>>, call.separator>>
    BY <1>6 DEF RootGrows, PageIsAdded
  <2>2. /\ new \notin Inner /\ new \in Inner'
        /\ \A q \in Inner \ {new} : q \in Inner' /\ pages'[q] = pages[q]
    BY <1>0, <2>1 DEF Inner, Leaves
  <2>3. \A c \in {root_page_id, Child(call.separator)} : c \in Children(new)'
    <3>1. PICK s : s = <<<<INVALID_KEY, call.left>>, call.separator>>
      OBVIOUS
    <3>2. DOMAIN s = 1 .. 2 /\ s[1] = <<INVALID_KEY, call.left>> /\ s[2] = call.separator
      BY <3>1
    <3>3. 1 \in DOMAIN s /\ 2 \in DOMAIN s /\ Child(s[1]) = root_page_id
      BY <2>1, <3>2 DEF Child
    <3>4. pages'[new].entries = s
      BY <2>1, <3>1
    <3> QED BY <3>2, <3>3, <3>4 DEF Children
  <2>4. WillHaveParent(root_page_id) /\ WillHaveParent(Child(call.separator))
    BY <2>2, <2>3 DEF WillHaveParent
  <2> QED BY <2>1, <2>2, <2>4, ReachedStill
<1>7. CASE Quiet
  <2>1. /\ PageIds' = PageIds /\ root_page_id' = root_page_id /\ pages' = pages
        /\ (At("propagate") \/ At("propagate")') => call' = call
    BY <1>7 DEF Quiet, PageIds
  <2>2. Inner' = Inner /\ \A q : Children(q)' = Children(q)
    BY <1>0, <2>1 DEF Inner, Leaves, Children
  <2> QED BY <2>1, <2>2 DEF Reached, HasParent, At
<1> QED BY <1>1, <1>2, <1>3, <1>4, <1>5, <1>6, <1>7, StepKinds

-----------------------------------------------------------------------------
(* The chain.  Every page has a first leaf, and after is the leaf that the *)
(* last leaf below it links to.  The leaves below a child end where those  *)
(* below the next child begin; as with the ranges of the keys, the parent  *)
(* of a page that has been split still takes it to end, at stop, where the *)
(* new page does.                                                          *)

Follow(t, f, a, first, stop) ==
  /\ Len(t) \in Nat \ {0}
  /\ first[Child(t[1])] = f
  /\ \A i \in 1 .. Len(t) :
       stop[Child(t[i])] = IF i = Len(t) THEN a ELSE first[Child(t[i + 1])]

NodeChained(p, first, after, stop) ==
  IF IsLeaf(p) THEN first[p] = p /\ after[p] = pages[p].next
  ELSE Follow(pages[p].entries, first[p], after[p], first, stop)

SplitChained(first, after) ==
  At("propagate") => after[call.left] = first[Child(call.separator)]

Chained(first, after, stop) ==
  /\ \A p \in PageIds : NodeChained(p, first, after, stop)
  /\ Ends(after, stop)
  /\ SplitChained(first, after)
  /\ root_page_id \in PageIds => stop[root_page_id] = INVALID_PAGE_ID

HasChain ==
  \E first \in [PageIds -> Int] : \E after \in [PageIds -> Int] : \E stop \in [PageIds -> Int] :
    Chained(first, after, stop)

LEMMA StillFollow ==
  ASSUME NEW t, NEW f, NEW a, NEW first, NEW stop, NEW first2, NEW stop2,
         Follow(t, f, a, first, stop),
         \A i \in 1 .. Len(t) : /\ first2[Child(t[i])] = first[Child(t[i])]
                                /\ stop2[Child(t[i])] = stop[Child(t[i])]
  PROVE  Follow(t, f, a, first2, stop2)
<1>1. Len(t) \in Nat \ {0}
  BY DEF Follow
<1>2. 1 \in 1 .. Len(t) /\ \A i \in 1 .. Len(t) : i # Len(t) => i + 1 \in 1 .. Len(t)
  BY <1>1
<1> QED BY <1>2 DEF Follow

(* A child was split: the parent's entries follow each other again once    *)
(* they have e.                                                            *)
LEMMA SeparatorFollows ==
  ASSUME NEW s, NEW f, NEW a, NEW first, NEW after, NEW stop, Follow(s, f, a, first, stop),
         NEW slot \in 1 .. Len(s), NEW e,
         \A i \in 1 .. Len(s) : i # slot => after[Child(s[i])] = stop[Child(s[i])],
         after[Child(s[slot])] = first[Child(e)], after[Child(e)] = stop[Child(s[slot])],
         NEW t, Entered(s, slot, e, t)
  PROVE  Follow(t, f, a, first, after)
<1>1. PICK n \in Nat \ {0} : n = Len(s)
  BY DEF Follow
<1>2. /\ Len(t) = n + 1 /\ slot \in 1 .. n
      /\ \A i \in 1 .. slot : t[i] = s[i]
      /\ t[slot + 1] = e
      /\ \A i \in slot + 1 .. n : t[i + 1] = s[i]
  BY <1>1 DEF Entered
<1>3. first[Child(t[1])] = f
  BY <1>1, <1>2 DEF Follow
<1>4. ASSUME NEW i \in 1 .. n + 1
      PROVE  after[Child(t[i])] = IF i = n + 1 THEN a ELSE first[Child(t[i + 1])]
  <2>1. \A j \in 1 .. n : stop[Child(s[j])] = IF j = n THEN a ELSE first[Child(s[j + 1])]
    BY <1>1 DEF Follow
  <2>2. CASE i < slot
    <3>1. i \in 1 .. n /\ i # slot /\ i # n /\ i # n + 1 /\ i \in 1 .. slot /\ i + 1 \in 1 .. slot
      BY <1>2, <2>2
    <3>2. t[i] = s[i] /\ t[i + 1] = s[i + 1] /\ after[Child(s[i])] = stop[Child(s[i])]
      BY <1>1, <1>2, <3>1
    <3>3. stop[Child(s[i])] = first[Child(s[i + 1])]
      BY <2>1, <3>1
    <3> QED BY <3>1, <3>2, <3>3
  <2>3. CASE i = slot
    <3>1. i # n + 1 /\ t[i] = s[slot] /\ t[i + 1] = e
      BY <1>2, <2>3
    <3> QED BY <3>1
  <2>4. CASE i = slot + 1
    <3>1. after[Child(t[i])] = IF slot = n THEN a ELSE first[Child(s[slot + 1])]
      BY <1>2, <2>1, <2>4
    <3>2. CASE slot = n
      BY <1>2, <2>4, <3>1, <3>2
    <3>3. CASE slot # n
      <4>1. slot + 1 \in slot + 1 .. n /\ i # n + 1 /\ i + 1 = slot + 1 + 1
        BY <1>2, <2>4, <3>3
      <4>2. t[i + 1] = s[slot + 1]
        BY <1>2, <4>1
      <4> QED BY <3>1, <3>3, <4>1, <4>2
    <3> QED BY <3>2, <3>3
  <2>5. CASE i > slot + 1
    <3>1. PICK j \in slot + 1 .. n : i = j + 1
      <4>1. i - 1 \in slot + 1 .. n /\ i = (i - 1) + 1
        BY <1>2, <2>5
      <4> QED BY <4>1
    <3>2. j \in 1 .. n /\ j # slot /\ (i = n + 1 <=> j = n) /\ (j # n => i \in slot + 1 .. n)
      BY <1>2, <3>1
    <3>3. t[i] = s[j] /\ after[Child(s[j])] = stop[Child(s[j])]
      BY <1>1, <1>2, <3>1, <3>2
    <3>4. j # n => t[i + 1] = s[j + 1]
      BY <1>2, <3>1, <3>2
    <3> QED BY <2>1, <3>2, <3>3, <3>4
  <2>6. slot \in Nat /\ i \in Nat
    BY <1>2
  <2> QED BY <2>2, <2>3, <2>4, <2>5, <2>6
<1>5. n + 1 \in Nat \ {0}
  OBVIOUS
<1> QED BY <1>2, <1>3, <1>4, <1>5 DEF Follow

(* The halves of a node: the left one ends where the right one begins. *)
LeftChildren(t, mid, u) ==
  Len(u) = mid /\ \A i \in 1 .. mid : Child(u[i]) = Child(t[i])

RightChildren(t, mid, v) ==
  Len(v) = Len(t) - mid /\ \A i \in 1 .. Len(t) - mid : Child(v[i]) = Child(t[mid + i])

LEMMA HalvesFollow ==
  ASSUME NEW t, NEW f, NEW a, NEW first, NEW stop, Follow(t, f, a, first, stop),
         NEW mid \in 1 .. Len(t) - 1, NEW m, m = first[Child(t[mid + 1])],
         NEW u, LeftChildren(t, mid, u), NEW v, RightChildren(t, mid, v)
  PROVE  Follow(u, f, m, first, stop) /\ Follow(v, m, a, first, stop)
<1>1. PICK n \in Nat \ {0} : n = Len(t)
  BY DEF Follow
<1>2. /\ mid \in 1 .. n - 1 /\ mid \in Nat \ {0} /\ n - mid \in Nat \ {0}
      /\ Len(u) = mid /\ \A i \in 1 .. mid : Child(u[i]) = Child(t[i])
      /\ Len(v) = n - mid /\ \A i \in 1 .. n - mid : Child(v[i]) = Child(t[mid + i])
  BY <1>1 DEF LeftChildren, RightChildren
<1>3. \A i \in 1 .. n : stop[Child(t[i])] = IF i = n THEN a ELSE first[Child(t[i + 1])]
  BY <1>1 DEF Follow
<1>4. Follow(u, f, m, first, stop)
  <2>1. ASSUME NEW i \in 1 .. mid
        PROVE  stop[Child(u[i])] = IF i = mid THEN m ELSE first[Child(u[i + 1])]
    <3>1. i \in 1 .. n /\ i # n /\ (i # mid => i + 1 \in 1 .. mid)
      BY <1>2
    <3>2. i # mid => Child(u[i + 1]) = Child(t[i + 1])
      BY <1>2, <3>1
    <3> QED BY <1>2, <1>3, <3>1, <3>2
  <2>2. 1 \in 1 .. mid
    BY <1>2
  <2>3. first[Child(u[1])] = f
    BY <1>2, <2>2 DEF Follow
  <2> QED BY <1>2, <2>1, <2>3 DEF Follow
<1>5. Follow(v, m, a, first, stop)
  <2>1. ASSUME NEW i \in 1 .. n - mid
        PROVE  stop[Child(v[i])] = IF i = n - mid THEN a ELSE first[Child(v[i + 1])]
    <3>1. /\ mid + i \in 1 .. n /\ (mid + i = n <=> i = n - mid)
          /\ i # n - mid => i + 1 \in 1 .. n - mid /\ mid + (i + 1) = (mid + i) + 1
      <4>1. PICK d \in Nat \ {0} : d = n - mid
        BY <1>2
      <4>2. i \in 1 .. d /\ n = mid + d /\ mid \in Nat \ {0}
        BY <1>2, <4>1
      <4>3. mid + i \in 1 .. n /\ (mid + i = n <=> i = d)
        BY <4>1, <4>2
      <4>4. i # d => i + 1 \in 1 .. d /\ mid + (i + 1) = (mid + i) + 1
        BY <4>1, <4>2
      <4> QED BY <4>1, <4>3, <4>4
    <3>2. i # n - mid => Child(v[i + 1]) = Child(t[(mid + i) + 1])
      BY <1>2, <1>1, <3>1
    <3>3. Child(v[i]) = Child(t[mid + i])
      BY <1>2, <1>1
    <3> QED BY <1>3, <3>1, <3>2, <3>3
  <2>2. first[Child(v[1])] = m
    BY <1>1, <1>2
  <2> QED BY <1>1, <1>2, <2>1, <2>2 DEF Follow
<1> QED BY <1>4, <1>5

LEMMA SameNodeChained ==
  ASSUME Shape, NEW first, NEW after, NEW stop, NEW first2, NEW after2, NEW stop2,
         NEW q \in PageIds, NodeChained(q, first, after, stop), pages'[q] = pages[q],
         first2[q] = first[q], after2[q] = after[q],
         q \in Inner => \A c \in Children(q) : first2[c] = first[c] /\ stop2[c] = stop[c]
  PROVE  NodeChained(q, first2, after2, stop2)'
<1>1. IsLeaf(q)' = IsLeaf(q)
  BY SameNode
<1>2. CASE IsLeaf(q)
  BY <1>1, <1>2 DEF NodeChained
<1>3. CASE ~IsLeaf(q)
  <2>1. q \in Inner /\ Follow(pages[q].entries, first[q], after[q], first, stop)
    BY <1>3 DEF NodeChained, Inner, Leaves
  <2>2. \A i \in 1 .. Size(q) : ChildAt(q, i) \in Children(q)
    BY EntriesNow
  <2>3. \A i \in 1 .. Len(pages[q].entries) :
          /\ first2[Child(pages[q].entries[i])] = first[Child(pages[q].entries[i])]
          /\ stop2[Child(pages[q].entries[i])] = stop[Child(pages[q].entries[i])]
    BY <2>1, <2>2 DEF Size, ChildAt
  <2>4. Follow(pages[q].entries, first[q], after[q], first2, stop2)
    BY <2>1, <2>3, StillFollow
  <2> QED BY <1>1, <1>3, <2>4 DEF NodeChained
<1> QED BY <1>2, <1>3

LEMMA SplitKeepsChain ==
  ASSUME IInv, NEW first \in [PageIds -> Int], NEW after \in [PageIds -> Int], NEW stop,
         Chained(first, after, stop),
         NEW p, NEW new, NEW t, NEW mid, SplitInto(p, new, t, mid), NEW m \in Int,
         \A q \in Inner \ {p} : \A c \in Children(q) : stop[c] = after[c],
         stop[root_page_id] = after[root_page_id],
         NEW first2, first2 = [q \in PageIds' |-> IF q = new THEN m ELSE first[q]],
         NEW after2, after2 = [q \in PageIds' |-> IF q = p THEN m ELSE
                                                  IF q = new THEN after[p] ELSE after[q]],
         NEW stop2, stop2 = [q \in PageIds' |-> IF q = new THEN after[p] ELSE after[q]],
         NodeChained(p, first2, after2, stop2)', NodeChained(new, first2, after2, stop2)'
  PROVE  HasChain'
<1>1. /\ p \in PageIds /\ PageIds' = PageIds \cup {new} /\ new \notin PageIds
      /\ \A q \in PageIds \ {p} : pages'[q] = pages[q]
      /\ At("propagate")' /\ call'.left = p /\ Child(call'.separator) = new
      /\ root_page_id \in PageIds /\ root_page_id' = root_page_id
  BY DEF SplitInto, PageIsAdded, Child
<1>2. after[p] \in Int
  BY <1>1
<1>3. /\ first2 \in [PageIds' -> Int] /\ after2 \in [PageIds' -> Int] /\ stop2 \in [PageIds' -> Int]
      /\ first2[new] = m /\ after2[new] = after[p] /\ after2[p] = m /\ stop2[new] = after[p]
      /\ \A q \in PageIds : first2[q] = first[q] /\ stop2[q] = after[q]
      /\ \A q \in PageIds \ {p} : after2[q] = after[q]
  BY <1>1, <1>2
<1>4. Shape
  BY DEF IInv
<1>5. ASSUME NEW q \in PageIds \ {p}
      PROVE  NodeChained(q, first2, after2, stop2)'
  <2>1. ASSUME q \in Inner, NEW c \in Children(q)
        PROVE  first2[c] = first[c] /\ stop2[c] = stop[c]
    <3>1. c \in PageIds
      BY <1>4, <2>1 DEF Shape
    <3> QED BY <1>3, <2>1, <3>1
  <2>2. NodeChained(q, first, after, stop)
    BY DEF Chained
  <2>3. /\ q \in PageIds /\ pages'[q] = pages[q] /\ first2[q] = first[q] /\ after2[q] = after[q]
        /\ q \in Inner => \A c \in Children(q) : first2[c] = first[c] /\ stop2[c] = stop[c]
    BY <1>1, <1>3, <2>1
  <2> QED BY <1>4, <2>2, <2>3, SameNodeChained
<1>6. \A q \in PageIds' : NodeChained(q, first2, after2, stop2)'
  BY <1>1, <1>5
<1>7. Ends(after2, stop2)'
  <2>1. ASSUME NEW c \in PageIds'
        PROVE  stop2[c] = IF c = p THEN after2[new] ELSE after2[c]
    BY <1>1, <1>3
  <2> QED BY <1>1, <2>1 DEF Ends
<1>8. SplitChained(first2, after2)'
  BY <1>1, <1>3 DEF SplitChained
<1>9. stop2[root_page_id'] = INVALID_PAGE_ID
  BY <1>1, <1>3 DEF Chained
<1>10. Chained(first2, after2, stop2)'
  BY <1>1, <1>6, <1>7, <1>8, <1>9 DEF Chained
<1> QED BY <1>3, <1>10 DEF HasChain

LEMMA FirstLeafChained ==
  ASSUME IInv, Rooted, NEW new, FirstLeaf(new)
  PROVE  HasChain'
<1>1. /\ PageIds' = {new} /\ IsLeaf(new)' /\ root_page_id' = new /\ ~At("propagate")'
      /\ pages'[new].next = INVALID_PAGE_ID /\ new \in Int /\ INVALID_PAGE_ID \in Int
  BY NoLeafBeforeRoot DEF FirstLeaf, PageIsAdded, INVALID_PAGE_ID
<1>2. PICK first : first = [q \in PageIds' |-> new]
  OBVIOUS
<1>3. PICK after : after = [q \in PageIds' |-> INVALID_PAGE_ID]
  OBVIOUS
<1>4. /\ first \in [PageIds' -> Int] /\ after \in [PageIds' -> Int]
      /\ first[new] = new /\ after[new] = INVALID_PAGE_ID
  BY <1>1, <1>2, <1>3
<1>5. NodeChained(new, first, after, after)'
  BY <1>1, <1>4 DEF NodeChained
<1>6. Chained(first, after, after)'
  BY <1>1, <1>4, <1>5 DEF Chained, Ends, SplitChained
<1> QED BY <1>4, <1>6 DEF HasChain

LEMMA LeafTakesChained ==
  ASSUME IInv, NEW first \in [PageIds -> Int], NEW after \in [PageIds -> Int],
         NEW stop \in [PageIds -> Int], Chained(first, after, stop),
         NEW p, NEW t, LeafTakes(p, t)
  PROVE  HasChain'
<1>1. /\ PageIds' = PageIds /\ p \in PageIds /\ IsLeaf(p) /\ IsLeaf(p)'
      /\ \A q \in PageIds \ {p} : pages'[q] = pages[q]
      /\ pages'[p].next = pages[p].next
      /\ root_page_id' = root_page_id /\ ~At("propagate")' /\ ~At("propagate")
  BY DEF LeafTakes, WithEntry, Idle, At
<1>2. NodeChained(p, first, after, stop)'
  BY <1>1 DEF NodeChained, Chained
<1>3. \A q \in PageIds \ {p} : NodeChained(q, first, after, stop)'
  BY <1>1, SameNodeChained DEF Chained, IInv
<1>4. \A q \in PageIds' : NodeChained(q, first, after, stop)'
  BY <1>1, <1>2, <1>3
<1>5. Chained(first, after, stop)'
  BY <1>1, <1>4 DEF Chained, Ends, SplitChained
<1> QED BY <1>1, <1>5 DEF HasChain

LEMMA LeafSplitsChained ==
  ASSUME IInv, NEW first \in [PageIds -> Int], NEW after \in [PageIds -> Int],
         NEW stop \in [PageIds -> Int], Chained(first, after, stop),
         NEW p, NEW new, NEW t, NEW mid, LeafSplits(p, new, t, mid)
  PROVE  HasChain'
<1>1. /\ SplitInto(p, new, t, mid) /\ ~At("propagate") /\ p \in PageIds /\ IsLeaf(p)
      /\ new \notin PageIds /\ PageIds' = PageIds \cup {new} /\ new \in Int
      /\ root_page_id \in PageIds
      /\ pages'[p].next = new /\ pages'[new].next = pages[p].next
  <2>1. /\ SplitInto(p, new, t, mid) /\ WithEntry(p, t) /\ ~At("propagate")
        /\ pages'[p].next = new /\ pages'[new].next = pages[p].next
    BY DEF LeafSplits, At
  <2>2. p \in PageIds /\ IsLeaf(p)
    BY <2>1 DEF WithEntry
  <2>3. PageIsAdded(new) /\ root_page_id \in PageIds
    BY <2>1 DEF SplitInto
  <2> QED BY <2>1, <2>2, <2>3 DEF PageIsAdded
<1>2. IsLeaf(p)' /\ IsLeaf(new)'
  BY <1>1, Zenon DEF SplitInto
<1>3. first[p] = p /\ after[p] = pages[p].next
  BY <1>1 DEF Chained, NodeChained
<1>0. PICK m \in Int : m = new
  BY <1>1
<1>4. PICK first2 : first2 = [q \in PageIds' |-> IF q = new THEN m ELSE first[q]]
  OBVIOUS
<1>5. PICK after2 : after2 = [q \in PageIds' |-> IF q = p THEN m ELSE
                                                 IF q = new THEN after[p] ELSE after[q]]
  OBVIOUS
<1>6. PICK stop2 : stop2 = [q \in PageIds' |-> IF q = new THEN after[p] ELSE after[q]]
  OBVIOUS
<1>7. first2[p] = p /\ first2[new] = new /\ after2[p] = new /\ after2[new] = pages[p].next
  BY <1>0, <1>1, <1>3, <1>4, <1>5
<1>8. NodeChained(p, first2, after2, stop2)' /\ NodeChained(new, first2, after2, stop2)'
  BY <1>1, <1>2, <1>7 DEF NodeChained
<1>9. \A c \in PageIds : stop[c] = after[c]
  BY <1>1 DEF Chained, Ends
<1>10. /\ \A q \in Inner \ {p} : \A c \in Children(q) : stop[c] = after[c]
       /\ stop[root_page_id] = after[root_page_id]
  BY <1>1, <1>9 DEF IInv, Shape
<1>11. SplitInto(p, new, t, mid)
  BY <1>1
<1> QED BY <1>0, <1>4, <1>5, <1>6, <1>8, <1>10, <1>11, SplitKeepsChain

(* With the separator, the children of a parent follow each other as is.   *)
LEMMA ParentFollows ==
  ASSUME IInv, OneParent, NEW first \in [PageIds -> Int], NEW after \in [PageIds -> Int],
         NEW stop, Chained(first, after, stop),
         NEW p, NEW slot, NEW t, WithSeparator(p, slot, t)
  PROVE  Follow(t, first[p], after[p], first, after)
<1>1. /\ At("propagate") /\ p \in PageIds /\ ~IsLeaf(p) /\ slot \in 1 .. Size(p)
      /\ ChildAt(p, slot) = call.left
      /\ Entered(pages[p].entries, slot, call.separator, t)
  BY DEF WithSeparator
<1>2. /\ p \in Inner /\ call.left \in PageIds /\ Child(call.separator) \in PageIds
      /\ Child(call.separator) # call.left
      /\ \A i \in 1 .. Size(p) : ChildAt(p, i) \in PageIds
  <2>1. Separated(p, slot, t)
    BY SeparatedChild
  <2> QED BY <1>1, <2>1 DEF Separated, OneParent
<1>3. Follow(pages[p].entries, first[p], after[p], first, stop)
  BY <1>1 DEF Chained, NodeChained
<1>4. \A i \in 1 .. Size(p) : i # slot => ChildAt(p, i) # call.left
  BY <1>1, <1>2 DEF OneParent
<1>5. \A i \in 1 .. Size(p) : i # slot => after[ChildAt(p, i)] = stop[ChildAt(p, i)]
  BY <1>2, <1>4 DEF Chained, Ends
<1>6. /\ after[ChildAt(p, slot)] = first[Child(call.separator)]
      /\ after[Child(call.separator)] = stop[ChildAt(p, slot)]
  BY <1>1, <1>2 DEF Chained, Ends, SplitChained
<1>7. PICK s : s = pages[p].entries
  OBVIOUS
<1>8. /\ slot \in 1 .. Len(s) /\ Entered(s, slot, call.separator, t)
      /\ Follow(s, first[p], after[p], first, stop)
      /\ \A i \in 1 .. Len(s) : i # slot => after[Child(s[i])] = stop[Child(s[i])]
      /\ after[Child(s[slot])] = first[Child(call.separator)]
      /\ after[Child(call.separator)] = stop[Child(s[slot])]
  BY <1>1, <1>3, <1>5, <1>6, <1>7 DEF Size, ChildAt
<1> QED BY <1>8, SeparatorFollows

LEMMA ParentTakesChained ==
  ASSUME IInv, Rooted, HasRanks, OneParent,
         NEW first \in [PageIds -> Int], NEW after \in [PageIds -> Int], NEW stop,
         Chained(first, after, stop), NEW p, NEW slot, NEW t, ParentTakes(p, slot, t)
  PROVE  HasChain'
<1>1. /\ WithSeparator(p, slot, t) /\ PageIds' = PageIds /\ p \in PageIds /\ ~IsLeaf(p)'
      /\ \A q \in PageIds \ {p} : pages'[q] = pages[q]
      /\ root_page_id' = root_page_id /\ ~At("propagate")'
      /\ pages'[p].entries = t
  BY DEF ParentTakes, WithSeparator, Idle, At
<1>2. NodeChained(p, first, after, after)'
  BY <1>1, ParentFollows DEF NodeChained
<1>3. /\ stop[root_page_id] = after[root_page_id]
      /\ \A q \in Inner \ {p} : \A c \in Children(q) : stop[c] = after[c]
  BY <1>1, LeftIsElsewhere DEF Chained
<1>4. ASSUME NEW q \in PageIds \ {p}
      PROVE  NodeChained(q, first, after, after)'
  <2>1. /\ q \in PageIds /\ pages'[q] = pages[q] /\ Shape /\ NodeChained(q, first, after, stop)
        /\ q \in Inner => \A c \in Children(q) : first[c] = first[c] /\ after[c] = stop[c]
    BY <1>1, <1>3 DEF IInv, Chained
  <2> QED BY <2>1, SameNodeChained
<1>5. \A q \in PageIds' : NodeChained(q, first, after, after)'
  BY <1>1, <1>2, <1>4
<1>6. Chained(first, after, after)'
  BY <1>1, <1>3, <1>5 DEF Chained, Ends, SplitChained
<1> QED BY <1>1, <1>6 DEF HasChain

LEMMA ParentSplitsChained ==
  ASSUME IInv, IInv', Rooted, HasRanks, OneParent,
         NEW first \in [PageIds -> Int], NEW after \in [PageIds -> Int], NEW stop,
         Chained(first, after, stop),
         NEW p, NEW new, NEW slot, NEW t, NEW mid, ParentSplits(p, new, slot, t, mid)
  PROVE  HasChain'
<1>1. WithSeparator(p, slot, t) /\ SplitInto(p, new, t, mid)
  BY DEF ParentSplits
<1>2. /\ p \in PageIds /\ new \notin PageIds /\ PageIds' = PageIds \cup {new}
      /\ Len(pages'[p].entries) = mid /\ \A i \in 1 .. mid : pages'[p].entries[i] = t[i]
      /\ Len(pages'[new].entries) = Len(t) - mid
  BY <1>1 DEF SplitInto, PageIsAdded
<1>3. ~IsLeaf(p)' /\ ~IsLeaf(new)'
  <2>1. ~IsLeaf(p)
    BY <1>1 DEF WithSeparator
  <2> QED BY <1>1, <2>1, Zenon DEF SplitInto
<1>4. /\ mid \in 1 .. Len(t) - 1 /\ Len(t) \in Nat
      /\ \A i \in 1 .. Len(t) - mid : Child(pages'[new].entries[i]) = Child(t[mid + i])
  BY SplitChildren
<1>5. \A i \in 1 .. Len(t) : Child(t[i]) \in PageIds
  <2>1. PICK rank \in [PageIds -> Nat] : Ranked(rank)
    BY DEF HasRanks
  <2> QED BY <1>1, <2>1, SeparatedRanks
<1>6. PICK m : m = first[Child(t[mid + 1])]
  OBVIOUS
<1>7. m \in Int
  <2>1. mid + 1 \in 1 .. Len(t)
    BY <1>4
  <2> QED BY <1>5, <1>6, <2>1
<1>8. PICK first2 : first2 = [q \in PageIds' |-> IF q = new THEN m ELSE first[q]]
  OBVIOUS
<1>9. PICK after2 : after2 = [q \in PageIds' |-> IF q = p THEN m ELSE
                                                 IF q = new THEN after[p] ELSE after[q]]
  OBVIOUS
<1>10. PICK stop2 : stop2 = [q \in PageIds' |-> IF q = new THEN after[p] ELSE after[q]]
  OBVIOUS
<1>11. /\ first2[p] = first[p] /\ after2[p] = m /\ first2[new] = m /\ after2[new] = after[p]
       /\ \A q \in PageIds : first2[q] = first[q] /\ stop2[q] = after[q]
  BY <1>2, <1>8, <1>9, <1>10
<1>12. Follow(t, first[p], after[p], first, after)
  BY <1>1, ParentFollows
<1>13. Follow(t, first[p], after[p], first2, stop2)
  <2>1. \A i \in 1 .. Len(t) : /\ first2[Child(t[i])] = first[Child(t[i])]
                               /\ stop2[Child(t[i])] = after[Child(t[i])]
    BY <1>5, <1>11
  <2> QED BY <1>12, <2>1, StillFollow, Zenon
<1>14. m = first2[Child(t[mid + 1])]
  <2>1. mid + 1 \in 1 .. Len(t)
    BY <1>4
  <2> QED BY <1>5, <1>6, <1>11, <2>1
<1>15. /\ Follow(pages'[p].entries, first[p], m, first2, stop2)
       /\ Follow(pages'[new].entries, m, after[p], first2, stop2)
  <2>1. LeftChildren(t, mid, pages'[p].entries) /\ RightChildren(t, mid, pages'[new].entries)
    BY <1>2, <1>4 DEF LeftChildren, RightChildren
  <2>2. mid \in 1 .. Len(t) - 1
    BY <1>4
  <2> QED BY <1>13, <1>14, <2>1, <2>2, HalvesFollow
<1>16. NodeChained(p, first2, after2, stop2)' /\ NodeChained(new, first2, after2, stop2)'
  BY <1>3, <1>11, <1>15 DEF NodeChained
<1>17. /\ stop[root_page_id] = after[root_page_id]
       /\ \A q \in Inner \ {p} : \A c \in Children(q) : stop[c] = after[c]
  BY <1>1, LeftIsElsewhere DEF Chained
<1> QED BY <1>1, <1>7, <1>8, <1>9, <1>10, <1>16, <1>17, SplitKeepsChain

LEMMA RootGrowsChained ==
  ASSUME IInv, Rooted, HasRanks,
         NEW first \in [PageIds -> Int], NEW after \in [PageIds -> Int], NEW stop,
         Chained(first, after, stop), NEW new, RootGrows(new)
  PROVE  HasChain'
<1>1. /\ At("propagate") /\ call.left = root_page_id
      /\ PageIds' = PageIds \cup {new} /\ new \notin PageIds /\ ~IsLeaf(new)'
      /\ \A q \in PageIds : pages'[q] = pages[q]
      /\ root_page_id' = new /\ ~At("propagate")'
  BY DEF RootGrows, PageIsAdded, Idle, At
<1>2. PICK s : s = <<<<INVALID_KEY, call.left>>, call.separator>>
  OBVIOUS
<1>3. pages'[new].entries = s
  BY <1>2 DEF RootGrows
<1>4. PICK d : d = Child(call.separator)
  OBVIOUS
<1>5. PICK top : top = root_page_id
  OBVIOUS
<1>6. d \in PageIds /\ top \in PageIds /\ call.left = top
  BY <1>1, <1>4, <1>5, Propagating, EntryParts
<1>7. Len(s) = 2 /\ Child(s[1]) = top /\ Child(s[2]) = d
  BY <1>2, <1>4, <1>6 DEF Child
<1>8. after[top] = first[d] /\ after[d] = INVALID_PAGE_ID
  BY <1>1, <1>4, <1>5, <1>6 DEF Chained, Ends, SplitChained
<1>9. PICK first2 : first2 = [q \in PageIds' |-> IF q = new THEN first[top] ELSE first[q]]
  OBVIOUS
<1>10. PICK after2 : after2 = [q \in PageIds' |-> IF q = new THEN INVALID_PAGE_ID ELSE after[q]]
  OBVIOUS
<1>11. /\ first2 \in [PageIds' -> Int] /\ after2 \in [PageIds' -> Int]
       /\ first2[new] = first[top] /\ after2[new] = INVALID_PAGE_ID
       /\ \A q \in PageIds : first2[q] = first[q] /\ after2[q] = after[q]
  BY <1>1, <1>6, <1>9, <1>10 DEF INVALID_PAGE_ID
<1>12. Follow(s, first[top], INVALID_PAGE_ID, first2, after2)
  <2>1. \A i \in 1 .. Len(s) : i = 1 \/ i = 2
    BY <1>7
  <2>2. ASSUME NEW i \in 1 .. Len(s)
        PROVE  after2[Child(s[i])] =
                 IF i = Len(s) THEN INVALID_PAGE_ID ELSE first2[Child(s[i + 1])]
    <3>1. CASE i = 1
      BY <1>6, <1>7, <1>8, <1>11, <3>1
    <3>2. CASE i = 2
      BY <1>6, <1>7, <1>8, <1>11, <3>2
    <3> QED BY <2>1, <3>1, <3>2
  <2>3. first2[Child(s[1])] = first[top]
    BY <1>6, <1>7, <1>11
  <2> QED BY <1>7, <2>2, <2>3 DEF Follow
<1>13. NodeChained(new, first2, after2, after2)'
  BY <1>1, <1>3, <1>11, <1>12 DEF NodeChained
<1>14. ASSUME NEW q \in PageIds
       PROVE  NodeChained(q, first2, after2, after2)'
  <2>1. ASSUME q \in Inner, NEW c \in Children(q)
        PROVE  first2[c] = first[c] /\ after2[c] = stop[c]
    <3>1. c \in PageIds /\ c # call.left
      BY <1>1, <2>1, RootHasNoParent DEF IInv, Shape
    <3>2. stop[c] = after[c]
      BY <3>1 DEF Chained, Ends
    <3> QED BY <1>11, <3>1, <3>2
  <2>2. /\ pages'[q] = pages[q] /\ first2[q] = first[q] /\ after2[q] = after[q] /\ Shape
        /\ NodeChained(q, first, after, stop)
        /\ q \in Inner => \A c \in Children(q) : first2[c] = first[c] /\ after2[c] = stop[c]
    BY <1>1, <1>11, <2>1 DEF IInv, Chained
  <2> QED BY <2>2, SameNodeChained
<1>15. \A q \in PageIds' : NodeChained(q, first2, after2, after2)'
  BY <1>1, <1>13, <1>14
<1>16. Chained(first2, after2, after2)'
  BY <1>1, <1>11, <1>15 DEF Chained, Ends, SplitChained
<1> QED BY <1>11, <1>16 DEF HasChain

LEMMA StepKeepsChain ==
  ASSUME IInv, IInv', [Next]_vars, Rooted, HasRanks, OneParent, HasChain
  PROVE  HasChain'
<1>1. PICK first \in [PageIds -> Int], after \in [PageIds -> Int], stop \in [PageIds -> Int] :
        Chained(first, after, stop)
  BY DEF HasChain
<1>2. ASSUME NEW new, FirstLeaf(new)
      PROVE  HasChain'
  BY <1>2, FirstLeafChained
<1>3. ASSUME NEW p, NEW t, LeafTakes(p, t)
      PROVE  HasChain'
  BY <1>1, <1>3, LeafTakesChained
<1>4. ASSUME NEW p, NEW new, NEW t, NEW mid, LeafSplits(p, new, t, mid)
      PROVE  HasChain'
  BY <1>1, <1>4, LeafSplitsChained
<1>5. ASSUME NEW p, NEW slot, NEW t, ParentTakes(p, slot, t)
      PROVE  HasChain'
  BY <1>1, <1>5, ParentTakesChained
<1>6. ASSUME NEW p, NEW new, NEW slot, NEW t, NEW mid, ParentSplits(p, new, slot, t, mid)
      PROVE  HasChain'
  BY <1>1, <1>6, ParentSplitsChained
<1>7. ASSUME NEW new, RootGrows(new)
      PROVE  HasChain'
  BY <1>1, <1>7, RootGrowsChained
<1>8. CASE Quiet
  <2>1. /\ PageIds' = PageIds /\ root_page_id' = root_page_id /\ pages' = pages
        /\ (At("propagate") \/ At("propagate")') => call' = call
    BY <1>8 DEF Quiet, PageIds
  <2>2. \A q \in PageIds : NodeChained(q, first, after, stop)'
    BY <1>1, <2>1, SameNodeChained DEF IInv, Chained
  <2>3. Ends(after, stop)' /\ SplitChained(first, after)'
    BY <1>1, <2>1 DEF Chained, Ends, SplitChained, At
  <2>4. Chained(first, after, stop)'
    BY <1>1, <2>1, <2>2, <2>3 DEF Chained
  <2> QED BY <1>1, <2>1, <2>4 DEF HasChain
<1> QED BY <1>2, <1>3, <1>4, <1>5, <1>6, <1>7, <1>8, StepKinds

-----------------------------------------------------------------------------
(* Flattening.  R[i] holds what the first i sequences, one behind the      *)
(* other, make.                                                            *)

LEMMA FlatReaches ==
  ASSUME NEW n \in Nat \ {0}, NEW ss, Len(ss) = n, NEW R, ss[1] \in R[1],
         \A i \in 2 .. n : \A x \in R[i - 1] : x \o ss[i] \in R[i]
  PROVE  FlattenSeq(ss) \in R[n]
<1>1. \E f : IsFlat(f, ss, n)
  BY FlatExists
<1>2. PICK f : f = CHOOSE g : IsFlat(g, ss, n)
  OBVIOUS
<1>3. IsFlat(f, ss, n)
  BY <1>1, <1>2, Zenon
<1>4. FlattenSeq(ss) = f[n]
  <2>1. Len(ss) # 0
    OBVIOUS
  <2> QED BY <1>2, <2>1, Zenon DEF FlattenSeq, IsFlat
<1>5. \A i \in 1 .. n : f[i] = IF i = 1 THEN ss[i] ELSE f[i - 1] \o ss[i]
  BY <1>3, Zenon DEF IsFlat
<1> DEFINE T == {i \in 1 .. n : f[i] \notin R[i]}
<1>6. ASSUME T # {} PROVE FALSE
  <2>1. T \in SUBSET Nat
    OBVIOUS
  <2>2. PICK i \in T : \A j \in T : i <= j
    BY <1>6, <2>1, LeastNumber
  <2>3. i \in 1 .. n /\ f[i] \notin R[i]
    BY <2>2
  <2>4. i # 1
    BY <1>5, <2>3
  <2>5. i - 1 \in 1 .. n /\ ~(i <= i - 1) /\ i \in 2 .. n
    BY <2>3, <2>4
  <2>6. f[i - 1] \in R[i - 1]
    BY <2>2, <2>5
  <2>7. f[i] = f[i - 1] \o ss[i]
    BY <1>5, <2>3, <2>4
  <2> QED BY <2>3, <2>5, <2>6, <2>7
<1> QED BY <1>4, <1>6

(* Where the elements of two sequences are, one behind the other.          *)
LEMMA Joined ==
  ASSUME NEW S, NEW s \in Seq(S), NEW u \in Seq(S)
  PROVE  /\ s \o u \in Seq(S) /\ Len(s) \in Nat /\ Len(u) \in Nat
         /\ Len(s \o u) = Len(s) + Len(u)
         /\ \A i \in 1 .. Len(s) : (s \o u)[i] = s[i]
         /\ \A i \in 1 .. Len(u) : (s \o u)[Len(s) + i] = u[i]
<1>1. PICK m \in Nat : m = Len(s)
  BY LenProperties
<1>2. PICK n \in Nat : n = Len(u)
  BY LenProperties
<1>3. /\ s \o u \in Seq(S) /\ Len(s \o u) = m + n
      /\ \A i \in 1 .. m + n : (s \o u)[i] = IF i <= m THEN s[i] ELSE u[i - m]
  BY <1>1, <1>2, ConcatProperties
<1>4. \A i \in 1 .. m : i \in 1 .. m + n /\ i <= m
  OBVIOUS
<1>5. \A i \in 1 .. n : m + i \in 1 .. m + n /\ ~(m + i <= m) /\ (m + i) - m = i
  OBVIOUS
<1>6. \A i \in 1 .. m : (s \o u)[i] = s[i]
  BY <1>3, <1>4
<1>7. \A i \in 1 .. n : (s \o u)[m + i] = u[i]
  BY <1>3, <1>5
<1> QED BY <1>1, <1>2, <1>3, <1>6, <1>7

(* Every position of the whole is one of the parts. *)
LEMMA Parted ==
  ASSUME NEW m \in Nat, NEW n \in Nat, NEW i \in 1 .. m + n
  PROVE  i \in 1 .. m \/ \E j \in 1 .. n : i = m + j
<1>1. CASE i <= m
  BY <1>1
<1>2. CASE ~(i <= m)
  <2>1. i - m \in 1 .. n /\ i = m + (i - m)
    BY <1>2
  <2> QED BY <2>1
<1> QED BY <1>1, <1>2

Holds(s, x) == \E i \in 1 .. Len(s) : s[i] = x

(* Flattening keeps every element. *)
LEMMA FlatHolds ==
  ASSUME NEW U, NEW n \in Nat \ {0}, NEW ss, Len(ss) = n, \A i \in 1 .. n : ss[i] \in Seq(U),
         NEW k \in 1 .. n, NEW x, Holds(ss[k], x)
  PROVE  Holds(FlattenSeq(ss), x)
<1> DEFINE R == [i \in 1 .. n |-> {s \in Seq(U) : i >= k => Holds(s, x)}]
<1>1. \A i \in 1 .. n : R[i] = {s \in Seq(U) : i >= k => Holds(s, x)}
  BY Zenon
<1> HIDE DEF R
<1>2. ss[1] \in R[1]
  <2>1. 1 >= k => k = 1
    OBVIOUS
  <2> QED BY <1>1, <2>1
<1>3. ASSUME NEW i \in 2 .. n, NEW s \in R[i - 1]
      PROVE  s \o ss[i] \in R[i]
  <2>1. i \in 1 .. n /\ i - 1 \in 1 .. n
    OBVIOUS
  <2>2. s \in Seq(U) /\ (i - 1 >= k => Holds(s, x)) /\ ss[i] \in Seq(U)
    BY <1>1, <2>1
  <2>3. Holds(s, x) \/ Holds(ss[i], x) => Holds(s \o ss[i], x)
    <3>1. PICK u \in Seq(U) : u = ss[i]
      BY <2>2
    <3>2. PICK a \in Nat : a = Len(s)
      BY <2>2, LenProperties
    <3>3. PICK b \in Nat : b = Len(u)
      BY LenProperties
    <3>4. /\ Len(s \o u) = a + b
          /\ \A j \in 1 .. a : (s \o u)[j] = s[j]
          /\ \A j \in 1 .. b : (s \o u)[a + j] = u[j]
      BY <2>2, <3>2, <3>3, Joined
    <3>5. \A j \in 1 .. a : j \in 1 .. a + b
      OBVIOUS
    <3>6. \A j \in 1 .. b : a + j \in 1 .. a + b
      OBVIOUS
    <3>7. Holds(s, x) => Holds(s \o u, x)
      BY <3>2, <3>4, <3>5 DEF Holds
    <3>8. Holds(u, x) => Holds(s \o u, x)
      BY <3>3, <3>4, <3>6 DEF Holds
    <3> QED BY <3>1, <3>7, <3>8
  <2>4. i >= k => i - 1 >= k \/ i = k
    OBVIOUS
  <2>5. s \o ss[i] \in Seq(U)
    BY <2>2, ConcatProperties
  <2> QED BY <1>1, <2>1, <2>2, <2>3, <2>4, <2>5
<1>4. FlattenSeq(ss) \in R[n]
  BY <1>2, <1>3, FlatReaches
<1> QED BY <1>1, <1>4

-----------------------------------------------------------------------------
(* The leaves below a page are a run: one links to the next, whose range   *)
(* begins where that of the one before ends.  The run begins with leaf f   *)
(* and key l, and ends with a link to a and key h.                         *)

Adjoin(c, lo, hi) ==
  \A i \in 1 .. Len(c) - 1 : pages[c[i]].next = c[i + 1] /\ hi[c[i]] = lo[c[i + 1]]

IsRun(c, f, a, l, h, lo, hi) ==
  /\ Len(c) \in Nat \ {0}
  /\ c[1] = f /\ lo[f] = l
  /\ pages[c[Len(c)]].next = a /\ hi[c[Len(c)]] = h
  /\ Adjoin(c, lo, hi)

LEMMA RunsJoin ==
  ASSUME NEW lo, NEW hi, NEW f, NEW a, NEW b, NEW l, NEW h, NEW k,
         NEW c \in Seq(Leaves), IsRun(c, f, a, l, h, lo, hi),
         NEW d \in Seq(Leaves), IsRun(d, a, b, h, k, lo, hi)
  PROVE  c \o d \in Seq(Leaves) /\ IsRun(c \o d, f, b, l, k, lo, hi)
<1>1. PICK m \in Nat \ {0} : m = Len(c)
  BY DEF IsRun
<1>2. PICK n \in Nat \ {0} : n = Len(d)
  BY DEF IsRun
<1>3. PICK e : e = c \o d
  OBVIOUS
<1>4. /\ e \in Seq(Leaves) /\ Len(e) = m + n
      /\ \A i \in 1 .. m : e[i] = c[i]
      /\ \A i \in 1 .. n : e[m + i] = d[i]
  BY <1>1, <1>2, <1>3, Joined
<1>5. 1 \in 1 .. m /\ n \in 1 .. n /\ 1 \in 1 .. n /\ m \in 1 .. m
  OBVIOUS
<1>6. e[1] = f /\ lo[f] = l /\ e[m] = c[m] /\ e[m + 1] = d[1] /\ e[m + n] = d[n]
  BY <1>4, <1>5 DEF IsRun
<1>7. /\ pages[c[m]].next = a /\ hi[c[m]] = h /\ d[1] = a /\ lo[a] = h
      /\ pages[d[n]].next = b /\ hi[d[n]] = k
  BY <1>1, <1>2 DEF IsRun
<1>8. ASSUME NEW i \in 1 .. m + n - 1
      PROVE  pages[e[i]].next = e[i + 1] /\ hi[e[i]] = lo[e[i + 1]]
  <2>1. CASE i < m
    <3>1. i \in 1 .. m /\ i + 1 \in 1 .. m /\ i \in 1 .. m - 1
      BY <2>1
    <3> QED BY <1>1, <1>4, <3>1 DEF IsRun, Adjoin
  <2>2. CASE i = m
    BY <1>6, <1>7, <2>2
  <2>3. CASE i > m
    <3>1. PICK j \in 1 .. n - 1 : i = m + j
      <4>1. i - m \in 1 .. n - 1 /\ i = m + (i - m)
        BY <2>3
      <4> QED BY <4>1
    <3>2. j \in 1 .. n /\ j + 1 \in 1 .. n /\ i + 1 = m + (j + 1)
      BY <3>1
    <3>3. e[i] = d[j] /\ e[i + 1] = d[j + 1]
      BY <1>4, <3>1, <3>2
    <3> QED BY <1>2, <3>1, <3>3 DEF IsRun, Adjoin
  <2> QED BY <2>1, <2>2, <2>3
<1>9. m + n \in Nat \ {0}
  OBVIOUS
<1>10. Adjoin(e, lo, hi)
  BY <1>4, <1>8 DEF Adjoin
<1> QED BY <1>3, <1>4, <1>6, <1>7, <1>9, <1>10 DEF IsRun

(* The runs of the children, which follow each other, make that of the     *)
(* parent.                                                                 *)
LEMMA ChildrenRun ==
  ASSUME NEW lo, NEW hi, NEW first, NEW after, NEW f, NEW a, NEW l, NEW h,
         NEW t, Follow(t, f, a, first, after), Divide(t, l, h, lo, hi),
         NEW ss, Len(ss) = Len(t),
         \A i \in 1 .. Len(t) :
           LET c == Child(t[i])
           IN  /\ ss[i] \in Seq(Leaves)
               /\ IsRun(ss[i], first[c], after[c], lo[c], hi[c], lo, hi)
  PROVE  FlattenSeq(ss) \in Seq(Leaves) /\ IsRun(FlattenSeq(ss), f, a, l, h, lo, hi)
<1>1. PICK n \in Nat \ {0} : n = Len(t)
  BY DEF Follow
<1>2. PICK c : c = [i \in 1 .. n |-> Child(t[i])]
  OBVIOUS
<1>3. \A i \in 1 .. n : /\ ss[i] \in Seq(Leaves)
                        /\ IsRun(ss[i], first[c[i]], after[c[i]], lo[c[i]], hi[c[i]], lo, hi)
  BY <1>1, <1>2
<1>4. /\ first[c[1]] = f /\ lo[c[1]] = l /\ after[c[n]] = a /\ hi[c[n]] = h
      /\ \A i \in 1 .. n : i # n => after[c[i]] = first[c[i + 1]] /\ hi[c[i]] = lo[c[i + 1]]
  <2>1. 1 \in 1 .. n /\ n \in 1 .. n
    OBVIOUS
  <2>2. first[c[1]] = f /\ lo[c[1]] = l /\ after[c[n]] = a /\ hi[c[n]] = h
    BY <1>1, <1>2, <2>1 DEF Follow, Divide
  <2>3. ASSUME NEW i \in 1 .. n, i # n
        PROVE  after[c[i]] = first[c[i + 1]] /\ hi[c[i]] = lo[c[i + 1]]
    <3>1. i + 1 \in 1 .. n /\ i + 1 # 1
      BY <2>3
    <3> QED BY <1>1, <1>2, <2>3, <3>1 DEF Follow, Divide
  <2> QED BY <2>2, <2>3
<1> DEFINE R == [i \in 1 .. n |-> {s \in Seq(Leaves) : IsRun(s, f, after[c[i]], l, hi[c[i]], lo, hi)}]
<1>5. \A i \in 1 .. n : R[i] = {s \in Seq(Leaves) : IsRun(s, f, after[c[i]], l, hi[c[i]], lo, hi)}
  BY Zenon
<1> HIDE DEF R
<1>6. ss[1] \in R[1]
  <2>1. 1 \in 1 .. n
    OBVIOUS
  <2> QED BY <1>3, <1>4, <1>5, <2>1
<1>7. ASSUME NEW i \in 2 .. n, NEW s \in R[i - 1]
      PROVE  s \o ss[i] \in R[i]
  <2>1. i \in 1 .. n /\ i - 1 \in 1 .. n /\ i - 1 # n /\ (i - 1) + 1 = i
    OBVIOUS
  <2>2. s \in Seq(Leaves) /\ IsRun(s, f, after[c[i - 1]], l, hi[c[i - 1]], lo, hi)
    BY <1>5, <2>1
  <2>3. after[c[i - 1]] = first[c[i]] /\ hi[c[i - 1]] = lo[c[i]]
    BY <1>4, <2>1
  <2>4. /\ ss[i] \in Seq(Leaves)
        /\ IsRun(ss[i], first[c[i]], after[c[i]], lo[c[i]], hi[c[i]], lo, hi)
    BY <1>3, <2>1
  <2>5. s \o ss[i] \in Seq(Leaves) /\ IsRun(s \o ss[i], f, after[c[i]], l, hi[c[i]], lo, hi)
    BY <2>2, <2>3, <2>4, RunsJoin
  <2> QED BY <1>5, <2>1, <2>5
<1>8. FlattenSeq(ss) \in R[n]
  BY <1>1, <1>6, <1>7, FlatReaches
<1> QED BY <1>4, <1>5, <1>8

-----------------------------------------------------------------------------
(* The leaves below a page, when no separator goes up the tree.            *)

Threaded(first, after, lo, hi) ==
  \A p \in PageIds : NodeChained(p, first, after, after) /\ NodeInOrder(p, lo, hi, hi)

LEMMA NodesThreaded ==
  ASSUME ~At("propagate"),
         NEW first, NEW after \in [PageIds -> Int], NEW stop \in [PageIds -> Int],
         Chained(first, after, stop),
         NEW lo, NEW hi \in [PageIds -> Int], NEW end \in [PageIds -> Int], Ordered(lo, hi, end)
  PROVE  Threaded(first, after, lo, hi)
<1>1. stop = after
  <2>1. \A c \in PageIds : stop[c] = after[c]
    BY DEF Chained, Ends
  <2> QED BY <2>1
<1>2. end = hi
  <2>1. \A c \in PageIds : end[c] = hi[c]
    BY DEF Ordered, Ends
  <2> QED BY <2>1
<1> QED BY <1>1, <1>2 DEF Threaded, Chained, Ordered

LEMMA UnderIsBelow ==
  ASSUME IInv, Rooted, HasRanks
  PROVE  /\ \A p \in PageIds : IsLeaf(p) => LeavesUnder[p] = <<p>>
         /\ \A p \in PageIds : ~IsLeaf(p) => LeavesUnder[p] = Flattened(LeavesUnder, p)
<1>1. PICK rank \in [PageIds -> Nat] : Ranked(rank)
  BY DEF HasRanks
<1>2. PICK u : u = LeavesUnder
  OBVIOUS
<1>3. IsUnder(u, PageIds)
  <2>1. \E f : IsUnder(f, PageIds)
    BY <1>1, UnderExists DEF IInv
  <2>2. LeavesUnder = CHOOSE f : IsUnder(f, PageIds)
    BY Zenon DEF LeavesUnder, IsUnder, Flattened
  <2> QED BY <1>2, <2>1, <2>2, Zenon
<1>4. \A p \in PageIds : u[p] = IF IsLeaf(p) THEN <<p>> ELSE Flattened(u, p)
  BY <1>3, Zenon DEF IsUnder
<1>5. /\ \A p \in PageIds : IsLeaf(p) => u[p] = <<p>>
      /\ \A p \in PageIds : ~IsLeaf(p) => u[p] = Flattened(u, p)
  BY <1>4, Zenon
<1> QED BY <1>2, <1>5, Zenon

(* The leaves below an inner page are those below its children. *)
LEMMA ChildrenFlattened ==
  ASSUME IInv, Rooted, HasRanks, NEW p \in Inner
  PROVE  \E n \in Nat \ {0} : \E ss :
           /\ n = Size(p) /\ Len(ss) = n /\ LeavesUnder[p] = FlattenSeq(ss)
           /\ \A i \in 1 .. n : ss[i] = LeavesUnder[ChildAt(p, i)]
<1>1. p \in PageIds /\ ~IsLeaf(p) /\ Shape
  BY DEF Inner, Leaves, IInv
<1>2. PICK u : u = LeavesUnder
  OBVIOUS
<1>3. PICK n \in Nat \ {0} : n = Size(p) /\ DOMAIN pages[p].entries = 1 .. n
  BY <1>1, EntriesNow
<1>4. PICK ss : ss = [i \in DOMAIN pages[p].entries |-> u[Child(pages[p].entries[i])]]
  OBVIOUS
<1>5. LeavesUnder[p] = Flattened(LeavesUnder, p)
  BY <1>1, UnderIsBelow
<1>6. LeavesUnder[p] = FlattenSeq(ss)
  BY <1>2, <1>4, <1>5, Zenon DEF Flattened
<1>7. Len(ss) = n /\ \A i \in 1 .. n : ss[i] = u[ChildAt(p, i)]
  BY <1>3, <1>4 DEF ChildAt
<1> QED BY <1>2, <1>3, <1>6, <1>7

LeavesRun(p, first, after, lo, hi) ==
  /\ LeavesUnder[p] \in Seq(Leaves)
  /\ IsRun(LeavesUnder[p], first[p], after[p], lo[p], hi[p], lo, hi)

LEMMA LeavesUnderRun ==
  ASSUME IInv, Rooted, HasRanks, NEW first, NEW after, NEW lo, NEW hi,
         Threaded(first, after, lo, hi)
  PROVE  \A p \in PageIds : LeavesRun(p, first, after, lo, hi)
<1>1. PICK rank \in [PageIds -> Nat] : Ranked(rank)
  BY DEF HasRanks
<1>2. Shape
  BY DEF IInv
<1> DEFINE T == {rank[p] : p \in {q \in PageIds : ~LeavesRun(q, first, after, lo, hi)}}
<1>3. ASSUME T # {} PROVE FALSE
  <2>1. T \in SUBSET Nat
    OBVIOUS
  <2> HIDE DEF T
  <2>2. PICK n \in T : \A m \in T : n <= m
    BY <1>3, <2>1, LeastNumber
  <2>3. PICK p \in PageIds : n = rank[p] /\ ~LeavesRun(p, first, after, lo, hi)
    BY <2>2 DEF T
  <2>4. CASE IsLeaf(p)
    <3>1. p \in Leaves /\ LeavesUnder[p] = <<p>>
      BY <2>4, UnderIsBelow DEF Leaves
    <3>2. first[p] = p /\ after[p] = pages[p].next
      BY <2>4 DEF Threaded, NodeChained
    <3>3. <<p>> \in Seq(Leaves) /\ Len(<<p>>) = 1 /\ <<p>>[1] = p
      BY <3>1
    <3>4. IsRun(<<p>>, first[p], after[p], lo[p], hi[p], lo, hi)
      BY <3>2, <3>3 DEF IsRun, Adjoin
    <3> QED BY <2>3, <3>1, <3>3, <3>4 DEF LeavesRun
  <2>5. CASE ~IsLeaf(p)
    <3>1. p \in Inner
      BY <2>5 DEF Inner, Leaves
    <3>2. PICK k, ss :
            /\ k \in Nat \ {0} /\ k = Size(p) /\ Len(ss) = k /\ LeavesUnder[p] = FlattenSeq(ss)
            /\ \A i \in 1 .. k : ss[i] = LeavesUnder[ChildAt(p, i)]
      BY <3>1, ChildrenFlattened
    <3>3. ASSUME NEW i \in 1 .. k
          PROVE  LeavesRun(ChildAt(p, i), first, after, lo, hi)
      <4>1. i \in DOMAIN pages[p].entries
        BY <1>2, <3>2, EntriesNow
      <4>2. PICK c \in PageIds : c = ChildAt(p, i) /\ rank[c] < rank[p]
        BY <1>1, <1>2, <2>5, <4>1, ChildRank DEF ChildAt
      <4>3. rank[c] \in Nat /\ n \in Nat /\ ~(n <= rank[c])
        BY <2>3, <4>2
      <4>4. rank[c] \notin T
        BY <2>2, <4>3
      <4> QED BY <4>2, <4>4 DEF T
    <3>4. PICK t : t = pages[p].entries
      OBVIOUS
    <3>5. Follow(t, first[p], after[p], first, after) /\ Divide(t, lo[p], hi[p], lo, hi)
      BY <2>5, <3>4 DEF Threaded, NodeChained, NodeInOrder
    <3>6. Len(ss) = Len(t) /\ Len(t) = k
      BY <3>2, <3>4 DEF Size
    <3>7. \A i \in 1 .. Len(t) :
            LET c == Child(t[i])
            IN  /\ ss[i] \in Seq(Leaves)
                /\ IsRun(ss[i], first[c], after[c], lo[c], hi[c], lo, hi)
      BY <3>2, <3>3, <3>4, <3>6 DEF LeavesRun, ChildAt
    <3>8. /\ FlattenSeq(ss) \in Seq(Leaves)
          /\ IsRun(FlattenSeq(ss), first[p], after[p], lo[p], hi[p], lo, hi)
      BY <3>5, <3>6, <3>7, ChildrenRun
    <3> QED BY <2>3, <3>2, <3>8 DEF LeavesRun
  <2> QED BY <2>4, <2>5
<1> QED BY <1>3

(* Every leaf is below the root. *)
LEMMA RootAboveAll ==
  ASSUME IInv, Rooted, HasRanks, Reached, ~At("propagate"),
         \A p \in PageIds : LeavesUnder[p] \in Seq(Leaves), NEW l \in Leaves
  PROVE  Holds(LeavesUnder[root_page_id], l)
<1>1. PICK rank \in [PageIds -> Nat] : Ranked(rank)
  BY DEF HasRanks
<1>2. Shape /\ l \in PageIds /\ IsLeaf(l) /\ root_page_id \in PageIds
  BY DEF IInv, Leaves, Rooted
<1>3. PICK top \in Nat : top = rank[root_page_id]
  BY <1>2
<1> DEFINE T == {top - rank[p] : p \in {q \in PageIds : Holds(LeavesUnder[q], l)}}
<1>4. T \in SUBSET Nat
  <2>1. ASSUME NEW p \in PageIds PROVE top - rank[p] \in Nat
    <3>1. rank[p] <= top /\ rank[p] \in Nat
      BY <1>1, <1>3 DEF Ranked
    <3> QED BY <3>1
  <2> QED BY <2>1
<1>5. T # {}
  <2>1. LeavesUnder[l] = <<l>>
    BY <1>2, UnderIsBelow
  <2>2. Holds(LeavesUnder[l], l)
    BY <2>1 DEF Holds
  <2> QED BY <1>2, <2>2
<1> HIDE DEF T
<1>6. PICK m \in T : \A k \in T : m <= k
  BY <1>4, <1>5, LeastNumber
<1>7. PICK p \in PageIds : m = top - rank[p] /\ Holds(LeavesUnder[p], l)
  BY <1>6 DEF T
<1>8. ASSUME p # root_page_id PROVE FALSE
  <2>1. PICK q \in Inner : p \in Children(q)
    BY <1>7, <1>8 DEF Reached, HasParent
  <2>2. q \in PageIds
    BY <2>1 DEF Inner
  <2>3. rank[q] = rank[p] + 1
    BY <1>1, <2>1 DEF Ranked, TreeLevels
  <2>4. PICK n, ss :
          /\ n \in Nat \ {0} /\ n = Size(q) /\ Len(ss) = n /\ LeavesUnder[q] = FlattenSeq(ss)
          /\ \A i \in 1 .. n : ss[i] = LeavesUnder[ChildAt(q, i)]
    BY <2>1, ChildrenFlattened
  <2>5. PICK i \in 1 .. n : p = ChildAt(q, i)
    <3>1. DOMAIN pages[q].entries = 1 .. n
      BY <1>2, <2>2, <2>4, EntriesNow
    <3> QED BY <2>1, <3>1 DEF Children, ChildAt
  <2>6. \A j \in 1 .. n : ChildAt(q, j) \in PageIds
    BY <1>2, <2>2, <2>1, <2>4, EntriesNow DEF Shape, Inner, Leaves
  <2>7. \A j \in 1 .. n : ss[j] \in Seq(Leaves)
    BY <2>4, <2>6
  <2>8. Holds(ss[i], l)
    BY <1>7, <2>4, <2>5
  <2>9. Holds(FlattenSeq(ss), l)
    BY <2>4, <2>7, <2>8, FlatHolds
  <2>10. top - rank[q] \in T
    BY <2>2, <2>4, <2>9 DEF T
  <2>11. m <= top - rank[q]
    BY <1>6, <2>10
  <2>12. rank[p] \in Nat /\ rank[q] \in Nat
    BY <1>7, <2>2
  <2> QED BY <1>3, <1>7, <2>3, <2>11, <2>12
<1> QED BY <1>7, <1>8

-----------------------------------------------------------------------------
(* The chain of all leaves, from left to right. *)
IsChain(c, lo, hi) ==
  /\ c \in Seq(Leaves) /\ Len(c) \in Nat \ {0}
  /\ Adjoin(c, lo, hi)
  /\ pages[c[Len(c)]].next = INVALID_PAGE_ID
  /\ hi[c[Len(c)]] = Unbounded
  /\ \A l \in Leaves : Holds(c, l)

(* No leaf is in the chain twice: behind both there would be the same, and *)
(* so as much.                                                             *)
LEMMA ChainPassesOnce ==
  ASSUME Shape, NEW lo, NEW hi, NEW c, IsChain(c, lo, hi),
         NEW i \in 1 .. Len(c), NEW j \in 1 .. Len(c), c[i] = c[j]
  PROVE  i = j
<1>1. PICK n \in Nat \ {0} : n = Len(c)
  BY DEF IsChain
<1> DEFINE T == {d \in Nat : \E a \in 1 .. n : \E b \in 1 .. n : d = n - b /\ a < b /\ c[a] = c[b]}
<1>2. ASSUME T # {} PROVE FALSE
  <2>1. T \in SUBSET Nat
    OBVIOUS
  <2>2. PICK d \in T : \A k \in T : d <= k
    BY <1>2, <2>1, LeastNumber
  <2>3. PICK a \in 1 .. n, b \in 1 .. n : d = n - b /\ a < b /\ c[a] = c[b]
    BY <2>2
  <2>4. a \in 1 .. n - 1 /\ a + 1 \in 1 .. n
    BY <2>3
  <2>5. pages[c[a]].next = c[a + 1]
    BY <1>1, <2>4 DEF IsChain, Adjoin
  <2>6. CASE b = n
    <3>1. c[a + 1] = INVALID_PAGE_ID
      BY <1>1, <2>3, <2>5, <2>6 DEF IsChain
    <3>2. c[a + 1] \in PageIds
      <4>1. c[a + 1] \in Leaves
        BY <1>1, <2>4, ElementOfSeq DEF IsChain
      <4> QED BY <4>1 DEF Leaves
    <3>3. PageIds = 1 .. Len(pages)
      BY <3>2, NodeFacts
    <3> QED BY <3>1, <3>2, <3>3 DEF INVALID_PAGE_ID
  <2>7. CASE b # n
    <3>1. b \in 1 .. n - 1 /\ b + 1 \in 1 .. n /\ a + 1 < b + 1
      BY <2>3, <2>7
    <3>2. c[a + 1] = c[b + 1]
      BY <1>1, <2>3, <2>5, <3>1 DEF IsChain, Adjoin
    <3>3. n - (b + 1) \in Nat
      BY <3>1
    <3>4. n - (b + 1) \in T
      BY <2>4, <3>1, <3>2, <3>3
    <3>5. d <= n - (b + 1)
      BY <2>2, <3>4
    <3> QED BY <2>3, <3>5
  <2> QED BY <2>6, <2>7
<1>3. ASSUME NEW a \in 1 .. n, NEW b \in 1 .. n, a < b, c[a] = c[b]
      PROVE  FALSE
  <2>1. n - b \in Nat
    OBVIOUS
  <2>2. n - b \in T
    BY <1>3, <2>1
  <2> QED BY <1>2, <2>2
<1>4. i \in 1 .. n /\ j \in 1 .. n
  BY <1>1
<1>5. i < j \/ j < i \/ i = j
  BY <1>4
<1> QED BY <1>3, <1>4, <1>5

(* The leaves below the root are the chain. *)
LEMMA RootHasChain ==
  ASSUME IInv, Rooted, HasRanks, Reached, ~At("propagate"), Leaves # {},
         NEW first, NEW after \in [PageIds -> Int], NEW stop \in [PageIds -> Int],
         Chained(first, after, stop),
         NEW lo, NEW hi \in [PageIds -> Int], NEW end \in [PageIds -> Int], Ordered(lo, hi, end)
  PROVE  IsChain(LeavesUnder[root_page_id], lo, hi)
<1>1. Threaded(first, after, lo, hi)
  BY NodesThreaded
<1>2. \A p \in PageIds : LeavesRun(p, first, after, lo, hi)
  BY <1>1, LeavesUnderRun
<1>3. root_page_id \in PageIds
  BY DEF Rooted, Leaves
<1>4. PICK c : c = LeavesUnder[root_page_id]
  OBVIOUS
<1>5. c \in Seq(Leaves)
      /\ IsRun(c, first[root_page_id], after[root_page_id], lo[root_page_id], hi[root_page_id], lo, hi)
  BY <1>2, <1>3, <1>4 DEF LeavesRun
<1>6. after[root_page_id] = INVALID_PAGE_ID /\ hi[root_page_id] = Unbounded
  BY <1>3 DEF Chained, Ordered, Ends
<1>7. \A l \in Leaves : Holds(c, l)
  <2>1. \A p \in PageIds : LeavesUnder[p] \in Seq(Leaves)
    BY <1>2 DEF LeavesRun
  <2> QED BY <1>4, <2>1, RootAboveAll
<1> QED BY <1>4, <1>5, <1>6, <1>7 DEF IsRun, IsChain

-----------------------------------------------------------------------------
(* The keys along the chain.                                               *)

(* The leaves have records, in their ranges. *)
LeafRanges(lo, hi) ==
  \A l \in Leaves : /\ pages[l].entries \in LeafEntries /\ Len(pages[l].entries) \in Nat \ {0}
                    /\ Within(pages[l].entries, lo[l], hi[l])

LEMMA LeavesKeepRanges ==
  ASSUME IInv, NEW lo, NEW hi, NEW end, Ordered(lo, hi, end)
  PROVE  LeafRanges(lo, hi)
<1>1. ASSUME NEW l \in Leaves
      PROVE  /\ pages[l].entries \in LeafEntries /\ Len(pages[l].entries) \in Nat \ {0}
             /\ Within(pages[l].entries, lo[l], hi[l])
  <2>1. l \in PageIds /\ IsLeaf(l) /\ Shape
    BY DEF Leaves, IInv
  <2>2. pages[l].entries \in LeafEntries
    BY <2>1, NodeFacts
  <2>3. Len(pages[l].entries) \in Nat \ {0}
    BY <2>1, EntriesNow DEF Size
  <2>4. Within(pages[l].entries, lo[l], hi[l])
    BY <2>1 DEF Ordered, NodeInOrder
  <2> QED BY <2>2, <2>3, <2>4
<1> QED BY <1>1 DEF LeafRanges

(* Records in order, with no key above b. *)
UpTo(s, b) ==
  /\ s \in LeafEntries /\ InOrder(s)
  /\ \A i \in 1 .. Len(s) : KeyOf(s[i]) \in Nat /\ Below(KeyOf(s[i]), b)

(* They stay in order when those of the next leaf follow. *)
LEMMA NextInOrder ==
  ASSUME NEW s, NEW t \in LeafEntries, NEW a \in Nat, NEW b,
         UpTo(s, a), Within(t, a, b), Len(t) # 0
  PROVE  UpTo(s \o t, b)
<1>1. PICK m \in Nat : m = Len(s)
  BY LenProperties DEF UpTo, LeafEntries
<1>2. PICK n \in Nat : n = Len(t)
  BY DEF Within
<1>3. PICK u : u = s \o t
  OBVIOUS
<1>4. /\ u \in LeafEntries /\ Len(u) = m + n
      /\ \A i \in 1 .. m : u[i] = s[i]
      /\ \A i \in 1 .. n : u[m + i] = t[i]
  BY <1>1, <1>2, <1>3, Joined DEF UpTo, LeafEntries
<1>5. PICK x : x = [i \in 1 .. m |-> KeyOf(s[i])]
  OBVIOUS
<1>6. /\ \A i \in 1 .. m : KeyOf(u[i]) = x[i] /\ x[i] \in Nat /\ x[i] <= a
      /\ \A i, j \in 1 .. m : i <= j => x[i] <= x[j]
  BY <1>1, <1>4, <1>5 DEF UpTo, InOrder, Below, Unbounded
<1>7. PICK y : y = [i \in 1 .. n |-> KeyOf(t[i])]
  OBVIOUS
<1>8. /\ \A i \in 1 .. n : KeyOf(u[m + i]) = y[i] /\ y[i] \in Nat /\ a <= y[i] /\ Below(y[i], b)
      /\ \A i, j \in 1 .. n : i <= j => y[i] <= y[j]
  BY <1>2, <1>4, <1>7 DEF Within, InOrder
<1>9. b \in Int /\ 1 \in 1 .. n
  BY <1>2 DEF Within
<1>10. Below(a, b)
  BY <1>8, <1>9 DEF Below
<1>11. ASSUME NEW i \in 1 .. m + n
       PROVE  KeyOf(u[i]) \in Nat /\ Below(KeyOf(u[i]), b)
  <2>1. i \in 1 .. m \/ \E j \in 1 .. n : i = m + j
    BY Parted
  <2>2. CASE i \in 1 .. m
    BY <1>6, <1>9, <1>10, <2>2 DEF Below
  <2>3. CASE \E j \in 1 .. n : i = m + j
    BY <1>8, <2>3
  <2> QED BY <2>1, <2>2, <2>3
<1>12. ASSUME NEW i \in 1 .. m + n, NEW j \in 1 .. m + n, i <= j
       PROVE  KeyOf(u[i]) <= KeyOf(u[j])
  <2>1. i \in 1 .. m \/ \E k \in 1 .. n : i = m + k
    BY Parted
  <2>2. j \in 1 .. m \/ \E k \in 1 .. n : j = m + k
    BY Parted
  <2>3. CASE i \in 1 .. m /\ j \in 1 .. m
    BY <1>6, <1>12, <2>3
  <2>4. CASE i \in 1 .. m /\ \E k \in 1 .. n : j = m + k
    <3>1. PICK k \in 1 .. n : j = m + k
      BY <2>4
    <3>2. /\ x[i] <= a /\ a <= y[k] /\ x[i] \in Nat /\ y[k] \in Nat /\ a \in Nat
          /\ KeyOf(u[i]) = x[i] /\ KeyOf(u[m + k]) = y[k]
      BY <1>6, <1>8, <2>4 DEF Below
    <3>3. x[i] <= y[k]
      BY <3>2
    <3> QED BY <3>1, <3>2, <3>3
  <2>5. CASE (\E k \in 1 .. n : i = m + k) /\ j \in 1 .. m
    BY <1>12, <2>5
  <2>6. CASE (\E k \in 1 .. n : i = m + k) /\ (\E k \in 1 .. n : j = m + k)
    <3>1. PICK k \in 1 .. n, l \in 1 .. n : i = m + k /\ j = m + l
      BY <2>6
    <3>2. k <= l
      BY <1>12, <3>1
    <3> QED BY <1>8, <3>1, <3>2
  <2> QED BY <2>1, <2>2, <2>3, <2>4, <2>5, <2>6
<1>13. InOrder(u)
  BY <1>4, <1>12 DEF InOrder
<1> QED BY <1>3, <1>4, <1>11, <1>13 DEF UpTo

(* The places of the chain, one after the other. *)
LEMMA ChainPlaces ==
  ASSUME NEW lo, NEW hi, LeafRanges(lo, hi), NEW c, IsChain(c, lo, hi), NEW i \in 1 .. Len(c)
  PROVE  /\ c[i] \in Leaves
         /\ lo[c[i]] \in Nat
         /\ Within(pages[c[i]].entries, lo[c[i]], hi[c[i]])
         /\ pages[c[i]].entries \in LeafEntries /\ Len(pages[c[i]].entries) \in Nat \ {0}
         /\ IF i = Len(c) THEN hi[c[i]] = Unbounded /\ pages[c[i]].next = INVALID_PAGE_ID
            ELSE /\ i + 1 \in 1 .. Len(c)
                 /\ hi[c[i]] = lo[c[i + 1]] /\ pages[c[i]].next = c[i + 1]
<1>1. PICK n \in Nat \ {0} : n = Len(c)
  BY DEF IsChain
<1>2. c[i] \in Leaves
  BY <1>1, ElementOfSeq DEF IsChain
<1>3. /\ Within(pages[c[i]].entries, lo[c[i]], hi[c[i]])
      /\ pages[c[i]].entries \in LeafEntries /\ Len(pages[c[i]].entries) \in Nat \ {0}
  BY <1>2 DEF LeafRanges
<1>4. lo[c[i]] \in Nat
  BY <1>3 DEF Within
<1>5. i # n => i \in 1 .. n - 1 /\ i + 1 \in 1 .. n
  BY <1>1
<1>6. IF i = n THEN hi[c[i]] = Unbounded /\ pages[c[i]].next = INVALID_PAGE_ID
      ELSE i + 1 \in 1 .. n /\ hi[c[i]] = lo[c[i + 1]] /\ pages[c[i]].next = c[i + 1]
  BY <1>1, <1>5 DEF IsChain, Adjoin
<1> QED BY <1>1, <1>2, <1>3, <1>4, <1>6

(* The keys of a leaf are not above the range of a later one. *)
LEMMA ChainRises ==
  ASSUME NEW lo, NEW hi, LeafRanges(lo, hi), NEW c, IsChain(c, lo, hi)
  PROVE  /\ \A i, j \in 1 .. Len(c) : i <= j => lo[c[i]] <= lo[c[j]]
         /\ \A i, j \in 1 .. Len(c) : i < j => hi[c[i]] \in Nat /\ hi[c[i]] <= lo[c[j]]
<1>1. PICK n \in Nat \ {0} : n = Len(c)
  BY DEF IsChain
<1>2. PICK x : x = [i \in 1 .. n |-> lo[c[i]]]
  OBVIOUS
<1>3. \A i \in 1 .. n : x[i] = lo[c[i]] /\ x[i] \in Nat
  BY <1>1, <1>2, ChainPlaces
<1>4. x \in [1 .. n -> Int]
  BY <1>2, <1>3
<1>5. \A i \in 1 .. n - 1 : hi[c[i]] = x[i + 1] /\ i \in 1 .. n /\ i + 1 \in 1 .. n
  <2> TAKE i \in 1 .. n - 1
  <2>1. i \in 1 .. n /\ i # n /\ i + 1 \in 1 .. n
    OBVIOUS
  <2>2. hi[c[i]] = lo[c[i + 1]]
    BY <1>1, <2>1, ChainPlaces
  <2> QED BY <1>3, <2>1, <2>2
<1>6. \A i \in 1 .. n - 1 : x[i] <= x[i + 1]
  <2> TAKE i \in 1 .. n - 1
  <2>1. Within(pages[c[i]].entries, x[i], x[i + 1]) /\ Len(pages[c[i]].entries) \in Nat \ {0}
    BY <1>1, <1>3, <1>5, ChainPlaces
  <2>2. x[i] \in Nat /\ x[i + 1] \in Nat /\ 1 \in 1 .. Len(pages[c[i]].entries)
    BY <1>3, <1>5, <2>1
  <2>3. PICK k \in Nat : x[i] <= k /\ Below(k, x[i + 1])
    BY <2>1, <2>2 DEF Within
  <2> QED BY <2>2, <2>3 DEF Below, Unbounded
<1>7. \A i, j \in 1 .. n : i <= j => x[i] <= x[j]
  BY <1>4, <1>6, Monotone
<1>8. ASSUME NEW i \in 1 .. n, NEW j \in 1 .. n, i < j
      PROVE  hi[c[i]] \in Nat /\ hi[c[i]] <= lo[c[j]]
  <2>1. i \in 1 .. n - 1 /\ i + 1 \in 1 .. n /\ i + 1 <= j
    BY <1>8
  <2> QED BY <1>3, <1>5, <1>7, <2>1
<1> QED BY <1>1, <1>3, <1>7, <1>8

(* The records of all leaves in the order of the chain are in that of the  *)
(* keys.                                                                   *)
LEMMA ChainInOrder ==
  ASSUME NEW lo, NEW hi, LeafRanges(lo, hi), NEW c, IsChain(c, lo, hi),
         NEW ss, ss = [i \in 1 .. Len(c) |-> pages[c[i]].entries]
  PROVE  UpTo(FlattenSeq(ss), hi[c[Len(c)]])
<1>1. PICK n \in Nat \ {0} : n = Len(c)
  BY DEF IsChain
<1>2. Len(ss) = n /\ \A i \in 1 .. n : ss[i] = pages[c[i]].entries
  BY <1>1
<1> DEFINE R == [i \in 1 .. n |-> {s \in LeafEntries : UpTo(s, hi[c[i]])}]
<1>3. \A i \in 1 .. n : R[i] = {s \in LeafEntries : UpTo(s, hi[c[i]])}
  BY Zenon
<1> HIDE DEF R
<1>4. ss[1] \in R[1]
  <2>1. 1 \in 1 .. n
    OBVIOUS
  <2>2. Within(ss[1], lo[c[1]], hi[c[1]]) /\ ss[1] \in LeafEntries
    BY <1>1, <1>2, <2>1, ChainPlaces
  <2>3. UpTo(ss[1], hi[c[1]])
    BY <2>2 DEF UpTo, Within
  <2> QED BY <1>3, <2>1, <2>2, <2>3
<1>5. ASSUME NEW i \in 2 .. n, NEW s \in R[i - 1]
      PROVE  s \o ss[i] \in R[i]
  <2>1. i \in 1 .. n /\ i - 1 \in 1 .. n /\ i - 1 # n /\ (i - 1) + 1 = i
    OBVIOUS
  <2>2. UpTo(s, hi[c[i - 1]])
    BY <1>3, <2>1
  <2>3. hi[c[i - 1]] = lo[c[i]]
    <3>1. PICK j \in 1 .. n : j = i - 1
      BY <2>1
    <3>2. j # n /\ j + 1 = i
      BY <2>1, <3>1
    <3>3. hi[c[j]] = lo[c[j + 1]]
      BY <1>1, <3>2, ChainPlaces
    <3> QED BY <3>1, <3>2, <3>3
  <2>4. /\ ss[i] \in LeafEntries /\ Within(ss[i], lo[c[i]], hi[c[i]]) /\ Len(ss[i]) # 0
        /\ lo[c[i]] \in Nat
    BY <1>1, <1>2, <2>1, ChainPlaces
  <2>5. UpTo(s \o ss[i], hi[c[i]])
    BY <2>2, <2>3, <2>4, NextInOrder
  <2>6. s \o ss[i] \in LeafEntries
    BY <2>5 DEF UpTo
  <2> QED BY <1>3, <2>1, <2>5, <2>6
<1>6. FlattenSeq(ss) \in R[n]
  BY <1>2, <1>4, <1>5, FlatReaches
<1> QED BY <1>1, <1>3, <1>6

LEMMA LeavesAreChained ==
  ASSUME IInv, Rooted, HasRanks, HasOrder, Reached, HasChain
  PROVE  LeavesChained
<1>1. SUFFICES ASSUME ~Inserting, Leaves # {}
               PROVE  LeavesChained
  BY DEF LeavesChained
<1>2. PICK first \in [PageIds -> Int], after \in [PageIds -> Int], stop \in [PageIds -> Int] :
        Chained(first, after, stop)
  BY DEF HasChain
<1>3. PICK lo \in [PageIds -> Nat], hi \in [PageIds -> Int], end \in [PageIds -> Int] :
        Ordered(lo, hi, end)
  BY DEF HasOrder
<1>4. ~At("propagate")
  BY <1>1 DEF Inserting, At
<1>5. PICK c : c = LeavesUnder[root_page_id]
  OBVIOUS
<1>6. IsChain(c, lo, hi)
  BY <1>1, <1>2, <1>3, <1>4, <1>5, RootHasChain
<1>7. LeafRanges(lo, hi)
  BY <1>3, LeavesKeepRanges
<1>8. PICK n \in Nat \ {0} : n = Len(c)
  BY <1>6 DEF IsChain
<1>9. \A i \in 1 .. n : c[i] \in Leaves
  BY <1>6, <1>7, <1>8, ChainPlaces
<1>10. DOMAIN c = 1 .. n
  BY <1>6, <1>8, LenProperties DEF IsChain
<1>11. ToSet(c) = Leaves
  BY <1>6, <1>8, <1>9, <1>10 DEF ToSet, IsChain, Holds
<1>12. n = Cardinality(Leaves)
  <2>1. c \in [1 .. n -> Leaves]
    BY <1>6, <1>8, LenProperties DEF IsChain
  <2>2. \A i, j \in 1 .. n : c[i] = c[j] => i = j
    BY <1>6, <1>8, ChainPassesOnce DEF IInv
  <2>3. \A l \in Leaves : \E i \in 1 .. n : c[i] = l
    BY <1>6, <1>8 DEF IsChain, Holds
  <2>4. c \in Bijection(1 .. n, Leaves)
    BY <1>10, <2>1, <2>2, <2>3, Zenon DEF Bijection, Injection, IsInjective, Surjection
  <2>5. ExistsBijection(1 .. n, Leaves)
    BY <2>4 DEF ExistsBijection
  <2> QED BY <2>5, FS_CountingElements
<1>13. /\ \A i \in 1 .. n - 1 : pages[c[i]].next = c[i + 1]
       /\ pages[c[n]].next = INVALID_PAGE_ID
  BY <1>6, <1>8 DEF IsChain, Adjoin
<1>14. PICK keys : keys = FlattenSeq([i \in 1 .. n |-> pages[c[i]].entries])
  OBVIOUS
<1>15. \A i \in 1 .. Len(keys) - 1 : KeyOf(keys[i]) <= KeyOf(keys[i + 1])
  <2>1. UpTo(keys, hi[c[n]])
    BY <1>6, <1>7, <1>8, <1>14, ChainInOrder
  <2>2. InOrder(keys) /\ Len(keys) \in Nat
    BY <2>1, LenProperties DEF UpTo, LeafEntries
  <2>3. ASSUME NEW i \in 1 .. Len(keys) - 1
        PROVE  KeyOf(keys[i]) <= KeyOf(keys[i + 1])
    <3>1. i \in 1 .. Len(keys) /\ i + 1 \in 1 .. Len(keys) /\ i <= i + 1
      BY <2>2
    <3> QED BY <2>2, <3>1 DEF InOrder
  <2> QED BY <2>3
<1> QED BY <1>5, <1>8, <1>11, <1>12, <1>13, <1>14, <1>15, Zenon DEF LeavesChained

-----------------------------------------------------------------------------
(* The records: the entries of all leaves, counted.                        *)

EntryAt(r) == pages[r[1]].entries[r[2]]
RecordsOn(P) == {r \in StoredRecords : r[1] \in P}

Where(A, f, e) == {a \in A : f[a] = e}

(* A bijection that keeps the entries keeps how many are equal to e. *)
LEMMA CountsMatch ==
  ASSUME NEW A, IsFiniteSet(A), NEW B, NEW g \in Bijection(A, B),
         NEW f, NEW h, \A a \in A : f[a] = h[g[a]], NEW e
  PROVE  Cardinality(Where(A, f, e)) = Cardinality(Where(B, h, e))
<1>1. PICK S : S = Where(A, f, e) /\ S = {a \in A : f[a] = e}
  BY DEF Where
<1>2. PICK T : T = Where(B, h, e) /\ T = {b \in B : h[b] = e}
  BY DEF Where
<1>3. IsFiniteSet(S)
  BY <1>1, FS_Subset
<1>4. /\ g \in [A -> B] /\ \A a, b \in A : g[a] = g[b] => a = b
      /\ \A b \in B : \E a \in A : g[a] = b
  BY DEF Bijection, Injection, Surjection, IsInjective
<1>5. PICK G : G = [a \in S |-> g[a]]
  OBVIOUS
<1>6. G \in [S -> T] /\ DOMAIN G = S /\ \A a \in S : G[a] = g[a]
  BY <1>1, <1>2, <1>4, <1>5
<1>7. \A a, b \in S : G[a] = G[b] => a = b
  BY <1>1, <1>4, <1>6
<1>8. \A b \in T : \E a \in S : G[a] = b
  BY <1>1, <1>2, <1>4, <1>6
<1>9. ExistsBijection(S, T)
  <2>1. IsInjective(G)
    BY <1>6, <1>7, Zenon DEF IsInjective
  <2>2. G \in Bijection(S, T)
    BY <1>6, <1>8, <2>1, Zenon DEF Bijection, Injection, Surjection
  <2> QED BY <2>2 DEF ExistsBijection
<1> QED BY <1>1, <1>2, <1>3, <1>9, FS_Bijection

(* A record is a position in a leaf. *)
LEMMA RecordPlaces ==
  ASSUME Shape
  PROVE  /\ IsFiniteSet(StoredRecords)
         /\ \A p \in Leaves : \A i \in 1 .. Size(p) : <<p, i>> \in StoredRecords
         /\ \A r \in StoredRecords : /\ r = <<r[1], r[2]>>
                                     /\ r[1] \in Leaves /\ r[2] \in 1 .. Size(r[1])
                                     /\ EntryAt(r) \in Key \X Rid
<1>1. IsFiniteSet(StoredRecords)
  <2>1. PICK n \in Nat : n = Len(pages) /\ PageIds = 1 .. n
    BY DEF Shape, PageIds
  <2>2. PICK m \in Nat : m = leaf_node_max_size
    BY TreeAssumption
  <2>3. IsFiniteSet(1 .. n) /\ IsFiniteSet(1 .. m)
    BY FS_Interval
  <2>4. IsFiniteSet((1 .. n) \X (1 .. m))
    BY <2>3, FS_Product
  <2>5. StoredRecords \in SUBSET ((1 .. n) \X (1 .. m))
    BY <2>1, <2>2 DEF StoredRecords
  <2> QED BY <2>4, <2>5, FS_Subset
<1>2. \A p \in Leaves : /\ Size(p) \in Nat /\ Size(p) <= leaf_node_max_size
                        /\ DOMAIN pages[p].entries = 1 .. Size(p)
                        /\ pages[p].entries \in Seq(Key \X Rid)
  BY EntriesNow, NodeFacts DEF Leaves, LeafEntries
<1>3. leaf_node_max_size \in Nat
  BY TreeAssumption
<1>4. \A p \in Leaves : \A i \in 1 .. Size(p) : <<p, i>> \in StoredRecords
  <2> TAKE p \in Leaves
  <2> TAKE i \in 1 .. Size(p)
  <2>1. i \in 1 .. leaf_node_max_size /\ i \in DOMAIN pages[p].entries
    BY <1>2, <1>3
  <2> QED BY <2>1 DEF StoredRecords, Leaves
<1>5. ASSUME NEW r \in StoredRecords
      PROVE  /\ r = <<r[1], r[2]>> /\ r[1] \in Leaves /\ r[2] \in 1 .. Size(r[1])
             /\ EntryAt(r) \in Key \X Rid
  <2>1. r = <<r[1], r[2]>> /\ r[1] \in Leaves /\ r[2] \in DOMAIN pages[r[1]].entries
    BY DEF StoredRecords, Leaves
  <2>2. r[2] \in 1 .. Size(r[1]) /\ pages[r[1]].entries \in Seq(Key \X Rid)
    BY <1>2, <2>1
  <2> QED BY <2>1, <2>2 DEF EntryAt, Size
<1> QED BY <1>1, <1>4, <1>5

(* s has the records of the pages P, each once. *)
Match(s, P) ==
  \E w \in Bijection(1 .. Len(s), RecordsOn(P)) : \A i \in 1 .. Len(s) : s[i] = EntryAt(w[i])

LEMMA MatchNothing ==
  Match(<<>>, {})
<1>1. 1 .. Len(<<>>) = {} /\ RecordsOn({}) = {}
  BY DEF RecordsOn
<1>2. PICK w : w = [i \in {} |-> 0]
  OBVIOUS
<1>3. w \in Bijection({}, {})
  BY <1>2, Zenon DEF Bijection, Injection, IsInjective, Surjection
<1> QED BY <1>1, <1>3 DEF Match

LEMMA MatchMore ==
  ASSUME Shape, NEW P, NEW p \in Leaves, p \notin P, NEW s \in LeafEntries, Match(s, P)
  PROVE  Match(s \o pages[p].entries, P \cup {p})
<1>1. PICK m \in Nat : m = Len(s)
  BY LenProperties DEF LeafEntries
<1>2. PICK t : t = pages[p].entries
  OBVIOUS
<1>3. PICK n \in Nat : n = Size(p) /\ n = Len(t) /\ t \in LeafEntries
  BY <1>2, EntriesNow, NodeFacts DEF Leaves, Size
<1>4. PICK u : u = s \o t
  OBVIOUS
<1>5. /\ Len(u) = m + n
      /\ \A i \in 1 .. m : u[i] = s[i]
      /\ \A i \in 1 .. n : u[m + i] = t[i]
  BY <1>1, <1>3, <1>4, Joined DEF LeafEntries
<1>6. PICK w \in Bijection(1 .. m, RecordsOn(P)) : \A i \in 1 .. m : s[i] = EntryAt(w[i])
  BY <1>1 DEF Match
<1>7. /\ w \in [1 .. m -> RecordsOn(P)]
      /\ \A i, j \in 1 .. m : w[i] = w[j] => i = j
      /\ \A r \in RecordsOn(P) : \E i \in 1 .. m : w[i] = r
  BY <1>6 DEF Bijection, Injection, Surjection, IsInjective
<1>8. PICK Q : Q = RecordsOn(P \cup {p})
  OBVIOUS
<1>9. /\ \A r \in RecordsOn(P) : r \in Q /\ r[1] # p
      /\ \A i \in 1 .. n : <<p, i>> \in Q
      /\ \A r \in Q : r \in RecordsOn(P) \/ \E i \in 1 .. n : r = <<p, i>>
  <2>1. \A r \in RecordsOn(P) : r \in Q /\ r[1] # p
    BY <1>8 DEF RecordsOn
  <2>2. \A i \in 1 .. n : <<p, i>> \in StoredRecords
    BY <1>3, RecordPlaces
  <2>3. \A i \in 1 .. n : <<p, i>> \in Q
    BY <1>8, <2>2 DEF RecordsOn
  <2>4. ASSUME NEW r \in Q
        PROVE  r \in RecordsOn(P) \/ \E i \in 1 .. n : r = <<p, i>>
    <3>1. r \in StoredRecords /\ r[1] \in P \cup {p}
      BY <1>8, <2>4 DEF RecordsOn
    <3>2. r = <<r[1], r[2]>> /\ r[2] \in 1 .. Size(r[1])
      BY <3>1, RecordPlaces
    <3>3. CASE r[1] \in P
      BY <3>1, <3>3 DEF RecordsOn
    <3>4. CASE r[1] = p
      BY <1>3, <3>2, <3>4
    <3> QED BY <3>1, <3>3, <3>4
  <2> QED BY <2>1, <2>3, <2>4
<1>10. PICK v : v = [i \in 1 .. m + n |-> IF i <= m THEN w[i] ELSE <<p, i - m>>]
  OBVIOUS
<1>11. /\ \A i \in 1 .. m : i \in 1 .. m + n /\ v[i] = w[i]
       /\ \A i \in 1 .. n : m + i \in 1 .. m + n /\ v[m + i] = <<p, i>>
  <2>1. \A i \in 1 .. m : i \in 1 .. m + n /\ i <= m
    OBVIOUS
  <2>2. \A i \in 1 .. n : m + i \in 1 .. m + n /\ ~(m + i <= m) /\ (m + i) - m = i
    OBVIOUS
  <2> QED BY <1>10, <2>1, <2>2
<1>12. ASSUME NEW i \in 1 .. m + n
       PROVE  v[i] \in Q
  <2>1. CASE i \in 1 .. m
    <3>1. w[i] \in RecordsOn(P)
      BY <1>7, <2>1
    <3> QED BY <1>9, <1>11, <2>1, <3>1
  <2>2. CASE \E k \in 1 .. n : i = m + k
    <3>1. PICK k \in 1 .. n : i = m + k
      BY <2>2
    <3>2. v[i] = <<p, k>>
      BY <1>11, <3>1, Zenon
    <3> QED BY <1>9, <3>2
  <2> QED BY <2>1, <2>2, Parted
<1>13. v \in [1 .. m + n -> Q] /\ DOMAIN v = 1 .. m + n
  BY <1>10, <1>12
<1>14. ASSUME NEW i \in 1 .. m + n, NEW j \in 1 .. m + n, v[i] = v[j]
       PROVE  i = j
  <2>1. i \in 1 .. m \/ \E k \in 1 .. n : i = m + k
    BY Parted
  <2>2. j \in 1 .. m \/ \E k \in 1 .. n : j = m + k
    BY Parted
  <2>3. \A k \in 1 .. m : v[k] \in RecordsOn(P) /\ v[k][1] # p
    BY <1>7, <1>9, <1>11
  <2>4. \A k \in 1 .. n : v[m + k][1] = p /\ v[m + k][2] = k
    <3> TAKE k \in 1 .. n
    <3>1. PICK x : x = v[m + k]
      OBVIOUS
    <3>2. x = <<p, k>>
      BY <1>11, <3>1, Zenon
    <3> QED BY <3>1, <3>2
  <2>5. CASE i \in 1 .. m
    <3>1. j \in 1 .. m
      <4>1. v[j][1] # p
        BY <1>14, <2>3, <2>5
      <4> QED BY <2>2, <2>4, <4>1
    <3> QED BY <1>7, <1>11, <1>14, <2>5, <3>1
  <2>6. CASE \E k \in 1 .. n : i = m + k
    <3>1. \E k \in 1 .. n : j = m + k
      BY <1>14, <2>2, <2>3, <2>4, <2>6
    <3> QED BY <1>14, <2>4, <2>6, <3>1
  <2> QED BY <2>1, <2>5, <2>6
<1>15. ASSUME NEW r \in Q
       PROVE  \E i \in 1 .. m + n : v[i] = r
  <2>1. CASE r \in RecordsOn(P)
    <3>1. PICK i \in 1 .. m : w[i] = r
      BY <1>7, <2>1
    <3> QED BY <1>11, <3>1, Zenon
  <2>2. CASE \E i \in 1 .. n : r = <<p, i>>
    BY <1>11, <2>2, Zenon
  <2> QED BY <1>9, <2>1, <2>2
<1>16. v \in Bijection(1 .. m + n, Q)
  BY <1>13, <1>14, <1>15, Zenon DEF Bijection, Injection, IsInjective, Surjection
<1>17. ASSUME NEW i \in 1 .. m + n
       PROVE  u[i] = EntryAt(v[i])
  <2>1. CASE i \in 1 .. m
    BY <1>5, <1>6, <1>11, <2>1
  <2>2. CASE \E k \in 1 .. n : i = m + k
    <3>1. PICK k \in 1 .. n : i = m + k
      BY <2>2
    <3>2. u[i] = t[k] /\ v[i] = <<p, k>>
      BY <1>5, <1>11, <3>1
    <3> QED BY <1>2, <3>2 DEF EntryAt
  <2> QED BY <2>1, <2>2, Parted
<1> QED BY <1>2, <1>4, <1>5, <1>8, <1>16, <1>17 DEF Match

LEMMA MatchCounts ==
  ASSUME NEW s, Len(s) \in Nat, NEW P, Match(s, P), NEW e
  PROVE  Cardinality({i \in 1 .. Len(s) : s[i] = e})
           = Cardinality({r \in RecordsOn(P) : EntryAt(r) = e})
<1>1. PICK w \in Bijection(1 .. Len(s), RecordsOn(P)) : \A i \in 1 .. Len(s) : s[i] = EntryAt(w[i])
  BY DEF Match
<1>2. PICK h : h = [r \in RecordsOn(P) |-> EntryAt(r)]
  OBVIOUS
<1>3. \A i \in 1 .. Len(s) : w[i] \in RecordsOn(P)
  BY <1>1 DEF Bijection, Injection
<1>4. \A i \in 1 .. Len(s) : s[i] = h[w[i]]
  BY <1>1, <1>2, <1>3
<1>5. IsFiniteSet(1 .. Len(s))
  BY FS_Interval
<1>6. Cardinality({i \in 1 .. Len(s) : s[i] = e}) = Cardinality({r \in RecordsOn(P) : h[r] = e})
  <2>1. PICK A : A = 1 .. Len(s)
    OBVIOUS
  <2>2. PICK B : B = RecordsOn(P)
    OBVIOUS
  <2>3. IsFiniteSet(A) /\ w \in Bijection(A, B) /\ \A i \in A : s[i] = h[w[i]]
    BY <1>1, <1>4, <1>5, <2>1, <2>2
  <2>4. Cardinality(Where(A, s, e)) = Cardinality(Where(B, h, e))
    BY <2>3, CountsMatch
  <2> QED BY <2>1, <2>2, <2>4 DEF Where
<1>7. {r \in RecordsOn(P) : h[r] = e} = {r \in RecordsOn(P) : EntryAt(r) = e}
  BY <1>2
<1> QED BY <1>6, <1>7

-----------------------------------------------------------------------------
(* A scan of the chain c that began at its j-th leaf and has come to the   *)
(* m-th, or behind the last one: what it has seen are the records of the   *)
(* leaves between, in order, and no key to come is smaller.                *)

Visited(c, j, m) == {c[i] : i \in j .. m - 1}

Scanned(c, j, m, seen) ==
  /\ seen \in LeafEntries /\ InOrder(seen)
  /\ \A l \in m .. Len(c) : \A k \in Keys(c[l]) :
       \A i \in 1 .. Len(seen) : KeyOf(seen[i]) <= k
  /\ Match(seen, Visited(c, j, m))

ScanAt(c, leaf, page, seen) ==
  \E j \in 1 .. Len(c) : \E m \in j .. Len(c) + 1 :
    /\ c[j] = leaf
    /\ page = IF m = Len(c) + 1 THEN INVALID_PAGE_ID ELSE c[m]
    /\ Scanned(c, j, m, seen)

LEMMA KeysInRange ==
  ASSUME NEW lo, NEW hi, LeafRanges(lo, hi), NEW l \in Leaves, NEW k
  PROVE  /\ k \in Keys(l) <=> \E i \in 1 .. Len(pages[l].entries) : k = KeyOf(pages[l].entries[i])
         /\ k \in Keys(l) => k \in Nat /\ lo[l] <= k /\ Below(k, hi[l])
<1>1. PICK t : t = pages[l].entries
  OBVIOUS
<1>2. t \in LeafEntries /\ Within(t, lo[l], hi[l])
  BY <1>1 DEF LeafRanges
<1>3. DOMAIN t = 1 .. Len(t)
  BY <1>2, LenProperties DEF LeafEntries
<1>4. k \in Keys(l) <=> \E i \in 1 .. Len(t) : k = KeyOf(t[i])
  BY <1>1, <1>3 DEF Keys
<1>5. k \in Keys(l) => k \in Nat /\ lo[l] <= k /\ Below(k, hi[l])
  BY <1>2, <1>4 DEF Within
<1> QED BY <1>1, <1>4, <1>5

LEMMA ScanBegins ==
  ASSUME NEW lo, NEW hi, NEW c, IsChain(c, lo, hi), NEW leaf \in Leaves
  PROVE  ScanAt(c, leaf, leaf, <<>>)
<1>1. PICK n \in Nat \ {0} : n = Len(c)
  BY DEF IsChain
<1>2. PICK j \in 1 .. n : c[j] = leaf
  BY <1>1 DEF IsChain, Holds
<1>3. Visited(c, j, j) = {}
  <2>1. j .. j - 1 = {}
    OBVIOUS
  <2> QED BY <2>1 DEF Visited
<1>4. <<>> \in LeafEntries /\ Len(<<>>) = 0 /\ 1 .. 0 = {}
  BY DEF LeafEntries
<1>5. Scanned(c, j, j, <<>>)
  <2>1. Match(<<>>, Visited(c, j, j))
    BY <1>3, MatchNothing
  <2> QED BY <1>4, <2>1 DEF Scanned, InOrder
<1>6. j \in j .. n + 1 /\ j # n + 1
  OBVIOUS
<1> QED BY <1>1, <1>2, <1>5, <1>6 DEF ScanAt

LEMMA ScanPasses ==
  ASSUME Shape, NEW lo, NEW hi, LeafRanges(lo, hi), NEW c, IsChain(c, lo, hi),
         NEW leaf, NEW page, NEW seen, ScanAt(c, leaf, page, seen), page # INVALID_PAGE_ID
  PROVE  ScanAt(c, leaf, pages[page].next, seen \o pages[page].entries)
<1>1. PICK n \in Nat \ {0} : n = Len(c)
  BY DEF IsChain
<1>2. PICK j \in 1 .. n, m \in 1 .. n + 1 :
        /\ m \in j .. n + 1 /\ c[j] = leaf
        /\ page = IF m = n + 1 THEN INVALID_PAGE_ID ELSE c[m]
        /\ Scanned(c, j, m, seen)
  BY <1>1 DEF ScanAt
<1>3. m \in 1 .. n /\ m + 1 \in j .. n + 1 /\ page = c[m] /\ m <= n
  BY <1>2
<1>4. PICK t : t = pages[page].entries
  OBVIOUS
<1>5. /\ page \in Leaves /\ lo[page] \in Nat /\ Within(t, lo[page], hi[page])
      /\ t \in LeafEntries /\ Len(t) \in Nat \ {0}
  BY <1>1, <1>3, <1>4, ChainPlaces
<1>6. PICK a \in Nat : a = KeyOf(t[1]) /\ a \in Keys(page)
  <2>1. 1 \in 1 .. Len(t)
    BY <1>5
  <2>2. KeyOf(t[1]) \in Nat
    BY <1>5, <2>1 DEF Within
  <2>3. KeyOf(t[1]) \in Keys(page)
    BY <1>4, <1>5, <2>1, KeysInRange
  <2> QED BY <2>2, <2>3
<1>7. \A i \in 1 .. Len(t) : a <= KeyOf(t[i]) /\ KeyOf(t[i]) \in Nat
  <2> TAKE i \in 1 .. Len(t)
  <2>1. 1 \in 1 .. Len(t) /\ 1 <= i
    BY <1>5
  <2> QED BY <1>5, <1>6, <2>1 DEF Within, InOrder
<1>8. seen \in LeafEntries /\ UpTo(seen, a)
  <2>1. m \in m .. n
    BY <1>3
  <2>2. /\ seen \in LeafEntries /\ InOrder(seen)
        /\ \A i \in 1 .. Len(seen) : KeyOf(seen[i]) <= a
    BY <1>1, <1>2, <1>3, <1>6, <2>1 DEF Scanned
  <2>3. \A i \in 1 .. Len(seen) : KeyOf(seen[i]) \in Nat
    BY <2>2, ElementOfSeq, EntryParts DEF LeafEntries
  <2> QED BY <2>2, <2>3 DEF UpTo, Below
<1>9. ASSUME NEW b \in Int, \A i \in 1 .. Len(t) : Below(KeyOf(t[i]), b)
      PROVE  UpTo(seen \o t, b)
  <2>1. Within(t, a, b)
    BY <1>5, <1>7, <1>9 DEF Within
  <2> QED BY <1>5, <1>8, <2>1, NextInOrder
<1>10. seen \o t \in LeafEntries /\ InOrder(seen \o t)
  <2>1. Unbounded \in Int /\ \A i \in 1 .. Len(t) : Below(KeyOf(t[i]), Unbounded)
    BY DEF Below, Unbounded
  <2>2. UpTo(seen \o t, Unbounded)
    BY <1>9, <2>1
  <2> QED BY <2>2 DEF UpTo
<1>11. ASSUME NEW l \in m + 1 .. n, NEW k \in Keys(c[l]), NEW i \in 1 .. Len(seen \o t)
       PROVE  KeyOf((seen \o t)[i]) <= k
  <2>1. l \in 1 .. n /\ m < l
    BY <1>3
  <2>2. k \in Nat /\ lo[c[l]] <= k /\ lo[c[l]] \in Nat
    BY <1>1, <2>1, ChainPlaces, KeysInRange
  <2>3. hi[page] \in Nat /\ hi[page] <= lo[c[l]]
    BY <1>1, <1>3, <2>1, ChainRises
  <2>4. \A h \in 1 .. Len(t) : Below(KeyOf(t[h]), k)
    <3> TAKE h \in 1 .. Len(t)
    <3>1. KeyOf(t[h]) \in Nat /\ Below(KeyOf(t[h]), hi[page])
      BY <1>5 DEF Within
    <3> QED BY <2>2, <2>3, <3>1 DEF Below, Unbounded
  <2>5. UpTo(seen \o t, k)
    BY <1>9, <2>2, <2>4
  <2> QED BY <2>2, <2>5 DEF UpTo, Below, Unbounded
<1>12. Match(seen \o t, Visited(c, j, m + 1))
  <2>1. \A i \in j .. m - 1 : i \in 1 .. n /\ i # m
    BY <1>2, <1>3
  <2>2. \A i \in 1 .. n : c[i] = c[m] => i = m
    BY <1>1, <1>3, ChainPassesOnce
  <2>3. page \notin Visited(c, j, m)
    BY <1>3, <2>1, <2>2 DEF Visited
  <2>4. Match(seen \o t, Visited(c, j, m) \cup {page})
    BY <1>2, <1>4, <1>5, <1>8, <2>3, MatchMore DEF Scanned
  <2>5. \A i \in Int : i \in j .. (m + 1) - 1 <=> i \in j .. m - 1 \/ i = m
    BY <1>2, <1>3
  <2>6. Visited(c, j, m + 1) = Visited(c, j, m) \cup {page}
    BY <1>3, <2>5 DEF Visited
  <2> QED BY <2>4, <2>6
<1>13. Scanned(c, j, m + 1, seen \o t)
  BY <1>1, <1>10, <1>11, <1>12 DEF Scanned
<1>14. pages[page].next = IF m + 1 = n + 1 THEN INVALID_PAGE_ID ELSE c[m + 1]
  <2>1. m + 1 = n + 1 <=> m = n
    BY <1>3
  <2> QED BY <1>1, <1>3, <2>1, ChainPlaces
<1> QED BY <1>1, <1>2, <1>3, <1>4, <1>13, <1>14 DEF ScanAt

-----------------------------------------------------------------------------
(* The leaf that find_leaf finds: key k is in its range, and not where the *)
(* next one begins.                                                        *)

Covers(l, k, lo, hi) == lo[l] <= k /\ (hi[l] = Unbounded \/ k < hi[l])

LEMMA LeafForCovers ==
  ASSUME IInv, Rooted, HasRanks, HasOrder, ~At("propagate"), header_root \in PageIds,
         NEW lo \in [PageIds -> Nat], NEW hi \in [PageIds -> Int],
         NEW end \in [PageIds -> Int], Ordered(lo, hi, end), NEW k \in Key
  PROVE  LeafFor(k) \in Leaves /\ Covers(LeafFor(k), k, lo, hi)
<1>1. k \in Nat
  BY TreeAssumption
<1>2. \A c \in PageIds : end[c] = hi[c]
  BY DEF Ordered, Ends
<1>3. PICK R : R = [p \in PageIds |-> {l \in Leaves : Covers(p, k, lo, hi) => Covers(l, k, lo, hi)}]
  OBVIOUS
<1>4. \A p \in PageIds : R[p] = {l \in Leaves : Covers(p, k, lo, hi) => Covers(l, k, lo, hi)}
  BY <1>3, Zenon
<1>5. ASSUME NEW p \in PageIds, IsLeaf(p)
      PROVE  p \in R[p]
  BY <1>4, <1>5 DEF Leaves
<1>6. ASSUME NEW p \in PageIds, ~IsLeaf(p)
      PROVE  R[Down(p, k)] \subseteq R[p]
  <2>1. PICK i \in 1 .. Size(p) :
          /\ Down(p, k) = ChildAt(p, i) /\ ChildAt(p, i) \in PageIds
          /\ IsChildIndex(pages[p].entries, k, i)
    BY <1>6, DownIsChild
  <2>2. PICK c \in PageIds : c = ChildAt(p, i)
    BY <2>1
  <2>3. PICK n \in Nat \ {0} : n = Size(p)
    BY EntriesNow DEF IInv
  <2>4. /\ \A j \in 1 .. n : KeyAt(p, j) \in Nat
        /\ lo[c] = IF i = 1 THEN lo[p] ELSE KeyAt(p, i)
        /\ end[c] = IF i = n THEN hi[p] ELSE KeyAt(p, i + 1)
    BY <1>6, <2>1, <2>2, <2>3 DEF Ordered, NodeInOrder, Divide, KeyAt, ChildAt, Size
  <2>5. KeyAt(p, i) <= k /\ (i < n => k < KeyAt(p, i + 1))
    <3>1. KeyAt(p, i) <= k /\ (i < n => KeyAt(p, i + 1) > k)
      BY <2>1, <2>3 DEF IsChildIndex, KeyAt, Size
    <3>2. i < n => KeyAt(p, i + 1) \in Nat
      BY <2>3, <2>4
    <3> QED BY <1>1, <3>1, <3>2
  <2>6. i \in 1 .. n
    BY <2>3
  <2>7. Covers(p, k, lo, hi) => Covers(c, k, lo, hi)
    BY <1>2, <2>4, <2>5, <2>6 DEF Covers
  <2> QED BY <1>4, <2>1, <2>2, <2>7
<1>7. LeafFor(k) \in R[header_root]
  BY <1>5, <1>6, LeafForFinds
<1>8. Covers(header_root, k, lo, hi)
  <2>1. header_root = root_page_id
    BY DEF Rooted
  <2>2. lo[header_root] = 0 /\ hi[header_root] = Unbounded
    BY <1>2, <2>1 DEF Ordered
  <2> QED BY <1>1, <2>2 DEF Covers
<1> QED BY <1>4, <1>7, <1>8

(* What the leaves have that come before a leaf that covers k, and behind. *)
LEMMA AroundCover ==
  ASSUME NEW lo, NEW hi, LeafRanges(lo, hi), LowestKept(lo), NEW c, IsChain(c, lo, hi),
         NEW k \in Nat, NEW j \in 1 .. Len(c), Covers(c[j], k, lo, hi),
         NEW i \in 1 .. Len(c), NEW x \in Keys(c[i])
  PROVE  /\ x \in Nat
         /\ i < j => x <= k /\ (x = k => k \in Keys(c[j]))
         /\ i > j => x > k
<1>1. PICK n \in Nat \ {0} : n = Len(c)
  BY DEF IsChain
<1>2. x \in Nat /\ lo[c[i]] <= x /\ Below(x, hi[c[i]]) /\ lo[c[i]] \in Nat /\ lo[c[j]] \in Nat
  BY ChainPlaces, KeysInRange
<1>3. ASSUME i < j
      PROVE  x <= k /\ (x = k => k \in Keys(c[j]))
  <2>1. hi[c[i]] \in Nat /\ hi[c[i]] <= lo[c[j]]
    BY <1>3, ChainRises
  <2>2. x <= lo[c[j]] /\ lo[c[j]] <= k
    BY <1>2, <2>1 DEF Below, Unbounded, Covers
  <2>3. PICK h \in 1 .. n : h + 1 = j /\ h # n
    <3>1. j - 1 \in 1 .. n /\ (j - 1) + 1 = j /\ j - 1 # n
      BY <1>1, <1>3
    <3> QED BY <3>1
  <2>4. pages[c[h]].next = c[j] /\ c[h] \in Leaves /\ c[j] \in Leaves
    BY <1>1, <2>3, ChainPlaces
  <2>5. lo[c[j]] \in Keys(c[j])
    BY <2>4 DEF LowestKept
  <2>6. x = k => lo[c[j]] = k
    BY <1>2, <2>2
  <2> QED BY <1>2, <2>2, <2>5, <2>6
<1>4. ASSUME i > j
      PROVE  x > k
  <2>1. hi[c[j]] \in Nat /\ hi[c[j]] <= lo[c[i]]
    BY <1>4, ChainRises
  <2>2. k < hi[c[j]]
    BY <2>1 DEF Covers, Unbounded
  <2> QED BY <1>2, <2>1, <2>2
<1> QED BY <1>2, <1>3, <1>4

(* If any leaf has key k, the one that covers it has. *)
LEMMA CoverHasKey ==
  ASSUME NEW lo, NEW hi, LeafRanges(lo, hi), LowestKept(lo), NEW c, IsChain(c, lo, hi),
         NEW k \in Nat, NEW l \in Leaves, Covers(l, k, lo, hi), NEW m \in Leaves, k \in Keys(m)
  PROVE  k \in Keys(l)
<1>1. PICK j \in 1 .. Len(c) : c[j] = l
  BY DEF IsChain, Holds
<1>2. PICK i \in 1 .. Len(c) : c[i] = m
  BY DEF IsChain, Holds
<1>3. Len(c) \in Nat
  BY DEF IsChain
<1>4. (i < j => k \in Keys(c[j])) /\ (i > j => k > k)
  BY <1>1, <1>2, AroundCover
<1>5. i < j \/ i > j \/ i = j
  BY <1>3
<1> QED BY <1>1, <1>2, <1>4, <1>5

(* How often a scan has seen record e. *)
Delivered(seen, e) == Cardinality({i \in 1 .. Len(seen) : seen[i] = e})

(* A scan that has come to the end of the chain. *)
LEMMA ScanEnds ==
  ASSUME Shape, NEW lo, NEW hi, LeafRanges(lo, hi), LowestKept(lo), NEW c, IsChain(c, lo, hi),
         NEW from \in Nat, NEW leaf, Covers(leaf, from, lo, hi),
         NEW seen, ScanAt(c, leaf, INVALID_PAGE_ID, seen),
         NEW k \in Key, NEW rid \in Rid
  PROVE  /\ k > from => Delivered(seen, <<k, rid>>) = Stored(<<k, rid>>)
         /\ (k = from /\ Stored(<<k, rid>>) > 0) =>
              \E s \in Rid : Delivered(seen, <<k, s>>) > 0
<1>1. PICK n \in Nat \ {0} : n = Len(c)
  BY DEF IsChain
<1>2. PICK j \in 1 .. n, m \in 1 .. n + 1 :
        /\ m \in j .. n + 1 /\ c[j] = leaf
        /\ INVALID_PAGE_ID = IF m = n + 1 THEN INVALID_PAGE_ID ELSE c[m]
        /\ Scanned(c, j, m, seen)
  BY <1>1 DEF ScanAt
<1>3. m = n + 1
  <2> SUFFICES ASSUME m # n + 1 PROVE FALSE
    OBVIOUS
  <2>1. m \in 1 .. n /\ c[m] = INVALID_PAGE_ID
    BY <1>2
  <2>2. c[m] \in PageIds
    BY <1>1, <2>1, ChainPlaces DEF Leaves
  <2>3. PageIds = 1 .. Len(pages)
    BY <2>2, NodeFacts
  <2> QED BY <2>1, <2>2, <2>3 DEF INVALID_PAGE_ID
<1>4. PICK P : P = Visited(c, j, m) /\ \A i \in j .. n : c[i] \in P
  <2>1. \A i \in j .. n : i \in j .. m - 1
    BY <1>3
  <2>2. \A i \in j .. n : c[i] \in Visited(c, j, m)
    BY <2>1 DEF Visited
  <2> QED BY <2>2
<1>5. Len(seen) \in Nat /\ Match(seen, P)
  <2>1. seen \in LeafEntries /\ Match(seen, Visited(c, j, m))
    BY <1>2 DEF Scanned
  <2>2. Len(seen) \in Nat
    BY <2>1, LenProperties DEF LeafEntries
  <2> QED BY <1>4, <2>1, <2>2
<1>6. \A e : Delivered(seen, e) = Cardinality({r \in RecordsOn(P) : EntryAt(r) = e})
  BY <1>5, MatchCounts DEF Delivered
<1>7. ASSUME NEW r \in StoredRecords
      PROVE  /\ KeyOf(EntryAt(r)) \in Keys(r[1])
             /\ KeyOf(EntryAt(r)) > from => r \in RecordsOn(P)
  <2>1. r[1] \in Leaves /\ r[2] \in 1 .. Size(r[1])
    BY RecordPlaces
  <2>2. PICK x : x = KeyOf(EntryAt(r))
    OBVIOUS
  <2>3. x \in Keys(r[1])
    BY <2>1, <2>2, KeysInRange DEF EntryAt, Size
  <2>4. PICK i \in 1 .. n : c[i] = r[1]
    BY <1>1, <2>1 DEF IsChain, Holds
  <2>5. x \in Nat /\ (i < j => x <= from)
    BY <1>1, <1>2, <2>3, <2>4, AroundCover
  <2>6. x > from => i \in j .. n
    BY <2>5
  <2> QED BY <1>4, <2>2, <2>3, <2>4, <2>6 DEF RecordsOn
<1>8. k > from => Delivered(seen, <<k, rid>>) = Stored(<<k, rid>>)
  <2>1. KeyOf(<<k, rid>>) = k
    BY DEF KeyOf
  <2>2. k > from => {r \in RecordsOn(P) : EntryAt(r) = <<k, rid>>}
                      = {r \in StoredRecords : pages[r[1]].entries[r[2]] = <<k, rid>>}
    BY <1>7, <2>1 DEF RecordsOn, EntryAt
  <2> QED BY <1>6, <2>2 DEF Stored
<1>9. ASSUME k = from, Stored(<<k, rid>>) > 0
      PROVE  \E s \in Rid : Delivered(seen, <<k, s>>) > 0
  <2>1. PICK r \in StoredRecords : EntryAt(r) = <<k, rid>>
    <3>1. Cardinality({}) = 0
      BY FS_EmptySet
    <3>2. PICK T : T = {r \in StoredRecords : pages[r[1]].entries[r[2]] = <<k, rid>>}
      OBVIOUS
    <3>3. Stored(<<k, rid>>) = Cardinality(T)
      BY <3>2 DEF Stored
    <3>4. T # {}
      BY <1>9, <3>1, <3>3
    <3> QED BY <3>2, <3>4 DEF EntryAt
  <2>2. r[1] \in Leaves /\ k \in Keys(r[1])
    <3>1. KeyOf(EntryAt(r)) = k
      BY <2>1 DEF KeyOf
    <3> QED BY <1>7, <3>1, RecordPlaces
  <2>3. leaf \in Leaves
    BY <1>1, <1>2, ChainPlaces
  <2>4. k \in Keys(leaf)
    BY <1>9, <2>2, <2>3, CoverHasKey
  <2>5. PICK i \in 1 .. Size(leaf) : KeyOf(pages[leaf].entries[i]) = k
    BY <2>3, <2>4, KeysInRange DEF Size
  <2>6. PICK q : q = <<leaf, i>>
    OBVIOUS
  <2>7. q \in StoredRecords /\ q[1] = leaf
    BY <2>3, <2>6, RecordPlaces
  <2>8. EntryAt(q) \in Key \X Rid /\ KeyOf(EntryAt(q)) = k
    <3>1. EntryAt(q) = pages[leaf].entries[i]
      BY <2>6 DEF EntryAt
    <3> QED BY <2>5, <2>7, <3>1, RecordPlaces
  <2>9. PICK s \in Rid : EntryAt(q) = <<k, s>>
    BY <2>8 DEF KeyOf
  <2>10. q \in RecordsOn(P)
    <3>1. j \in j .. n
      BY <1>2
    <3> QED BY <1>2, <1>4, <2>7, <3>1 DEF RecordsOn
  <2>11. PICK T : T = {x \in RecordsOn(P) : EntryAt(x) = <<k, s>>}
    OBVIOUS
  <2>12. q \in T /\ T \subseteq StoredRecords
    BY <2>9, <2>10, <2>11 DEF RecordsOn
  <2>13. IsFiniteSet(T) /\ T # {}
    BY <2>12, RecordPlaces, FS_Subset
  <2>14. Cardinality(T) \in Nat /\ Cardinality(T) # 0
    BY <2>13, FS_CardinalityType, FS_EmptySet
  <2> QED BY <1>6, <2>11, <2>14
<1> QED BY <1>8, <1>9

(* Between two splits the chain of the leaves is known, and where a search *)
(* for a key ends.                                                         *)
KnownChain(c, lo, hi) ==
  /\ LeafRanges(lo, hi) /\ LowestKept(lo) /\ IsChain(c, lo, hi)
  /\ \A k \in Key : LeafFor(k) \in Leaves /\ Covers(LeafFor(k), k, lo, hi)

LEMMA ChainIsKnown ==
  ASSUME IInv, Rooted, HasRanks, HasOrder, Reached, HasChain, ~At("propagate"), PageIds # {}
  PROVE  \E lo, hi : KnownChain(LeavesUnder[root_page_id], lo, hi)
<1>1. PICK first \in [PageIds -> Int], after \in [PageIds -> Int], stop \in [PageIds -> Int] :
        Chained(first, after, stop)
  BY DEF HasChain
<1>2. PICK lo \in [PageIds -> Nat], hi \in [PageIds -> Int], end \in [PageIds -> Int] :
        Ordered(lo, hi, end) /\ LowestKept(lo)
  BY DEF HasOrder
<1>3. header_root \in PageIds
  BY DEF Rooted
<1>4. \A k \in Key : LeafFor(k) \in Leaves /\ Covers(LeafFor(k), k, lo, hi)
  BY <1>2, <1>3, LeafForCovers
<1>5. Leaves # {}
  BY <1>4, TreeAssumption
<1>6. IsChain(LeavesUnder[root_page_id], lo, hi)
  BY <1>1, <1>2, <1>5, RootHasChain
<1>7. LeafRanges(lo, hi)
  BY <1>2, LeavesKeepRanges
<1> QED BY <1>2, <1>4, <1>6, <1>7 DEF KnownChain

ScanOn ==
  At("scan") =>
    \E c, leaf, page, seen :
      /\ PageIds # {} /\ c = LeavesUnder[root_page_id] /\ leaf = LeafFor(call.from)
      /\ page = call.page /\ seen = call.seen
      /\ ScanAt(c, leaf, page, seen)

(* A scan changes no page. *)
LEMMA PagesStay ==
  ASSUME UNCHANGED <<pages, root_page_id, header_root>>
  PROVE  /\ PageIds' = PageIds
         /\ LeavesUnder'[root_page_id'] = LeavesUnder[root_page_id]
         /\ \A k : LeafFor(k)' = LeafFor(k)
         /\ \A c, leaf, page, seen :
              ScanAt(c, leaf, page, seen) => ScanAt(c, leaf, page, seen)'
<1>1. PageIds' = PageIds /\ \A p : IsLeaf(p)' = IsLeaf(p)
  BY DEF PageIds, IsLeaf
<1>2. LeavesUnder'[root_page_id'] = LeavesUnder[root_page_id]
  <2>1. pages' = pages /\ root_page_id' = root_page_id
    OBVIOUS
  <2>2. LeavesUnder' = LeavesUnder
    BY <2>1, Zenon DEF LeavesUnder, IsLeaf, PageIds
  <2> QED BY <2>1, <2>2
<1>3. ASSUME NEW k PROVE LeafFor(k)' = LeafFor(k)
  BY <1>1, Zenon DEF LeafFor, IsLeaf, PageIds
<1>4. StoredRecords' = StoredRecords
  BY <1>1 DEF StoredRecords, IsLeaf, PageIds
<1>5. ASSUME NEW s, NEW P, Match(s, P) PROVE Match(s, P)'
  <2>1. RecordsOn(P)' = RecordsOn(P)
    BY <1>4 DEF RecordsOn
  <2> QED BY <1>5, <2>1 DEF Match, EntryAt
<1>6. \A l : Keys(l)' = Keys(l)
  BY DEF Keys
<1>7. ASSUME NEW c, NEW j, NEW m, NEW seen, Scanned(c, j, m, seen)
      PROVE  Scanned(c, j, m, seen)'
  <2>1. Match(seen, Visited(c, j, m))'
    <3>1. PICK P : P = Visited(c, j, m)
      OBVIOUS
    <3>2. Match(seen, P)'
      BY <1>5, <1>7, <3>1 DEF Scanned
    <3> QED BY <3>1, <3>2 DEF Visited, Match, RecordsOn
  <2> QED BY <1>6, <1>7, <2>1 DEF Scanned, InOrder, KeyOf, LeafEntries
<1>8. ASSUME NEW c, NEW leaf, NEW page, NEW seen, ScanAt(c, leaf, page, seen)
      PROVE  ScanAt(c, leaf, page, seen)'
  BY <1>7, <1>8 DEF ScanAt
<1> QED BY <1>1, <1>2, <1>3, <1>8

LEMMA StepKeepsScan ==
  ASSUME TInv, Reached, HasChain, ScanOn, [Next]_vars
  PROVE  ScanOn'
<1> USE DEF TInv
<1>1. SUFFICES ASSUME At("scan")' PROVE ScanOn'
  BY DEF ScanOn
<1>2. \/ UNCHANGED vars
      \/ scan_next
      \/ \E k \in Key : scan(k)
  <2>1. CASE InsertContinues
    <3>1. CASE insert_at_root \/ descend
      BY <1>1, <3>1 DEF insert_at_root, descend, Visit, At
    <3>2. CASE insert_leaf
      BY <1>1, <3>2 DEF insert_leaf, Idle, At
    <3>3. CASE split_leaf \/ split_internal
      <4>1. \E path, left, k, right : Propagate(path, left, k, right)
        BY <3>3 DEF split_leaf, split_internal
      <4> QED BY <1>1, <4>1 DEF Propagate, At
    <3>4. CASE insert_first \/ propagate \/ grow_root
      BY <1>1, <3>4 DEF insert_first, propagate, grow_root, Idle, At
    <3> QED BY <2>1, <3>1, <3>2, <3>3, <3>4 DEF InsertContinues
  <2>2. CASE find_in_empty
    BY <1>1, <2>2 DEF find_in_empty, At
  <2>3. CASE \E k \in Key : find(k)
    BY <1>1, <2>3 DEF find, At
  <2>4. CASE \E k \in Key : \E r \in Rid : insert(k, r)
    BY <1>1, <2>4 DEF insert, At
  <2> QED BY <2>1, <2>2, <2>3, <2>4 DEF Next, Halted
<1>3. CASE UNCHANGED vars
  <2>1. UNCHANGED <<pages, root_page_id, header_root>> /\ call' = call
    BY <1>3 DEF vars
  <2>2. At("scan")
    BY <1>1, <2>1 DEF At
  <2>3. PICK c, leaf, page, seen :
          /\ PageIds # {} /\ c = LeavesUnder[root_page_id] /\ leaf = LeafFor(call.from)
          /\ page = call.page /\ seen = call.seen
          /\ ScanAt(c, leaf, page, seen)
    BY <2>2 DEF ScanOn
  <2> QED BY <2>1, <2>3, PagesStay DEF ScanOn
<1>4. CASE scan_next
  <2>1. UNCHANGED <<pages, root_page_id, header_root>> /\ At("scan")
    BY <1>4 DEF scan_next
  <2>2. PICK c, leaf, page, seen :
          /\ PageIds # {} /\ c = LeavesUnder[root_page_id] /\ leaf = LeafFor(call.from)
          /\ page = call.page /\ seen = call.seen
          /\ ScanAt(c, leaf, page, seen)
    BY <2>1 DEF ScanOn
  <2>3. page # INVALID_PAGE_ID
    BY <1>1, <1>4, <2>2 DEF scan_next, Idle, At
  <2>4. /\ call'.from = call.from /\ call'.page = pages[page].next
        /\ call'.seen = seen \o pages[page].entries
    <3>1. call \in ScanCall
      BY <2>1 DEF CallShape, ScanCall, Idle, At, Inserting
    <3> QED BY <1>4, <2>2, <2>3, <3>1 DEF scan_next, ScanCall
  <2>5. ~At("propagate") /\ Shape
    BY <2>1 DEF At, IInv
  <2>6. PICK lo, hi : KnownChain(c, lo, hi)
    BY <2>2, <2>5, ChainIsKnown
  <2>7. PICK next, sn : next = pages[page].next /\ sn = seen \o pages[page].entries
    OBVIOUS
  <2>8. ScanAt(c, leaf, next, sn)
    BY <2>2, <2>3, <2>5, <2>6, <2>7, ScanPasses DEF KnownChain
  <2>9. /\ PageIds' # {} /\ LeavesUnder'[root_page_id'] = c
        /\ \A k : LeafFor(k)' = LeafFor(k)
        /\ ScanAt(c, leaf, next, sn)'
    BY <2>1, <2>2, <2>8, PagesStay
  <2>10. leaf = LeafFor(call.from)'
    BY <2>2, <2>4, <2>9
  <2> QED BY <2>4, <2>7, <2>9, <2>10 DEF ScanOn
<1>5. CASE \E k \in Key : scan(k)
  <2>1. PICK k \in Key : scan(k)
    BY <1>5
  <2>2. UNCHANGED <<pages, root_page_id, header_root>> /\ ~At("propagate") /\ PageIds # {}
    BY <2>1 DEF scan, At, Rooted
  <2>3. PICK c, leaf : c = LeavesUnder[root_page_id] /\ leaf = LeafFor(k)
    OBVIOUS
  <2>4. call'.from = k /\ call'.page = leaf /\ call'.seen = <<>>
    BY <2>1, <2>3 DEF scan
  <2>5. PICK lo, hi : KnownChain(c, lo, hi)
    BY <2>2, <2>3, ChainIsKnown
  <2>6. ScanAt(c, leaf, leaf, <<>>)
    BY <2>3, <2>5, ScanBegins DEF KnownChain
  <2> QED BY <2>2, <2>3, <2>4, <2>6, PagesStay DEF ScanOn
<1> QED BY <1>2, <1>3, <1>4, <1>5

LEMMA ScanIsRight ==
  ASSUME TInv, Reached, HasChain, ScanOn
  PROVE  ScanIsComplete
<1> USE DEF TInv
<1>1. SUFFICES ASSUME At("scan") PROVE ScanIsComplete
  BY DEF ScanIsComplete
<1>2. PICK c, leaf, page, seen :
        /\ PageIds # {} /\ c = LeavesUnder[root_page_id] /\ leaf = LeafFor(call.from)
        /\ page = call.page /\ seen = call.seen
        /\ ScanAt(c, leaf, page, seen)
  BY <1>1 DEF ScanOn
<1>3. ~At("propagate") /\ Shape
  BY <1>1 DEF At, IInv
<1>4. PICK lo, hi : KnownChain(c, lo, hi)
  BY <1>2, <1>3, ChainIsKnown
<1>5. PICK from \in Key : from = call.from /\ from \in Nat
  <2>1. call \in ScanCall
    BY <1>1 DEF CallShape, ScanCall, Idle, At, Inserting
  <2> QED BY <2>1, TreeAssumption DEF ScanCall
<1>6. seen \in LeafEntries /\ InOrder(seen) /\ Len(seen) \in Nat /\ DOMAIN seen = 1 .. Len(seen)
  BY <1>2, LenProperties DEF ScanAt, Scanned, LeafEntries
<1>7. ASSUME NEW i \in 1 .. Len(seen) - 1
      PROVE  KeyOf(seen[i]) <= KeyOf(seen[i + 1])
  <2>1. i \in 1 .. Len(seen) /\ i + 1 \in 1 .. Len(seen) /\ i <= i + 1
    BY <1>6
  <2> QED BY <1>6, <2>1 DEF InOrder
<1>8. ASSUME page = INVALID_PAGE_ID, NEW k \in Key, NEW r \in Rid
      PROVE  LET delivered(e) == Cardinality({i \in DOMAIN seen : seen[i] = e})
             IN  /\ k > from => delivered(<<k, r>>) = Stored(<<k, r>>)
                 /\ (k = from /\ Stored(<<k, r>>) > 0) =>
                      \E s \in Rid : delivered(<<k, s>>) > 0
  <2>1. /\ k > from => Delivered(seen, <<k, r>>) = Stored(<<k, r>>)
        /\ (k = from /\ Stored(<<k, r>>) > 0) =>
              \E s \in Rid : Delivered(seen, <<k, s>>) > 0
    <3>1. LeafRanges(lo, hi) /\ LowestKept(lo) /\ IsChain(c, lo, hi) /\ Covers(leaf, from, lo, hi)
      BY <1>2, <1>4, <1>5 DEF KnownChain
    <3>2. ScanAt(c, leaf, INVALID_PAGE_ID, seen)
      BY <1>2, <1>8
    <3> QED BY <1>3, <1>5, <3>1, <3>2, ScanEnds
  <2> QED BY <1>6, <2>1 DEF Delivered
<1> QED BY <1>2, <1>5, <1>7, <1>8, Zenon DEF ScanIsComplete

-----------------------------------------------------------------------------
(* The collection of records that the tree implements: what an insert adds *)
(* to it.                                                                  *)

RecordsPlaced ==
  /\ IsFiniteSet(StoredRecords)
  /\ \A p \in Leaves : \A i \in 1 .. Size(p) : <<p, i>> \in StoredRecords
  /\ \A r \in StoredRecords : r = <<r[1], r[2]>> /\ r[1] \in Leaves /\ r[2] \in 1 .. Size(r[1])

LEMMA RecordsPlacedNext ==
  (Shape => RecordsPlaced) /\ (Shape' => RecordsPlaced')
<1>1. Shape => RecordsPlaced
  BY RecordPlaces DEF RecordsPlaced
<1> QED BY <1>1, PTL

(* push and sort permute the entries and the new one, n. *)
LEMMA SortedPermutes ==
  ASSUME NEW S, NEW s \in Seq(S), NEW e \in S, NEW t \in SortedWith(s, e), NEW n, n = Len(s) + 1
  PROVE  /\ n \in Nat \ {0} /\ Len(t) = n
         /\ \E w \in Bijection(1 .. n, 1 .. n) :
              \A i \in 1 .. n : t[i] = IF w[i] = n THEN e ELSE s[w[i]]
<1>1. PICK all : all = Append(s, e)
  OBVIOUS
<1>2. /\ Len(all) = n /\ n \in Nat \ {0} /\ all[n] = e
      /\ \A i \in 1 .. n : i # n => all[i] = s[i]
  <2>1. Len(s) \in Nat
    BY LenProperties
  <2>2. Len(all) = n /\ all[n] = e /\ \A i \in 1 .. Len(s) : all[i] = s[i]
    BY <1>1, AppendProperties
  <2>3. \A i \in 1 .. n : i # n => i \in 1 .. Len(s)
    BY <2>1
  <2> QED BY <2>1, <2>2, <2>3
<1>3. PICK w \in Bijection(1 .. n, 1 .. n) : t = [i \in 1 .. n |-> all[w[i]]]
  BY <1>1, <1>2 DEF SortedWith
<1>4. w \in [1 .. n -> 1 .. n]
  BY DEF Bijection, Injection
<1>5. \A i \in 1 .. n : t[i] = IF w[i] = n THEN e ELSE s[w[i]]
  BY <1>2, <1>3, <1>4
<1> QED BY <1>2, <1>3, <1>5

(* The records in the next state are those there are and record x, which   *)
(* is the entry that is inserted.                                          *)
OneMore(e) == IF e = call.entry THEN 1 ELSE 0

LEMMA RecordAdded ==
  ASSUME IsFiniteSet(StoredRecords), IsFiniteSet(StoredRecords'),
         NEW x, x \notin StoredRecords,
         NEW g \in Bijection(StoredRecords', StoredRecords \cup {x}),
         \A r \in StoredRecords' :
           EntryAt(r)' = IF g[r] = x THEN call.entry ELSE EntryAt(g[r]),
         NEW e
  PROVE  Stored(e)' = Stored(e) + OneMore(e)
<1>1. PICK A : A = StoredRecords'
  OBVIOUS
<1>2. PICK B : B = StoredRecords \cup {x}
  OBVIOUS
<1>3. PICK f : f = [r \in A |-> pages'[r[1]].entries[r[2]]]
  OBVIOUS
<1>4. PICK h : h = [r \in B |-> IF r = x THEN call.entry ELSE EntryAt(r)]
  OBVIOUS
<1>5. \A r \in A : g[r] \in B
  BY <1>1, <1>2 DEF Bijection, Injection
<1>6. IsFiniteSet(A) /\ g \in Bijection(A, B) /\ \A r \in A : f[r] = h[g[r]]
  BY <1>1, <1>2, <1>3, <1>4, <1>5 DEF EntryAt
<1>7. Cardinality(Where(A, f, e)) = Cardinality(Where(B, h, e))
  BY <1>6, CountsMatch
<1>8. Stored(e)' = Cardinality(Where(A, f, e))
  <2>1. Where(A, f, e) = {r \in StoredRecords' : pages'[r[1]].entries[r[2]] = e}
    BY <1>1, <1>3 DEF Where
  <2> QED BY <2>1 DEF Stored
<1>9. PICK T : T = {r \in StoredRecords : EntryAt(r) = e}
  OBVIOUS
<1>10. Stored(e) = Cardinality(T)
  BY <1>9 DEF Stored, EntryAt
<1>11. IsFiniteSet(T) /\ x \notin T
  BY <1>9, FS_Subset
<1>12. Cardinality(T) \in Nat
  BY <1>11, FS_CardinalityType
<1>13. Where(B, h, e) = IF e = call.entry THEN T \cup {x} ELSE T
  BY <1>2, <1>4, <1>9 DEF Where
<1>14. Cardinality(T \cup {x}) = Cardinality(T) + 1
  BY <1>11, FS_AddElement
<1> QED BY <1>7, <1>8, <1>10, <1>12, <1>13, <1>14 DEF OneMore

(* What a step does to the collection. *)
RecordsSame == \A e : Stored(e)' = Stored(e)
RecordStored == \A e : Stored(e)' = Stored(e) + OneMore(e)

LEMMA LeavesUntouched ==
  ASSUME Leaves' = Leaves, \A q \in Leaves : pages'[q] = pages[q]
  PROVE  RecordsSame
<1>1. StoredRecords' = StoredRecords
  <2>1. StoredRecords = {r \in Leaves \X (1 .. leaf_node_max_size) :
                           r[2] \in DOMAIN pages[r[1]].entries}
    BY DEF StoredRecords, Leaves
  <2>2. StoredRecords' = {r \in Leaves' \X (1 .. leaf_node_max_size) :
                            r[2] \in DOMAIN pages'[r[1]].entries}
    BY DEF StoredRecords, Leaves
  <2> QED BY <2>1, <2>2
<1>2. \A r \in StoredRecords : r[1] \in Leaves
  BY DEF StoredRecords, Leaves
<1>3. ASSUME NEW e PROVE Stored(e)' = Stored(e)
  <2>1. {r \in StoredRecords' : pages'[r[1]].entries[r[2]] = e}
          = {r \in StoredRecords : pages[r[1]].entries[r[2]] = e}
    BY <1>1, <1>2
  <2> QED BY <2>1 DEF Stored
<1> QED BY <1>3 DEF RecordsSame

(* One bijection after another. *)
LEMMA Composed ==
  ASSUME NEW C, NEW D, NEW E, NEW f \in Bijection(C, D), NEW g \in Bijection(D, E)
  PROVE  [r \in C |-> g[f[r]]] \in Bijection(C, E)
<1>1. /\ f \in [C -> D] /\ \A a, b \in C : f[a] = f[b] => a = b
      /\ \A d \in D : \E a \in C : f[a] = d
  BY DEF Bijection, Injection, Surjection, IsInjective
<1>2. /\ g \in [D -> E] /\ \A a, b \in D : g[a] = g[b] => a = b
      /\ \A d \in E : \E a \in D : g[a] = d
  BY DEF Bijection, Injection, Surjection, IsInjective
<1>3. PICK h : h = [r \in C |-> g[f[r]]]
  OBVIOUS
<1>4. h \in [C -> E] /\ DOMAIN h = C /\ \A r \in C : h[r] = g[f[r]]
  BY <1>1, <1>2, <1>3
<1>5. \A a, b \in C : h[a] = h[b] => a = b
  BY <1>1, <1>2, <1>4
<1>6. \A d \in E : \E a \in C : h[a] = d
  BY <1>1, <1>2, <1>4
<1>7. IsInjective(h)
  BY <1>4, <1>5, Zenon DEF IsInjective
<1>8. h \in Bijection(C, E)
  BY <1>4, <1>6, <1>7, Zenon DEF Bijection, Injection, Surjection
<1> QED BY <1>3, <1>8

(* The records C are where the entries t of leaf p are in the next state,  *)
(* and the others are where they were.                                     *)
LEMMA EntryStored ==
  ASSUME Shape, Shape', NEW p, NEW t, WithEntry(p, t), NEW n, n = Len(t),
         NEW C, C \subseteq StoredRecords',
         \A r \in StoredRecords' \ C :
           r \in StoredRecords /\ r[1] # p /\ EntryAt(r)' = EntryAt(r),
         \A r \in StoredRecords : r[1] # p => r \in StoredRecords' \ C,
         NEW at \in Bijection(C, 1 .. n), \A r \in C : EntryAt(r)' = t[at[r]]
  PROVE  RecordStored
<1>1. PICK m \in Nat : m = Size(p) /\ n = m + 1 /\ p \in Leaves
  BY EntriesNow DEF WithEntry, Leaves
<1>2. /\ IsFiniteSet(StoredRecords) /\ \A i \in 1 .. m : <<p, i>> \in StoredRecords
      /\ \A r \in StoredRecords : r = <<r[1], r[2]>> /\ (r[1] = p => r[2] \in 1 .. m)
  BY <1>1, RecordPlaces
<1>3. IsFiniteSet(StoredRecords')
  BY RecordsPlacedNext DEF RecordsPlaced
<1>4. PICK w \in Bijection(1 .. n, 1 .. n) :
        \A i \in 1 .. n : t[i] = IF w[i] = n THEN call.entry ELSE pages[p].entries[w[i]]
  <2>1. pages[p].entries \in Seq(Key \X Rid)
    BY NodeFacts DEF WithEntry, LeafEntries
  <2>2. n = Len(pages[p].entries) + 1
    BY <1>1 DEF Size
  <2>3. call.entry \in Key \X Rid /\ t \in SortedWith(pages[p].entries, call.entry)
    BY DEF WithEntry
  <2>4. PICK s \in Seq(Key \X Rid), e \in Key \X Rid : s = pages[p].entries /\ e = call.entry
    BY <2>1, <2>3
  <2>5. \E w \in Bijection(1 .. n, 1 .. n) : \A i \in 1 .. n : t[i] = IF w[i] = n THEN e ELSE s[w[i]]
    <3>1. t \in SortedWith(s, e) /\ n = Len(s) + 1
      BY <2>2, <2>3, <2>4
    <3> QED BY <3>1, SortedPermutes
  <2> QED BY <2>4, <2>5
<1>5. PICK v \in Bijection(C, 1 .. n) : v = [r \in C |-> w[at[r]]]
  <2>1. PICK D : D = 1 .. n
    OBVIOUS
  <2>2. PICK v : v = [r \in C |-> w[at[r]]]
    OBVIOUS
  <2>3. v \in Bijection(C, D)
    BY <2>1, <2>2, Composed
  <2> QED BY <2>1, <2>2, <2>3
<1>6. /\ \A r \in C : v[r] \in 1 .. n /\ v[r] = w[at[r]] /\ at[r] \in 1 .. n
      /\ \A a, b \in C : v[a] = v[b] => a = b
      /\ \A i \in 1 .. n : \E a \in C : v[a] = i
  BY <1>5 DEF Bijection, Injection, Surjection, IsInjective
<1>7. PICK x : x = <<p, n>>
  OBVIOUS
<1>8. x \notin StoredRecords
  BY <1>1, <1>2, <1>7
<1>9. PICK A : A = StoredRecords'
  OBVIOUS
<1>10. PICK B : B = StoredRecords \cup {x}
  OBVIOUS
<1>11. PICK g : g = [r \in A |-> IF r \in C THEN <<p, v[r]>> ELSE r]
  OBVIOUS
<1>12. /\ C \subseteq A /\ \A r \in A \ C : r \in B /\ r[1] # p
       /\ \A r \in B : r[1] # p => r \in A \ C
       /\ \A r \in B : r[1] = p => \E i \in 1 .. n : r = <<p, i>>
       /\ \A i \in 1 .. n : <<p, i>> \in B
  <2>1. \A i \in 1 .. n : i = n \/ i \in 1 .. m
    BY <1>1
  <2>2. \A i \in 1 .. m : i \in 1 .. n
    BY <1>1
  <2>3. n \in 1 .. n /\ x[1] = p
    BY <1>1, <1>7
  <2> QED BY <1>2, <1>7, <1>9, <1>10, <2>1, <2>2, <2>3
<1>13. /\ \A r \in C : g[r] = <<p, v[r]>> /\ g[r] \in B
       /\ \A r \in A \ C : g[r] = r /\ g[r] \in B
       /\ g \in [A -> B] /\ DOMAIN g = A
  BY <1>6, <1>11, <1>12
<1>14. g \in Bijection(A, B)
  <2>1. ASSUME NEW a \in A, NEW b \in A, g[a] = g[b] PROVE a = b
    <3>1. CASE a \in C /\ b \in C
      BY <1>6, <1>13, <2>1, <3>1
    <3>2. CASE ~(a \in C /\ b \in C)
      BY <1>12, <1>13, <2>1, <3>2
    <3> QED BY <3>1, <3>2
  <2>2. ASSUME NEW b \in B PROVE \E a \in A : g[a] = b
    <3>1. CASE b[1] = p
      <4>1. PICK i \in 1 .. n : b = <<p, i>>
        BY <1>12, <3>1
      <4>2. PICK a \in C : v[a] = i
        BY <1>6
      <4> QED BY <1>12, <1>13, <4>1, <4>2
    <3>2. CASE b[1] # p
      BY <1>12, <1>13, <3>2
    <3> QED BY <3>1, <3>2
  <2>3. IsInjective(g)
    BY <1>13, <2>1, Zenon DEF IsInjective
  <2> QED BY <1>13, <2>2, <2>3, Zenon DEF Bijection, Injection, Surjection
<1>15. ASSUME NEW r \in StoredRecords'
       PROVE  EntryAt(r)' = IF g[r] = x THEN call.entry ELSE EntryAt(g[r])
  <2>1. CASE r \in C
    <3>1. g[r] = <<p, v[r]>> /\ v[r] \in 1 .. n /\ at[r] \in 1 .. n /\ v[r] = w[at[r]]
      BY <1>6, <1>13, <2>1
    <3>2. EntryAt(r)' = IF v[r] = n THEN call.entry ELSE pages[p].entries[v[r]]
      BY <1>4, <2>1, <3>1
    <3>3. g[r] = x <=> v[r] = n
      BY <1>7, <3>1
    <3>4. EntryAt(g[r]) = pages[p].entries[v[r]]
      BY <3>1 DEF EntryAt
    <3> QED BY <3>2, <3>3, <3>4
  <2>2. CASE r \notin C
    <3>1. g[r] = r /\ r \in StoredRecords /\ EntryAt(r)' = EntryAt(r)
      BY <1>9, <1>13, <2>2
    <3> QED BY <1>8, <3>1
  <2> QED BY <2>1, <2>2
<1>16. g \in Bijection(StoredRecords', StoredRecords \cup {x})
  BY <1>9, <1>10, <1>14
<1>17. ASSUME NEW e PROVE Stored(e)' = Stored(e) + OneMore(e)
  BY <1>2, <1>3, <1>8, <1>15, <1>16, RecordAdded
<1> QED BY <1>17 DEF RecordStored

LEMMA FirstLeafStored ==
  ASSUME IInv, Rooted, Shape', NEW new, FirstLeaf(new)
  PROVE  RecordStored
<1>1. /\ PageIds = {} /\ PageIds' = {new} /\ IsLeaf(new)'
      /\ pages'[new].entries = <<call.entry>>
  BY NoLeafBeforeRoot DEF FirstLeaf, PageIsAdded
<1>2. StoredRecords = {}
  BY <1>1 DEF StoredRecords
<1>3. PICK x : x = <<new, 1>>
  OBVIOUS
<1>4. StoredRecords' = {x}
  <2>1. leaf_node_max_size \in Nat /\ 1 \in 1 .. leaf_node_max_size
    BY TreeAssumption
  <2>2. DOMAIN pages'[new].entries = {1}
    BY <1>1
  <2>3. StoredRecords' = {r \in {new} \X (1 .. leaf_node_max_size) :
                            IsLeaf(r[1])' /\ r[2] \in DOMAIN pages'[r[1]].entries}
    BY <1>1 DEF StoredRecords
  <2>4. \A r \in {new} \X (1 .. leaf_node_max_size) : r[1] = new /\ r = <<r[1], r[2]>>
    OBVIOUS
  <2> QED BY <1>1, <1>3, <2>1, <2>2, <2>3, <2>4
<1>5. EntryAt(x)' = call.entry
  BY <1>1, <1>3 DEF EntryAt
<1>6. PICK g : g = [r \in {x} |-> x]
  OBVIOUS
<1>7. g \in Bijection({x}, {x})
  <2>1. g \in [{x} -> {x}] /\ DOMAIN g = {x} /\ g[x] = x
    BY <1>6
  <2>2. IsInjective(g)
    BY <2>1, Zenon DEF IsInjective
  <2> QED BY <2>1, <2>2, Zenon DEF Bijection, Injection, Surjection
<1>8. /\ IsFiniteSet(StoredRecords) /\ IsFiniteSet(StoredRecords')
      /\ x \notin StoredRecords /\ g \in Bijection(StoredRecords', StoredRecords \cup {x})
  BY <1>2, <1>4, <1>7, FS_EmptySet, FS_Singleton
<1>9. \A r \in StoredRecords' : EntryAt(r)' = IF g[r] = x THEN call.entry ELSE EntryAt(g[r])
  BY <1>4, <1>5, <1>6
<1>10. ASSUME NEW e PROVE Stored(e)' = Stored(e) + OneMore(e)
  BY <1>8, <1>9, RecordAdded
<1> QED BY <1>10 DEF RecordStored

(* The records of the other leaves stay where they are. *)
LEMMA OthersStay ==
  ASSUME Shape, Shape', NEW P, PageIds \subseteq PageIds',
         \A q \in PageIds \ P : pages'[q] = pages[q],
         \A q \in PageIds' \ P : q \in PageIds
  PROVE  \A r : r[1] \notin P =>
           /\ r \in StoredRecords' <=> r \in StoredRecords
           /\ r \in StoredRecords => EntryAt(r)' = EntryAt(r)
<1>1. ASSUME NEW r, r[1] \notin P, r \in StoredRecords
      PROVE  r \in StoredRecords' /\ EntryAt(r)' = EntryAt(r)
  BY <1>1 DEF StoredRecords, EntryAt, IsLeaf
<1>2. ASSUME NEW r, r[1] \notin P, r \in StoredRecords'
      PROVE  r \in StoredRecords
  <2>1. r \in PageIds' \X (1 .. leaf_node_max_size)
        /\ IsLeaf(r[1])' /\ r[2] \in DOMAIN pages'[r[1]].entries
    BY <1>2 DEF StoredRecords
  <2>2. r[1] \in PageIds /\ pages'[r[1]] = pages[r[1]] /\ r \in PageIds \X (1 .. leaf_node_max_size)
    BY <1>2, <2>1
  <2> QED BY <2>1, <2>2 DEF StoredRecords, IsLeaf
<1> QED BY <1>1, <1>2

LEMMA LeafTakesStored ==
  ASSUME IInv, IInv', NEW p, NEW t, LeafTakes(p, t)
  PROVE  RecordStored
<1>1. /\ WithEntry(p, t) /\ Shape /\ Shape' /\ PageIds' = PageIds /\ p \in PageIds
      /\ \A q \in PageIds \ {p} : pages'[q] = pages[q]
      /\ IsLeaf(p)' /\ pages'[p].entries = t
  BY DEF LeafTakes, WithEntry, IInv
<1>2. PICK n \in Nat : n = Len(t) /\ DOMAIN t = 1 .. n
  BY <1>1, LenProperties DEF WithEntry, LeafEntries
<1>3. PICK C : C = {<<p, i>> : i \in 1 .. n}
  OBVIOUS
<1>4. \A r \in StoredRecords' : r[1] = p => r \in C
  <2>1. \A r \in StoredRecords' : r = <<r[1], r[2]>> /\ r[2] \in DOMAIN pages'[r[1]].entries
    BY DEF StoredRecords
  <2> QED BY <1>1, <1>2, <1>3, <2>1
<1>5. C \subseteq StoredRecords'
  <2>1. p \in Leaves' /\ Size(p)' = n
    BY <1>1, <1>2 DEF Leaves, Size
  <2>2. RecordsPlaced'
    BY <1>1, RecordsPlacedNext
  <2>3. \A i \in 1 .. n : <<p, i>> \in StoredRecords'
    BY <2>1, <2>2 DEF RecordsPlaced
  <2> QED BY <1>3, <2>3
<1>6. /\ \A r \in StoredRecords' \ C :
            r \in StoredRecords /\ r[1] # p /\ EntryAt(r)' = EntryAt(r)
      /\ \A r \in StoredRecords : r[1] # p => r \in StoredRecords' \ C
  <2>1. \A r : r[1] # p => /\ r \in StoredRecords' <=> r \in StoredRecords
                           /\ r \in StoredRecords => EntryAt(r)' = EntryAt(r)
    <3>1. PICK P : P = {p}
      OBVIOUS
    <3>2. \A r : r[1] \notin P => /\ r \in StoredRecords' <=> r \in StoredRecords
                                  /\ r \in StoredRecords => EntryAt(r)' = EntryAt(r)
      BY <1>1, <3>1, OthersStay
    <3> QED BY <3>1, <3>2
  <2>2. \A r \in C : r[1] = p
    BY <1>3
  <2> QED BY <1>4, <2>1, <2>2
<1>7. PICK at : at = [r \in C |-> r[2]]
  OBVIOUS
<1>8. at \in Bijection(C, 1 .. n)
  <2>1. /\ at \in [C -> 1 .. n] /\ DOMAIN at = C /\ \A i \in 1 .. n : <<p, i>> \in C /\ at[<<p, i>>] = i
        /\ \A r, s \in C : at[r] = at[s] => r = s
    BY <1>3, <1>7
  <2>2. IsInjective(at)
    BY <2>1, Zenon DEF IsInjective
  <2> QED BY <2>1, <2>2, Zenon DEF Bijection, Injection, Surjection
<1>9. \A r \in C : EntryAt(r)' = t[at[r]]
  BY <1>1, <1>3, <1>7 DEF EntryAt
<1> QED BY <1>1, <1>2, <1>5, <1>6, <1>8, <1>9, EntryStored

LEMMA LeafSplitsStored ==
  ASSUME IInv, IInv', NEW p, NEW new, NEW t, NEW mid, LeafSplits(p, new, t, mid)
  PROVE  RecordStored
<1>1. /\ WithEntry(p, t) /\ Shape /\ Shape' /\ p \in PageIds /\ p # new
      /\ PageIds' = PageIds \cup {new} /\ new \notin PageIds
      /\ \A q \in PageIds \ {p} : pages'[q] = pages[q]
      /\ IsLeaf(p)' /\ IsLeaf(new)'
  <2>1. WithEntry(p, t) /\ SplitInto(p, new, t, mid)
    BY DEF LeafSplits
  <2>2. /\ p \in PageIds /\ PageIsAdded(new) /\ \A q \in PageIds \ {p} : pages'[q] = pages[q]
        /\ IsLeaf(p)' = IsLeaf(p) /\ IsLeaf(new)' = IsLeaf(p)
    BY <2>1, Zenon DEF SplitInto
  <2>3. IsLeaf(p)
    BY <2>1 DEF WithEntry
  <2> QED BY <2>1, <2>2, <2>3 DEF PageIsAdded, IInv
<1>2. PICK n \in Nat : n = Len(t) /\ DOMAIN t = 1 .. n
  BY <1>1, LenProperties DEF WithEntry, LeafEntries
<1>3. /\ mid \in 1 .. n - 1 /\ mid \in Nat
      /\ Len(pages'[p].entries) = mid /\ \A i \in 1 .. mid : pages'[p].entries[i] = t[i]
      /\ Len(pages'[new].entries) = n - mid
      /\ \A i \in 1 .. n - mid : pages'[new].entries[i] = t[mid + i]
  BY <1>2 DEF LeafSplits, SplitInto
<1>4. PICK C : C = {<<p, i>> : i \in 1 .. mid} \cup {<<new, i>> : i \in 1 .. n - mid}
  OBVIOUS
<1>5. /\ RecordsPlaced' /\ p \in Leaves' /\ Size(p)' = mid /\ new \in Leaves' /\ Size(new)' = n - mid
  BY <1>1, <1>3, RecordsPlacedNext DEF Leaves, Size
<1>6. \A r \in StoredRecords' : r[1] \in {p, new} => r \in C
  <2>1. ASSUME NEW r \in StoredRecords', r[1] = p PROVE r \in C
    <3>1. r = <<r[1], r[2]>> /\ r[2] \in 1 .. mid
      BY <1>5, <2>1 DEF RecordsPlaced
    <3> QED BY <1>4, <2>1, <3>1
  <2>2. ASSUME NEW r \in StoredRecords', r[1] = new PROVE r \in C
    <3>1. r = <<r[1], r[2]>> /\ r[2] \in 1 .. n - mid
      BY <1>5, <2>2 DEF RecordsPlaced
    <3> QED BY <1>4, <2>2, <3>1
  <2> QED BY <2>1, <2>2
<1>7. C \subseteq StoredRecords'
  <2>1. \A i \in 1 .. mid : <<p, i>> \in StoredRecords'
    BY <1>5 DEF RecordsPlaced
  <2>2. \A i \in 1 .. n - mid : <<new, i>> \in StoredRecords'
    BY <1>5 DEF RecordsPlaced
  <2> QED BY <1>4, <2>1, <2>2
<1>8. /\ \A r \in StoredRecords' \ C :
            r \in StoredRecords /\ r[1] # p /\ EntryAt(r)' = EntryAt(r)
      /\ \A r \in StoredRecords : r[1] # p => r \in StoredRecords' \ C
  <2>1. \A r : r[1] \notin {p, new} => /\ r \in StoredRecords' <=> r \in StoredRecords
                                       /\ r \in StoredRecords => EntryAt(r)' = EntryAt(r)
    <3>1. PICK P : P = {p, new}
      OBVIOUS
    <3>2. \A r : r[1] \notin P => /\ r \in StoredRecords' <=> r \in StoredRecords
                                  /\ r \in StoredRecords => EntryAt(r)' = EntryAt(r)
      BY <1>1, <3>1, OthersStay
    <3> QED BY <3>1, <3>2
  <2>2. \A r \in C : r[1] \in {p, new}
    BY <1>4
  <2>3. \A r \in StoredRecords : r[1] # new
    BY <1>1 DEF StoredRecords
  <2> QED BY <1>6, <2>1, <2>2, <2>3
<1>9. PICK at : at = [r \in C |-> IF r[1] = p THEN r[2] ELSE mid + r[2]]
  OBVIOUS
<1>10. /\ \A i \in 1 .. mid : <<p, i>> \in C /\ at[<<p, i>>] = i
       /\ \A i \in 1 .. n - mid : <<new, i>> \in C /\ at[<<new, i>>] = mid + i
  BY <1>1, <1>4, <1>9
<1>11. at \in Bijection(C, 1 .. n)
  <2>1. at \in [C -> 1 .. n]
    <3>1. \A i \in 1 .. mid : i \in 1 .. n
      BY <1>3
    <3>2. \A i \in 1 .. n - mid : mid + i \in 1 .. n
      BY <1>3
    <3>3. \A r \in C : at[r] \in 1 .. n
      BY <1>4, <1>10, <3>1, <3>2
    <3> QED BY <1>9, <3>3
  <2>2. \A r, s \in C : at[r] = at[s] => r = s
    <3>1. \A i \in 1 .. mid : \A j \in 1 .. n - mid : i # mid + j
      BY <1>3
    <3>2. \A i, j \in 1 .. n - mid : mid + i = mid + j => i = j
      BY <1>3
    <3> QED BY <1>4, <1>10, <3>1, <3>2
  <2>3. ASSUME NEW i \in 1 .. n PROVE \E r \in C : at[r] = i
    <3>1. CASE i <= mid
      <4>1. i \in 1 .. mid
        BY <1>3, <3>1
      <4> QED BY <1>10, <4>1
    <3>2. CASE ~(i <= mid)
      <4>1. PICK j \in 1 .. n - mid : i = mid + j
        <5>1. i - mid \in 1 .. n - mid /\ i = mid + (i - mid)
          BY <1>3, <3>2
        <5> QED BY <5>1
      <4> QED BY <1>10, <4>1
    <3> QED BY <3>1, <3>2
  <2>4. DOMAIN at = C
    BY <1>9
  <2>5. IsInjective(at)
    BY <2>2, <2>4, Zenon DEF IsInjective
  <2> QED BY <2>1, <2>3, <2>4, <2>5, Zenon DEF Bijection, Injection, Surjection
<1>12. \A r \in C : EntryAt(r)' = t[at[r]]
  <2>1. ASSUME NEW i \in 1 .. mid PROVE EntryAt(<<p, i>>)' = t[at[<<p, i>>]]
    BY <1>3, <1>10 DEF EntryAt
  <2>2. ASSUME NEW i \in 1 .. n - mid PROVE EntryAt(<<new, i>>)' = t[at[<<new, i>>]]
    BY <1>3, <1>10 DEF EntryAt
  <2> QED BY <1>4, <2>1, <2>2
<1> QED BY <1>1, <1>2, <1>7, <1>8, <1>11, <1>12, EntryStored

(* The steps above the leaves move no record. *)
LEMMA ParentsMoveNothing ==
  ASSUME Shape, NEW P, PageIds \subseteq PageIds',
         \A q \in PageIds \ P : pages'[q] = pages[q],
         \A q \in P : q \notin Leaves /\ ~IsLeaf(q)', \A q \in PageIds' : q \in PageIds \cup P
  PROVE  RecordsSame
<1>1. ASSUME NEW q \in PageIds \ P PROVE IsLeaf(q)' = IsLeaf(q)
  BY SameNode
<1>2. Leaves' = Leaves
  BY <1>1 DEF Leaves
<1>3. \A q \in Leaves : pages'[q] = pages[q]
  BY DEF Leaves
<1> QED BY <1>2, <1>3, LeavesUntouched

LEMMA SeparatorMovesNothing ==
  ASSUME IInv, propagate \/ split_internal \/ grow_root
  PROVE  RecordsSame
<1>1. ASSUME NEW p, NEW slot, NEW t, ParentTakes(p, slot, t)
      PROVE  RecordsSame
  <2>1. /\ PageIds' = PageIds /\ \A q \in PageIds \ {p} : pages'[q] = pages[q]
        /\ p \notin Leaves /\ ~IsLeaf(p)'
    BY <1>1 DEF ParentTakes, WithSeparator, Leaves
  <2>2. PICK P : P = {p}
    OBVIOUS
  <2> QED BY <2>1, <2>2, ParentsMoveNothing DEF IInv
<1>2. ASSUME NEW p, NEW new, NEW slot, NEW t, NEW mid, ParentSplits(p, new, slot, t, mid)
      PROVE  RecordsSame
  <2>1. WithSeparator(p, slot, t) /\ SplitInto(p, new, t, mid)
    BY <1>2 DEF ParentSplits
  <2>2. /\ PageIsAdded(new) /\ \A q \in PageIds \ {p} : pages'[q] = pages[q]
        /\ IsLeaf(p)' = IsLeaf(p) /\ IsLeaf(new)' = IsLeaf(p)
    BY <2>1, Zenon DEF SplitInto
  <2>3. ~IsLeaf(p)
    BY <2>1 DEF WithSeparator
  <2>4. /\ PageIds' = PageIds \cup {new} /\ new \notin PageIds
        /\ p \notin Leaves /\ ~IsLeaf(p)' /\ new \notin Leaves /\ ~IsLeaf(new)'
    BY <2>2, <2>3 DEF PageIsAdded, Leaves
  <2>5. PICK P : P = {p, new}
    OBVIOUS
  <2> QED BY <2>2, <2>4, <2>5, ParentsMoveNothing DEF IInv
<1>3. ASSUME NEW new, RootGrows(new)
      PROVE  RecordsSame
  <2>1. /\ PageIds' = PageIds \cup {new} /\ \A q \in PageIds : pages'[q] = pages[q]
        /\ new \notin Leaves /\ ~IsLeaf(new)'
    BY <1>3 DEF RootGrows, PageIsAdded, Leaves
  <2>2. PICK P : P = {new}
    OBVIOUS
  <2> QED BY <2>1, <2>2, ParentsMoveNothing DEF IInv
<1> QED BY <1>1, <1>2, <1>3, ParentTaken, ParentSplitMade, RootGrowsUp

LEMMA PagesSame ==
  ASSUME pages' = pages
  PROVE  RecordsSame
<1>1. Leaves' = Leaves /\ \A q \in Leaves : pages'[q] = pages[q]
  BY DEF Leaves, PageIds, IsLeaf
<1> QED BY <1>1, LeavesUntouched

-----------------------------------------------------------------------------
(* The inductive invariant of the chain.  To that of the tree it adds that *)
(* every page is reached, the links that lead past the leaves below each   *)
(* page, and what a scan that runs has delivered so far.                   *)

CInv == TInv /\ Reached /\ HasChain /\ ScanOn

LEMMA InitIsChained ==
  ASSUME Init
  PROVE  CInv
<1>1. /\ PageIds = {} /\ Inner = {} /\ Leaves = {} /\ root_page_id = INVALID_PAGE_ID
      /\ ~At("propagate") /\ ~At("scan")
  BY DEF Init, PageIds, Idle, At, Inner, Leaves
<1>2. Reached /\ ScanOn
  BY <1>1 DEF Reached, ScanOn
<1>3. HasChain
  <2>1. PICK f : f = [q \in PageIds |-> 0]
    OBVIOUS
  <2>2. f \in [PageIds -> Int] /\ root_page_id \notin PageIds
    BY <1>1, <2>1
  <2>3. Chained(f, f, f)
    BY <1>1, <2>2 DEF Chained, Ends, SplitChained
  <2> QED BY <2>2, <2>3 DEF HasChain
<1> QED BY <1>2, <1>3, InitIsTree DEF CInv

LEMMA StepKeepsChains ==
  ASSUME CInv, [Next]_vars
  PROVE  CInv'
<1>1. TInv /\ Reached /\ HasChain /\ ScanOn
  BY DEF CInv
<1>2. TInv'
  BY <1>1, StepKeepsTree
<1>3. Reached'
  BY <1>1, <1>2, StepKeepsReached DEF TInv
<1>4. HasChain'
  BY <1>1, <1>2, StepKeepsChain DEF TInv
<1>5. ScanOn'
  BY <1>1, StepKeepsScan
<1> QED BY <1>2, <1>3, <1>4, <1>5 DEF CInv

(* The invariant holds in every state that calls of BTree reach.           *)
THEOREM ChainAlways == Spec => []CInv
<1>1. Init => CInv
  BY InitIsChained
<1>2. CInv /\ [Next]_vars => CInv'
  BY StepKeepsChains
<1> QED BY <1>1, <1>2, PTL DEF Spec

(* Between two inserts, whatever they split and in whatever order the keys *)
(* came, the next_page_id links pass through every leaf once, from left to *)
(* right, end with INVALID_PAGE_ID, and meet the keys in order.            *)
THEOREM LeavesStayChained == Spec => []LeavesChained
<1>1. CInv => LeavesChained
  BY LeavesAreChained DEF CInv, TInv
<1> QED BY <1>1, ChainAlways, PTL

(* A scan delivers its records in the order of their keys, and when it has *)
(* ended it has delivered each record above its key as often as it is      *)
(* stored, and a record of its key if there is one.                        *)
THEOREM ScansAreComplete == Spec => []ScanIsComplete
<1>1. CInv => ScanIsComplete
  BY ScanIsRight DEF CInv
<1> QED BY <1>1, ChainAlways, PTL

-----------------------------------------------------------------------------
(* The refinement.  The collection has the entries of all leaves; an       *)
(* insert stores its record when a leaf takes it, whether that splits the  *)
(* leaf or not, and returns when the last separator has been placed.       *)

RecordsNow == [e \in Key \X Rid |-> Stored(e)]
InsertNow == IF Inserting THEN [record |-> call.entry, stored |-> At("propagate")] ELSE None

LEMMA StoredSomewhere ==
  ASSUME Shape, NEW e
  PROVE  Stored(e) \in Nat /\ (Stored(e) > 0 <=> \E r \in StoredRecords : EntryAt(r) = e)
<1>1. PICK T : T = {r \in StoredRecords : EntryAt(r) = e}
  OBVIOUS
<1>2. Stored(e) = Cardinality(T)
  BY <1>1 DEF Stored, EntryAt
<1>3. IsFiniteSet(T)
  BY <1>1, RecordPlaces, FS_Subset
<1>4. Cardinality(T) \in Nat /\ (Cardinality(T) = 0 <=> T = {})
  BY <1>3, FS_CardinalityType, FS_EmptySet
<1> QED BY <1>1, <1>2, <1>4

InsertIs(e, stored) == call.entry = e /\ InsertNow = [record |-> e, stored |-> stored]

(* What InsertNow is, here and in the next state. *)
InsertSeen ==
  /\ ~Inserting => InsertNow = None
  /\ Inserting /\ ~At("propagate") => InsertIs(call.entry, FALSE)
  /\ Inserting /\ At("propagate") => InsertIs(call.entry, TRUE)

LEMMA InsertFacts == InsertSeen /\ InsertSeen'
<1>1. InsertSeen
  <2>1. ~At("propagate") => At("propagate") = FALSE
    BY Zenon DEF At
  <2>2. At("propagate") => At("propagate") = TRUE
    BY Zenon DEF At
  <2> QED BY <2>1, <2>2, Zenon DEF InsertSeen, InsertIs, InsertNow
<1> QED BY <1>1, PTL

LEMMA CallImplementsCall ==
  ASSUME NEW k \in Key, NEW r \in Rid, insert(k, r)
  PROVE  Store!Call(<<k, r>>)
<1>1. /\ ~Inserting /\ Inserting' /\ ~At("propagate")' /\ call'.entry = <<k, r>>
      /\ pages' = pages /\ answer' = answer
  BY DEF insert, Inserting, At
<1>2. InsertNow = None /\ InsertNow' = [record |-> <<k, r>>, stored |-> FALSE]
  BY <1>1, InsertFacts DEF InsertSeen, InsertIs
<1>3. RecordsNow' = RecordsNow
  BY <1>1, PagesSame DEF RecordsSame, RecordsNow
<1> QED BY <1>1, <1>2, <1>3 DEF Store!Call, InsertNow, RecordsNow

(* A step that stores the record. *)
LEMMA StepImplementsStore ==
  ASSUME Shape, Inserting, ~At("propagate"), RecordStored, answer' = answer,
         call' = Idle \/ (At("propagate")' /\ call'.entry = call.entry)
  PROVE  Store!Store
<1>1. PICK x \in Key \X Rid : x = call.entry
  BY DEF Shape
<1>2. InsertNow = [record |-> x, stored |-> FALSE] /\ InsertNow # None
  <2>1. InsertNow = [record |-> x, stored |-> FALSE]
    BY <1>1, InsertFacts DEF InsertSeen, InsertIs
  <2>2. [record |-> x, stored |-> FALSE] \in [record : Key \X Rid, stored : BOOLEAN]
    OBVIOUS
  <2> QED BY <2>1, <2>2, NoneAssumption
<1>3. InsertNow' \in {None, [record |-> x, stored |-> TRUE]}
  <2>1. CASE call' = Idle
    BY <2>1, InsertFacts DEF InsertSeen, InsertIs, Inserting, Idle
  <2>2. CASE At("propagate")' /\ call'.entry = call.entry
    <3>1. Inserting'
      BY <2>2 DEF Inserting, At
    <3> QED BY <1>1, <2>2, <3>1, InsertFacts DEF InsertSeen, InsertIs
  <2> QED BY <2>1, <2>2
<1>4. RecordsNow' = [RecordsNow EXCEPT ![x] = @ + 1]
  <2>1. ASSUME NEW e \in Key \X Rid
        PROVE  Stored(e)' = IF e = x THEN Stored(e) + 1 ELSE Stored(e)
    BY <1>1, StoredSomewhere DEF RecordStored, OneMore
  <2> QED BY <2>1 DEF RecordsNow
<1>5. InsertNow.record = x /\ ~InsertNow.stored
      /\ [InsertNow EXCEPT !.stored = TRUE] = [record |-> x, stored |-> TRUE]
  <2>1. InsertNow.record = x
    BY <1>2
  <2>2. InsertNow.stored = FALSE
    BY <1>2, Zenon
  <2>3. PICK b : b = FALSE
    OBVIOUS
  <2>4. InsertNow = [record |-> x, stored |-> b]
    BY <1>2, <2>3, Zenon
  <2>5. \A c : [InsertNow EXCEPT !.stored = c] = [record |-> x, stored |-> c]
    BY <2>4
  <2>6. [InsertNow EXCEPT !.stored = TRUE] = [record |-> x, stored |-> TRUE]
    BY <2>5, Zenon
  <2> QED BY <2>1, <2>2, <2>6
<1> QED BY <1>2, <1>3, <1>4, <1>5 DEF Store!Store, InsertNow, RecordsNow

(* A step that ends an insert whose record has been stored. *)
LEMMA StepImplementsReturn ==
  ASSUME Shape, At("propagate"), RecordsSame, answer' = answer, call' = Idle
  PROVE  Store!Return
<1>1. PICK x \in Key \X Rid : x = call.entry
  BY DEF Shape, Inserting, At
<1>2. InsertNow = [record |-> x, stored |-> TRUE] /\ InsertNow # None
  <2>1. Inserting
    BY DEF Inserting, At
  <2>2. InsertNow = [record |-> x, stored |-> TRUE]
    BY <1>1, <2>1, InsertFacts DEF InsertSeen, InsertIs
  <2>3. [record |-> x, stored |-> TRUE] \in [record : Key \X Rid, stored : BOOLEAN]
    OBVIOUS
  <2> QED BY <2>2, <2>3, NoneAssumption
<1>3. InsertNow' = None
  BY InsertFacts DEF InsertSeen, InsertIs, Inserting, Idle
<1>4. RecordsNow' = RecordsNow
  BY DEF RecordsSame, RecordsNow
<1>5. InsertNow.stored
  BY <1>2
<1> QED BY <1>2, <1>3, <1>4, <1>5 DEF Store!Return, InsertNow, RecordsNow

(* A step that is not seen. *)
LEMMA StepIsNotSeen ==
  ASSUME RecordsSame, answer' = answer,
         \/ ~Inserting /\ ~Inserting'
         \/ /\ Inserting /\ Inserting' /\ call'.entry = call.entry
            /\ At("propagate")' <=> At("propagate")
  PROVE  UNCHANGED Store!vars
<1>1. InsertNow' = InsertNow
  <2>1. CASE ~Inserting /\ ~Inserting'
    BY <2>1, InsertFacts DEF InsertSeen, InsertIs
  <2>2. CASE /\ Inserting /\ Inserting' /\ call'.entry = call.entry
             /\ At("propagate")' <=> At("propagate")
    <3>1. PICK e : call.entry = e /\ call'.entry = e
      BY <2>2
    <3> QED BY <2>2, <3>1, InsertFacts DEF InsertSeen, InsertIs
  <2> QED BY <2>1, <2>2
<1>2. RecordsNow' = RecordsNow
  BY DEF RecordsSame, RecordsNow
<1> QED BY <1>1, <1>2 DEF Store!vars, InsertNow, RecordsNow

(* find_leaf comes to a leaf that has the key if any leaf has it. *)
LEMMA FindImplementsFind ==
  ASSUME CInv, NEW k \in Key, find(k)
  PROVE  Store!Find(k)
<1> USE DEF CInv, TInv
<1>1. /\ At("idle") /\ PageIds # {} /\ answer' = find_kv(pages[LeafFor(k)].entries, k)
      /\ pages' = pages /\ call' = call
  BY DEF find, Rooted
<1>2. ~At("propagate") /\ ~Inserting /\ Shape /\ k \in Nat /\ k \in Int
  BY <1>1, TreeAssumption DEF At, Inserting, IInv
<1>3. PICK c, lo, hi : KnownChain(c, lo, hi)
  BY <1>1, <1>2, ChainIsKnown
<1>4. PICK l \in Leaves : l = LeafFor(k) /\ Covers(l, k, lo, hi)
  BY <1>3 DEF KnownChain
<1>5. PICK es : es = pages[l].entries
  OBVIOUS
<1>6. /\ Len(es) \in Nat /\ DOMAIN es = 1 .. Len(es) /\ InOrder(es)
      /\ \A i \in 1 .. Len(es) : KeyOf(es[i]) \in Int
  BY <1>4, <1>5, NodeSearched DEF Leaves
<1>7. PICK found : found = {r \in Rid : Stored(<<k, r>>) > 0}
  OBVIOUS
<1>8. ASSUME \E i \in 1 .. Len(es) : KeyOf(es[i]) = k
      PROVE  found # {} /\ answer' \in {k} \X found
  <2>1. PICK i \in 1 .. Len(es) : find_kv(es, k) = es[i] /\ KeyOf(es[i]) = k
    BY <1>2, <1>6, <1>8, KvFound
  <2>2. PICK x : x = <<l, i>>
    OBVIOUS
  <2>3. x \in StoredRecords /\ EntryAt(x) = es[i] /\ es[i] \in Key \X Rid
    BY <1>2, <1>4, <1>5, <2>2, RecordPlaces DEF EntryAt, Size
  <2>4. PICK r \in Rid : es[i] = <<k, r>>
    BY <2>1, <2>3 DEF KeyOf
  <2>5. r \in found
    BY <1>2, <1>7, <2>3, <2>4, StoredSomewhere
  <2> QED BY <1>1, <1>4, <1>5, <2>1, <2>4, <2>5
<1>9. ASSUME ~\E i \in 1 .. Len(es) : KeyOf(es[i]) = k
      PROVE  found = {} /\ answer' = None
  <2>1. answer' = None
    BY <1>1, <1>2, <1>4, <1>5, <1>6, <1>9, KvFound
  <2>2. ASSUME NEW r \in Rid, Stored(<<k, r>>) > 0
        PROVE  FALSE
    <3>1. PICK x \in StoredRecords : EntryAt(x) = <<k, r>>
      BY <1>2, <2>2, StoredSomewhere
    <3>2. x[1] \in Leaves /\ x[2] \in DOMAIN pages[x[1]].entries
      BY DEF StoredRecords, Leaves
    <3>3. k \in Keys(x[1])
      BY <3>1, <3>2 DEF Keys, EntryAt, KeyOf
    <3>4. k \in Keys(l)
      BY <1>2, <1>3, <1>4, <3>2, <3>3, CoverHasKey DEF KnownChain
    <3> QED BY <1>5, <1>6, <1>9, <3>4 DEF Keys
  <2>3. found = {}
    BY <1>7, <2>2
  <2> QED BY <2>1, <2>3
<1>10. answer' \in IF found = {} THEN {None} ELSE {k} \X found
  BY <1>8, <1>9
<1>11. found = {r \in Rid : RecordsNow[<<k, r>>] > 0}
  BY <1>7 DEF RecordsNow
<1>12. InsertNow = None /\ InsertNow' = None /\ RecordsNow' = RecordsNow
  BY <1>1, <1>2, PagesSame DEF InsertNow, Inserting, RecordsSame, RecordsNow
<1> QED BY <1>10, <1>11, <1>12 DEF Store!Find, InsertNow, RecordsNow

LEMMA InsertMakesStore ==
  ASSUME IInv, IInv', Rooted, insert_first \/ split_leaf
  PROVE  Store!Store
<1>1. Inserting /\ ~At("propagate") /\ answer' = answer
  BY DEF insert_first, split_leaf, Inserting, At
<1>2. call' = Idle \/ (At("propagate")' /\ call'.entry = call.entry)
  <2>1. CASE split_leaf
    <3>1. \E path, left, k, right : Propagate(path, left, k, right)
      BY <2>1 DEF split_leaf
    <3> QED BY <3>1 DEF Propagate, At
  <2> QED BY <2>1 DEF insert_first
<1>3. RecordStored
  <2>1. CASE insert_first
    <3>1. PICK new : FirstLeaf(new)
      BY <2>1, FirstLeafMade
    <3> QED BY <3>1, FirstLeafStored DEF IInv
  <2>2. CASE split_leaf
    <3>1. PICK p, new, t, mid : LeafSplits(p, new, t, mid)
      BY <2>2, LeafSplitMade
    <3> QED BY <3>1, LeafSplitsStored
  <2> QED BY <2>1, <2>2
<1> QED BY <1>1, <1>2, <1>3, StepImplementsStore DEF IInv

(* A leaf with room takes the record, a full one leaves it to the split. *)
LEMMA LeafMakesStore ==
  ASSUME IInv, IInv', insert_leaf
  PROVE  Store!Store \/ UNCHANGED Store!vars
<1>1. Inserting /\ ~At("propagate") /\ answer' = answer
  BY DEF insert_leaf, Inserting, At
<1>2. ASSUME NEW p, NEW t, LeafTakes(p, t)
      PROVE  Store!Store
  <2>1. call' = Idle /\ RecordStored
    BY <1>2, LeafTakesStored DEF LeafTakes
  <2> QED BY <1>1, <2>1, StepImplementsStore DEF IInv
<1>3. ASSUME UNCHANGED pages, At("split")', call'.entry = call.entry
      PROVE  UNCHANGED Store!vars
  <2>1. Inserting' /\ ~At("propagate")' /\ RecordsSame
    BY <1>3, PagesSame DEF Inserting, At
  <2> QED BY <1>1, <1>3, <2>1, StepIsNotSeen
<1> QED BY <1>2, <1>3, LeafTaken

LEMMA SeparatorMakesReturn ==
  ASSUME IInv, propagate \/ split_internal \/ grow_root
  PROVE  Store!Return \/ UNCHANGED Store!vars
<1>1. At("propagate") /\ Inserting /\ answer' = answer /\ RecordsSame
  BY SeparatorMovesNothing DEF propagate, split_internal, grow_root, Inserting, At
<1>2. CASE propagate \/ grow_root
  <2>1. call' = Idle
    BY <1>2 DEF propagate, grow_root
  <2> QED BY <1>1, <2>1, StepImplementsReturn DEF IInv
<1>3. CASE split_internal
  <2>1. \E path, left, k, right : Propagate(path, left, k, right)
    BY <1>3 DEF split_internal
  <2>2. At("propagate")' /\ Inserting' /\ call'.entry = call.entry
    BY <2>1 DEF Propagate, At, Inserting
  <2> QED BY <1>1, <2>2, StepIsNotSeen
<1> QED BY <1>2, <1>3

(* The way down, and the steps of a scan. *)
LEMMA PathIsNotSeen ==
  ASSUME insert_at_root \/ descend
  PROVE  UNCHANGED Store!vars
<1>1. ASSUME NEW p, NEW path, Visit(p, path)
      PROVE  (At("leaf")' \/ At("descend")') /\ call'.entry = call.entry
  BY <1>1 DEF Visit, At
<1>2. (At("leaf")' \/ At("descend")') /\ call'.entry = call.entry
  BY <1>1 DEF insert_at_root, descend
<1>3. /\ Inserting /\ ~At("propagate") /\ Inserting' /\ ~At("propagate")'
      /\ answer' = answer /\ pages' = pages
  BY <1>2 DEF insert_at_root, descend, Inserting, At
<1> QED BY <1>2, <1>3, PagesSame, StepIsNotSeen

LEMMA ScanIsNotSeen ==
  ASSUME Shape, scan_next \/ find_in_empty \/ \E k \in Key : scan(k)
  PROVE  UNCHANGED Store!vars
<1>1. pages' = pages /\ answer' = answer
  BY DEF scan_next, find_in_empty, scan
<1>2. ~Inserting /\ ~Inserting'
  <2>1. CASE scan_next
    <3>1. ASSUME call' # Idle
          PROVE  call'.pc = "scan"
      <4>1. At("scan") /\ "pc" \in DOMAIN call
        BY <2>1 DEF scan_next, Shape
      <4>2. \E next, seen : call' = [call EXCEPT !.page = next, !.seen = seen]
        BY <2>1, <3>1 DEF scan_next
      <4> QED BY <4>1, <4>2 DEF At
    <3> QED BY <2>1, <3>1 DEF scan_next, Inserting, At, Idle
  <2>2. CASE find_in_empty \/ \E k \in Key : scan(k)
    BY <2>2 DEF find_in_empty, scan, Inserting, At
  <2> QED BY <2>1, <2>2
<1> QED BY <1>1, <1>2, PagesSame, StepIsNotSeen

LEMMA StepImplementsStep ==
  ASSUME CInv, CInv', [Next]_vars
  PROVE  [Store!Next]_(Store!vars)
<1>1. IInv /\ IInv' /\ Rooted /\ Shape
  BY DEF CInv, TInv, IInv
<1>2. CASE insert_first \/ split_leaf
  BY <1>1, <1>2, InsertMakesStore DEF Store!Next
<1>3. CASE insert_leaf
  BY <1>1, <1>3, LeafMakesStore DEF Store!Next
<1>4. CASE propagate \/ split_internal \/ grow_root
  BY <1>1, <1>4, SeparatorMakesReturn DEF Store!Next
<1>5. CASE insert_at_root \/ descend
  BY <1>5, PathIsNotSeen
<1>6. CASE scan_next \/ find_in_empty \/ \E k \in Key : scan(k)
  BY <1>1, <1>6, ScanIsNotSeen
<1>7. ASSUME NEW k \in Key, find(k)
      PROVE  Store!Next
  BY <1>7, FindImplementsFind DEF Store!Next
<1>8. ASSUME NEW k \in Key, NEW r \in Rid, insert(k, r)
      PROVE  Store!Next
  <2>1. <<k, r>> \in Key \X Rid
    OBVIOUS
  <2> QED BY <1>8, <2>1, CallImplementsCall DEF Store!Next
<1>9. CASE UNCHANGED vars
  <2>1. pages' = pages /\ answer' = answer /\ call' = call
    BY <1>9 DEF vars
  <2> QED BY <2>1, PagesSame, StepIsNotSeen DEF Inserting, At
<1> QED BY <1>2, <1>3, <1>4, <1>5, <1>6, <1>7, <1>8, <1>9 DEF Next, InsertContinues, Halted

LEMMA InitImplementsInit ==
  ASSUME Init
  PROVE  Store!Init
<1>1. pages = <<>> /\ ~Inserting /\ answer = None
  BY DEF Init, Idle, Inserting
<1>2. PageIds = {}
  BY <1>1 DEF PageIds
<1>3. StoredRecords = {}
  BY <1>2 DEF StoredRecords
<1>4. ASSUME NEW e PROVE Stored(e) = 0
  BY <1>3, FS_EmptySet DEF Stored
<1>5. RecordsNow = [e \in Key \X Rid |-> 0]
  BY <1>4 DEF RecordsNow
<1> QED BY <1>1, <1>5 DEF Store!Init, RecordsNow

(* To its client the tree is a collection of records under keys: an insert *)
(* adds its record once, between its call and its return, whatever nodes   *)
(* it splits; nothing else changes the collection; and find answers with a *)
(* stored record of the key, and with None only if there is none.          *)
THEOREM ImplementsKeyStore == Spec => StoreSpec
<1>1. Init => Store!Init
  BY InitImplementsInit
<1>2. CInv /\ CInv' /\ [Next]_vars => [Store!Next]_(Store!vars)
  BY StepImplementsStep
<1> QED BY <1>1, <1>2, ChainAlways, PTL DEF Spec, StoreSpec, Store!Spec
=============================================================================
