---------------------------- MODULE BTreeProofs ----------------------------
(***************************************************************************)
(* Proofs about the inserts of BTree.tla, for any keys, record ids and     *)
(* node sizes.                                                             *)
(***************************************************************************)
EXTENDS BTreeProps, SequenceTheorems, TLAPS

(***************************************************************************)
(* The inductive invariant.  That a path has no page twice needs that the  *)
(* pages are a tree: every page has a level, one above that of all its     *)
(* children, and a path comes down one level with every page.              *)
(***************************************************************************)
LeafEntries == Seq(Key \X Rid)
InternalEntries == Seq(Key \X Nat)

Node == [type : {"leaf"}, next : Int, entries : LeafEntries]
          \cup [type : {"internal"}, entries : InternalEntries]

Fits(p) == Len(pages[p].entries) \in 1 .. MaxSize(p)

NodesFit == \A p \in PageIds : Fits(p)

OnPath == Inserting /\ ~At("start")

Shape ==
  /\ pages \in Seq(Node)
  /\ NodesFit
  /\ \A p \in Inner : Children(p) \subseteq PageIds
  /\ root_page_id \in PageIds \cup {INVALID_PAGE_ID}
  /\ At("scan") => "pc" \in DOMAIN call
  /\ Inserting => call.entry \in Key \X Rid
  /\ OnPath =>
       /\ root_page_id \in PageIds
       /\ call.path \in Seq(PageIds)
       /\ At("leaf") => call.path # <<>>
       /\ Bottom \in PageIds
       /\ At("split") => IsLeaf(call.left) /\ ~HasRoom(call.left)
       /\ At("propagate") => call.separator \in Key \X PageIds

(* level gives every page its distance from the leaves, up to a constant. *)
TreeLevels(level) ==
  \A p \in Inner : \A c \in Children(p) : level[p] = level[c] + 1

(* The nodes are a tree of these levels. *)
IsTree(level) ==
  /\ NodesFit
  /\ \A p \in Inner : Children(p) \subseteq PageIds
  /\ TreeLevels(level)

PathLevels(level) ==
  OnPath => \A i \in 1 .. Len(Above) :
    /\ ~IsLeaf(Above[i])
    /\ level[Above[i]] = level[Bottom] + Len(Above) + 1 - i

Leveled(level) ==
  /\ TreeLevels(level)
  /\ PathLevels(level)
  /\ At("propagate") => level[Child(call.separator)] = level[call.left]

IInv ==
  /\ Shape
  /\ PathReachesRoot
  /\ \E level \in [PageIds -> Int] : Leveled(level)

-----------------------------------------------------------------------------
(* Sequences: the end of a path, and the entries of nodes.                 *)

LEMMA FrontAndLast ==
  ASSUME NEW S, NEW s \in Seq(S), s # <<>>
  PROVE  /\ Front(s) \in Seq(S)
         /\ Len(s) \in Nat \ {0}
         /\ Len(Front(s)) = Len(s) - 1
         /\ Last(s) = s[Len(s)]
         /\ Last(s) \in S
         /\ \A i \in 1 .. Len(s) - 1 : Front(s)[i] = s[i]
<1>1. Len(s) \in Nat \ {0} /\ \A i \in 1 .. Len(s) : s[i] \in S
  BY EmptySeq, LenProperties, ElementOfSeq
<1> DEFINE n == Len(s) - 1
<1>2. n \in Nat /\ \A i \in 1 .. n : s[i] \in S
  BY <1>1
<1>3. Front(s) = SubSeq(s, 1, n)
  BY DEF Front
<1> HIDE DEF n
<1>4. /\ Front(s) \in Seq(S)
      /\ Len(Front(s)) = n
      /\ \A i \in 1 .. n : Front(s)[i] = s[i]
  BY <1>2, <1>3, SubSeqProperties
<1> QED BY <1>1, <1>4 DEF Last, n

(* split_off(mid) leaves mid entries and takes the others away. *)
LEMMA Halves ==
  ASSUME NEW S, NEW s \in Seq(S), NEW mid \in 0 .. Len(s)
  PROVE  /\ KeptAt(s, mid) \in Seq(S) /\ Len(KeptAt(s, mid)) = mid
         /\ \A i \in 1 .. mid : KeptAt(s, mid)[i] = s[i]
         /\ SplitOff(s, mid) \in Seq(S) /\ Len(SplitOff(s, mid)) = Len(s) - mid
         /\ \A i \in 1 .. Len(s) - mid : SplitOff(s, mid)[i] = s[mid + i]
<1>1. Len(s) \in Nat /\ \A i \in 1 .. Len(s) : s[i] \in S
  BY LenProperties, ElementOfSeq
<1>2. /\ KeptAt(s, mid) \in Seq(S) /\ Len(KeptAt(s, mid)) = mid
      /\ \A i \in 1 .. mid : KeptAt(s, mid)[i] = s[i]
  BY <1>1, SubSeqProperties DEF KeptAt
<1>3. /\ SplitOff(s, mid) \in Seq(S) /\ Len(SplitOff(s, mid)) = Len(s) - mid
      /\ \A i \in 1 .. Len(s) - mid : SplitOff(s, mid)[i] = s[mid + i]
  BY <1>1, SubSeqProperties DEF SplitOff
<1> QED BY <1>2, <1>3

(* Entering an entry behind position slot. *)
LEMMA EntryInserted ==
  ASSUME NEW S, NEW s \in Seq(S), NEW e \in S, NEW slot \in 1 .. Len(s),
         NEW t, t = InsertAt(s, slot + 1, e)
  PROVE  t \in Seq(S) /\ Len(t) = Len(s) + 1
<1>1. Len(s) \in Nat
  BY LenProperties
<1> DEFINE a == SubSeq(s, 1, slot)
           b == SubSeq(s, slot + 1, Len(s))
           m == a \o <<e>>
<1>2. \A i \in 1 .. Len(s) : s[i] \in S
  BY <1>1, ElementOfSeq
<1>3. a \in Seq(S) /\ Len(a) = slot
  BY <1>1, <1>2, SubSeqProperties
<1>4. b \in Seq(S) /\ Len(b) = Len(s) - slot
  BY <1>1, <1>2, SubSeqProperties
<1>5. InsertAt(s, slot + 1, e) = SubSeq(s, 1, (slot + 1) - 1) \o <<e>> \o SubSeq(s, slot + 1, Len(s))
  BY DEF InsertAt
<1>6. (slot + 1) - 1 = slot
  OBVIOUS
<1>7. t = m \o b
  BY <1>5, <1>6, Zenon
<1> HIDE DEF a, b
<1>8. m \in Seq(S) /\ Len(m) = slot + 1
  BY <1>3, ConcatProperties
<1> HIDE DEF m
<1>9. m \o b \in Seq(S) /\ Len(m \o b) = Len(m) + Len(b)
  BY <1>4, <1>8, ConcatProperties
<1>10. Len(m) + Len(b) = Len(s) + 1
  BY <1>1, <1>4, <1>8
<1> QED BY <1>7, <1>9, <1>10

(* push and sort leave one entry more. *)
LEMMA EntrySorted ==
  ASSUME NEW S, NEW s \in Seq(S), NEW e \in S, NEW t \in SortedWith(s, e)
  PROVE  t \in Seq(S) /\ Len(t) = Len(s) + 1
<1> DEFINE all == Append(s, e)
           n == Len(all)
<1>1. all \in Seq(S) /\ n = Len(s) + 1 /\ n \in Nat /\ \A i \in 1 .. n : all[i] \in S
  BY AppendProperties, LenProperties, ElementOfSeq
<1> HIDE DEF all
<1>2. PICK p \in Bijection(1 .. n, 1 .. n) : t = [i \in 1 .. n |-> all[p[i]]]
  BY DEF SortedWith, all
<1>3. p \in [1 .. n -> 1 .. n]
  BY DEF Bijection, Injection
<1>4. \A i \in 1 .. n : all[p[i]] \in S
  BY <1>1, <1>3
<1> QED BY <1>1, <1>2, <1>4, IsASeq
-----------------------------------------------------------------------------
(* Nodes.                                                                  *)

LEMMA NodeFacts ==
  ASSUME Shape, NEW p \in PageIds
  PROVE  /\ PageIds = 1 .. Len(pages) /\ Len(pages) \in Nat
         /\ pages[p] \in Node
         /\ IsLeaf(p) => /\ pages[p].entries \in LeafEntries
                         /\ pages[p].next \in Int
                         /\ MaxSize(p) = leaf_node_max_size
         /\ ~IsLeaf(p) => /\ pages[p].entries \in InternalEntries
                          /\ MaxSize(p) = internal_node_max_size
<1>1. PageIds = 1 .. Len(pages) /\ Len(pages) \in Nat /\ pages[p] \in Node
  BY LenProperties, ElementOfSeq DEF Shape, PageIds
<1>2. pages[p] \in Node => \/ pages[p].type = "leaf" /\ pages[p].entries \in LeafEntries
                              /\ pages[p].next \in Int
                           \/ pages[p].type = "internal" /\ pages[p].entries \in InternalEntries
  BY DEF Node
<1> QED BY <1>1, <1>2 DEF IsLeaf, MaxSize

(* Two nodes that are the same have the same children and as much room. *)
LEMMA SameNode ==
  ASSUME NEW p, pages'[p] = pages[p]
  PROVE  /\ IsLeaf(p)' = IsLeaf(p)
         /\ Children(p)' = Children(p)
         /\ MaxSize(p)' = MaxSize(p)
         /\ HasRoom(p)' = HasRoom(p)
         /\ Fits(p)' = Fits(p)
BY DEF IsLeaf, Children, MaxSize, HasRoom, Fits

(* A page is changed, and a page is added. *)
LEMMA PageChanged ==
  ASSUME Shape, NEW p \in PageIds, NEW node \in Node,
         pages' = [pages EXCEPT ![p] = node]
  PROVE  /\ pages' \in Seq(Node)
         /\ PageIds' = PageIds
         /\ pages'[p] = node
         /\ \A q \in PageIds \ {p} : pages'[q] = pages[q]
<1>1. pages \in Seq(Node) /\ p \in 1 .. Len(pages) /\ PageIds = 1 .. Len(pages)
  BY NodeFacts DEF Shape
<1>2. /\ pages' \in Seq(Node) /\ Len(pages') = Len(pages)
      /\ \A q \in 1 .. Len(pages) : pages'[q] = IF q = p THEN node ELSE pages[q]
  BY <1>1, ExceptSeq
<1>3. PageIds' = 1 .. Len(pages')
  BY <1>2, LenProperties DEF PageIds
<1> QED BY <1>1, <1>2, <1>3

LEMMA PageAdded ==
  ASSUME Shape, NEW node \in Node, pages' = Append(pages, node)
  PROVE  /\ pages' \in Seq(Node)
         /\ PageIds' = PageIds \cup {NewPage} /\ NewPage \notin PageIds
         /\ NewPage \in Nat \ {0}
         /\ pages'[NewPage] = node
         /\ \A q \in PageIds : pages'[q] = pages[q]
<1>1. pages \in Seq(Node) /\ PageIds = 1 .. Len(pages) /\ Len(pages) \in Nat
  BY LenProperties DEF Shape, PageIds
<1>2. /\ pages' \in Seq(Node) /\ Len(pages') = Len(pages) + 1
      /\ \A q \in 1 .. Len(pages) : pages'[q] = pages[q]
      /\ pages'[Len(pages) + 1] = node
  BY <1>1, AppendProperties
<1>3. PageIds' = 1 .. Len(pages')
  BY <1>2, LenProperties DEF PageIds
<1>4. PageIds' = PageIds \cup {NewPage} /\ NewPage \notin PageIds
  BY <1>1, <1>2, <1>3 DEF NewPage
<1> QED BY <1>1, <1>2, <1>4 DEF NewPage

LEMMA PageChangedAndAdded ==
  ASSUME Shape, NEW p \in PageIds, NEW node \in Node, NEW new \in Node,
         pages' = Append([pages EXCEPT ![p] = node], new)
  PROVE  /\ pages' \in Seq(Node)
         /\ PageIds' = PageIds \cup {NewPage} /\ NewPage \notin PageIds
         /\ NewPage \in Nat \ {0}
         /\ pages'[p] = node
         /\ pages'[NewPage] = new
         /\ \A q \in PageIds \ {p} : pages'[q] = pages[q]
<1> DEFINE mid == [pages EXCEPT ![p] = node]
<1>1. pages \in Seq(Node) /\ p \in 1 .. Len(pages) /\ PageIds = 1 .. Len(pages)
      /\ Len(pages) \in Nat
  BY NodeFacts DEF Shape
<1>2. /\ mid \in Seq(Node) /\ Len(mid) = Len(pages)
      /\ \A q \in 1 .. Len(pages) : mid[q] = IF q = p THEN node ELSE pages[q]
  BY <1>1, ExceptSeq
<1>3. pages' = Append(mid, new)
  OBVIOUS
<1> HIDE DEF mid
<1>4. /\ pages' \in Seq(Node) /\ Len(pages') = Len(pages) + 1
      /\ \A q \in 1 .. Len(pages) : pages'[q] = mid[q]
      /\ pages'[Len(pages) + 1] = new
  BY <1>1, <1>2, <1>3, AppendProperties
<1>5. PageIds' = 1 .. Len(pages')
  BY <1>4, LenProperties DEF PageIds
<1>6. PageIds' = PageIds \cup {NewPage} /\ NewPage \notin PageIds
  BY <1>1, <1>4, <1>5 DEF NewPage
<1> QED BY <1>1, <1>2, <1>4, <1>6 DEF NewPage

-----------------------------------------------------------------------------
(* The end of a path, at each pc. *)

LEMMA BottomIs ==
  /\ At("descend") => Bottom = call.child /\ Above = call.path
  /\ call.pc \in {"split", "propagate"} => Bottom = call.left /\ Above = call.path
  /\ At("leaf") => Bottom = Last(call.path) /\ Above = Front(call.path)
BY DEF Bottom, Above, At

LEMMA BottomIsNext ==
  /\ At("descend")' => Bottom' = call'.child /\ Above' = call'.path
  /\ call'.pc \in {"split", "propagate"} => Bottom' = call'.left /\ Above' = call'.path
  /\ At("leaf")' => Bottom' = Last(call'.path) /\ Above' = Front(call'.path)
BY DEF Bottom, Above, At

(* A step that changes no page and leaves no insert on its way. *)
LEMMA OffPath ==
  ASSUME IInv, UNCHANGED <<pages, root_page_id>>, ~OnPath',
         Inserting' => call'.entry \in Key \X Rid,
         At("scan")' => "pc" \in DOMAIN call'
  PROVE  IInv'
<1>1. Shape'
  BY DEF IInv, Shape, NodesFit, Fits, MaxSize, IsLeaf, Inner, Leaves, Children, PageIds
<1>2. PathReachesRoot'
  BY DEF PathReachesRoot, OnPath
<1>3. ASSUME NEW level \in [PageIds -> Int], Leveled(level)
      PROVE  level \in [PageIds' -> Int] /\ Leveled(level)'
  <2>1. ~At("propagate")'
    BY DEF OnPath, Inserting, At
  <2> QED BY <1>3, <2>1 DEF Leveled, TreeLevels, PathLevels, PageIds, Inner, Leaves,
               IsLeaf, Children
<1> QED BY <1>1, <1>2, <1>3 DEF IInv

(* What Visit(p, path) needs of a path that ends in p. *)
GoodPath(path, level) ==
  /\ HasRoom(path[1]) \/ path[1] = root_page_id
  /\ \A i \in 2 .. Len(path) : ~HasRoom(path[i])
  /\ \A i \in 1 .. Len(path) - 1 :
       ~IsLeaf(path[i]) /\ path[i + 1] \in Children(path[i])
  /\ \A i \in 1 .. Len(path) : level[path[i]] = level[Last(path)] + Len(path) - i

LEMMA VisitKeepsPath ==
  ASSUME IInv, Inserting, root_page_id \in PageIds,
         NEW level \in [PageIds -> Int], TreeLevels(level),
         NEW path \in Seq(PageIds), path # <<>>, GoodPath(path, level),
         NEW p, p = Last(path), Visit(p, path), UNCHANGED <<pages, root_page_id>>
  PROVE  IInv'
<1> DEFINE n == Len(path)
<1>1. /\ n \in Nat \ {0} /\ p = path[n] /\ p \in PageIds
      /\ Front(path) \in Seq(PageIds) /\ Len(Front(path)) = n - 1
      /\ \A i \in 1 .. n - 1 : Front(path)[i] = path[i]
      /\ \A i \in 1 .. n : path[i] \in PageIds
  BY FrontAndLast, ElementOfSeq
<1>2. PageIds' = PageIds /\ root_page_id' = root_page_id
  BY DEF PageIds
<1>3. \A q : pages'[q] = pages[q]
  OBVIOUS
<1>4. \A q : /\ IsLeaf(q)' = IsLeaf(q) /\ Children(q)' = Children(q)
             /\ HasRoom(q)' = HasRoom(q) /\ Fits(q)' = Fits(q)
  BY <1>3, SameNode
<1>5. Inner' = Inner
  BY <1>2, <1>4 DEF Inner, Leaves
<1>6. /\ pages' \in Seq(Node) /\ NodesFit'
      /\ \A q \in Inner' : Children(q)' \subseteq PageIds'
      /\ root_page_id' \in PageIds'
  BY <1>2, <1>4, <1>5 DEF IInv, Shape, NodesFit
<1>7. TreeLevels(level)'
  BY <1>4, <1>5 DEF TreeLevels
<1>8. call.entry \in Key \X Rid
  BY DEF IInv, Shape
<1>9. CASE IsLeaf(p)
  <2>1. call' = [pc |-> "leaf", entry |-> call.entry, path |-> path]
    BY <1>9 DEF Visit
  <2>2. /\ At("leaf")' /\ Inserting' /\ OnPath'
        /\ ~At("scan")' /\ ~At("split")' /\ ~At("propagate")' /\ ~At("start")'
        /\ call'.path = path /\ call'.entry = call.entry
    BY <2>1 DEF At, Inserting, OnPath
  <2>3. Bottom' = p /\ Above' = Front(path)
    BY <2>2, BottomIsNext
  <2>4. Shape'
    BY <1>1, <1>2, <1>6, <1>8, <2>2, <2>3 DEF Shape
  <2>5. PathReachesRoot'
    <3>1. IF Above' = <<>>
          THEN Bottom' = root_page_id' \/ (At("leaf")' /\ HasRoom(Bottom)')
          ELSE HasRoom(Above[1])' \/ Above'[1] = root_page_id'
      <4>1. HasRoom(path[1]) \/ path[1] = root_page_id
        BY DEF GoodPath
      <4>2. CASE Above' = <<>>
        <5>1. n = 1
          BY <4>2, <2>3, <1>1, EmptySeq
        <5> QED BY <5>1, <4>1, <4>2, <2>2, <2>3, <1>1, <1>2, <1>4
      <4>3. CASE Above' # <<>>
        <5>1. n > 1
          BY <4>3, <2>3, <1>1, EmptySeq
        <5>2. Above'[1] = path[1]
          BY <5>1, <2>3, <1>1
        <5> QED BY <5>2, <4>1, <4>3, <1>2, <1>4
      <4> QED BY <4>2, <4>3
    <3>2. \A i \in 2 .. Len(Above') : ~HasRoom(Above[i])'
      <4> TAKE i \in 2 .. Len(Above')
      <4>1. i \in 2 .. n /\ Above'[i] = path[i]
        BY <2>3, <1>1
      <4> QED BY <4>1, <1>4 DEF GoodPath
    <3>3. \A i \in 1 .. Len(Above') :
            (IF i = Len(Above') THEN Bottom' ELSE Above'[i + 1]) \in Children(Above[i])'
      <4> TAKE i \in 1 .. Len(Above')
      <4>1. i \in 1 .. n - 1 /\ Above'[i] = path[i]
        BY <2>3, <1>1
      <4>2. path[i + 1] \in Children(path[i])
        BY <4>1 DEF GoodPath
      <4>3. (IF i = Len(Above') THEN Bottom' ELSE Above'[i + 1]) = path[i + 1]
        <5>1. CASE i = Len(Above')
          BY <5>1, <2>3, <1>1
        <5>2. CASE i # Len(Above')
          <6>1. i + 1 \in 1 .. n - 1
            BY <5>2, <4>1, <2>3, <1>1
          <6> QED BY <6>1, <5>2, <2>3, <1>1
        <5> QED BY <5>1, <5>2
      <4> QED BY <4>1, <4>2, <4>3, <1>4
    <3> QED BY <3>1, <3>2, <3>3, <2>2, <2>3, <1>4, <1>9 DEF PathReachesRoot
  <2>6. PathLevels(level)'
    <3> SUFFICES ASSUME NEW i \in 1 .. Len(Above')
                 PROVE  /\ ~IsLeaf(Above[i])'
                        /\ level[Above'[i]] = level[Bottom'] + Len(Above') + 1 - i
      BY DEF PathLevels
    <3>1. /\ i \in 1 .. n - 1 /\ i \in 1 .. n
          /\ Above'[i] = path[i] /\ Len(Above') = n - 1
      BY <2>3, <1>1
    <3>2. ~IsLeaf(path[i])
      BY <3>1 DEF GoodPath
    <3>3. level[path[i]] = level[p] + n - i
      BY <3>1 DEF GoodPath
    <3>4. level[Above'[i]] = level[Bottom'] + n - i
      BY <3>1, <3>3, <2>3
    <3>5. level[p] \in Int
      BY <1>1
    <3>6. level[Bottom'] + Len(Above') + 1 - i = level[Bottom'] + n - i
      <4> DEFINE low == level[Bottom']
                 m == Len(Above')
      <4>1. low \in Int /\ m \in Int /\ n \in Int /\ i \in Int /\ m = n - 1
        BY <3>1, <3>5, <2>3, <1>1
      <4> HIDE DEF n, low, m
      <4>2. low + m + 1 - i = low + n - i
        BY <4>1
      <4> QED BY <4>2 DEF low, m
    <3>7. ~IsLeaf(Above[i])'
      BY <3>1, <3>2, <1>4
    <3> QED BY <3>4, <3>6, <3>7
  <2> QED BY <2>2, <2>4, <2>5, <2>6, <1>2, <1>7 DEF IInv, Leveled
<1>10. CASE ~IsLeaf(p)
  <2>1. PICK slot \in DOMAIN pages[p].entries :
          call' = [pc |-> "descend", entry |-> call.entry, path |-> path,
                   child |-> ChildAt(p, slot)]
    BY <1>10 DEF Visit
  <2> DEFINE c == ChildAt(p, slot)
  <2>2. c \in Children(p)
    BY DEF ChildAt, Children
  <2>3. p \in Inner /\ c \in PageIds /\ level[p] = level[c] + 1
    BY <1>1, <1>10, <2>2 DEF IInv, Shape, Inner, Leaves, TreeLevels
  <2> HIDE DEF c
  <2>4. /\ At("descend")' /\ Inserting' /\ OnPath'
        /\ ~At("scan")' /\ ~At("split")' /\ ~At("propagate")' /\ ~At("start")' /\ ~At("leaf")'
        /\ call'.path = path /\ call'.entry = call.entry /\ call'.child = c
    BY <2>1 DEF At, Inserting, OnPath, c
  <2>5. Bottom' = c /\ Above' = path
    BY <2>4, BottomIsNext
  <2>6. Shape'
    BY <1>1, <1>2, <1>6, <1>8, <2>3, <2>4, <2>5 DEF Shape
  <2>7. PathReachesRoot'
    <3>1. HasRoom(Above[1])' \/ Above'[1] = root_page_id'
      BY <2>5, <1>2, <1>4 DEF GoodPath
    <3>2. \A i \in 2 .. Len(Above') : ~HasRoom(Above[i])'
      BY <2>5, <1>4 DEF GoodPath
    <3>3. \A i \in 1 .. Len(Above') :
            (IF i = Len(Above') THEN Bottom' ELSE Above'[i + 1]) \in Children(Above[i])'
      <4> TAKE i \in 1 .. Len(Above')
      <4>1. CASE i = n
        BY <4>1, <2>2, <2>5, <1>1, <1>4
      <4>2. CASE i # n
        <5>1. i \in 1 .. n - 1
          BY <4>2, <2>5, <1>1
        <5> QED BY <5>1, <4>2, <2>5, <1>4 DEF GoodPath
      <4> QED BY <4>1, <4>2
    <3> QED BY <3>1, <3>2, <3>3, <2>4, <2>5 DEF PathReachesRoot
  <2>8. PathLevels(level)'
    <3> SUFFICES ASSUME NEW i \in 1 .. n
                 PROVE  /\ ~IsLeaf(path[i])
                        /\ level[path[i]] = level[c] + n + 1 - i
      BY <2>5, <1>4 DEF PathLevels
    <3>1. ~IsLeaf(path[i])
      BY <1>1, <1>10 DEF GoodPath
    <3>2. level[path[i]] = level[p] + n - i /\ level[c] \in Int
      BY <1>1, <2>3 DEF GoodPath
    <3> QED BY <3>1, <3>2, <2>3, <1>1
  <2> QED BY <2>4, <2>6, <2>7, <2>8, <1>2, <1>7 DEF IInv, Leveled
<1> QED BY <1>9, <1>10

LEMMA RootVisited ==
  ASSUME IInv, insert_at_root
  PROVE  IInv'
<1>1. /\ Inserting /\ root_page_id \in PageIds
      /\ Visit(root_page_id, <<root_page_id>>)
      /\ UNCHANGED <<pages, root_page_id>>
  BY DEF insert_at_root, IInv, Shape, Inserting, At
<1>2. PICK level \in [PageIds -> Int] : Leveled(level)
  BY DEF IInv
<1> DEFINE path == <<root_page_id>>
<1>3. path \in Seq(PageIds) /\ path # <<>> /\ Len(path) = 1 /\ path[1] = root_page_id
      /\ root_page_id = Last(path)
  BY <1>1 DEF Last
<1>4. level[root_page_id] \in Int
  BY <1>1
<1> HIDE DEF path
<1>5. GoodPath(path, level)
  BY <1>3, <1>4 DEF GoodPath
<1>6. Visit(root_page_id, path)
  BY <1>1 DEF path
<1> QED BY <1>1, <1>2, <1>3, <1>5, <1>6, VisitKeepsPath DEF Leveled

(* The way down: the child is put on the path, and what is above it leaves *)
(* the path when the child has room.                                       *)
LEMMA Descended ==
  ASSUME IInv, descend
  PROVE  IInv'
<1> DEFINE c == call.child
           path == Append(PathAbove(c), c)
<1>1. /\ At("descend") /\ Inserting /\ OnPath
      /\ Visit(c, path)
      /\ UNCHANGED <<pages, root_page_id>>
  BY DEF descend, At, Inserting, OnPath
<1>2. Bottom = c /\ Above = call.path
  BY <1>1, BottomIs
<1>3. /\ root_page_id \in PageIds /\ c \in PageIds /\ call.path \in Seq(PageIds)
  BY <1>1, <1>2 DEF IInv, Shape
<1>4. PICK level \in [PageIds -> Int] : Leveled(level)
  BY DEF IInv
<1>5. PathAbove(c) \in Seq(PageIds)
  BY <1>3, EmptySeq DEF PathAbove
<1>6. /\ path \in Seq(PageIds) /\ Len(path) = Len(PathAbove(c)) + 1
      /\ \A i \in 1 .. Len(PathAbove(c)) : path[i] = PathAbove(c)[i]
      /\ path[Len(PathAbove(c)) + 1] = c
      /\ Len(PathAbove(c)) \in Nat
  BY <1>3, <1>5, AppendProperties, LenProperties
<1> HIDE DEF path
<1>7. path # <<>> /\ Last(path) = c
  BY <1>6, EmptySeq DEF Last
<1>8. level[c] \in Int
  BY <1>3
<1>9. GoodPath(path, level)
  <2>1. CASE HasRoom(c)
    <3>1. Len(path) = 1 /\ path[1] = c
      BY <2>1, <1>6, EmptySeq DEF PathAbove
    <3> QED BY <3>1, <2>1, <1>7, <1>8 DEF GoodPath
  <2>2. CASE ~HasRoom(c)
    <3> DEFINE m == Len(call.path)
    <3>1. /\ Len(path) = m + 1 /\ m \in Nat /\ path[m + 1] = c
          /\ \A i \in 1 .. m : path[i] = call.path[i]
      BY <2>2, <1>6 DEF PathAbove
    <3>2. /\ IF call.path = <<>> THEN c = root_page_id
             ELSE HasRoom(call.path[1]) \/ call.path[1] = root_page_id
          /\ \A i \in 2 .. m : ~HasRoom(call.path[i])
          /\ \A i \in 1 .. m : (IF i = m THEN c ELSE call.path[i + 1]) \in Children(call.path[i])
      BY <1>1, <1>2 DEF IInv, PathReachesRoot, OnPath, At
    <3>3. \A i \in 1 .. m : ~IsLeaf(call.path[i])
                           /\ level[call.path[i]] = level[c] + m + 1 - i
      BY <1>1, <1>2, <1>4 DEF Leveled, PathLevels
    <3> HIDE DEF m
    <3>4. HasRoom(path[1]) \/ path[1] = root_page_id
      <4>1. CASE call.path = <<>>
        <5>1. m = 0
          BY <4>1, EmptySeq DEF m
        <5> QED BY <5>1, <4>1, <3>1, <3>2
      <4>2. CASE call.path # <<>>
        <5>1. m > 0
          BY <4>2, <1>3, EmptySeq DEF m
        <5> QED BY <5>1, <4>2, <3>1, <3>2
      <4> QED BY <4>1, <4>2
    <3>5. \A i \in 2 .. Len(path) : ~HasRoom(path[i])
      <4> TAKE i \in 2 .. Len(path)
      <4>1. CASE i = m + 1
        BY <4>1, <2>2, <3>1
      <4>2. CASE i # m + 1
        <5>1. i \in 2 .. m /\ i \in 1 .. m
          BY <4>2, <3>1
        <5> QED BY <5>1, <3>1, <3>2
      <4> QED BY <4>1, <4>2
    <3>6. \A i \in 1 .. Len(path) - 1 :
            ~IsLeaf(path[i]) /\ path[i + 1] \in Children(path[i])
      <4> TAKE i \in 1 .. Len(path) - 1
      <4>1. i \in 1 .. m /\ path[i] = call.path[i]
        BY <3>1
      <4>2. (IF i = m THEN c ELSE call.path[i + 1]) = path[i + 1]
        <5>1. CASE i = m
          BY <5>1, <3>1
        <5>2. CASE i # m
          <6>1. i + 1 \in 1 .. m
            BY <5>2, <4>1, <3>1
          <6> QED BY <6>1, <5>2, <3>1
        <5> QED BY <5>1, <5>2
      <4> QED BY <4>1, <4>2, <3>2, <3>3
    <3>7. \A i \in 1 .. Len(path) : level[path[i]] = level[Last(path)] + Len(path) - i
      <4> TAKE i \in 1 .. Len(path)
      <4>1. CASE i = m + 1
        BY <4>1, <3>1, <1>7, <1>8
      <4>2. CASE i # m + 1
        <5>1. i \in 1 .. m /\ path[i] = call.path[i]
          BY <4>2, <3>1
        <5>2. level[path[i]] = level[c] + m + 1 - i
          BY <5>1, <3>3
        <5> QED BY <5>1, <5>2, <3>1, <1>7, <1>8
      <4> QED BY <4>1, <4>2
    <3> QED BY <3>4, <3>5, <3>6, <3>7 DEF GoodPath
  <2> QED BY <2>1, <2>2
<1>10. Visit(c, path)
  BY <1>1 DEF path
<1> HIDE DEF c
<1> QED BY <1>1, <1>3, <1>4, <1>6, <1>7, <1>9, <1>10, VisitKeepsPath DEF Leveled

-----------------------------------------------------------------------------
(* What is left to show of a step that changes pages: of one that ends the *)
(* insert, and of a split, after which a separator goes up.                *)

LEMMA InsertEnds ==
  ASSUME pages' \in Seq(Node),
         root_page_id' \in PageIds' \cup {INVALID_PAGE_ID},
         call' = Idle,
         NEW level \in [PageIds' -> Int],
         IsTree(level)'
  PROVE  IInv'
<1>1. ~OnPath' /\ ~Inserting' /\ ~At("scan")' /\ ~At("propagate")'
  BY DEF Idle, OnPath, Inserting, At
<1>2. Shape'
  BY <1>1 DEF Shape, IsTree
<1>3. PathReachesRoot'
  BY <1>1 DEF PathReachesRoot
<1>4. Leveled(level)'
  BY <1>1 DEF Leveled, IsTree, PathLevels
<1> QED BY <1>2, <1>3, <1>4 DEF IInv

LEMMA SplitGoesUp ==
  ASSUME pages' \in Seq(Node),
         root_page_id' \in PageIds',
         call.entry \in Key \X Rid,
         NEW path \in Seq(PageIds'), NEW left \in PageIds',
         NEW k \in Key, NEW right \in PageIds',
         Propagate(path, left, k, right),
         NEW level \in [PageIds' -> Int],
         IsTree(level)',
         level[right] = level[left],
         IF path = <<>> THEN left = root_page_id'
         ELSE HasRoom(path[1])' \/ path[1] = root_page_id',
         \A i \in 2 .. Len(path) : ~HasRoom(path[i])',
         \A i \in 1 .. Len(path) :
           /\ (IF i = Len(path) THEN left ELSE path[i + 1]) \in Children(path[i])'
           /\ ~IsLeaf(path[i])'
           /\ level[path[i]] = level[left] + Len(path) + 1 - i
  PROVE  IInv'
<1>1. call' = [pc |-> "propagate", entry |-> call.entry, path |-> path, left |-> left,
               separator |-> <<k, right>>]
  BY DEF Propagate
<1>2. /\ At("propagate")' /\ Inserting' /\ OnPath'
      /\ ~At("scan")' /\ ~At("leaf")' /\ ~At("split")' /\ ~At("start")'
      /\ call'.path = path /\ call'.left = left /\ call'.entry = call.entry
      /\ call'.separator = <<k, right>>
  BY <1>1 DEF At, Inserting, OnPath
<1>3. Bottom' = left /\ Above' = path
  BY <1>2, BottomIsNext DEF At
<1>4. Shape'
  BY <1>2, <1>3 DEF Shape, IsTree
<1>5. PathReachesRoot'
  BY <1>2, <1>3 DEF PathReachesRoot
<1>6. PathLevels(level)'
  BY <1>2, <1>3 DEF PathLevels
<1>7. level[Child(call'.separator)] = level[call'.left]
  BY <1>2 DEF Child
<1>8. Leveled(level)'
  BY <1>6, <1>7 DEF Leveled, IsTree, Child
<1> QED BY <1>4, <1>5, <1>8 DEF IInv

(* The children of a node are pages, one level below it. *)
Placed(q, level) ==
  ~IsLeaf(q) => \A c \in Children(q) : c \in PageIds /\ level[q] = level[c] + 1

(* The tree after nodes have been changed or added: what has to be shown   *)
(* is shown for these nodes only.                                          *)
LEMMA NodesChanged ==
  ASSUME Shape, PageIds \subseteq PageIds',
         NEW level \in [PageIds -> Int], TreeLevels(level),
         NEW changed, \A q \in PageIds' \ changed : q \in PageIds /\ pages'[q] = pages[q],
         NEW lv \in [PageIds' -> Int], \A q \in PageIds : lv[q] = level[q],
         \A q \in changed : Fits(q)',
         \A q \in changed : Placed(q, lv)'
  PROVE  IsTree(lv)'
<1>1. \A q \in PageIds' \ changed :
        /\ q \in PageIds /\ IsLeaf(q)' = IsLeaf(q)
        /\ Children(q)' = Children(q) /\ Fits(q)' = Fits(q)
  BY SameNode
<1>2. NodesFit'
  BY <1>1 DEF Shape, NodesFit
<1>3. ASSUME NEW q \in Inner', NEW c \in Children(q)'
      PROVE  c \in PageIds' /\ lv[q] = lv[c] + 1
  <2>1. q \in PageIds' /\ ~IsLeaf(q)'
    BY DEF Inner, Leaves
  <2>2. CASE q \in changed
    BY <2>1, <2>2 DEF Placed
  <2>3. CASE q \notin changed
    <3>1. q \in Inner /\ c \in Children(q)
      BY <1>1, <2>1, <2>3 DEF Inner, Leaves
    <3>2. c \in PageIds /\ level[q] = level[c] + 1 /\ q \in PageIds
      BY <3>1 DEF Shape, TreeLevels, Inner
    <3> QED BY <3>2
  <2> QED BY <2>2, <2>3
<1> QED BY <1>2, <1>3 DEF IsTree, TreeLevels

LEMMA FirstInserted ==
  ASSUME IInv, insert_first
  PROVE  IInv'
<1> DEFINE node == Leaf(INVALID_PAGE_ID, <<call.entry>>)
<1>1. call.entry \in Key \X Rid /\ call' = Idle /\ root_page_id' = NewPage
      /\ pages' = Append(pages, node) /\ Shape
  BY DEF insert_first, IInv, Shape, Inserting, At, NewRoot
<1>2. <<call.entry>> \in LeafEntries /\ Len(<<call.entry>>) = 1
  BY <1>1 DEF LeafEntries
<1>3. node \in Node /\ node.type = "leaf" /\ node.entries = <<call.entry>>
  BY <1>2 DEF Leaf, Node, INVALID_PAGE_ID
<1> HIDE DEF node
<1>4. /\ pages' \in Seq(Node)
      /\ PageIds' = PageIds \cup {NewPage} /\ NewPage \notin PageIds
      /\ pages'[NewPage] = node
      /\ \A q \in PageIds : pages'[q] = pages[q]
  BY <1>1, <1>3, PageAdded
<1>5. PICK level \in [PageIds -> Int] : Leveled(level)
  BY DEF IInv
<1>6. PICK new : new = NewPage
  OBVIOUS
<1>7. IsLeaf(new)' /\ Fits(new)'
  <2>1. Len(pages'[new].entries) = 1 /\ pages'[new].type = "leaf"
    BY <1>2, <1>3, <1>4, <1>6
  <2> QED BY <2>1, TreeAssumption DEF IsLeaf, Fits, MaxSize
<1>8. PICK lv : lv = [q \in PageIds' |-> IF q \in PageIds THEN level[q] ELSE 0]
  OBVIOUS
<1>9. lv \in [PageIds' -> Int] /\ \A q \in PageIds : lv[q] = level[q]
  BY <1>4, <1>8
<1> DEFINE changed == {new}
<1>10. /\ PageIds \subseteq PageIds' /\ TreeLevels(level)
       /\ \A q \in PageIds' \ changed : q \in PageIds /\ pages'[q] = pages[q]
       /\ \A q \in changed : Fits(q)' /\ Placed(q, lv)'
  BY <1>4, <1>5, <1>6, <1>7 DEF Leveled, Placed
<1> HIDE DEF changed
<1>11. IsTree(lv)'
  BY <1>1, <1>5, <1>9, <1>10, NodesChanged
<1> QED BY <1>1, <1>4, <1>9, <1>11, InsertEnds

(* The leaf the path ends in takes the entry, or turns out to be full. *)
LEMMA LeafEntered ==
  ASSUME IInv, insert_leaf
  PROVE  IInv'
<1>1. /\ At("leaf") /\ Inserting /\ OnPath /\ Shape
      /\ UNCHANGED root_page_id
  BY DEF insert_leaf, IInv, At, Inserting, OnPath
<1>2. /\ root_page_id \in PageIds /\ call.path \in Seq(PageIds) /\ call.path # <<>>
      /\ call.entry \in Key \X Rid
  BY <1>1 DEF Shape
<1>3. PICK p : p = Last(call.path)
  OBVIOUS
<1>4. /\ Bottom = p /\ Above = Front(call.path) /\ p \in PageIds
      /\ Above \in Seq(PageIds) /\ IsLeaf(p)
  BY <1>1, <1>2, <1>3, BottomIs, FrontAndLast DEF IInv, PathReachesRoot, OnPath
<1>5. /\ pages[p].entries \in LeafEntries /\ pages[p].next \in Int
      /\ MaxSize(p) = leaf_node_max_size /\ pages[p] \in Node /\ pages[p].type = "leaf"
  BY <1>1, <1>4, NodeFacts DEF IsLeaf
<1>6. PICK entries \in SortedWith(pages[p].entries, call.entry) :
        IF Len(entries) > leaf_node_max_size
        THEN /\ call' = [pc |-> "split", entry |-> call.entry,
                         path |-> Front(call.path), left |-> p]
             /\ UNCHANGED pages
        ELSE /\ pages' = [pages EXCEPT ![p].entries = entries]
             /\ call' = Idle
  BY <1>3 DEF insert_leaf
<1>7. /\ entries \in LeafEntries /\ Len(entries) = Len(pages[p].entries) + 1
      /\ Len(pages[p].entries) \in Nat
  BY <1>2, <1>5, <1>6, EntrySorted, LenProperties DEF LeafEntries
<1>8. PICK level \in [PageIds -> Int] : Leveled(level)
  BY DEF IInv
<1>9. CASE Len(entries) > leaf_node_max_size
  <2>1. /\ call' = [pc |-> "split", entry |-> call.entry, path |-> Above, left |-> p]
        /\ pages' = pages
    BY <1>4, <1>6, <1>9
  <2>2. /\ At("split")' /\ Inserting' /\ OnPath'
        /\ ~At("scan")' /\ ~At("leaf")' /\ ~At("propagate")' /\ ~At("start")'
        /\ call'.path = Above /\ call'.left = p /\ call'.entry = call.entry
    BY <2>1 DEF At, Inserting, OnPath
  <2>3. Bottom' = Bottom /\ Above' = Above
    BY <2>2, <1>4, BottomIsNext DEF At
  <2>4. ~HasRoom(p)
    BY <1>5, <1>7, <1>9, TreeAssumption DEF HasRoom
  <2>5. PageIds' = PageIds /\ Inner' = Inner
    BY <2>1 DEF PageIds, Inner, Leaves, IsLeaf
  <2>6. \A q : /\ IsLeaf(q)' = IsLeaf(q) /\ Children(q)' = Children(q)
               /\ HasRoom(q)' = HasRoom(q) /\ Fits(q)' = Fits(q)
    BY <2>1, SameNode
  <2>7. Shape'
    BY <1>1, <1>2, <1>4, <2>1, <2>2, <2>3, <2>4, <2>5, <2>6 DEF Shape, NodesFit
  <2>8. PathReachesRoot'
    BY <1>1, <1>4, <2>2, <2>3, <2>4, <2>6 DEF IInv, PathReachesRoot, OnPath
  <2>9. Leveled(level)'
    BY <1>1, <1>8, <2>2, <2>3, <2>5, <2>6 DEF Leveled, TreeLevels, PathLevels
  <2> QED BY <1>8, <2>5, <2>7, <2>8, <2>9 DEF IInv
<1>10. CASE ~(Len(entries) > leaf_node_max_size)
  <2> DEFINE node == [pages[p] EXCEPT !.entries = entries]
  <2>1. pages' = [pages EXCEPT ![p] = node] /\ call' = Idle
    BY <1>6, <1>10
  <2>2. node \in Node /\ node.entries = entries /\ node.type = "leaf"
    BY <1>5, <1>7 DEF Node
  <2> HIDE DEF node
  <2>3. /\ pages' \in Seq(Node) /\ PageIds' = PageIds /\ pages'[p] = node
        /\ \A q \in PageIds \ {p} : pages'[q] = pages[q]
    BY <1>1, <1>4, <2>1, <2>2, PageChanged
  <2>4. IsLeaf(p)' /\ Fits(p)'
    <3>1. pages'[p].type = "leaf" /\ pages'[p].entries = entries
      BY <2>2, <2>3
    <3>2. Len(entries) \in 1 .. leaf_node_max_size
      BY <1>7, <1>10, TreeAssumption
    <3> QED BY <3>1, <3>2 DEF IsLeaf, Fits, MaxSize
  <2> DEFINE changed == {p}
  <2>5. /\ PageIds \subseteq PageIds' /\ TreeLevels(level)
        /\ \A q \in PageIds' \ changed : q \in PageIds /\ pages'[q] = pages[q]
        /\ \A q \in changed : Fits(q)' /\ Placed(q, level)'
    BY <1>8, <2>3, <2>4 DEF Leveled, Placed
  <2>6. level \in [PageIds' -> Int]
    BY <2>3
  <2> HIDE DEF changed
  <2>7. IsTree(level)'
    BY <1>1, <1>8, <2>5, <2>6, NodesChanged
  <2> QED BY <1>1, <1>2, <2>1, <2>3, <2>6, <2>7, InsertEnds
<1> QED BY <1>9, <1>10

(* What propagate, split_internal and grow_root find. *)
LEMMA Propagating ==
  ASSUME IInv, At("propagate")
  PROVE  /\ Shape /\ OnPath /\ Bottom = call.left /\ Above = call.path
         /\ root_page_id \in PageIds /\ call.left \in PageIds
         /\ call.path \in Seq(PageIds)
         /\ call.entry \in Key \X Rid /\ call.separator \in Key \X PageIds
BY BottomIs DEF IInv, Shape, OnPath, Inserting, At

(* The parent of the pages of a split, its entries with the separator, and *)
(* their levels.                                                           *)
LEMMA ParentTakesSeparator ==
  ASSUME IInv, At("propagate"), call.path # <<>>, NEW slot \in LeftSlots,
         NEW p, p = Last(call.path),
         NEW level \in [PageIds -> Int], Leveled(level)
  PROVE  /\ p \in PageIds /\ ~IsLeaf(p)
         /\ ParentEntries(slot) \in InternalEntries
         /\ Len(ParentEntries(slot)) = Len(pages[p].entries) + 1
         /\ Len(pages[p].entries) \in Nat \ {0}
         /\ \A i \in 1 .. Len(ParentEntries(slot)) :
              /\ Child(ParentEntries(slot)[i]) \in PageIds
              /\ level[p] = level[Child(ParentEntries(slot)[i])] + 1
         /\ level[p] = level[call.left] + 1
<1>1. /\ Shape /\ OnPath /\ Bottom = call.left /\ Above = call.path
      /\ call.left \in PageIds /\ call.path \in Seq(PageIds)
      /\ call.separator \in Key \X PageIds
  BY Propagating
<1> DEFINE m == Len(call.path)
<1>2. m \in Nat \ {0} /\ p = call.path[m] /\ p \in PageIds
  BY <1>1, FrontAndLast
<1>3a. \A i \in 1 .. m : ~IsLeaf(call.path[i])
                         /\ level[call.path[i]] = level[call.left] + m + 1 - i
  BY <1>1 DEF Leveled, PathLevels
<1> HIDE DEF m
<1>3. /\ ~IsLeaf(p) /\ level[p] = level[call.left] + m + 1 - m
  BY <1>2, <1>3a
<1>4. level[call.left] \in Int
  BY <1>1
<1>5. level[p] = level[call.left] + 1
  BY <1>2, <1>3, <1>4
<1> DEFINE es == pages[p].entries
<1>6. /\ es \in InternalEntries /\ Len(es) \in Nat \ {0} /\ p \in Inner
      /\ DOMAIN es = 1 .. Len(es)
  <2>1. es \in InternalEntries
    BY <1>1, <1>2, <1>3, NodeFacts
  <2>2. Len(es) \in 1 .. MaxSize(p) /\ MaxSize(p) = internal_node_max_size
    BY <1>1, <1>2, <1>3, NodeFacts DEF Shape, NodesFit, Fits
  <2> QED BY <2>1, <2>2, <1>2, <1>3, LenProperties, TreeAssumption DEF Inner, Leaves, InternalEntries
<1>7. slot \in 1 .. Len(es)
  BY <1>6 DEF LeftSlots
<1>8. PageIds \subseteq Nat
  BY <1>1, NodeFacts
<1> DEFINE Below == {e \in Key \X Nat : Child(e) \in PageIds /\ level[p] = level[Child(e)] + 1}
<1>9. call.separator \in Below
  BY <1>1, <1>5, <1>8 DEF Child, Leveled
<1>10. \A i \in 1 .. Len(es) : es[i] \in Key \X Nat
  BY <1>6, ElementOfSeq DEF InternalEntries
<1>11. \A i \in 1 .. Len(es) : Child(es[i]) \in Children(p)
  BY <1>6 DEF Children
<1>12. \A i \in 1 .. Len(es) : Child(es[i]) \in PageIds /\ level[p] = level[Child(es[i])] + 1
  BY <1>1, <1>6, <1>11 DEF Shape, Leveled, TreeLevels
<1>13. es \in Seq(Below)
  <2>1. \A i \in 1 .. Len(es) : es[i] \in Below
    BY <1>10, <1>12
  <2>2. es = [i \in 1 .. Len(es) |-> es[i]]
    BY <1>6 DEF InternalEntries
  <2> HIDE DEF es, Below
  <2> QED BY <2>1, <2>2, <1>6, IsASeq
<1>14. PICK t : t = ParentEntries(slot)
  OBVIOUS
<1>15. t = InsertAt(es, slot + 1, call.separator)
  BY <1>14 DEF ParentEntries
<1> HIDE DEF es, Below
<1>16. t \in Seq(Below) /\ Len(t) = Len(es) + 1
  BY <1>7, <1>9, <1>13, <1>15, EntryInserted
<1>17. Len(t) \in Nat /\ \A i \in 1 .. Len(t) : t[i] \in Below
  BY <1>16, LenProperties, ElementOfSeq
<1>18. t \in InternalEntries
  <2>1. \A i \in 1 .. Len(t) : t[i] \in Key \X Nat
    BY <1>17 DEF Below
  <2>2. t = [i \in 1 .. Len(t) |-> t[i]]
    BY <1>16
  <2> QED BY <2>1, <2>2, <1>17, IsASeq DEF InternalEntries
<1>19. \A i \in 1 .. Len(t) : Child(t[i]) \in PageIds /\ level[p] = level[Child(t[i])] + 1
  BY <1>17 DEF Below
<1> QED BY <1>2, <1>3, <1>5, <1>6, <1>14, <1>16, <1>18, <1>19 DEF es

(* The separator fits into the parent: the insert ends. *)
LEMMA Propagated ==
  ASSUME IInv, propagate
  PROVE  IInv'
<1>1. At("propagate") /\ call.path # <<>> /\ call' = Idle /\ UNCHANGED root_page_id
  BY DEF propagate
<1>2. Shape /\ root_page_id \in PageIds
  BY <1>1, Propagating
<1>3. PICK level \in [PageIds -> Int] : Leveled(level)
  BY DEF IInv
<1>4. PICK p : p = Last(call.path)
  OBVIOUS
<1>5. PICK slot \in LeftSlots :
        /\ Len(ParentEntries(slot)) <= internal_node_max_size
        /\ pages' = [pages EXCEPT ![p] = Internal(ParentEntries(slot))]
  BY <1>4 DEF propagate
<1>6. PICK t : t = ParentEntries(slot)
  OBVIOUS
<1>7. /\ p \in PageIds /\ t \in InternalEntries
      /\ Len(t) = Len(pages[p].entries) + 1 /\ Len(pages[p].entries) \in Nat \ {0}
      /\ \A i \in 1 .. Len(t) : Child(t[i]) \in PageIds /\ level[p] = level[Child(t[i])] + 1
  BY <1>1, <1>3, <1>4, <1>6, ParentTakesSeparator
<1>8. Len(t) \in 1 .. internal_node_max_size
  BY <1>5, <1>6, <1>7, TreeAssumption
<1> DEFINE node == Internal(t)
<1>9. node \in Node /\ node.entries = t /\ node.type = "internal"
  BY <1>7 DEF Node, Internal
<1>10. pages' = [pages EXCEPT ![p] = node]
  BY <1>5, <1>6
<1> HIDE DEF node
<1>11. /\ pages' \in Seq(Node) /\ PageIds' = PageIds /\ pages'[p] = node
       /\ \A q \in PageIds \ {p} : pages'[q] = pages[q]
  BY <1>2, <1>7, <1>9, <1>10, PageChanged
<1>12. pages'[p].type = "internal" /\ pages'[p].entries = t
  BY <1>9, <1>11
<1>13. Fits(p)'
  BY <1>8, <1>12 DEF Fits, MaxSize, IsLeaf
<1>14. Placed(p, level)'
  <2>1. DOMAIN t = 1 .. Len(t)
    BY <1>7, LenProperties DEF InternalEntries
  <2>2. Children(p)' = {Child(t[i]) : i \in 1 .. Len(t)}
    BY <1>12, <2>1 DEF Children
  <2>3. \A c \in Children(p)' : c \in PageIds /\ level[p] = level[c] + 1
    BY <1>7, <2>2
  <2> QED BY <1>11, <2>3 DEF Placed
<1> DEFINE changed == {p}
<1>15. /\ PageIds \subseteq PageIds' /\ TreeLevels(level) /\ level \in [PageIds' -> Int]
       /\ \A q \in PageIds' \ changed : q \in PageIds /\ pages'[q] = pages[q]
       /\ \A q \in changed : Fits(q)'
       /\ \A q \in changed : Placed(q, level)'
  BY <1>3, <1>11, <1>13, <1>14 DEF Leveled
<1> HIDE DEF changed
<1>16. IsTree(level)'
  BY <1>2, <1>3, <1>15, NodesChanged
<1> QED BY <1>1, <1>2, <1>11, <1>15, <1>16, InsertEnds

(* The root has been split: the new root is one level above it. *)
LEMMA RootGrown ==
  ASSUME IInv, grow_root
  PROVE  IInv'
<1> DEFINE first == <<INVALID_KEY, call.left>>
           node == Internal(<<first, call.separator>>)
<1>1. /\ At("propagate") /\ call.path = <<>> /\ call' = Idle
      /\ pages' = Append(pages, node) /\ root_page_id' = NewPage
  BY DEF grow_root, NewRoot
<1>2. /\ Shape /\ call.left \in PageIds /\ call.separator \in Key \X PageIds
  BY <1>1, Propagating
<1>3. PICK level \in [PageIds -> Int] : Leveled(level)
  BY DEF IInv
<1>4. PICK new : new = NewPage
  OBVIOUS
<1>5. first \in Key \X Nat /\ call.separator \in Key \X Nat
  BY <1>2, NodeFacts, TreeAssumption
<1>6. Child(first) = call.left /\ level[Child(call.separator)] = level[call.left]
  BY <1>1, <1>3 DEF Child, Leveled
<1>7. PICK t : t = <<first, call.separator>>
  OBVIOUS
<1> HIDE DEF first
<1>8. t \in InternalEntries /\ Len(t) = 2 /\ t[1] = first /\ t[2] = call.separator
  BY <1>5, <1>7 DEF InternalEntries
<1>9. node \in Node /\ node.entries = t /\ node.type = "internal"
  BY <1>7, <1>8 DEF Node, Internal
<1> HIDE DEF node
<1>10. /\ pages' \in Seq(Node)
       /\ PageIds' = PageIds \cup {new} /\ new \notin PageIds
       /\ pages'[new] = node
       /\ \A q \in PageIds : pages'[q] = pages[q]
  BY <1>1, <1>2, <1>4, <1>9, PageAdded
<1>11. pages'[new].type = "internal" /\ pages'[new].entries = t
  BY <1>9, <1>10
<1>12. Fits(new)'
  <2>1. 2 \in 1 .. internal_node_max_size
    BY TreeAssumption
  <2> QED BY <2>1, <1>8, <1>11 DEF Fits, MaxSize, IsLeaf
<1>13. PICK lv : lv = [q \in PageIds' |-> IF q \in PageIds THEN level[q] ELSE level[call.left] + 1]
  OBVIOUS
<1>14. /\ lv \in [PageIds' -> Int] /\ \A q \in PageIds : lv[q] = level[q]
       /\ lv[new] = level[call.left] + 1
  BY <1>2, <1>10, <1>13
<1>15. \A i \in 1 .. 2 : Child(t[i]) \in PageIds /\ level[Child(t[i])] = level[call.left]
  BY <1>2, <1>6, <1>8 DEF Child
<1>16. Placed(new, lv)'
  <2>1. Children(new)' = {Child(t[i]) : i \in 1 .. 2}
    BY <1>8, <1>11, LenProperties DEF Children, InternalEntries
  <2> QED BY <2>1, <1>10, <1>14, <1>15 DEF Placed
<1> DEFINE changed == {new}
<1>17. /\ PageIds \subseteq PageIds' /\ TreeLevels(level)
       /\ \A q \in PageIds' \ changed : q \in PageIds /\ pages'[q] = pages[q]
       /\ \A q \in changed : Fits(q)'
       /\ \A q \in changed : Placed(q, lv)'
  BY <1>3, <1>10, <1>12, <1>16 DEF Leveled
<1> HIDE DEF changed
<1>18. IsTree(lv)'
  BY <1>2, <1>3, <1>14, <1>17, NodesChanged
<1>19. root_page_id' \in PageIds'
  BY <1>1, <1>4, <1>10
<1> QED BY <1>1, <1>10, <1>14, <1>18, <1>19, InsertEnds

(* Both halves of an overfull node have entries and fit. *)
LEMMA HalvesFit ==
  ASSUME NEW max \in Nat \ {0}, NEW n \in 2 .. max + 1
  PROVE  n \div 2 \in 1 .. max /\ n - n \div 2 \in 1 .. max /\ n \div 2 < n
OBVIOUS

(* What a path and the page p below it are when p has to be split. *)
SplitPath(path, p, level) ==
  /\ IF path = <<>> THEN p = root_page_id
     ELSE HasRoom(path[1]) \/ path[1] = root_page_id
  /\ \A i \in 2 .. Len(path) : ~HasRoom(path[i])
  /\ \A i \in 1 .. Len(path) :
       /\ (IF i = Len(path) THEN p ELSE path[i + 1]) \in Children(path[i])
       /\ ~IsLeaf(path[i])
       /\ level[path[i]] = level[p] + Len(path) + 1 - i

(* A split of p, the page below the path: the key k and page new go up. *)
SplitOf(path, p, k, new, level, lv) ==
  /\ root_page_id' = root_page_id /\ root_page_id \in PageIds
  /\ call.entry \in Key \X Rid
  /\ path \in Seq(PageIds) /\ p \in PageIds /\ SplitPath(path, p, level)
  /\ k \in Key /\ new \in PageIds'
  /\ Propagate(path, p, k, new)
  /\ pages' \in Seq(Node) /\ PageIds \subseteq PageIds'
  /\ \A q \in PageIds \ {p} : pages'[q] = pages[q]
  /\ level \in [PageIds -> Int] /\ lv \in [PageIds' -> Int]
  /\ \A q \in PageIds : lv[q] = level[q]
  /\ IsTree(lv)' /\ lv[new] = lv[p]

(* The pages of the path are above p, so the split leaves them alone. *)
LEMMA SplitKeepsPath ==
  ASSUME NEW path, NEW p, NEW k, NEW new, NEW level, NEW lv,
         SplitOf(path, p, k, new, level, lv)
  PROVE  IInv'
<1> USE DEF SplitOf
<1>1. Len(path) \in Nat /\ \A i \in 1 .. Len(path) : path[i] \in PageIds
  BY LenProperties, ElementOfSeq
<1>2. path \in Seq(PageIds')
  <2>1. \A i \in 1 .. Len(path) : path[i] \in PageIds'
    BY <1>1
  <2>2. path = [i \in 1 .. Len(path) |-> path[i]]
    OBVIOUS
  <2> QED BY <1>1, <2>1, <2>2, IsASeq
<1>3. level[p] \in Int /\ lv[p] = level[p]
  OBVIOUS
<1>4. ASSUME NEW i \in 1 .. Len(path)
      PROVE  /\ IsLeaf(path[i])' = IsLeaf(path[i])
             /\ Children(path[i])' = Children(path[i])
             /\ HasRoom(path[i])' = HasRoom(path[i])
             /\ lv[path[i]] = lv[p] + Len(path) + 1 - i
  <2>1. path[i] \in PageIds /\ level[path[i]] = level[p] + Len(path) + 1 - i
    BY <1>1 DEF SplitPath
  <2>2. level[path[i]] # level[p]
    BY <1>1, <1>3, <2>1
  <2>3. pages'[path[i]] = pages[path[i]]
    BY <2>1, <2>2
  <2>4. lv[path[i]] = level[path[i]]
    BY <2>1
  <2> QED BY <1>3, <2>1, <2>3, <2>4, SameNode
<1>5. IF path = <<>> THEN p = root_page_id'
      ELSE HasRoom(path[1])' \/ path[1] = root_page_id'
  <2>1. CASE path = <<>>
    BY <2>1 DEF SplitPath
  <2>2. CASE path # <<>>
    <3>1. 1 \in 1 .. Len(path)
      BY <1>1, <2>2, EmptySeq
    <3> QED BY <3>1, <2>2, <1>4 DEF SplitPath
  <2> QED BY <2>1, <2>2
<1>6. \A i \in 2 .. Len(path) : ~HasRoom(path[i])'
  <2> TAKE i \in 2 .. Len(path)
  <2>1. i \in 1 .. Len(path)
    BY <1>1
  <2> QED BY <2>1, <1>4 DEF SplitPath
<1>7. \A i \in 1 .. Len(path) :
        /\ (IF i = Len(path) THEN p ELSE path[i + 1]) \in Children(path[i])'
        /\ ~IsLeaf(path[i])'
        /\ lv[path[i]] = lv[p] + Len(path) + 1 - i
  BY <1>4 DEF SplitPath
<1>8. p \in PageIds' /\ root_page_id' \in PageIds'
  OBVIOUS
<1>9. /\ pages' \in Seq(Node) /\ call.entry \in Key \X Rid /\ k \in Key /\ new \in PageIds'
      /\ Propagate(path, p, k, new) /\ lv \in [PageIds' -> Int]
      /\ IsTree(lv)' /\ lv[new] = lv[p]
  OBVIOUS
<1> HIDE DEF SplitOf
<1> QED BY <1>2, <1>5, <1>6, <1>7, <1>8, <1>9, SplitGoesUp

(* A full leaf is split: its path leads above both halves. *)
LEMMA LeafSplit ==
  ASSUME IInv, split_leaf
  PROVE  IInv'
<1>0. PICK p : p = call.left
  OBVIOUS
<1>1. /\ At("split") /\ OnPath /\ Inserting /\ Shape /\ root_page_id' = root_page_id
      /\ Bottom = p /\ Above = call.path
  BY <1>0, BottomIs DEF split_leaf, IInv, OnPath, Inserting, At
<1>2. /\ root_page_id \in PageIds /\ p \in PageIds /\ call.path \in Seq(PageIds)
      /\ call.entry \in Key \X Rid /\ IsLeaf(p) /\ ~HasRoom(p)
  BY <1>0, <1>1 DEF Shape
<1>3. /\ pages[p].entries \in LeafEntries /\ pages[p].next \in Int
      /\ MaxSize(p) = leaf_node_max_size
  BY <1>1, <1>2, NodeFacts
<1>4. Len(pages[p].entries) = leaf_node_max_size
  <2>1. Len(pages[p].entries) \in 1 .. MaxSize(p) /\ ~(Len(pages[p].entries) < MaxSize(p))
    BY <1>1, <1>2 DEF Shape, NodesFit, Fits, HasRoom
  <2> QED BY <2>1, <1>3, TreeAssumption
<1>5. PICK entries \in SortedWith(pages[p].entries, call.entry) :
        /\ pages' = Append([pages EXCEPT ![p] = Leaf(NewPage, KeptAt(entries, Middle(entries)))],
                           Leaf(NextOfRight(p), SplitOff(entries, Middle(entries))))
        /\ Propagate(call.path, p, MiddleKey(entries), NewPage)
  BY <1>0 DEF split_leaf
<1>6. entries \in LeafEntries /\ Len(entries) = leaf_node_max_size + 1
  BY <1>2, <1>3, <1>4, EntrySorted DEF LeafEntries
<1>7. PICK mid : mid = Middle(entries)
  OBVIOUS
<1>8. /\ mid \in 1 .. leaf_node_max_size
      /\ Len(entries) - mid \in 1 .. leaf_node_max_size
      /\ mid \in 0 .. Len(entries) /\ mid + 1 \in 1 .. Len(entries)
  BY <1>6, <1>7, HalvesFit, TreeAssumption DEF Middle
<1>9. /\ KeptAt(entries, mid) \in LeafEntries /\ Len(KeptAt(entries, mid)) = mid
      /\ SplitOff(entries, mid) \in LeafEntries
      /\ Len(SplitOff(entries, mid)) = Len(entries) - mid
  BY <1>6, <1>8, Halves DEF LeafEntries
<1>10. PICK k : k = MiddleKey(entries)
  OBVIOUS
<1>11. k \in Key
  <2>1. entries[mid + 1] \in Key \X Rid
    BY <1>6, <1>8, ElementOfSeq DEF LeafEntries
  <2> QED BY <2>1, <1>7, <1>10 DEF MiddleKey, KeyOf
<1>12. PICK new : new = NewPage
  OBVIOUS
<1> DEFINE low == Leaf(new, KeptAt(entries, mid))
           high == Leaf(NextOfRight(p), SplitOff(entries, mid))
<1>13. new \in Int
  BY <1>1, <1>2, <1>12, NodeFacts DEF NewPage
<1>14. /\ low \in Node /\ low.type = "leaf" /\ Len(low.entries) = mid
       /\ high \in Node /\ high.type = "leaf" /\ Len(high.entries) = Len(entries) - mid
  BY <1>3, <1>9, <1>13 DEF Leaf, Node, NextOfRight
<1>15. /\ pages' = Append([pages EXCEPT ![p] = low], high)
       /\ Propagate(call.path, p, k, new)
  BY <1>5, <1>7, <1>10, <1>12
<1> HIDE DEF low, high
<1>16. /\ pages' \in Seq(Node)
       /\ PageIds' = PageIds \cup {new} /\ new \notin PageIds
       /\ pages'[p] = low /\ pages'[new] = high
       /\ \A q \in PageIds \ {p} : pages'[q] = pages[q]
  <2>1. Shape /\ p \in PageIds /\ low \in Node /\ high \in Node
    BY <1>1, <1>2, <1>14
  <2>2. /\ pages' \in Seq(Node)
        /\ PageIds' = PageIds \cup {NewPage} /\ NewPage \notin PageIds
        /\ pages'[p] = low /\ pages'[NewPage] = high
        /\ \A q \in PageIds \ {p} : pages'[q] = pages[q]
    BY <1>15, <2>1, PageChangedAndAdded
  <2> QED BY <1>12, <2>2
<1>17. PICK level \in [PageIds -> Int] : Leveled(level)
  BY DEF IInv
<1>18. PICK lv : lv = [q \in PageIds' |-> IF q \in PageIds THEN level[q] ELSE level[p]]
  OBVIOUS
<1>19. /\ lv \in [PageIds' -> Int] /\ \A q \in PageIds : lv[q] = level[q]
       /\ lv[new] = lv[p]
  BY <1>2, <1>16, <1>18
<1>20. IsLeaf(p)' /\ IsLeaf(new)'
  BY <1>14, <1>16 DEF IsLeaf
<1>21. Fits(p)' /\ Fits(new)'
  BY <1>8, <1>14, <1>16 DEF Fits, MaxSize, IsLeaf
<1> DEFINE changed == {p, new}
<1>22. /\ PageIds \subseteq PageIds' /\ TreeLevels(level)
       /\ \A q \in PageIds' \ changed : q \in PageIds /\ pages'[q] = pages[q]
       /\ \A q \in changed : Fits(q)' /\ Placed(q, lv)'
  BY <1>16, <1>17, <1>20, <1>21 DEF Leveled, Placed
<1> HIDE DEF changed
<1>23. IsTree(lv)'
  BY <1>1, <1>17, <1>19, <1>22, NodesChanged
<1>24. SplitPath(call.path, p, level)
  BY <1>1, <1>2, <1>17
     DEF SplitPath, Leveled, PathLevels, IInv, PathReachesRoot, OnPath, At
<1>25. PageIds \subseteq PageIds' /\ new \in PageIds'
  BY <1>16
<1>26. SplitOf(call.path, p, k, new, level, lv)
  BY <1>1, <1>2, <1>11, <1>15, <1>16, <1>17, <1>19, <1>23, <1>24, <1>25 DEF SplitOf
<1> QED BY <1>26, SplitKeepsPath

(* The parent is full, too, and is split in turn. *)
LEMMA InternalSplit ==
  ASSUME IInv, split_internal
  PROVE  IInv'
<1>1. At("propagate") /\ call.path # <<>> /\ root_page_id' = root_page_id
  BY DEF split_internal
<1>2. /\ Shape /\ root_page_id \in PageIds /\ call.path \in Seq(PageIds)
      /\ Bottom = call.left /\ Above = call.path /\ OnPath
      /\ call.left \in PageIds /\ call.entry \in Key \X Rid
  BY <1>1, Propagating
<1>3. PICK level \in [PageIds -> Int] : Leveled(level)
  BY DEF IInv
<1>4. PICK p : p = Last(call.path)
  OBVIOUS
<1> DEFINE Right(t) == [SplitOff(t, Middle(t)) EXCEPT ![1] = <<INVALID_KEY, @[2]>>]
<1>5. PICK slot \in LeftSlots :
        /\ Len(ParentEntries(slot)) > internal_node_max_size
        /\ pages' = Append([pages EXCEPT ![p] =
                              Internal(KeptAt(ParentEntries(slot), Middle(ParentEntries(slot))))],
                           Internal(Right(ParentEntries(slot))))
        /\ Propagate(Front(call.path), p, MiddleKey(ParentEntries(slot)), NewPage)
  BY <1>4 DEF split_internal
<1>6. PICK t : t = ParentEntries(slot)
  OBVIOUS
<1>7. /\ p \in PageIds /\ ~IsLeaf(p) /\ t \in InternalEntries
      /\ Len(t) = Len(pages[p].entries) + 1 /\ Len(pages[p].entries) \in Nat \ {0}
      /\ \A i \in 1 .. Len(t) : Child(t[i]) \in PageIds /\ level[p] = level[Child(t[i])] + 1
      /\ level[p] = level[call.left] + 1
  BY <1>1, <1>3, <1>4, <1>6, ParentTakesSeparator
<1>8. PICK mid : mid = Middle(t)
  OBVIOUS
<1>9. PICK right : right = Right(t)
  OBVIOUS
<1>10. PICK k : k = MiddleKey(t)
  OBVIOUS
<1>11. PICK new : new = NewPage
  OBVIOUS
<1>12. PICK path : path = Front(call.path)
  OBVIOUS
<1>13. /\ Len(t) > internal_node_max_size
       /\ pages' = Append([pages EXCEPT ![p] = Internal(KeptAt(t, mid))], Internal(right))
       /\ Propagate(path, p, k, new)
  BY <1>5, <1>6, <1>8, <1>9, <1>10, <1>11, <1>12
<1>14. right = [SplitOff(t, mid) EXCEPT ![1] = <<INVALID_KEY, @[2]>>]
  BY <1>8, <1>9
<1> HIDE DEF Right
<1>15. MaxSize(p) = internal_node_max_size /\ Len(pages[p].entries) \in 1 .. internal_node_max_size
  BY <1>2, <1>7, NodeFacts DEF Shape, NodesFit, Fits
<1>16. Len(t) = internal_node_max_size + 1 /\ ~HasRoom(p)
  BY <1>7, <1>13, <1>15, TreeAssumption DEF HasRoom
<1>17. /\ mid \in 1 .. internal_node_max_size
       /\ Len(t) - mid \in 1 .. internal_node_max_size
       /\ mid \in 0 .. Len(t) /\ mid + 1 \in 1 .. Len(t)
  BY <1>8, <1>16, HalvesFit, TreeAssumption DEF Middle
<1>18. k \in Key
  <2>1. t[mid + 1] \in Key \X Nat
    BY <1>7, <1>17, ElementOfSeq DEF InternalEntries
  <2> QED BY <2>1, <1>8, <1>10 DEF MiddleKey, KeyOf
<1> DEFINE kept == KeptAt(t, mid)
           off == SplitOff(t, mid)
           Below == {e \in Key \X Nat : Child(e) \in PageIds /\ level[p] = level[Child(e)] + 1}
<1>19. \A i \in 1 .. Len(t) : t[i] \in Below
  BY <1>7, ElementOfSeq DEF InternalEntries
<1> HIDE DEF Below
<1>20. t \in Seq(Below)
  <2>1. t = [i \in 1 .. Len(t) |-> t[i]] /\ Len(t) \in Nat
    BY <1>7, LenProperties DEF InternalEntries
  <2> QED BY <2>1, <1>19, IsASeq
<1>21. /\ kept \in Seq(Below) /\ Len(kept) = mid
       /\ off \in Seq(Below) /\ Len(off) = Len(t) - mid
  BY <1>17, <1>20, Halves
<1> HIDE DEF kept, off
<1>22. right \in Seq(Below) /\ Len(right) = Len(off)
  <2>1. 1 \in 1 .. Len(off) /\ off[1] \in Below
    BY <1>17, <1>21, ElementOfSeq
  <2>2. PICK first : first = <<INVALID_KEY, off[1][2]>>
    OBVIOUS
  <2>3. first \in Below
    BY <2>1, <2>2, TreeAssumption DEF Below, Child
  <2>4. right = [off EXCEPT ![1] = first]
    BY <1>14, <2>2 DEF off
  <2> QED BY <2>1, <2>3, <2>4, <1>21, ExceptSeq
<1>23. ASSUME NEW s \in Seq(Below)
       PROVE  /\ s \in InternalEntries
              /\ \A i \in DOMAIN s : Child(s[i]) \in PageIds /\ level[p] = level[Child(s[i])] + 1
  <2>1. /\ Len(s) \in Nat /\ DOMAIN s = 1 .. Len(s) /\ s = [i \in 1 .. Len(s) |-> s[i]]
        /\ \A i \in 1 .. Len(s) : s[i] \in Below
    BY LenProperties, ElementOfSeq
  <2>2. \A i \in 1 .. Len(s) : /\ s[i] \in Key \X Nat
                               /\ Child(s[i]) \in PageIds /\ level[p] = level[Child(s[i])] + 1
    BY <2>1 DEF Below
  <2> QED BY <2>1, <2>2, IsASeq DEF InternalEntries
<1> DEFINE low == Internal(kept)
           high == Internal(right)
<1>24. /\ low \in Node /\ low.type = "internal" /\ low.entries = kept
       /\ high \in Node /\ high.type = "internal" /\ high.entries = right
  BY <1>21, <1>22, <1>23 DEF Internal, Node
<1>25. pages' = Append([pages EXCEPT ![p] = low], high)
  BY <1>13 DEF kept
<1> HIDE DEF low, high
<1>26. /\ pages' \in Seq(Node)
       /\ PageIds' = PageIds \cup {new} /\ new \notin PageIds
       /\ pages'[p] = low /\ pages'[new] = high
       /\ \A q \in PageIds \ {p} : pages'[q] = pages[q]
  <2>1. Shape /\ p \in PageIds /\ low \in Node /\ high \in Node
    BY <1>2, <1>7, <1>24
  <2>2. /\ pages' \in Seq(Node)
        /\ PageIds' = PageIds \cup {NewPage} /\ NewPage \notin PageIds
        /\ pages'[p] = low /\ pages'[NewPage] = high
        /\ \A q \in PageIds \ {p} : pages'[q] = pages[q]
    BY <2>1, <1>25, PageChangedAndAdded
  <2> QED BY <2>2, <1>11
<1>27. PICK lv : lv = [q \in PageIds' |-> IF q \in PageIds THEN level[q] ELSE level[p]]
  OBVIOUS
<1>28. /\ lv \in [PageIds' -> Int] /\ \A q \in PageIds : lv[q] = level[q]
       /\ lv[new] = lv[p] /\ lv[p] = level[p]
  BY <1>7, <1>26, <1>27
<1>29. ASSUME NEW q, NEW s \in Seq(Below), pages'[q].entries = s,
              lv[q] = level[p]
       PROVE  Placed(q, lv)'
  <2>1. ASSUME NEW c \in Children(q)'
        PROVE  c \in PageIds' /\ lv[q] = lv[c] + 1
    <3>1. PICK i \in DOMAIN s : c = Child(s[i])
      BY <1>29, <2>1 DEF Children
    <3>2. c \in PageIds /\ level[p] = level[c] + 1
      BY <3>1, <1>23
    <3> QED BY <3>2, <1>26, <1>28, <1>29
  <2> QED BY <2>1 DEF Placed
<1>30. Placed(p, lv)' /\ Placed(new, lv)'
  BY <1>21, <1>22, <1>24, <1>26, <1>28, <1>29
<1>31. Fits(p)' /\ Fits(new)'
  BY <1>17, <1>21, <1>22, <1>24, <1>26 DEF Fits, MaxSize, IsLeaf
<1> DEFINE changed == {p, new}
<1>32. /\ PageIds \subseteq PageIds' /\ TreeLevels(level)
       /\ \A q \in PageIds' \ changed : q \in PageIds /\ pages'[q] = pages[q]
       /\ \A q \in changed : Fits(q)' /\ Placed(q, lv)'
  BY <1>3, <1>26, <1>30, <1>31 DEF Leveled
<1> HIDE DEF changed
<1>33. IsTree(lv)'
  BY <1>2, <1>3, <1>28, <1>32, NodesChanged
<1>34. path \in Seq(PageIds) /\ SplitPath(path, p, level)
  <2> DEFINE old == call.path
             n == Len(old)
  <2>1. /\ n \in Nat \ {0} /\ p = old[n] /\ path \in Seq(PageIds) /\ Len(path) = n - 1
        /\ \A i \in 1 .. n - 1 : path[i] = old[i]
    BY <1>1, <1>2, <1>4, <1>12, FrontAndLast
  <2>2. \A i \in 1 .. n : /\ ~IsLeaf(old[i])
                          /\ level[old[i]] = level[call.left] + n + 1 - i
    BY <1>2, <1>3 DEF Leveled, PathLevels
  <2>3. /\ HasRoom(old[1]) \/ old[1] = root_page_id
        /\ \A i \in 2 .. n : ~HasRoom(old[i])
        /\ \A i \in 1 .. n : (IF i = n THEN call.left ELSE old[i + 1]) \in Children(old[i])
    BY <1>1, <1>2 DEF IInv, PathReachesRoot, OnPath
  <2> HIDE DEF old, n
  <2>4. IF path = <<>> THEN p = root_page_id
        ELSE HasRoom(path[1]) \/ path[1] = root_page_id
    <3>1. CASE n = 1
      BY <3>1, <2>1, <2>3, <1>16, EmptySeq
    <3>2. CASE n # 1
      <4>1. 1 \in 1 .. n - 1
        BY <3>2, <2>1
      <4> QED BY <4>1, <2>1, <2>3, EmptySeq
    <3> QED BY <3>1, <3>2
  <2>5. \A i \in 2 .. Len(path) : ~HasRoom(path[i])
    <3> TAKE i \in 2 .. Len(path)
    <3>1. i \in 2 .. n /\ i \in 1 .. n - 1
      BY <2>1
    <3> QED BY <3>1, <2>1, <2>3
  <2>6. ASSUME NEW i \in 1 .. Len(path)
        PROVE  /\ (IF i = Len(path) THEN p ELSE path[i + 1]) \in Children(path[i])
               /\ ~IsLeaf(path[i])
               /\ level[path[i]] = level[p] + Len(path) + 1 - i
    <3>1. i \in 1 .. n - 1 /\ i \in 1 .. n /\ i # n /\ path[i] = old[i]
      BY <2>1
    <3>2. (IF i = Len(path) THEN p ELSE path[i + 1]) = old[i + 1]
      <4>1. CASE i = Len(path)
        BY <4>1, <2>1
      <4>2. CASE i # Len(path)
        <5>1. i + 1 \in 1 .. n - 1
          BY <4>2, <3>1, <2>1
        <5> QED BY <5>1, <4>2, <2>1
      <4> QED BY <4>1, <4>2
    <3>3. level[call.left] \in Int
      BY <1>2
    <3>4. level[old[i]] = level[p] + Len(path) + 1 - i
      BY <3>1, <3>3, <2>1, <2>2, <1>7, SMTT(30)
    <3> QED BY <3>1, <3>2, <3>4, <2>2, <2>3
  <2> QED BY <2>1, <2>4, <2>5, <2>6 DEF SplitPath
<1>35. SplitOf(path, p, k, new, level, lv)
  BY <1>1, <1>2, <1>7, <1>13, <1>18, <1>26, <1>28, <1>33, <1>34 DEF SplitOf
<1> QED BY <1>35, SplitKeepsPath

-----------------------------------------------------------------------------
(* The other steps: they change no page and leave no insert on its way. *)

LEMMA StepKeepsPath ==
  ASSUME IInv, [Next]_vars
  PROVE  IInv'
<1>1. CASE insert_first
  BY <1>1, FirstInserted
<1>2. CASE insert_at_root
  BY <1>2, RootVisited
<1>3. CASE descend
  BY <1>3, Descended
<1>4. CASE insert_leaf
  BY <1>4, LeafEntered
<1>5. CASE split_leaf
  BY <1>5, LeafSplit
<1>6. CASE propagate
  BY <1>6, Propagated
<1>7. CASE split_internal
  BY <1>7, InternalSplit
<1>8. CASE grow_root
  BY <1>8, RootGrown
<1>9. CASE scan_next
  <2>1. /\ UNCHANGED <<pages, root_page_id>> /\ At("scan") /\ "pc" \in DOMAIN call
        /\ \/ call' = Idle
           \/ call' = [call EXCEPT !.page = pages[call.page].next,
                                   !.seen = @ \o pages[call.page].entries]
    BY <1>9 DEF scan_next, IInv, Shape, At
  <2>2. call'.pc \in {"idle", "scan"} /\ "pc" \in DOMAIN call'
    <3>1. CASE call' = Idle
      BY <3>1 DEF Idle
    <3>2. ASSUME NEW next, NEW seen, call' = [call EXCEPT !.page = next, !.seen = seen]
          PROVE  call'.pc = call.pc /\ "pc" \in DOMAIN call'
      BY <2>1, <3>2
    <3> QED BY <2>1, <3>1, <3>2 DEF At
  <2> QED BY <2>1, <2>2, OffPath DEF OnPath, Inserting
<1>10. CASE find_in_empty
  <2>1. UNCHANGED <<pages, root_page_id>> /\ call' = [pc |-> "panicked"]
    BY <1>10 DEF find_in_empty
  <2> QED BY <2>1, OffPath DEF OnPath, Inserting, At
<1>11. ASSUME NEW k \in Key, find(k)
       PROVE  IInv'
  <2>1. UNCHANGED <<pages, root_page_id, call>> /\ At("idle")
    BY <1>11 DEF find
  <2> QED BY <2>1, OffPath DEF OnPath, Inserting, At
<1>12. ASSUME NEW k \in Key, scan(k)
       PROVE  IInv'
  <2>1. UNCHANGED <<pages, root_page_id>>
        /\ call' = [pc |-> "scan", from |-> k, page |-> LeafFor(k), seen |-> <<>>]
    BY <1>12 DEF scan
  <2> QED BY <2>1, OffPath DEF OnPath, Inserting, At
<1>13. ASSUME NEW k \in Key, NEW r \in Rid, insert(k, r)
       PROVE  IInv'
  <2>1. UNCHANGED <<pages, root_page_id>> /\ call' = [pc |-> "start", entry |-> <<k, r>>]
    BY <1>13 DEF insert
  <2> QED BY <2>1, OffPath DEF OnPath, Inserting, At
<1>14. CASE UNCHANGED vars
  <2>1. UNCHANGED <<pages, root_page_id, call>>
    BY <1>14 DEF vars
  <2>2. \A p : /\ IsLeaf(p)' = IsLeaf(p) /\ Children(p)' = Children(p)
               /\ HasRoom(p)' = HasRoom(p) /\ Fits(p)' = Fits(p)
    BY <2>1, SameNode
  <2>3. PageIds' = PageIds /\ Inner' = Inner
    BY <2>1, <2>2 DEF PageIds, Inner, Leaves
  <2>4. Above' = Above /\ Bottom' = Bottom /\ OnPath' = OnPath /\ Inserting' = Inserting
    BY <2>1 DEF Above, Bottom, OnPath, Inserting, At
  <2>5. Shape'
    BY <2>1, <2>2, <2>3, <2>4 DEF IInv, Shape, NodesFit, At
  <2>6. PathReachesRoot'
    BY <2>1, <2>2, <2>4 DEF IInv, PathReachesRoot, OnPath, At
  <2>7. \A level : Leveled(level) => Leveled(level)'
    BY <2>1, <2>2, <2>3, <2>4 DEF Leveled, TreeLevels, PathLevels, At
  <2> QED BY <2>3, <2>5, <2>6, <2>7 DEF IInv
<1> QED BY <1>1, <1>2, <1>3, <1>4, <1>5, <1>6, <1>7, <1>8, <1>9, <1>10, <1>11, <1>12, <1>13,
          <1>14 DEF Next, InsertContinues, Halted

LEMMA InitHasNoPath ==
  ASSUME Init
  PROVE  IInv
<1>1. /\ PageIds = {} /\ root_page_id = INVALID_PAGE_ID /\ pages \in Seq(Node)
      /\ ~Inserting /\ ~At("scan") /\ ~At("propagate")
  BY DEF Init, PageIds, Idle, Inserting, At
<1>2. Shape /\ PathReachesRoot
  BY <1>1 DEF Shape, NodesFit, Inner, OnPath, PathReachesRoot
<1>3. [q \in PageIds |-> 0] \in [PageIds -> Int]
      /\ \A level : Leveled(level)
  BY <1>1 DEF Leveled, TreeLevels, PathLevels, Inner, OnPath
<1> QED BY <1>2, <1>3 DEF IInv

(* Whatever is inserted, into nodes of any size: what insert keeps of      *)
(* path_stack when it clears the guards above a node with room leads from  *)
(* the root, or from a node with room, down to the page it is at; a split  *)
(* finds every parent it needs, and grow_root is only reached by a split   *)
(* of the root.                                                            *)
THEOREM SplitsFindTheirParents == Spec => []PathReachesRoot
<1>1. Init => IInv
  BY InitHasNoPath
<1>2. IInv /\ [Next]_vars => IInv'
  BY StepKeepsPath
<1>3. IInv => PathReachesRoot
  BY DEF IInv
<1> QED BY <1>1, <1>2, <1>3, PTL DEF Spec

(* Every node an insert leaves has entries and no more than its page holds.*)
THEOREM NodesAlwaysFit == Spec => []NodesFit
<1>1. Init => IInv
  BY InitHasNoPath
<1>2. IInv /\ [Next]_vars => IInv'
  BY StepKeepsPath
<1>3. IInv => NodesFit
  BY DEF IInv, Shape
<1> QED BY <1>1, <1>2, <1>3, PTL DEF Spec
=============================================================================
