----------------------------- MODULE BTreeProps ----------------------------
(* Properties of the B+tree: the shape of the tree, the stack an insert    *)
(* keeps, the chain of the leaves, and the collection it implements.       *)
EXTENDS BTree

Leaves == {p \in PageIds : IsLeaf(p)}
Inner == PageIds \ Leaves
Children(p) == {Child(pages[p].entries[i]) : i \in DOMAIN pages[p].entries}
Keys(p) == {KeyOf(pages[p].entries[i]) : i \in DOMAIN pages[p].entries}

(* The leaves below a page from left to right, and their number of levels. *)
LeavesUnder ==
  LET under[p \in PageIds] ==
        IF IsLeaf(p) THEN <<p>>
        ELSE LET es == pages[p].entries
             IN  FlattenSeq([i \in DOMAIN es |-> under[Child(es[i])]])
  IN  under

Height ==
  LET height[p \in PageIds] ==
        IF IsLeaf(p) THEN 0 ELSE 1 + height[Child(pages[p].entries[1])]
  IN  height

-----------------------------------------------------------------------------
(* Every page holds a node that has entries and fits its page, every child *)
(* is a page, and the header page names the root except in an empty tree.  *)
LeafNode ==
  [type : {"leaf"}, next : PageIds \cup {INVALID_PAGE_ID}, entries : Seq(Key \X Rid)]
InternalNode == [type : {"internal"}, entries : Seq(Key \X PageIds)]

NodeOK(p) ==
  /\ pages[p] \in LeafNode \cup InternalNode
  /\ Len(pages[p].entries) \in 1 .. MaxSize(p)

CallOK ==
  \/ call = Idle
  \/ call = [pc |-> "panicked"]
  \/ /\ At("scan")
     /\ call.from \in Key /\ call.page \in PageIds \cup {INVALID_PAGE_ID}
     /\ call.seen \in Seq(Key \X Rid)
  \/ /\ Inserting
     /\ call.entry \in Key \X Rid
     /\ ~At("start") => call.path \in Seq(PageIds)
     /\ At("descend") => call.child \in PageIds
     /\ call.pc \in {"split", "propagate"} => call.left \in PageIds
     /\ At("propagate") => call.separator \in Key \X PageIds

TypeOK ==
  /\ \A p \in PageIds : NodeOK(p)
  /\ root_page_id \in PageIds \cup {INVALID_PAGE_ID}
  /\ header_root = IF pages = <<>> THEN 0 ELSE root_page_id
  /\ CallOK
  /\ answer \in (Key \X Rid) \cup {None}

(* A record below an entry of an internal node has a key not under the     *)
(* entry's and not above the next entry's, also while a split goes up the  *)
(* tree: find_child_index leads every search to where its key is.          *)
SeparatorsBound ==
  LET under == LeavesUnder
  IN  \A p \in Inner :
        LET es == pages[p].entries
        IN  \A i \in DOMAIN es : \A l \in ToSet(under[Child(es[i])]) : \A k \in Keys(l) :
              /\ KeyOf(es[i]) <= k
              /\ i < Len(es) => k <= KeyOf(es[i + 1])

(* All leaves are equally deep, and the splits leave every node but the    *)
(* root with at least half of what fits into it; the root has two children.*)
Balanced ==
  /\ \A p \in Inner : \A c, d \in Children(p) : Height[c] = Height[d]
  /\ \A p \in PageIds \ {root_page_id} :
       2 * Len(pages[p].entries) >= MaxSize(p)
  /\ ~Inserting /\ root_page_id \in Inner => Cardinality(Children(root_page_id)) >= 2

(* Between two inserts the next_page_id links pass through every leaf once,*)
(* in the order of the tree, which is the order of the keys.               *)
LeavesChained ==
  ~Inserting /\ Leaves # {} =>
    LET chain == LeavesUnder[root_page_id]
        n == Len(chain)
        keys == FlattenSeq([i \in 1 .. n |-> pages[chain[i]].entries])
    IN  /\ ToSet(chain) = Leaves /\ n = Cardinality(Leaves)
        /\ \A i \in 1 .. n - 1 : pages[chain[i]].next = chain[i + 1]
        /\ pages[chain[n]].next = INVALID_PAGE_ID
        /\ \A i \in 1 .. Len(keys) - 1 : KeyOf(keys[i]) <= KeyOf(keys[i + 1])

(* Clearing path_stack below a node that has room never lets go of a guard *)
(* that a split needs: what is left is a path from the root or from a node *)
(* with room, full below it, and ends at the parent of the page that       *)
(* splits.  A new root is made only when the old root has been split.      *)
Bottom ==
  CASE At("descend") -> call.child
    [] call.pc \in {"split", "propagate"} -> call.left
    [] OTHER -> Last(call.path)

Above == IF At("leaf") THEN Front(call.path) ELSE call.path

PathReachesRoot ==
  Inserting /\ ~At("start") =>
    /\ IF Above = <<>>
       THEN Bottom = root_page_id \/ (At("leaf") /\ HasRoom(Bottom))
       ELSE HasRoom(Above[1]) \/ Above[1] = root_page_id
    /\ \A i \in 2 .. Len(Above) : ~HasRoom(Above[i])
    /\ \A i \in 1 .. Len(Above) :
         (IF i = Len(Above) THEN Bottom ELSE Above[i + 1]) \in Children(Above[i])
    /\ At("leaf") => IsLeaf(Bottom)

(* A scan delivers its records in the order of their keys, and when it has *)
(* ended it has delivered every record above the key it started from, and  *)
(* a record of that key if there is one.  It may miss duplicates of that   *)
(* key in earlier leaves.                                                  *)
Stored(e) ==
  Cardinality({r \in StoredRecords : pages[r[1]].entries[r[2]] = e})

ScanIsComplete ==
  At("scan") =>
    /\ \A i \in 1 .. Len(call.seen) - 1 : KeyOf(call.seen[i]) <= KeyOf(call.seen[i + 1])
    /\ call.page = INVALID_PAGE_ID =>
         \A k \in Key : \A r \in Rid :
           LET delivered(e) == Cardinality({i \in DOMAIN call.seen : call.seen[i] = e})
           IN  /\ k > call.from => delivered(<<k, r>>) = Stored(<<k, r>>)
               /\ (k = call.from /\ Stored(<<k, r>>) > 0) =>
                    \E s \in Rid : delivered(<<k, s>>) > 0

(* The two binary searches find what a search through all entries finds,   *)
(* in every node that inserts build; in particular there is a child index, *)
(* and low - 1 never wraps in a node of the tree.                          *)
SearchesAgree ==
  \A p \in PageIds : \A k \in Key :
    LET es == pages[p].entries
    IN  IF IsLeaf(p)
        THEN LET found == find_kv(es, k)
             IN  IF k \in Keys(p) THEN found \in ToSet(es) /\ KeyOf(found) = k
                 ELSE found = None
        ELSE {i \in DOMAIN es : IsChildIndex(es, k, i)} = {find_child_index(es, k)}

(* The separator of a split goes up into the parent, and path_stack has    *)
(* that on top: the page that was split is there, in one slot, so that     *)
(* position(..).unwrap() finds it and no other slot could be meant.        *)
ParentHasLeft ==
  At("propagate") /\ call.path # <<>> => Cardinality(LeftSlots) = 1

(* The steps that an insert may still take in a tree of h levels above the *)
(* leaves: one for each level on the way down, two in the leaf, and one    *)
(* for each level on the way up.                                           *)
StepsLeft ==
  LET h == Height[root_page_id]
  IN  CASE At("start") -> IF root_page_id = INVALID_PAGE_ID THEN 1 ELSE 2 * h + 4
        [] At("descend") -> h + 4 + Height[call.child]
        [] At("leaf") -> h + 3
        [] At("split") -> h + 2
        [] At("propagate") -> h + 1 - Height[call.left]
        [] OTHER -> 0

(* Every step of an insert leaves fewer steps to take: the loop down the   *)
(* tree and the loop up path_stack (b_plus_tree.rs:359 and :471) end after *)
(* as many passes as the tree has levels, whatever is split.  Whether the  *)
(* pool answers a call they make is the question of BTreeOnPool.tla.       *)
InsertsAdvance ==
  [][Inserting => StepsLeft' \in 0 .. StepsLeft - 1]_vars

-----------------------------------------------------------------------------
(* The tree implements the collection of records of KeyStore: the records  *)
(* are those in the leaf pages, whichever way a search or a scan would     *)
(* reach them, an insert stores its record once, and find descends to it.  *)
Store == INSTANCE KeyStore WITH
  records <- [e \in Key \X Rid |-> Stored(e)],
  pending <- IF Inserting
             THEN [record |-> call.entry, stored |-> At("propagate")]
             ELSE None

StoreSpec == Store!Spec

\* None is no insert that is under way.
ASSUME NoneAssumption == None \notin [record : Key \X Rid, stored : BOOLEAN]
=============================================================================
