------------------------------- MODULE BTree -------------------------------
(***************************************************************************)
(* src/src/b_plus_tree.rs: the B+tree over a store of pages.               *)
(*                                                                         *)
(* BTree's methods take &mut self and one runs at a time.  call is that    *)
(* method, a step of it one pass of a loop or the code between two loops;  *)
(* a method at a pc has yet to do what the pc names.  find is one step.    *)
(*                                                                         *)
(* Page 0 is the header page; of its bytes only the root's id is used, in  *)
(* header_root, which is 0 until the first insert writes it.  The other    *)
(* pages are numbered from 1 in the order new_page makes them.  Where a    *)
(* guard comes from is left to BTreeOnPool.tla.                            *)
(***************************************************************************)
EXTENDS Integers, Sequences, SequencesExt

CONSTANTS
  Key,                     (* the i64 keys in use                          *)
  Rid,                     (* the record ids                               *)
  leaf_node_max_size,
  internal_node_max_size,
  MaxRecords,              (* bound on the records inserted                *)
  None                     (* the answer None                              *)

INVALID_PAGE_ID == -1      (* u32::MAX                                     *)
INVALID_KEY == 0           (* i64::MIN: the least key, which may be used   *)
HeaderPage == 0

\* new() sets 511 and 681, the tests set 3 or 4.
ASSUME TreeAssumption ==
  /\ leaf_node_max_size \in Nat \ {0}
  /\ internal_node_max_size \in Nat \ {0, 1}
  /\ Key \subseteq Nat /\ INVALID_KEY \in Key
  /\ MaxRecords \in Nat

VARIABLES
  pages,          (* the nodes of pages 1, 2, ...                          *)
  header_root,    (* bytes 0..4 of the header page                         *)
  root_page_id,
  call,           (* the method that runs                                  *)
  answer          (* what the last find returned                           *)

vars == <<pages, header_root, root_page_id, call, answer>>

PageIds == DOMAIN pages
NewPage == Len(pages) + 1
Idle == [pc |-> "idle"]
At(pc) == call.pc = pc
Inserting == call.pc \in {"start", "descend", "leaf", "split", "propagate"}

-----------------------------------------------------------------------------
(* Nodes.  An entry of a leaf is <<key, rid>>, one of an internal node is  *)
(* <<key, page id of the child>>.                                          *)

Leaf(next, entries) == [type |-> "leaf", next |-> next, entries |-> entries]
Internal(entries) == [type |-> "internal", entries |-> entries]
IsLeaf(p) == pages[p].type = "leaf"
KeyOf(e) == e[1]
Child(e) == e[2]

(* What a search halves: the range low .. high-1, indices from 0. *)
Ranges(entries) == (0 .. Len(entries)) \X (0 .. Len(entries))
Mid(range) == range[1] + (range[2] - range[1]) \div 2
RightOf(range) == <<Mid(range) + 1, range[2]>>
LeftOf(range) == <<range[1], Mid(range)>>

(* Mutation of find_child_index: keys equal to k are not passed. *)
find_child_index_below(entries, k) ==
  LET low[r \in Ranges(entries)] ==
        IF r[1] >= r[2] THEN r[1]
        ELSE low[IF KeyOf(entries[Mid(r) + 1]) < k THEN RightOf(r) ELSE LeftOf(r)]
  IN  low[<<0, Len(entries)>>]

(* find_child_index returns low - 1, here the index from 1 of the last key *)
(* that is not above k; 0, which is no index, is the wrapped value.        *)
find_child_index(entries, k) ==
  LET low[r \in Ranges(entries)] ==
        IF r[1] >= r[2] THEN r[1]
        ELSE low[IF KeyOf(entries[Mid(r) + 1]) <= k THEN RightOf(r) ELSE LeftOf(r)]
  IN  low[<<0, Len(entries)>>]

find_kv(entries, k) ==
  LET probe[r \in Ranges(entries)] ==
        IF r[1] >= r[2] THEN None
        ELSE IF KeyOf(entries[Mid(r) + 1]) = k THEN entries[Mid(r) + 1]
        ELSE probe[IF KeyOf(entries[Mid(r) + 1]) < k THEN RightOf(r) ELSE LeftOf(r)]
  IN  probe[<<0, Len(entries)>>]

(* What find_child_index computes for sorted entries. *)
IsChildIndex(entries, k, i) ==
  /\ KeyOf(entries[i]) <= k
  /\ i < Len(entries) => KeyOf(entries[i + 1]) > k

(* push and sort_unstable_by_key: records of one key in any order. *)
SortedWith(entries, e) ==
  LET all == Append(entries, e)
      n == Len(all)
  IN  {s \in {[i \in 1 .. n |-> all[p[i]]] : p \in Bijection(1 .. n, 1 .. n)} :
         \A i \in 1 .. n - 1 : KeyOf(s[i]) <= KeyOf(s[i + 1])}

(* Mutation of SplitOff: the middle entry, which goes up, does not stay. *)
SplitOffBehind(entries, mid) == SubSeq(entries, mid + 2, Len(entries))

(* Mutation of Middle: off by one. *)
MiddleLow(entries) == Len(entries) \div 2 - 1

(* split_off(mid): what stays and what goes to the right, mid from 0. *)
KeptAt(entries, mid) == SubSeq(entries, 1, mid)
SplitOff(entries, mid) == SubSeq(entries, mid + 1, Len(entries))
Middle(entries) == Len(entries) \div 2

(* Mutation of MiddleKey: the last key that stays. *)
LastKeptKey(entries) == KeyOf(entries[Middle(entries)])

(* The key that goes up: the first of the right half. *)
MiddleKey(entries) == KeyOf(entries[Middle(entries) + 1])

Init ==
  /\ pages = <<>>
  /\ header_root = 0
  /\ root_page_id = INVALID_PAGE_ID
  /\ call = Idle
  /\ answer = None

-----------------------------------------------------------------------------
(* find and scan.                                                          *)

(* find_leaf reads the root's id from the header page.  For an empty tree  *)
(* that is 0, the header page itself, which decodes as an internal node    *)
(* without entries: the index low - 1 panics.                              *)
LeafFor(k) ==
  LET leaf[p \in PageIds] ==
        IF IsLeaf(p) THEN p
        ELSE leaf[Child(pages[p].entries[find_child_index(pages[p].entries, k)])]
  IN  leaf[header_root]

find_in_empty ==
  /\ At("idle") /\ header_root = HeaderPage
  /\ call' = [pc |-> "panicked"]
  /\ UNCHANGED <<pages, header_root, root_page_id, answer>>

find(k) ==
  /\ At("idle") /\ header_root # HeaderPage
  /\ answer' = find_kv(pages[LeafFor(k)].entries, k)
  /\ UNCHANGED <<pages, header_root, root_page_id, call>>

scan(k) ==
  /\ At("idle") /\ header_root # HeaderPage
  /\ call' = [pc |-> "scan", from |-> k, page |-> LeafFor(k), seen |-> <<>>]
  /\ UNCHANGED <<pages, header_root, root_page_id, answer>>

scan_next ==
  /\ At("scan")
  /\ call' = IF call.page = INVALID_PAGE_ID THEN Idle
             ELSE [call EXCEPT !.page = pages[call.page].next,
                               !.seen = @ \o pages[call.page].entries]
  /\ UNCHANGED <<pages, header_root, root_page_id, answer>>

-----------------------------------------------------------------------------
(* insert.  path is path_stack, whose guards are the pages' ids; the slots *)
(* kept in it are never used.                                              *)

StoredRecords == {r \in PageIds \X (1 .. leaf_node_max_size) :
                    IsLeaf(r[1]) /\ r[2] \in DOMAIN pages[r[1]].entries}

insert(k, r) ==
  /\ At("idle") /\ Cardinality(StoredRecords) < MaxRecords
  /\ call' = [pc |-> "start", entry |-> <<k, r>>]
  /\ UNCHANGED <<pages, header_root, root_page_id, answer>>

(* Mutation of NewRoot: the header page is not written. *)
NewRootInMemory(p) == root_page_id' = p /\ UNCHANGED header_root

(* set_root_page_id in the header page. *)
NewRoot(p) == root_page_id' = p /\ header_root' = p

insert_first ==
  /\ At("start") /\ root_page_id = INVALID_PAGE_ID
  /\ NewRoot(NewPage)
  /\ pages' = Append(pages, Leaf(INVALID_PAGE_ID, <<call.entry>>))
  /\ call' = Idle
  /\ UNCHANGED answer

(* Mutation of ChildAt: the child stays the same on the way down. *)
ChildAtStale(p, slot) ==
  IF At("descend") THEN call.child ELSE Child(pages[p].entries[slot])

ChildAt(p, slot) == Child(pages[p].entries[slot])

(* Page p has been pushed: the next page to visit, or the leaf is reached. *)
Visit(p, path) ==
  LET node == pages[p]
  IN  IF IsLeaf(p)
      THEN call' = [pc |-> "leaf", entry |-> call.entry, path |-> path]
      ELSE \E slot \in DOMAIN node.entries :
             /\ IsChildIndex(node.entries, KeyOf(call.entry), slot)
             /\ call' = [pc |-> "descend", entry |-> call.entry, path |-> path,
                         child |-> ChildAt(p, slot)]

insert_at_root ==
  /\ At("start") /\ root_page_id # INVALID_PAGE_ID
  /\ Visit(root_page_id, <<root_page_id>>)
  /\ UNCHANGED <<pages, header_root, root_page_id, answer>>

MaxSize(p) == IF IsLeaf(p) THEN leaf_node_max_size ELSE internal_node_max_size
HasRoom(p) == Len(pages[p].entries) < MaxSize(p)

(* Mutation of PathAbove: the path is cleared for a full node, too. *)
PathAboveCleared(p) ==
  IF Len(pages[p].entries) <= MaxSize(p) THEN <<>> ELSE call.path

(* A node that has room cannot split: the guards above it are let go. *)
PathAbove(p) == IF HasRoom(p) THEN <<>> ELSE call.path

descend ==
  /\ At("descend")
  /\ Visit(call.child, Append(PathAbove(call.child), call.child))
  /\ UNCHANGED <<pages, header_root, root_page_id, answer>>

insert_leaf ==
  /\ At("leaf")
  /\ LET p == Last(call.path)
     IN  \E entries \in SortedWith(pages[p].entries, call.entry) :
           IF Len(entries) > leaf_node_max_size
           THEN /\ call' = [pc |-> "split", entry |-> call.entry,
                            path |-> Front(call.path), left |-> p]
                /\ UNCHANGED pages
           ELSE /\ pages' = [pages EXCEPT ![p].entries = entries]
                /\ call' = Idle
  /\ UNCHANGED <<header_root, root_page_id, answer>>

(* Mutation of Propagate: the path keeps the parent that has been split. *)
PropagateUnpopped(path, left, k, right) ==
  call' = [pc |-> "propagate", entry |-> call.entry, path |-> call.path, left |-> left,
           separator |-> <<k, right>>]

(* Key k and page right are to be entered above page left. *)
Propagate(path, left, k, right) ==
  call' = [pc |-> "propagate", entry |-> call.entry, path |-> path, left |-> left,
           separator |-> <<k, right>>]

(* Mutation of NextOfRight: the new leaf is taken for the last one. *)
NextOfRightLast(left) == INVALID_PAGE_ID

(* The right leaf takes over the link of the left one, which links to it. *)
NextOfRight(left) == pages[left].next

split_leaf ==
  /\ At("split")
  /\ \E entries \in SortedWith(pages[call.left].entries, call.entry) :
       LET mid == Middle(entries)
       IN  /\ pages' = Append([pages EXCEPT ![call.left] = Leaf(NewPage, KeptAt(entries, mid))],
                              Leaf(NextOfRight(call.left), SplitOff(entries, mid)))
           /\ Propagate(call.path, call.left, MiddleKey(entries), NewPage)
  /\ UNCHANGED <<header_root, root_page_id, answer>>

(* The entries of the parent, the top of the stack, with the separator     *)
(* entered behind the left page; position(..).unwrap() finds the left page.*)
ParentEntries(slot) ==
  InsertAt(pages[Last(call.path)].entries, slot + 1, call.separator)

LeftSlots ==
  LET entries == pages[Last(call.path)].entries
  IN  {i \in DOMAIN entries : Child(entries[i]) = call.left}

propagate ==
  /\ At("propagate") /\ call.path # <<>>
  /\ \E slot \in LeftSlots :
       LET entries == ParentEntries(slot)
       IN  /\ Len(entries) <= internal_node_max_size
           /\ pages' = [pages EXCEPT ![Last(call.path)] = Internal(entries)]
  /\ call' = Idle
  /\ UNCHANGED <<header_root, root_page_id, answer>>

(* The middle key moves up, and the right node's first key is no key. *)
split_internal ==
  /\ At("propagate") /\ call.path # <<>>
  /\ \E slot \in LeftSlots :
       LET entries == ParentEntries(slot)
           mid == Middle(entries)
           right == [SplitOff(entries, mid) EXCEPT ![1] = <<INVALID_KEY, @[2]>>]
       IN  /\ Len(entries) > internal_node_max_size
           /\ pages' = Append([pages EXCEPT ![Last(call.path)] =
                                 Internal(KeptAt(entries, mid))],
                              Internal(right))
           /\ Propagate(Front(call.path), Last(call.path), MiddleKey(entries), NewPage)
  /\ UNCHANGED <<header_root, root_page_id, answer>>

grow_root ==
  /\ At("propagate") /\ call.path = <<>>
  /\ pages' = Append(pages, Internal(<<<<INVALID_KEY, call.left>>, call.separator>>))
  /\ NewRoot(NewPage)
  /\ call' = Idle
  /\ UNCHANGED answer

-----------------------------------------------------------------------------
InsertContinues ==
  \/ insert_first \/ insert_at_root \/ descend
  \/ insert_leaf \/ split_leaf
  \/ propagate \/ split_internal \/ grow_root

Halted == At("panicked") /\ UNCHANGED vars

Next ==
  \/ InsertContinues
  \/ scan_next
  \/ find_in_empty
  \/ \E k \in Key : find(k) \/ scan(k) \/ \E r \in Rid : insert(k, r)
  \/ Halted

Spec == Init /\ [][Next]_vars
=============================================================================
