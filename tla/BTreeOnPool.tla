---------------------------- MODULE BTreeOnPool ----------------------------
(***************************************************************************)
(* The B+tree over its own buffer pool of 10 frames, with one client       *)
(* thread that inserts ascending keys.                                     *)
(*                                                                         *)
(* Each step of BTree.tla leaves in todo the calls of the pool and of the  *)
(* guards it makes, in the order of the code, and they are carried out one *)
(* after the other by the steps of BufferPool.tla before the tree goes on. *)
(* A page has at most one guard of the thread at a time, which bears the   *)
(* number of its page.  What the frames contain is left out: the tree's    *)
(* pages are in BTree's variable.                                          *)
(***************************************************************************)
EXTENDS BTree

CONSTANTS MaxPages, Frames, U32, USize, Absent, Zero, Flusher

VARIABLES
  mru, mfu, mru_ghost, mfu_ghost, mru_target_size, evictable_pages, poisoned,
  next_page_id, page_table, free_frames, pin_count, is_dirty, frame_data,
  disk, op, guard, latest, stolen,
  todo     (* calls of the pool and of guards the thread is to make        *)

Pool == INSTANCE BufferPool WITH
  PageId <- 0 .. MaxPages, FrameId <- 0 .. Frames - 1, replacer_size <- Frames,
  OverflowChecks <- TRUE, Guard <- 0 .. MaxPages, Data <- {Zero}

PoolVars == Pool!vars
allvars == <<vars, PoolVars, todo>>

pool_vars ==
  <<mru, mfu, mru_ghost, mfu_ghost, mru_target_size, evictable_pages, poisoned,
    next_page_id, page_table, free_frames, pin_count, is_dirty, frame_data,
    disk, op, guard, latest, stolen>>

Ready ==
  /\ op = Pool!Idle
  /\ \A g \in 0 .. MaxPages : guard[g].pc \in {"none", "held", "read", "write"}

-----------------------------------------------------------------------------
(* The calls.  A read guard is one that is only asked for data().          *)
NewPageCall == [do |-> "new_page"]
Get(p) == [do |-> "check_page", page |-> p]
Lock(p) == [do |-> "data_mut", page |-> p]
Unlock(p) == [do |-> "unlock", page |-> p]
Drop(p) == [do |-> "drop", page |-> p]

Writing(p) == <<Get(p), Lock(p), Unlock(p), Drop(p)>>
Reading(p) == <<Get(p), [do |-> "data", page |-> p], Unlock(p), Drop(p)>>
DropAll(path) == [i \in DOMAIN path |-> Drop(path[i])]

(* BTree::new makes the header page.                                       *)
OnPoolInit == Init /\ Pool!Init /\ todo = <<NewPageCall>>

(* What each step of insert calls.  The guards left in path_stack are      *)
(* dropped when insert returns; those of a node that splits, before it.    *)
Above == Front(call.path)

OnFirst == insert_first /\ todo' = <<NewPageCall>> \o Writing(HeaderPage) \o Writing(NewPage)

(* The bytes of an internal root are borrowed twice.                       *)
OnRoot ==
  /\ insert_at_root
  /\ todo' = <<Get(root_page_id), Lock(root_page_id), Unlock(root_page_id)>>
               \o (IF IsLeaf(root_page_id) THEN <<>>
                   ELSE <<[do |-> "data", page |-> root_page_id], Unlock(root_page_id)>>)

OnDescend ==
  /\ descend
  /\ todo' = Reading(call.child) \o <<Get(call.child), Lock(call.child)>>
               \o (IF HasRoom(call.child) THEN DropAll(call.path) ELSE <<>>)
               \o <<Unlock(call.child)>>

OnLeaf ==
  /\ insert_leaf
  /\ LET p == Last(call.path)
     IN  todo' = <<Lock(p), Unlock(p), Drop(p)>>
                   \o (IF call' = Idle THEN DropAll(Above) ELSE <<>>)

OnSplitLeaf ==
  /\ split_leaf
  /\ todo' = <<NewPageCall, Get(call.left), Lock(call.left)>>
               \o Writing(NewPage) \o <<Unlock(call.left), Drop(call.left)>>

OnPropagate ==
  /\ propagate
  /\ LET p == Last(call.path)
     IN  todo' = <<Lock(p), Unlock(p), Drop(p)>> \o DropAll(Above)

OnSplitInternal ==
  /\ split_internal
  /\ LET p == Last(call.path)
     IN  todo' = <<Lock(p), NewPageCall>> \o Writing(NewPage) \o <<Unlock(p), Drop(p)>>

OnGrow == grow_root /\ todo' = <<NewPageCall>> \o Writing(NewPage) \o Writing(HeaderPage)

(* The client inserts 1, 2, 3, ... *)
OnInsert ==
  /\ \E r \in Rid : insert(Cardinality(StoredRecords) + 1, r)
  /\ UNCHANGED todo

TreeStep ==
  /\ Ready /\ todo = <<>>
  /\ \/ OnInsert \/ OnFirst \/ OnRoot \/ OnDescend \/ OnLeaf
     \/ OnSplitLeaf \/ OnPropagate \/ OnSplitInternal \/ OnGrow
  /\ UNCHANGED pool_vars

-----------------------------------------------------------------------------
(* The next call of todo begins when the one before it has ended.          *)
Begin ==
  /\ Ready /\ ~Pool!Panicked /\ todo # <<>> /\ todo' = Tail(todo)
  /\ LET next == Head(todo)
     IN  CASE next.do = "new_page" -> Pool!new_page
           [] next.do = "check_page" -> Pool!check_page(next.page, next.page)
           [] next.do = "data_mut" -> Pool!data_mut(next.page)
           [] next.do = "data" -> Pool!data(next.page)
           [] next.do = "unlock" -> Pool!write(next.page) \/ Pool!end_read(next.page)
           [] next.do = "drop" -> Pool!drop(next.page)
  /\ UNCHANGED vars

Continue ==
  /\ ~Ready /\ ~Pool!Panicked
  /\ \/ Pool!copy_out \/ Pool!write_back \/ Pool!reset_victim \/ Pool!load \/ Pool!pin
     \/ Pool!record /\ guard'[op.guard].mutable
     \/ Pool!record_panics
     \/ \E g \in 0 .. MaxPages : Pool!lock(g) \/ Pool!drop_load(g) \/ Pool!drop_report(g)
  /\ UNCHANGED <<vars, todo>>

OnPoolNext == TreeStep \/ Begin \/ Continue

OnPoolSpec == OnPoolInit /\ [][OnPoolNext]_<<vars, pool_vars, todo>>

-----------------------------------------------------------------------------
(* The only thread never waits for a borrow of its own to end.  README.md, *)
(* "insert": "If the parent overflows, split it as well and push its       *)
(* middle key up.  This repeats until a node has room."                    *)
InsertDoesNotBlockItself ==
  op.pc = "copy_out" => Pool!CanRead(op.frame)
=============================================================================
