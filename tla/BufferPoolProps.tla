-------------------------- MODULE BufferPoolProps --------------------------
(***************************************************************************)
(* What is expected of the buffer pool of BufferPool.tla.                  *)
(***************************************************************************)
EXTENDS BufferPool

CONSTANT NoPage    (* the content of a free frame, in the replacer's view  *)

ASSUME NoPageAssumption == NoPage \notin PageId

PoolTypeOK ==
  /\ next_page_id \in Nat
  /\ Resident \subseteq PageId /\ page_table \in [Resident -> FrameId]
  /\ free_frames \in Seq(FrameId)
  /\ pin_count \in [FrameId -> 0 .. USize - 1]
  /\ is_dirty \in [FrameId -> BOOLEAN]
  /\ frame_data \in [FrameId -> Data]
  /\ disk \in [PageId -> Data \cup {Absent}]
  /\ latest \in [PageId -> Data \cup {Absent}]
  /\ stolen \in BOOLEAN

TypeOK == ArcTypeOK /\ PoolTypeOK

-----------------------------------------------------------------------------
(* The frame a call in progress has taken off the free list or out of the  *)
(* page table and not yet put back; a call that panics keeps it.           *)
InHand ==
  IF op.pc \in {"load", "load_failed", "remove", "erase"} THEN {op.frame} ELSE {}

(* Every frame is in exactly one place, whatever the guards do meanwhile:  *)
(* it holds one page of the page table, or it is once on the free list, or *)
(* the running call has it.  No two pages share a frame.  It is what makes *)
(* expect("evicted frame must have a page id") at buffer_pool.rs:160 and   *)
(* :270 true, although the replacer that names the victim is changed by    *)
(* guards that hold no latch.                                              *)
FramePartition ==
  LET mapped == Range(page_table)
      free == Range(free_frames)
  IN  /\ IsInjective(page_table)
      /\ IsInjective(free_frames)
      /\ mapped \cap free = {}
      /\ InHand \cap (mapped \cup free) = {}
      /\ FrameId = mapped \cup free \cup InHand

(* The pin count of a frame is the number of its guards, counting the one  *)
(* the running call is making, or was making when it panicked, until a     *)
(* frame is evicted under a guard.                                         *)
(* guard.rs counts with fetch_add and fetch_sub, and reset stores 0.       *)
BeingPinned == IF op.pc \in {"record", "record_failed"} THEN {op.frame} ELSE {}

PinCountIsGuards ==
  ~stolen =>
    \A f \in FrameId :
      pin_count[f] = Cardinality(PinsOn(f)) + Cardinality(BeingPinned \cap {f})

(* A guard's frame holds the guard's page, until a frame is evicted under  *)
(* a guard.                                                                *)
GuardsOnTheirPage ==
  ~stolen =>
    \A g \in AnyGuard : Pins(g) =>
      guard[g].page \in Resident /\ page_table[guard[g].page] = guard[g].frame

(* No update is lost: the content last given to a page is in its frame, or *)
(* on the way from its frame to disk, or on disk, unless a write back of   *)
(* this page has failed.  A guard flushing an old copy may set the disk    *)
(* back (guard.rs:47-58), but not while the page is not resident; a flush  *)
(* that fails marks its page clean, and a flush that a change overtakes    *)
(* marks the changed page clean, but the page is written back when it is   *)
(* evicted, clean or not.                                                  *)
Content(p) ==
  IF p \in Resident THEN frame_data[page_table[p]]
  ELSE IF op.pc = "copy_out" /\ op.old = p THEN frame_data[op.frame]
  ELSE IF op.pc = "write_back" /\ op.old = p THEN op.data
  ELSE disk[p]

NoUpdateLost ==
  ~stolen => \A p \in PageId : latest[p] # Absent => Content(p) = latest[p]

(* A frame nobody uses is marked evictable: it holds a page, no guard pins *)
(* it, no drop is under way and the running call is not about to pin it.   *)
(* Whether the replacer still has it in a list is UnusedFramesAreVictims.  *)
(* Whichever of several drops comes last reports the frame, also when the  *)
(* frame is pinned again between fetch_sub and load (guard.rs:85-88), or   *)
(* its page is deleted between load and report.                            *)
Unused(f) ==
  /\ f \in Range(page_table)
  /\ \A g \in AnyGuard : Live(g) => guard[g].frame # f
  /\ op.pc \in {"pin", "record"} => op.frame # f

UnusedFramesAreEvictable ==
  ~Panicked /\ ~stolen =>
    \A f \in FrameId : Unused(f) => f \in evictable_pages

(* The replacer is used as ArcClient says: what holds of the lists there   *)
(* holds of them here.  A page counts as loaded from the record_access of  *)
(* its first guard to its eviction, or to its removal from the replacer.   *)
PageOf(f) ==
  IF op.pc = "remove" /\ op.frame = f THEN op.page
  ELSE IF op.pc \in {"pin", "record"} /\ op.frame = f /\ op.fresh THEN NoPage
  ELSE IF f \in Range(page_table) THEN CHOOSE p \in Resident : page_table[p] = f
  ELSE NoPage

Replacer == INSTANCE ArcClient WITH page_of <- [f \in FrameId |-> PageOf(f)]

ReplacerSpec == Replacer!SpecDelete

-----------------------------------------------------------------------------
(* As long as no frame has been evicted under a guard, a request for a     *)
(* page and a delete never wait for a guard: nobody has the lock of the    *)
(* frame they copy, reset or load, whatever bytes are borrowed meanwhile.  *)
(* They take it with the latch held (buffer_pool.rs:84, :134, :163, :174), *)
(* so that waiting for a borrow would stop every thread, perhaps the one   *)
(* that has it borrowed.                                                   *)
RequestsWaitForNobody ==
  ~stolen /\ op.pc \in {"copy_out", "reset", "load", "erase"} => CanWrite(op.frame)

-----------------------------------------------------------------------------
(* README.md:50: "A frame with pin_count > 0 cannot be evicted."           *)
PinnedFramesStay ==
  [][\A f \in FrameId :
       pin_count[f] > 0 /\ f \in Range(page_table) =>
         f \in Range(page_table')]_vars

(* README.md:71-72: a page is loaded into a free frame, and "if no frame   *)
(* is free, ask the replacer for a victim".  A client gets its page as     *)
(* long as some frame is unused: evict().unwrap() fails only when every    *)
(* frame is in use.                                                        *)
UnusedFramesAreVictims ==
  [][op = Idle /\ op'.pc = "panicked" => ~\E f \in FrameId : Unused(f)]_vars
=============================================================================
