-------------------------- MODULE BufferPoolProofs -------------------------
(***************************************************************************)
(* Proofs about the buffer pool of BufferPool.tla and its guards, for any  *)
(* number of frames, pages and guards, with pages deleted and disk         *)
(* requests failing: where frames are, the pin counts, the pages under the *)
(* guards, the content of the pages, what can be evicted, and that the     *)
(* pool calls the replacer only as ArcClient.tla says.                     *)
(***************************************************************************)
EXTENDS BufferPoolProps, ArcReplacerProofs

-----------------------------------------------------------------------------
(* The free list: what popping and pushing do to the frames on it.         *)

(* Popping takes one frame off a list that has no duplicates. *)
LEMMA PopFrame ==
  ASSUME NEW S, NEW s \in Seq(S), s # <<>>, IsInjective(s)
  PROVE  /\ Front(s) \in Seq(S)
         /\ IsInjective(Front(s))
         /\ Last(s) \in S
         /\ Last(s) \notin Range(Front(s))
         /\ Range(s) = Range(Front(s)) \cup {Last(s)}
<1> DEFINE n == Len(s)
<1>1. n \in Nat /\ n > 0 /\ DOMAIN s = 1 .. n /\ \A i \in 1 .. n : s[i] \in S
  BY EmptySeq, LenProperties, ElementOfSeq
<1>2. /\ Front(s) \in Seq(S)
      /\ DOMAIN Front(s) = 1 .. n - 1
      /\ \A i \in 1 .. n - 1 : Front(s)[i] = s[i]
  BY <1>1, SubSeqProperties, LenProperties DEF Front
<1> QED BY <1>1, <1>2 DEF IsInjective, Range, Last

(* Pushing puts a frame that is not on the list on it. *)
LEMMA PushFrame ==
  ASSUME NEW S, NEW s \in Seq(S), NEW e \in S, IsInjective(s), e \notin Range(s)
  PROVE  /\ Append(s, e) \in Seq(S)
         /\ IsInjective(Append(s, e))
         /\ Range(Append(s, e)) = Range(s) \cup {e}
         /\ Append(s, e) # <<>>
         /\ Last(Append(s, e)) = e
<1> DEFINE n == Len(s)
<1>1. n \in Nat /\ DOMAIN s = 1 .. n
  BY LenProperties
<1>2. /\ Append(s, e) \in Seq(S)
      /\ Len(Append(s, e)) = n + 1
      /\ DOMAIN Append(s, e) = 1 .. n + 1
      /\ \A i \in 1 .. n : Append(s, e)[i] = s[i]
      /\ Append(s, e)[n + 1] = e
  BY <1>1, AppendProperties, LenProperties
<1> DEFINE t == Append(s, e)
<1>3. IsInjective(t)
  BY <1>1, <1>2 DEF IsInjective, Range
<1>4. Range(t) = Range(s) \cup {e}
  <2>1. \A i \in 1 .. n : s[i] \in Range(t)
    BY <1>1, <1>2 DEF Range
  <2>2. e \in Range(t)
    BY <1>1, <1>2 DEF Range
  <2>3. \A i \in 1 .. n + 1 : t[i] \in Range(s) \cup {e}
    BY <1>1, <1>2 DEF Range
  <2> QED BY <1>1, <1>2, <2>1, <2>2, <2>3 DEF Range
<1>5. t # <<>> /\ Last(t) = e
  BY <1>1, <1>2, EmptySeq DEF Last
<1> QED BY <1>2, <1>3, <1>4, <1>5

(* The page table: what entering a page and taking one out do. *)
LEMMA EnterPage ==
  ASSUME page_table \in [Resident -> FrameId], IsInjective(page_table),
         NEW p, p \notin Resident, NEW f \in FrameId, f \notin Range(page_table)
  PROVE  /\ DOMAIN WithPage(p, f) = Resident \cup {p}
         /\ WithPage(p, f) \in [DOMAIN WithPage(p, f) -> FrameId]
         /\ IsInjective(WithPage(p, f))
         /\ Range(WithPage(p, f)) = Range(page_table) \cup {f}
BY DEF IsInjective, Range, WithPage, Resident

LEMMA TakePageOut ==
  ASSUME page_table \in [Resident -> FrameId], IsInjective(page_table),
         NEW p \in Resident
  PROVE  /\ DOMAIN WithoutPage(p) = Resident \ {p}
         /\ WithoutPage(p) \in [DOMAIN WithoutPage(p) -> FrameId]
         /\ IsInjective(WithoutPage(p))
         /\ page_table[p] \in Range(page_table)
         /\ Range(WithoutPage(p)) = Range(page_table) \ {page_table[p]}
BY DEF IsInjective, Range, WithoutPage, Resident

-----------------------------------------------------------------------------
(***************************************************************************)
(* The inductive invariant.  FramePartition alone is not inductive: that a *)
(* page is still not resident when it is entered in the page table, and    *)
(* that the victim is still on the free list when it is popped, are facts  *)
(* about the steps of the running call, which the latch keeps apart.       *)
(***************************************************************************)
PoolShape ==
  /\ page_table \in [Resident -> FrameId]
  /\ free_frames \in Seq(FrameId)
  /\ op.pc = "load" => op.page \notin Resident
  /\ op.pc \in {"copy_out", "write_back", "reset"} =>
       free_frames # <<>> /\ op.page \notin Resident

IInv == PoolShape /\ FramePartition

LEMMA InitIInv == Init => IInv
<1> SUFFICES ASSUME Init PROVE IInv
  OBVIOUS
<1> DEFINE n == replacer_size
<1>1. n \in Nat /\ FrameId = 0 .. n - 1
  BY ReplacerAssumption
<1>2. page_table = [p \in {} |-> 0] /\ Resident = {} /\ Range(page_table) = {}
  BY DEF Init, Resident, Range
<1>3. free_frames = [i \in 1 .. n |-> i - 1]
  BY DEF Init
<1>4. op.pc = "idle"
  BY DEF Init, Idle
<1>5. free_frames \in Seq(FrameId)
  <2>1. \A i \in 1 .. n : i - 1 \in FrameId
    BY <1>1
  <2> QED BY <1>1, <1>3, <2>1, IsASeq
<1>6. Range(free_frames) = FrameId /\ IsInjective(free_frames)
  <2>1. IsInjective(free_frames)
    BY <1>1, <1>3 DEF IsInjective
  <2>2. \A f \in FrameId : f + 1 \in 1 .. n /\ free_frames[f + 1] = f
    BY <1>1, <1>3
  <2>3. \A i \in 1 .. n : free_frames[i] \in FrameId
    BY <1>1, <1>3
  <2> QED BY <1>3, <2>1, <2>2, <2>3 DEF Range
<1>7. PoolShape
  BY <1>2, <1>4, <1>5 DEF PoolShape
<1>8. FramePartition
  BY <1>2, <1>4, <1>6 DEF FramePartition, InHand, IsInjective, Range
<1> QED BY <1>7, <1>8 DEF IInv

(* A step of the running call that changes neither table and has no frame *)
(* in hand.                                                              *)
LEMMA QuietStep ==
  ASSUME IInv, UNCHANGED <<page_table, free_frames>>,
         op.pc \in {"idle", "pin", "record", "flushing"},
         op'.pc \in {"idle", "pin", "record", "record_failed", "flushing", "panicked"}
  PROVE  IInv'
<1>1. Resident' = Resident /\ page_table' = page_table /\ free_frames' = free_frames
  BY DEF Resident
<1>2. InHand' = InHand
  BY DEF InHand
<1>3. PoolShape'
  BY <1>1 DEF IInv, PoolShape
<1>4. FramePartition'
  BY <1>1, <1>2 DEF IInv, FramePartition
<1> QED BY <1>3, <1>4 DEF IInv

(* A step that changes nothing the invariant speaks of. *)
LEMMA NothingMoves ==
  ASSUME IInv, UNCHANGED <<page_table, free_frames, op>>
  PROVE  IInv'
<1>1. Resident' = Resident /\ InHand' = InHand
  BY DEF Resident, InHand
<1>2. PoolShape'
  BY <1>1 DEF IInv, PoolShape
<1>3. FramePartition'
  BY <1>1 DEF IInv, FramePartition
<1> QED BY <1>2, <1>3 DEF IInv

-----------------------------------------------------------------------------
(* check_write_page and check_read_page. *)

LEMMA CheckHit ==
  ASSUME IInv, op = Idle, NEW g, NEW p, check_hit(g, p)
  PROVE  IInv'
<1>1. op'.pc = "pin" /\ op.pc = "idle" /\ UNCHANGED <<page_table, free_frames>>
  BY DEF check_hit, MakeGuard, table_vars, Idle
<1> QED BY <1>1, QuietStep

LEMMA CheckFree ==
  ASSUME IInv, op = Idle, NEW g, NEW p, check_free(g, p)
  PROVE  IInv'
<1> DEFINE f == Last(free_frames)
<1>1. /\ p \notin Resident /\ free_frames # <<>>
      /\ free_frames' = Front(free_frames)
      /\ page_table' = page_table /\ Resident' = Resident
      /\ op' = [pc |-> "load", guard |-> g, page |-> p, frame |-> f]
  BY DEF check_free, Resident
<1>2. op.pc = "idle" /\ InHand = {}
  BY DEF Idle, InHand
<1>3. /\ Front(free_frames) \in Seq(FrameId)
      /\ IsInjective(Front(free_frames))
      /\ f \in FrameId
      /\ f \notin Range(Front(free_frames))
      /\ Range(free_frames) = Range(Front(free_frames)) \cup {f}
  BY <1>1, PopFrame DEF IInv, PoolShape, FramePartition
<1>4. InHand' = {f}
  BY <1>1 DEF InHand
<1>5. PoolShape'
  BY <1>1, <1>3 DEF IInv, PoolShape
<1>6. FramePartition'
  BY <1>1, <1>2, <1>3, <1>4 DEF IInv, FramePartition
<1> QED BY <1>5, <1>6 DEF IInv

(* With nothing free and nothing in hand every frame holds a page, so the  *)
(* victim of the replacer, whichever it is, is in the page table.          *)
LEMMA VictimIsMapped ==
  ASSUME IInv, op = Idle, free_frames = <<>>, NEW f \in FrameId
  PROVE  \E old \in Resident : page_table[old] = f
<1>1. Range(free_frames) = {} /\ InHand = {}
  BY DEF Range, InHand, Idle
<1>2. f \in Range(page_table)
  BY <1>1 DEF IInv, FramePartition
<1> QED BY <1>2 DEF Range, Resident

LEMMA CheckEvict ==
  ASSUME IInv, op = Idle, NEW g, NEW p, check_evict(g, p)
  PROVE  IInv'
<1>1. p \notin Resident /\ free_frames = <<>>
  BY DEF check_evict
<1>2. PICK f \in FrameId :
        /\ free_frames' = Append(free_frames, f)
        /\ \E old \in Resident :
             /\ page_table[old] = f
             /\ page_table' = WithoutPage(old)
             /\ op' = [pc |-> "copy_out", guard |-> g, page |-> p,
                       frame |-> f, old |-> old]
  BY <1>1, VictimIsMapped DEF check_evict
<1>3. PICK old \in Resident :
        /\ page_table[old] = f
        /\ page_table' = WithoutPage(old)
        /\ op' = [pc |-> "copy_out", guard |-> g, page |-> p,
                  frame |-> f, old |-> old]
  BY <1>2
<1>4. Range(free_frames) = {} /\ InHand = {} /\ f \notin Range(free_frames)
  BY <1>1 DEF Range, InHand, Idle
<1>5. /\ free_frames' \in Seq(FrameId)
      /\ IsInjective(free_frames')
      /\ Range(free_frames') = {f}
      /\ free_frames' # <<>>
  BY <1>2, <1>4, PushFrame DEF IInv, PoolShape, FramePartition
<1>6. /\ Resident' = Resident \ {old}
      /\ page_table' \in [Resident' -> FrameId]
      /\ IsInjective(page_table')
      /\ f \in Range(page_table)
      /\ Range(page_table') = Range(page_table) \ {f}
  BY <1>3, TakePageOut DEF IInv, PoolShape, FramePartition, Resident
<1>7. InHand' = {}
  BY <1>3 DEF InHand
<1>8. PoolShape'
  BY <1>1, <1>3, <1>5, <1>6 DEF PoolShape
<1>9. FramePartition'
  BY <1>4, <1>5, <1>6, <1>7 DEF IInv, FramePartition
<1> QED BY <1>8, <1>9 DEF IInv

LEMMA CheckPage ==
  ASSUME IInv, NEW g, NEW p, check_page(g, p)
  PROVE  IInv'
<1>1. op = Idle
  BY DEF check_page
<1>2. CASE check_hit(g, p)
  BY <1>1, <1>2, CheckHit
<1>3. CASE check_free(g, p)
  BY <1>1, <1>3, CheckFree
<1>4. CASE check_evict(g, p)
  BY <1>1, <1>4, CheckEvict
<1>5. CASE check_no_victim(p)
  <2>1. op'.pc = "panicked" /\ op.pc = "idle" /\ UNCHANGED <<page_table, free_frames>>
    BY <1>1, <1>5 DEF check_no_victim, table_vars, Idle
  <2> QED BY <2>1, QuietStep
<1> QED BY <1>2, <1>3, <1>4, <1>5 DEF check_page

-----------------------------------------------------------------------------
(* The rest of an eviction and of a load. *)

LEMMA WritingOut ==
  ASSUME IInv, copy_out \/ write_back \/ write_back_err
  PROVE  IInv'
<1>1. /\ UNCHANGED <<page_table, free_frames>>
      /\ op.pc \in {"copy_out", "write_back"}
      /\ op'.pc \in {"write_back", "reset"}
      /\ op'.page = op.page
  BY DEF copy_out, write_back, write_back_err, table_vars
<1>2. Resident' = Resident /\ InHand = {} /\ InHand' = {}
  BY <1>1 DEF Resident, InHand
<1>3. PoolShape'
  BY <1>1, <1>2 DEF IInv, PoolShape
<1>4. FramePartition'
  BY <1>1, <1>2 DEF IInv, FramePartition
<1> QED BY <1>3, <1>4 DEF IInv

LEMMA ResetVictim ==
  ASSUME IInv, reset_victim
  PROVE  IInv'
<1> DEFINE f == Last(free_frames)
<1>1. /\ op.pc = "reset"
      /\ free_frames' = Front(free_frames)
      /\ page_table' = page_table /\ Resident' = Resident
      /\ op' = [pc |-> "load", guard |-> op.guard, page |-> op.page, frame |-> f]
  BY DEF reset_victim, Resident
<1>2. free_frames # <<>> /\ op.page \notin Resident /\ InHand = {} /\ InHand' = {f}
  BY <1>1 DEF IInv, PoolShape, InHand
<1>3. /\ Front(free_frames) \in Seq(FrameId)
      /\ IsInjective(Front(free_frames))
      /\ f \in FrameId
      /\ f \notin Range(Front(free_frames))
      /\ Range(free_frames) = Range(Front(free_frames)) \cup {f}
  BY <1>2, PopFrame DEF IInv, PoolShape, FramePartition
<1>4. PoolShape'
  BY <1>1, <1>2, <1>3 DEF IInv, PoolShape
<1>5. FramePartition'
  BY <1>1, <1>2, <1>3 DEF IInv, FramePartition
<1> QED BY <1>4, <1>5 DEF IInv

LEMMA Load ==
  ASSUME IInv, load
  PROVE  IInv'
<1> DEFINE f == op.frame
<1>1. /\ op.pc = "load"
      /\ free_frames' = free_frames
      /\ page_table' = WithPage(op.page, f)
      /\ op'.pc = "pin"
  BY DEF load, MakeGuard
<1>2. InHand = {f} /\ InHand' = {} /\ op.page \notin Resident
  BY <1>1 DEF IInv, PoolShape, InHand
<1>3. f \in FrameId /\ f \notin Range(page_table)
  BY <1>2 DEF IInv, FramePartition
<1>4. /\ Resident' = Resident \cup {op.page}
      /\ page_table' \in [Resident' -> FrameId]
      /\ IsInjective(page_table')
      /\ Range(page_table') = Range(page_table) \cup {f}
  BY <1>1, <1>2, <1>3, EnterPage DEF IInv, PoolShape, FramePartition, Resident
<1>5. PoolShape'
  BY <1>1, <1>4 DEF IInv, PoolShape
<1>6. FramePartition'
  BY <1>1, <1>2, <1>4 DEF IInv, FramePartition
<1> QED BY <1>5, <1>6 DEF IInv

(* The call that panics keeps the frame. *)
LEMMA LoadFails ==
  ASSUME IInv, load_err
  PROVE  IInv'
<1>1. /\ UNCHANGED <<page_table, free_frames>>
      /\ op.pc = "load" /\ op'.pc = "load_failed" /\ op'.frame = op.frame
  BY DEF load_err, table_vars
<1>2. Resident' = Resident /\ InHand' = InHand
  BY <1>1 DEF Resident, InHand
<1>3. PoolShape'
  BY <1>1, <1>2 DEF IInv, PoolShape
<1>4. FramePartition'
  BY <1>1, <1>2 DEF IInv, FramePartition
<1> QED BY <1>3, <1>4 DEF IInv

LEMMA PoolSteps ==
  ASSUME IInv, pin \/ record \/ record_panics \/ flush_next
  PROVE  IInv'
<1>1. /\ UNCHANGED <<page_table, free_frames>>
      /\ op.pc \in {"pin", "record", "flushing"}
      /\ op'.pc \in {"idle", "pin", "record", "record_failed", "flushing"}
  BY DEF pin, record, record_panics, flush_next, MakeGuard, table_vars, Idle
<1> QED BY <1>1, QuietStep

-----------------------------------------------------------------------------
(* delete_page. *)

LEMMA DeletePage ==
  ASSUME IInv, NEW p, delete_page(p)
  PROVE  IInv'
<1> DEFINE f == page_table[p]
<1>1. /\ op = Idle /\ p \in Resident
      /\ free_frames' = free_frames
      /\ page_table' = WithoutPage(p)
      /\ op' = [pc |-> "remove", page |-> p, frame |-> f]
  BY DEF delete_page
<1>2. InHand = {} /\ InHand' = {f}
  BY <1>1 DEF InHand, Idle
<1>3. /\ Resident' = Resident \ {p}
      /\ page_table' \in [Resident' -> FrameId]
      /\ IsInjective(page_table')
      /\ f \in Range(page_table)
      /\ Range(page_table') = Range(page_table) \ {f}
  BY <1>1, TakePageOut DEF IInv, PoolShape, FramePartition, Resident
<1>4. PoolShape'
  BY <1>1, <1>3 DEF IInv, PoolShape
<1>5. FramePartition'
  BY <1>1, <1>2, <1>3 DEF IInv, FramePartition
<1> QED BY <1>4, <1>5 DEF IInv

LEMMA DeleteRemove ==
  ASSUME IInv, delete_remove
  PROVE  IInv'
<1>1. /\ UNCHANGED <<page_table, free_frames>>
      /\ op.pc = "remove" /\ op'.pc = "erase" /\ op'.frame = op.frame
  BY DEF delete_remove, table_vars
<1>2. Resident' = Resident /\ InHand' = InHand
  BY <1>1 DEF Resident, InHand
<1>3. PoolShape'
  BY <1>1, <1>2 DEF IInv, PoolShape
<1>4. FramePartition'
  BY <1>1, <1>2 DEF IInv, FramePartition
<1> QED BY <1>3, <1>4 DEF IInv

LEMMA DeleteErase ==
  ASSUME IInv, delete_erase
  PROVE  IInv'
<1> DEFINE f == op.frame
<1>1. /\ op.pc = "erase"
      /\ free_frames' = Append(free_frames, f)
      /\ page_table' = page_table /\ Resident' = Resident
      /\ op'.pc = "idle"
  BY DEF delete_erase, Idle, Resident
<1>2. InHand = {f} /\ InHand' = {}
  BY <1>1 DEF InHand
<1>3. f \in FrameId /\ f \notin Range(free_frames)
  BY <1>2 DEF IInv, FramePartition
<1>4. /\ free_frames' \in Seq(FrameId)
      /\ IsInjective(free_frames')
      /\ Range(free_frames') = Range(free_frames) \cup {f}
  BY <1>1, <1>3, PushFrame DEF IInv, PoolShape, FramePartition
<1>5. PoolShape'
  BY <1>1, <1>4 DEF IInv, PoolShape
<1>6. FramePartition'
  BY <1>1, <1>2, <1>4 DEF IInv, FramePartition
<1> QED BY <1>5, <1>6 DEF IInv

-----------------------------------------------------------------------------
(* Guards, which run without the latch, touch none of it. *)

LEMMA GuardSteps ==
  ASSUME IInv, NEW g, GuardContinues(g) \/ GuardCalls(g) \/ flush_store_err(g)
  PROVE  IInv'
<1>1. UNCHANGED <<page_table, free_frames, op>>
  BY DEF GuardContinues, GuardCalls, GuardOnly, table_vars, data_mut, lock, write,
         data, end_read, flush, flush_clone, flush_store, flush_store_err,
         flush_clean, drop,
         drop_load, drop_report
<1> QED BY <1>1, NothingMoves

LEMMA NextPreservesIInv ==
  ASSUME IInv, [NextFaulty]_vars
  PROVE  IInv'
<1>1. CASE PoolContinues
  BY <1>1, WritingOut, ResetVictim, Load, PoolSteps, DeleteRemove, DeleteErase
     DEF PoolContinues
<1>2. CASE PoolCalls
  <2>1. CASE new_page
    BY <2>1, NothingMoves DEF new_page, table_vars
  <2>2. ASSUME NEW todo, flush_pages(todo) PROVE IInv'
    <3>1. /\ UNCHANGED <<page_table, free_frames>>
          /\ op.pc = "idle" /\ op'.pc = "flushing"
      BY <2>2 DEF flush_pages, table_vars, Idle
    <3> QED BY <3>1, QuietStep
  <2>3. ASSUME NEW p \in PageId, NEW g \in Guard, check_page(g, p) PROVE IInv'
    BY <2>3, CheckPage
  <2> QED BY <1>2, <2>1, <2>2, <2>3 DEF PoolCalls, flush_page, flush_all_pages
<1>3. CASE \E g \in AnyGuard : GuardContinues(g) \/ GuardCalls(g)
  BY <1>3, GuardSteps
<1>4. CASE \E p \in PageId : delete_page(p)
  BY <1>4, DeletePage
<1>5. CASE UNCHANGED vars
  BY <1>5, NothingMoves DEF vars, table_vars
<1>6. CASE RequestFails
  BY <1>6, WritingOut, LoadFails, GuardSteps DEF RequestFails
<1> QED BY <1>1, <1>2, <1>3, <1>4, <1>5, <1>6 DEF NextFaulty, NextDelete, Next, Halted

-----------------------------------------------------------------------------
(* Whatever the clients call, delete_page included, whichever disk request *)
(* fails, and however the steps of their guards come between those of the  *)
(* pool, every frame of buffer_pool.rs is in one place, for every number   *)
(* of frames, pages and guards.                                            *)
THEOREM FramesStayPartitioned == SpecFaulty => []FramePartition
<1>1. IInv => FramePartition
  BY DEF IInv
<1> QED BY InitIInv, NextPreservesIInv, <1>1, PTL DEF SpecFaulty

-----------------------------------------------------------------------------
(* The inductive invariant.                                                *)

(* What a guard knows at each of its steps. *)
UnpinnedGuard == [pc : {"unpinned", "report"}, frame : FrameId]

PinningPc == {"held", "lock", "write", "read", "flush", "clone", "clean"}

PinningGuard ==
  [pc : PinningPc, page : PageId, frame : FrameId, mutable : BOOLEAN]

StoringGuard ==
  [pc : {"store"}, page : PageId, frame : FrameId, mutable : BOOLEAN, data : Data]

GuardTypes ==
  guard \in [AnyGuard -> {NoGuard} \cup UnpinnedGuard \cup PinningGuard \cup StoringGuard]

(* The call that runs, at each of its steps: until it makes its guard the  *)
(* guard does not exist; the victim is alone on the free list until it is  *)
(* popped; the page asked for has a slot on disk until it is loaded, and   *)
(* is in its frame from then on; the pages to flush stay resident; and the *)
(* page that is deleted is not resident.                                   *)
Making == {"copy_out", "write_back", "reset", "load", "pin", "record"}
Evicting == {"copy_out", "write_back", "reset"}

OpTypes ==
  /\ op.pc \in Making => op.guard \in AnyGuard /\ op.page \in PageId
  /\ op.pc \in Making \cup {"load_failed", "remove", "erase"} => op.frame \in FrameId
  /\ op.pc \in {"remove", "erase"} => op.page \in PageId
  /\ op.pc \in {"copy_out", "write_back"} => op.old \in PageId
  /\ op.pc = "write_back" => op.data \in Data
  /\ op.pc \in {"pin", "record"} => op.fresh \in BOOLEAN

OpOrder ==
  /\ op.pc \in Making => ~Live(op.guard)
  /\ op.pc \in Evicting => free_frames = <<op.frame>>
  /\ op.pc \in Evicting \cup {"load"} => disk[op.page] # Absent
  /\ op.pc \in {"pin", "record"} =>
       op.page \in Resident /\ page_table[op.page] = op.frame
  /\ op.pc \in {"pin", "record", "flushing"} => op.todo \subseteq Resident
  /\ op.pc \in {"remove", "erase"} => op.page \notin Resident

(* Only pages that new_page has made are anywhere. *)
OnlyMade ==
  /\ \A p \in Resident : p < next_page_id
  /\ \A p \in PageId : disk[p] # Absent => p < next_page_id
  /\ op.pc \in {"copy_out", "write_back"} => op.old < next_page_id
  /\ \A g \in AnyGuard : Pins(g) => guard[g].page < next_page_id

(* The content of a page that is being deleted is not missed. *)
DeletedIsForgotten ==
  ~stolen /\ op.pc \in {"remove", "erase"} => latest[op.page] = Absent

Typed == TypeOK /\ GuardTypes /\ OpTypes

GInv ==
  /\ IInv /\ Typed /\ OpOrder /\ OnlyMade /\ DeletedIsForgotten
  /\ PinCountIsGuards /\ GuardsOnTheirPage /\ NoUpdateLost
  /\ UnusedFramesAreEvictable

-----------------------------------------------------------------------------
(* The records of the guards. *)

LEMMA GuardFields ==
  ASSUME GuardTypes, NEW g \in AnyGuard
  PROVE  /\ Pins(g) => Live(g)
         /\ Live(g) => guard[g].frame \in FrameId
         /\ Pins(g) => guard[g].page \in PageId
         /\ guard[g].pc = "store" => guard[g].data \in Data
BY DEF GuardTypes, Pins, Live, NoGuard, UnpinnedGuard, PinningGuard, StoringGuard,
       PinningPc

(* What a step of guard g, which has a pin and keeps it, does to the guards. *)
KeepsPin(g) ==
  /\ Pins(g) /\ Pins(g)'
  /\ guard'[g].frame = guard[g].frame /\ guard'[g].page = guard[g].page
  /\ \A h \in AnyGuard : h # g => guard'[h] = guard[h]

LEMMA GotoKeepsPin ==
  ASSUME GuardTypes, NEW g \in AnyGuard, NEW pc \in PinningPc,
         guard[g].pc \in PinningPc, Goto(g, pc)
  PROVE  GuardTypes' /\ KeepsPin(g) /\ guard'[g].pc = pc
<1>1. guard[g] \in PinningGuard
  BY DEF GuardTypes, NoGuard, UnpinnedGuard, PinningGuard, StoringGuard, PinningPc
<1>2. PICK r \in PinningGuard : r = guard[g]
  BY <1>1
<1>3. PICK s : s = [r EXCEPT !.pc = pc]
  OBVIOUS
<1>4. s \in PinningGuard /\ s.pc = pc /\ s.page = r.page /\ s.frame = r.frame
  BY <1>2, <1>3 DEF PinningGuard
<1>5. guard' = [guard EXCEPT ![g] = s]
  BY <1>2, <1>3 DEF Goto
<1>6. guard'[g] = s /\ \A h \in AnyGuard : h # g => guard'[h] = guard[h]
  BY <1>5 DEF GuardTypes
<1>7. GuardTypes'
  BY <1>4, <1>5 DEF GuardTypes
<1> QED BY <1>2, <1>4, <1>6, <1>7 DEF KeepsPin, Pins, PinningPc

LEMMA SetKeepsPin ==
  ASSUME GuardTypes, NEW g \in AnyGuard, Pins(g),
         NEW s \in PinningGuard \cup StoringGuard,
         s.page = guard[g].page, s.frame = guard[g].frame,
         guard' = [guard EXCEPT ![g] = s]
  PROVE  GuardTypes' /\ KeepsPin(g)
<1>1. guard'[g] = s /\ \A h \in AnyGuard : h # g => guard'[h] = guard[h]
  BY DEF GuardTypes
<1>2. GuardTypes'
  BY DEF GuardTypes
<1> QED BY <1>1, <1>2 DEF KeepsPin, Pins, PinningPc, PinningGuard, StoringGuard

(* The pins, the frames and the pages of the guards are as they were. *)
SameGuards ==
  \A h \in AnyGuard :
    /\ Pins(h)' <=> Pins(h)
    /\ Live(h)' <=> Live(h)
    /\ Live(h) => guard'[h].frame = guard[h].frame
    /\ Pins(h) => guard'[h].page = guard[h].page

LEMMA KeepsPinIsSame ==
  ASSUME NEW g \in AnyGuard, KeepsPin(g)
  PROVE  SameGuards
BY DEF KeepsPin, SameGuards, Pins, Live

LEMMA UnchangedIsSame ==
  ASSUME UNCHANGED guard
  PROVE  SameGuards
BY DEF SameGuards, Pins, Live

LEMMA SamePins ==
  ASSUME SameGuards, GuardTypes, NEW f
  PROVE  PinsOn(f)' = PinsOn(f)
<1>1. \A h \in AnyGuard : Pins(h) => Live(h)
  BY GuardFields
<1> QED BY <1>1 DEF SameGuards, PinsOn

-----------------------------------------------------------------------------
(* What a step has to do to break a part of the invariant: a step that     *)
(* does not, keeps it.                                                     *)

LEMMA KeepPinCount ==
  ASSUME Typed, PinCountIsGuards, SameGuards,
         UNCHANGED pin_count, BeingPinned' = BeingPinned, stolen => stolen'
  PROVE  PinCountIsGuards'
<1>1. \A f \in FrameId : PinsOn(f)' = PinsOn(f)
  BY SamePins DEF Typed
<1> QED BY <1>1 DEF PinCountIsGuards

(* No page leaves its frame while a guard has a pin on it. *)
LEMMA KeepOnPage ==
  ASSUME Typed, GuardsOnTheirPage, SameGuards, stolen => stolen',
         \A p \in Resident :
           ~stolen' /\ PinsOn(page_table[p]) # {} =>
             p \in Resident' /\ page_table'[p] = page_table[p]
  PROVE  GuardsOnTheirPage'
<1> SUFFICES ASSUME ~stolen', NEW g \in AnyGuard, Pins(g)'
             PROVE  guard'[g].page \in Resident' /\ page_table'[guard'[g].page] = guard'[g].frame
  BY DEF GuardsOnTheirPage
<1>1. Pins(g) /\ Live(g)
  BY GuardFields DEF SameGuards, Typed
<1>2. guard'[g].page = guard[g].page /\ guard'[g].frame = guard[g].frame
  BY <1>1 DEF SameGuards
<1>3. guard[g].page \in Resident /\ page_table[guard[g].page] = guard[g].frame
  BY <1>1 DEF GuardsOnTheirPage
<1>4. g \in PinsOn(page_table[guard[g].page])
  BY <1>1, <1>3 DEF PinsOn
<1> QED BY <1>2, <1>3, <1>4

(* A frame in use does not fall out of use, and one that is out of use     *)
(* stays evictable.                                                        *)
LEMMA KeepUnused ==
  ASSUME UnusedFramesAreEvictable, Panicked => Panicked', stolen => stolen',
         \A f \in FrameId :
           Unused(f)' => (Unused(f) /\ (f \in evictable_pages => f \in evictable_pages'))
                         \/ f \in evictable_pages'
  PROVE  UnusedFramesAreEvictable'
BY DEF UnusedFramesAreEvictable

LEMMA SameUnused ==
  ASSUME Typed, SameGuards, NEW f, Unused(f)',
         f \in Range(page_table), op.pc \in {"pin", "record"} => op.frame # f
  PROVE  Unused(f)
<1>1. \A g \in AnyGuard : Live(g)' => guard'[g].frame # f
  BY DEF Unused
<1>2. \A g \in AnyGuard : Live(g) => guard[g].frame # f
  BY <1>1 DEF SameGuards
<1> QED BY <1>2 DEF Unused

(* A frame that holds no page has no pins. *)
LEMMA UnmappedHasNoPins ==
  ASSUME GuardsOnTheirPage, ~stolen, NEW f, f \notin Range(page_table)
  PROVE  PinsOn(f) = {}
<1> SUFFICES ASSUME NEW g \in PinsOn(f) PROVE FALSE
  OBVIOUS
<1>1. g \in AnyGuard /\ Pins(g) /\ guard[g].frame = f
  BY DEF PinsOn
<1>2. guard[g].page \in Resident /\ page_table[guard[g].page] = f
  BY <1>1 DEF GuardsOnTheirPage
<1> QED BY <1>2 DEF Range, Resident

-----------------------------------------------------------------------------
(* Guards that keep their pin.  They may change the bytes and the dirty    *)
(* flag of their frame, the content last given to their page and what the  *)
(* disk has of it; the pool, the pin counts and the replacer stay.         *)
PinnedStep(g) ==
  /\ g \in AnyGuard /\ KeepsPin(g) /\ GuardTypes'
  /\ UNCHANGED <<arc_vars, next_page_id, page_table, free_frames, pin_count, op, stolen>>
  /\ is_dirty' = is_dirty
     \/ \E b \in BOOLEAN : is_dirty' = [is_dirty EXCEPT ![guard[g].frame] = b]
  /\ disk' = disk \/ \E d \in Data : disk' = [disk EXCEPT ![guard[g].page] = d]
  /\ \/ UNCHANGED <<frame_data, latest>>
     \/ \E d \in Data :
          /\ frame_data' = [frame_data EXCEPT ![guard[g].frame] = d]
          /\ latest' = [latest EXCEPT ![guard[g].page] = d]
          /\ disk' = disk

LEMMA PinnedStepPool ==
  ASSUME GInv, NEW g, PinnedStep(g)
  PROVE  /\ Resident' = Resident /\ Panicked' = Panicked
         /\ BeingPinned' = BeingPinned /\ InHand' = InHand
         /\ g \in AnyGuard /\ Pins(g)
         /\ guard[g].frame \in FrameId /\ guard[g].page \in PageId
         /\ SameGuards
<1>1. g \in AnyGuard /\ Pins(g) /\ KeepsPin(g)
  BY DEF PinnedStep, KeepsPin
<1>2. guard[g].frame \in FrameId /\ guard[g].page \in PageId
  BY <1>1, GuardFields DEF GInv, Typed
<1>3. SameGuards
  BY <1>1, KeepsPinIsSame
<1> QED BY <1>1, <1>2, <1>3
        DEF PinnedStep, Resident, Panicked, BeingPinned, InHand, arc_vars

LEMMA PinnedStepTypes ==
  ASSUME GInv, NEW g, PinnedStep(g)
  PROVE  Typed' /\ disk' \in [PageId -> Data \cup {Absent}]
<1>1. guard[g].frame \in FrameId /\ guard[g].page \in PageId /\ Resident' = Resident
  BY PinnedStepPool
<1>2. ArcTypeOK'
  BY DEF PinnedStep, arc_vars, GInv, Typed, TypeOK, ArcTypeOK
<1>3. disk' \in [PageId -> Data \cup {Absent}]
  BY <1>1 DEF PinnedStep, GInv, Typed, TypeOK, PoolTypeOK
<1>4. is_dirty' \in [FrameId -> BOOLEAN]
  BY <1>1 DEF PinnedStep, GInv, Typed, TypeOK, PoolTypeOK
<1>5. frame_data' \in [FrameId -> Data] /\ latest' \in [PageId -> Data \cup {Absent}]
  <2>1. frame_data \in [FrameId -> Data] /\ latest \in [PageId -> Data \cup {Absent}]
    BY DEF GInv, Typed, TypeOK, PoolTypeOK
  <2>2. CASE UNCHANGED <<frame_data, latest>>
    BY <2>1, <2>2
  <2>3. CASE \E d \in Data :
               /\ frame_data' = [frame_data EXCEPT ![guard[g].frame] = d]
               /\ latest' = [latest EXCEPT ![guard[g].page] = d]
    BY <1>1, <2>1, <2>3
  <2> QED BY <2>2, <2>3 DEF PinnedStep
<1>6. PoolTypeOK'
  BY <1>1, <1>3, <1>4, <1>5 DEF PinnedStep, GInv, Typed, TypeOK, PoolTypeOK
<1>7. OpTypes' /\ GuardTypes'
  BY DEF PinnedStep, GInv, Typed, OpTypes
<1> QED BY <1>2, <1>3, <1>6, <1>7 DEF Typed, TypeOK

(* What the disk has of a page changes only under a guard of the page, and *)
(* is never given up.                                                      *)
LEMMA PinnedStepDisk ==
  ASSUME GInv, NEW g, PinnedStep(g), NEW p \in PageId
  PROVE  /\ disk[p] # Absent => disk'[p] # Absent
         /\ disk'[p] # Absent => disk[p] # Absent \/ p = guard[g].page
         /\ p # guard[g].page => disk'[p] = disk[p]
<1>1. guard[g].page \in PageId /\ disk \in [PageId -> Data \cup {Absent}]
  BY PinnedStepPool DEF GInv, Typed, TypeOK, PoolTypeOK
<1> QED BY <1>1, PoolAssumption DEF PinnedStep

LEMMA PinnedStepOrder ==
  ASSUME GInv, NEW g, PinnedStep(g)
  PROVE  OpOrder' /\ OnlyMade'
<1>1. /\ SameGuards /\ Resident' = Resident
      /\ UNCHANGED <<next_page_id, page_table, free_frames, op>>
      /\ Pins(g) /\ g \in AnyGuard
  BY PinnedStepPool DEF PinnedStep
<1>2. OpTypes /\ OpOrder /\ OnlyMade
  BY DEF GInv, Typed
<1>3. op.pc \in Making => ~Live(op.guard)'
  BY <1>1, <1>2 DEF OpTypes, OpOrder, SameGuards
<1>4. op.pc \in Evicting \cup {"load"} => disk'[op.page] # Absent
  BY <1>2, PinnedStepDisk DEF OpTypes, OpOrder, Making, Evicting
<1>5. OpOrder'
  BY <1>1, <1>2, <1>3, <1>4 DEF OpOrder, Live
<1>6. \A p \in PageId : disk'[p] # Absent => p < next_page_id
  BY <1>1, <1>2, PinnedStepDisk DEF OnlyMade
<1>7. \A h \in AnyGuard : Pins(h)' => guard'[h].page < next_page_id
  BY <1>1, <1>2 DEF OnlyMade, SameGuards
<1>8. OnlyMade'
  BY <1>1, <1>2, <1>6, <1>7 DEF OnlyMade
<1> QED BY <1>5, <1>8

(* The content of a page is where it was, or a guard of the page has given *)
(* it another one.                                                         *)
LEMMA PinnedStepContent ==
  ASSUME GInv, NEW g, PinnedStep(g)
  PROVE  NoUpdateLost' /\ DeletedIsForgotten'
<1> SUFFICES ASSUME ~stolen PROVE NoUpdateLost' /\ DeletedIsForgotten'
  BY DEF PinnedStep, NoUpdateLost, DeletedIsForgotten
<1>1. PICK q \in PageId, f \in FrameId : q = guard[g].page /\ f = guard[g].frame
  BY PinnedStepPool
<1>2. q \in Resident /\ page_table[q] = f
  BY <1>1, PinnedStepPool DEF GInv, GuardsOnTheirPage
<1>3. /\ UNCHANGED <<page_table, op>> /\ Resident' = Resident
      /\ IsInjective(page_table) /\ page_table \in [Resident -> FrameId]
      /\ f \in Range(page_table)
  BY <1>2, PinnedStepPool DEF PinnedStep, GInv, IInv, PoolShape, FramePartition, Range, Resident
<1>4. \A p \in PageId : p # q => disk'[p] = disk[p]
  BY <1>1, PinnedStepDisk
<1>5. op.pc = "copy_out" => op.frame # f
  <2>1. op.pc = "copy_out" => free_frames = <<op.frame>>
    BY DEF GInv, OpOrder, Evicting
  <2>2. op.pc = "copy_out" => op.frame \in Range(free_frames)
    BY <2>1 DEF Range
  <2> QED BY <1>3, <2>2 DEF GInv, IInv, FramePartition
<1>6. \A p \in Resident : p # q => page_table[p] # f
  BY <1>2, <1>3 DEF IsInjective, Resident
<1>7. CASE UNCHANGED <<frame_data, latest>>
  <2>1. \A p \in PageId : Content(p)' = Content(p)
    BY <1>2, <1>3, <1>4, <1>7 DEF Content
  <2> QED BY <1>3, <1>7, <2>1 DEF GInv, NoUpdateLost, DeletedIsForgotten, PinnedStep
<1>8. CASE \E d \in Data :
             /\ frame_data' = [frame_data EXCEPT ![guard[g].frame] = d]
             /\ latest' = [latest EXCEPT ![guard[g].page] = d]
  <2>1. PICK d \in Data : /\ frame_data' = [frame_data EXCEPT ![f] = d]
                          /\ latest' = [latest EXCEPT ![q] = d]
    BY <1>1, <1>8
  <2>2. /\ frame_data \in [FrameId -> Data]
        /\ latest \in [PageId -> Data \cup {Absent}]
    BY DEF GInv, Typed, TypeOK, PoolTypeOK
  <2>3. /\ frame_data'[f] = d /\ latest'[q] = d
        /\ \A h \in FrameId : h # f => frame_data'[h] = frame_data[h]
        /\ \A p \in PageId : p # q => latest'[p] = latest[p]
    BY <2>1, <2>2
  <2>4. Content(q)' = d
    BY <1>2, <1>3, <2>3 DEF Content
  <2>5. op.pc = "copy_out" => frame_data'[op.frame] = frame_data[op.frame]
    BY <1>5, <2>3 DEF GInv, Typed, OpTypes, Making
  <2>6. ASSUME NEW p \in PageId, p # q PROVE Content(p)' = Content(p)
    <3>1. p \in Resident => frame_data'[page_table[p]] = frame_data[page_table[p]]
      BY <1>3, <1>6, <2>3, <2>6
    <3> QED BY <1>3, <1>4, <2>5, <2>6, <3>1 DEF Content
  <2>7. NoUpdateLost'
    BY <2>3, <2>4, <2>6 DEF GInv, NoUpdateLost, PinnedStep
  <2>8. op.pc \in {"remove", "erase"} => op.page \in PageId /\ op.page # q
    BY <1>2 DEF GInv, Typed, OpTypes, OpOrder
  <2>9. DeletedIsForgotten'
    BY <1>3, <2>3, <2>8 DEF GInv, DeletedIsForgotten, PinnedStep
  <2> QED BY <2>7, <2>9
<1> QED BY <1>7, <1>8 DEF PinnedStep

LEMMA PinnedStepKeepsGInv ==
  ASSUME GInv, NEW g, PinnedStep(g)
  PROVE  GInv'
<1>1. /\ Resident' = Resident /\ Panicked' = Panicked
      /\ BeingPinned' = BeingPinned /\ SameGuards
      /\ UNCHANGED <<page_table, free_frames, op, stolen, pin_count, evictable_pages>>
  BY PinnedStepPool DEF PinnedStep, arc_vars
<1>2. IInv'
  BY <1>1, NothingMoves DEF GInv
<1>3. PinCountIsGuards'
  BY <1>1, KeepPinCount DEF GInv
<1>4. GuardsOnTheirPage'
  BY <1>1, KeepOnPage DEF GInv
<1>5. UnusedFramesAreEvictable'
  <2>1. \A f \in FrameId : Unused(f)' => Unused(f)
    <3> TAKE f \in FrameId
    <3> HAVE Unused(f)'
    <3>1. f \in Range(page_table) /\ (op.pc \in {"pin", "record"} => op.frame # f)
      BY <1>1 DEF Unused
    <3> QED BY <1>1, <3>1, SameUnused DEF GInv
  <2> QED BY <1>1, <2>1, KeepUnused DEF GInv
<1> QED BY <1>2, <1>3, <1>4, <1>5, PinnedStepTypes, PinnedStepOrder, PinnedStepContent
        DEF GInv

(* The steps of a guard between its making and its drop. *)
LEMMA GotoSteps ==
  ASSUME GInv, NEW g \in AnyGuard,
         \/ data_mut(g) \/ lock(g) \/ write(g) \/ data(g) \/ end_read(g)
         \/ flush(g) \/ flush_clean(g)
  PROVE  PinnedStep(g)
<1>1. GuardTypes /\ guard[g].pc \in PinningPc
  BY DEF GInv, Typed, data_mut, lock, write, data, end_read, flush, flush_clean, At, PinningPc
<1>2. \E pc \in PinningPc : Goto(g, pc)
  BY DEF data_mut, lock, write, data, end_read, flush, flush_clean, PinningPc
<1>3. GuardTypes' /\ KeepsPin(g)
  BY <1>1, <1>2, GotoKeepsPin
<1>4. UNCHANGED <<arc_vars, next_page_id, page_table, free_frames, pin_count, op, stolen>>
  BY DEF data_mut, lock, write, data, end_read, flush, flush_clean, GuardOnly, table_vars,
         frame_vars
<1>5. CASE write(g)
  BY <1>3, <1>4, <1>5 DEF write, PinnedStep
<1>6. CASE data_mut(g) \/ flush_clean(g)
  BY <1>3, <1>4, <1>6 DEF data_mut, flush_clean, PinnedStep
<1>7. CASE lock(g) \/ data(g) \/ end_read(g) \/ flush(g)
  BY <1>3, <1>4, <1>7 DEF lock, data, end_read, flush, frame_vars, PinnedStep
<1> QED BY <1>5, <1>6, <1>7

LEMMA CloneStep ==
  ASSUME GInv, NEW g \in AnyGuard, flush_clone(g)
  PROVE  PinnedStep(g)
<1>1. GuardTypes /\ guard[g].pc = "clone" /\ Pins(g)
  BY DEF GInv, Typed, flush_clone, At, Pins
<1>2. guard[g] \in PinningGuard
  BY <1>1 DEF GuardTypes, NoGuard, UnpinnedGuard, PinningGuard, StoringGuard, PinningPc
<1>3. PICK s : s = [pc |-> "store", page |-> guard[g].page, frame |-> guard[g].frame,
                    mutable |-> guard[g].mutable, data |-> frame_data[guard[g].frame]]
  OBVIOUS
<1>4. frame_data[guard[g].frame] \in Data
  BY <1>2 DEF GInv, Typed, TypeOK, PoolTypeOK, PinningGuard
<1>5. s \in StoringGuard /\ s.page = guard[g].page /\ s.frame = guard[g].frame
  BY <1>2, <1>3, <1>4 DEF StoringGuard, PinningGuard
<1>6. guard' = [guard EXCEPT ![g] = s]
  BY <1>3 DEF flush_clone
<1>7. GuardTypes' /\ KeepsPin(g)
  BY <1>1, <1>5, <1>6, SetKeepsPin
<1> QED BY <1>7 DEF flush_clone, GuardOnly, table_vars, frame_vars, PinnedStep

LEMMA StoreStep ==
  ASSUME GInv, NEW g \in AnyGuard, flush_store(g) \/ flush_store_err(g)
  PROVE  PinnedStep(g)
<1>1. GuardTypes /\ guard[g].pc = "store" /\ Pins(g)
  BY DEF GInv, Typed, flush_store, flush_store_err, At, Pins
<1>2. guard[g] \in StoringGuard
  BY <1>1 DEF GuardTypes, NoGuard, UnpinnedGuard, PinningGuard, StoringGuard, PinningPc
<1>3. PICK s : s = [pc |-> "clean", page |-> guard[g].page, frame |-> guard[g].frame,
                    mutable |-> guard[g].mutable]
  OBVIOUS
<1>4. s \in PinningGuard /\ s.page = guard[g].page /\ s.frame = guard[g].frame
  BY <1>2, <1>3 DEF StoringGuard, PinningGuard, PinningPc
<1>5. guard' = [guard EXCEPT ![g] = s]
  BY <1>3 DEF flush_store, flush_store_err
<1>6. GuardTypes' /\ KeepsPin(g)
  BY <1>1, <1>4, <1>5, SetKeepsPin
<1>7. guard[g].data \in Data
  BY <1>2 DEF StoringGuard
<1>8. \E d \in Data : disk' = [disk EXCEPT ![guard[g].page] = d]
  BY <1>7 DEF flush_store, flush_store_err
<1> QED BY <1>6, <1>8
        DEF flush_store, flush_store_err, GuardOnly, table_vars, frame_vars, PinnedStep

-----------------------------------------------------------------------------
(* drop: a guard that has no pin after the step.                           *)
DropStep(g) ==
  /\ g \in AnyGuard /\ Live(g) /\ ~(Pins(g)') /\ GuardTypes'
  /\ \A h \in AnyGuard : h # g => guard'[h] = guard[h]
  /\ UNCHANGED <<next_page_id, page_table, free_frames, is_dirty, frame_data, disk,
                 op, latest, stolen, poisoned>>

(* What needs no more than that the pins only get fewer. *)
LEMMA DropStepKeepsMost ==
  ASSUME GInv, NEW g, DropStep(g), ArcTypeOK', pin_count' \in [FrameId -> 0 .. USize - 1]
  PROVE  /\ IInv' /\ Typed' /\ OpOrder' /\ OnlyMade' /\ DeletedIsForgotten'
         /\ GuardsOnTheirPage' /\ NoUpdateLost'
         /\ Panicked' = Panicked /\ BeingPinned' = BeingPinned
<1>1. /\ Resident' = Resident /\ Panicked' = Panicked /\ BeingPinned' = BeingPinned
      /\ \A p \in PageId : Content(p)' = Content(p)
  BY DEF DropStep, Resident, Panicked, BeingPinned, Content
<1>2. IInv'
  BY NothingMoves DEF GInv, DropStep
<1>3. Typed'
  BY <1>1 DEF GInv, Typed, TypeOK, PoolTypeOK, OpTypes, DropStep
<1>4. \A h \in AnyGuard : Pins(h)' => Pins(h) /\ guard'[h] = guard[h]
  BY DEF DropStep, Pins
<1>5. OpOrder'
  <2>1. op.pc \in Making => op.guard \in AnyGuard /\ op.guard # g
    BY DEF GInv, Typed, OpTypes, OpOrder, DropStep
  <2>2. op.pc \in Making => guard'[op.guard] = guard[op.guard]
    BY <2>1 DEF DropStep
  <2> QED BY <1>1, <2>2 DEF GInv, OpOrder, DropStep, Live
<1>6. OnlyMade'
  BY <1>1, <1>4 DEF GInv, OnlyMade, DropStep
<1>7. DeletedIsForgotten' /\ NoUpdateLost'
  BY <1>1 DEF GInv, DeletedIsForgotten, NoUpdateLost, DropStep
<1>8. GuardsOnTheirPage'
  BY <1>1, <1>4 DEF GInv, GuardsOnTheirPage, DropStep
<1> QED BY <1>1, <1>2, <1>3, <1>5, <1>6, <1>7, <1>8

(* The guards on a frame can be counted, and are fewer than a usize holds. *)
LEMMA PinsAreFinite ==
  ASSUME NEW f
  PROVE  /\ IsFiniteSet(PinsOn(f)) /\ Cardinality(PinsOn(f)) \in Nat
         /\ Cardinality(PinsOn(f)) < USize
         /\ \A g \in AnyGuard : g \notin PinsOn(f) => Cardinality(PinsOn(f)) + 1 < USize
<1>1. /\ IsFiniteSet(AnyGuard) /\ Cardinality(AnyGuard) = Cardinality(Guard) + 1
      /\ Cardinality(Guard) \in Nat
  BY PoolAssumption, FS_AddElement, FS_CardinalityType DEF AnyGuard
<1>2. PinsOn(f) \in SUBSET AnyGuard
  BY DEF PinsOn
<1>3. /\ IsFiniteSet(PinsOn(f)) /\ Cardinality(PinsOn(f)) <= Cardinality(AnyGuard)
      /\ Cardinality(PinsOn(f)) \in Nat
  BY <1>1, <1>2, FS_Subset, FS_CardinalityType
<1>4. ASSUME NEW g \in AnyGuard, g \notin PinsOn(f)
      PROVE  Cardinality(PinsOn(f)) + 1 <= Cardinality(AnyGuard)
  <2>1. PinsOn(f) \in SUBSET (AnyGuard \ {g})
    BY <1>2, <1>4
  <2>2. IsFiniteSet(AnyGuard \ {g}) /\ Cardinality(AnyGuard \ {g}) = Cardinality(AnyGuard) - 1
    BY <1>1, FS_RemoveElement
  <2>3. Cardinality(PinsOn(f)) <= Cardinality(AnyGuard \ {g})
    BY <2>1, <2>2, FS_Subset
  <2> QED BY <1>1, <1>3, <2>2, <2>3
<1> QED BY <1>1, <1>3, <1>4, PoolAssumption

(* The frame the running call has counted and not yet given to a guard. *)
LEMMA BeingPinnedIsOne ==
  ASSUME NEW f
  PROVE  /\ f \in BeingPinned => Cardinality(BeingPinned \cap {f}) = 1
         /\ f \notin BeingPinned => Cardinality(BeingPinned \cap {f}) = 0
<1>1. f \in BeingPinned => BeingPinned \cap {f} = {f}
  BY DEF BeingPinned
<1>2. f \notin BeingPinned => BeingPinned \cap {f} = {}
  OBVIOUS
<1> QED BY <1>1, <1>2, FS_EmptySet, FS_Singleton

(* fetch_sub: the count of the frame and its guards go down together. *)
LEMMA DropKeepsGInv ==
  ASSUME GInv, NEW g \in AnyGuard, drop(g)
  PROVE  GInv'
<1>1. GuardTypes /\ guard[g].pc = "held" /\ Pins(g) /\ Live(g) /\ Typed
  BY DEF GInv, Typed, drop, At, Pins, Live
<1>2. PICK f \in FrameId : f = guard[g].frame
  BY <1>1, GuardFields
<1>3. PICK s : s = [pc |-> "unpinned", frame |-> f]
  OBVIOUS
<1>4. s \in UnpinnedGuard /\ s.pc = "unpinned" /\ s.frame = f
  BY <1>3 DEF UnpinnedGuard
<1>5. guard' = [guard EXCEPT ![g] = s]
  BY <1>2, <1>3 DEF drop
<1>6. guard'[g] = s /\ \A h \in AnyGuard : h # g => guard'[h] = guard[h]
  BY <1>1, <1>5 DEF GuardTypes
<1>7. GuardTypes' /\ ~(Pins(g)') /\ Live(g)'
  BY <1>1, <1>4, <1>5, <1>6 DEF GuardTypes, Pins, Live
<1>8. DropStep(g) /\ UNCHANGED <<arc_vars>> /\ evictable_pages' = evictable_pages
  BY <1>1, <1>6, <1>7 DEF DropStep, drop, GuardOnly, table_vars, arc_vars
<1>9. /\ pin_count \in [FrameId -> 0 .. USize - 1]
      /\ pin_count' = [pin_count EXCEPT ![f] = (pin_count[f] - 1) % USize]
  BY <1>1, <1>2 DEF drop, OnePinLess, Typed, TypeOK, PoolTypeOK
<1>10. pin_count' \in [FrameId -> 0 .. USize - 1]
  <2>1. PICK u \in Nat \ {0} : u = USize
    BY PoolAssumption, FS_CardinalityType
  <2>2. pin_count[f] \in Int
    BY <1>9, <2>1
  <2>3. (pin_count[f] - 1) % u \in 0 .. u - 1
    BY <2>2
  <2> QED BY <1>9, <2>1, <2>3
<1>11. ArcTypeOK'
  BY <1>1, <1>8 DEF Typed, TypeOK, ArcTypeOK, arc_vars
<1>12. /\ IInv' /\ Typed' /\ OpOrder' /\ OnlyMade' /\ DeletedIsForgotten'
       /\ GuardsOnTheirPage' /\ NoUpdateLost'
       /\ Panicked' = Panicked /\ BeingPinned' = BeingPinned
  BY <1>8, <1>10, <1>11, DropStepKeepsMost
<1>13. PinCountIsGuards'
  <2> SUFFICES ASSUME ~stolen, NEW h \in FrameId
               PROVE  pin_count'[h] = Cardinality(PinsOn(h)') + Cardinality(BeingPinned' \cap {h})
    BY <1>8 DEF PinCountIsGuards, DropStep
  <2>1. pin_count[h] = Cardinality(PinsOn(h)) + Cardinality(BeingPinned \cap {h})
    BY DEF GInv, PinCountIsGuards
  <2>2. CASE h # f
    <3>1. PinsOn(h)' = PinsOn(h)
      BY <1>2, <1>6, <1>7, <2>2 DEF PinsOn, Pins
    <3> QED BY <1>9, <1>12, <2>1, <2>2, <3>1
  <2>3. CASE h = f
    <3>1. PinsOn(f)' = PinsOn(f) \ {g} /\ g \in PinsOn(f)
      BY <1>1, <1>2, <1>6, <1>7 DEF PinsOn, Pins
    <3>2. PICK n \in Nat, b \in Nat, u \in Nat \ {0} :
            /\ n = Cardinality(PinsOn(f)) /\ b = Cardinality(BeingPinned \cap {f})
            /\ u = USize
      <4>1. Cardinality(PinsOn(f)) \in Nat
        BY PinsAreFinite
      <4>2. Cardinality(BeingPinned \cap {f}) \in Nat
        BY BeingPinnedIsOne
      <4>3. USize \in Nat \ {0}
        BY PoolAssumption, FS_CardinalityType
      <4> QED BY <4>1, <4>2, <4>3
    <3>3. Cardinality(PinsOn(f)') = n - 1 /\ n > 0
      <4>1. IsFiniteSet(PinsOn(f)) /\ IsFiniteSet(PinsOn(f) \ {g})
        BY PinsAreFinite, FS_RemoveElement
      <4>2. Cardinality(PinsOn(f) \ {g}) = n - 1
        BY <3>1, <3>2, <4>1, FS_RemoveElement
      <4>3. Cardinality(PinsOn(f) \ {g}) \in Nat
        BY <4>1, FS_CardinalityType
      <4> QED BY <3>1, <4>2, <4>3
    <3>4. n + b \in 1 .. u - 1 /\ pin_count[f] = n + b
      BY <1>9, <2>1, <2>3, <3>2, <3>3
    <3>5. ((n + b) - 1) % u = (n + b) - 1
      BY <3>4
    <3> QED BY <1>9, <1>12, <2>3, <3>2, <3>3, <3>4, <3>5
  <2> QED BY <2>2, <2>3
<1>14. UnusedFramesAreEvictable'
  <2>1. \A h \in FrameId : Unused(h)' => Unused(h)
    <3> SUFFICES ASSUME NEW h \in FrameId, Unused(h)' PROVE Unused(h)
      OBVIOUS
    <3>1. \A k \in AnyGuard : Live(k) => Live(k)' /\ guard'[k].frame = guard[k].frame
      BY <1>2, <1>4, <1>6, <1>7 DEF Live
    <3>2. \A k \in AnyGuard : Live(k)' => guard'[k].frame # h
      BY DEF Unused
    <3>3. \A k \in AnyGuard : Live(k) => guard[k].frame # h
      BY <3>1, <3>2
    <3> QED BY <1>8, <3>3 DEF Unused, DropStep
  <2> QED BY <1>8, <1>12, <2>1, KeepUnused DEF GInv, DropStep
<1> QED BY <1>12, <1>13, <1>14 DEF GInv

(* load: a guard that finds the count at 0 goes on to report the frame;    *)
(* one that does not leaves it to a guard that still has a pin.            *)
LEMMA DropLoadKeepsGInv ==
  ASSUME GInv, NEW g \in AnyGuard, drop_load(g)
  PROVE  GInv'
<1>1. GuardTypes /\ guard[g].pc = "unpinned" /\ ~Pins(g) /\ Live(g) /\ Typed
  BY DEF GInv, Typed, drop_load, At, Pins, Live
<1>2. PICK f \in FrameId : f = guard[g].frame
  BY <1>1, GuardFields
<1>3. PICK s : s = IF pin_count[f] = 0 THEN [pc |-> "report", frame |-> f] ELSE NoGuard
  OBVIOUS
<1>4. /\ s \in {NoGuard} \cup UnpinnedGuard /\ s.pc \in {"none", "report"}
      /\ pin_count[f] = 0 => s.pc = "report" /\ s.frame = f
  BY <1>3 DEF UnpinnedGuard, NoGuard
<1>5. guard' = [guard EXCEPT ![g] = s]
  BY <1>2, <1>3 DEF drop_load, LastPinGone
<1>6. guard'[g] = s /\ \A h \in AnyGuard : h # g => guard'[h] = guard[h]
  BY <1>1, <1>5 DEF GuardTypes
<1>7. GuardTypes' /\ ~(Pins(g)')
  BY <1>1, <1>4, <1>5, <1>6 DEF GuardTypes, Pins
<1>8. /\ DropStep(g) /\ UNCHANGED arc_vars /\ evictable_pages' = evictable_pages
      /\ pin_count' = pin_count
  BY <1>1, <1>6, <1>7 DEF DropStep, drop_load, GuardOnly, table_vars, arc_vars, frame_vars
<1>9. ArcTypeOK' /\ pin_count' \in [FrameId -> 0 .. USize - 1]
  BY <1>1, <1>8 DEF Typed, TypeOK, ArcTypeOK, PoolTypeOK, arc_vars
<1>10. /\ IInv' /\ Typed' /\ OpOrder' /\ OnlyMade' /\ DeletedIsForgotten'
       /\ GuardsOnTheirPage' /\ NoUpdateLost'
       /\ Panicked' = Panicked /\ BeingPinned' = BeingPinned
  BY <1>8, <1>9, DropStepKeepsMost
<1>11. \A h \in FrameId : PinsOn(h)' = PinsOn(h)
  BY <1>1, <1>6, <1>7 DEF PinsOn, Pins
<1>12. PinCountIsGuards'
  BY <1>8, <1>10, <1>11 DEF GInv, PinCountIsGuards, DropStep
<1>13. UnusedFramesAreEvictable'
  <2> SUFFICES ASSUME ~Panicked', ~stolen', NEW h \in FrameId, Unused(h)'
               PROVE  h \in evictable_pages'
    BY DEF UnusedFramesAreEvictable
  <2>1. ~Panicked /\ ~stolen /\ op' = op /\ page_table' = page_table
    BY <1>8, <1>10 DEF DropStep
  <2>2. \A k \in AnyGuard : k # g /\ Live(k) => guard[k].frame # h
    BY <1>6 DEF Unused, Live
  <2>3. h \in Range(page_table) /\ (op.pc \in {"pin", "record"} => op.frame # h)
    BY <2>1 DEF Unused
  <2>4. CASE h # f
    <3>1. Unused(h)
      BY <1>2, <2>2, <2>3, <2>4 DEF Unused
    <3> QED BY <1>8, <2>1, <3>1 DEF GInv, UnusedFramesAreEvictable
  <2>5. CASE h = f
    <3>1. PinsOn(f) = {}
      BY <1>1, <2>2, <2>5 DEF PinsOn, Pins, Live
    <3>2. f \notin BeingPinned
      BY <2>1, <2>3, <2>5 DEF BeingPinned, Panicked
    <3>3. Cardinality(PinsOn(f)) = 0 /\ Cardinality(BeingPinned \cap {f}) = 0
      BY <3>1, <3>2, BeingPinnedIsOne, FS_EmptySet
    <3>4. pin_count[f] = 0
      BY <2>1, <3>3 DEF GInv, PinCountIsGuards
    <3>5. Live(g)' /\ guard'[g].frame = f
      BY <1>4, <1>6, <3>4 DEF Live
    <3> QED BY <2>5, <3>5 DEF Unused
  <2> QED BY <2>4, <2>5
<1> QED BY <1>10, <1>12, <1>13 DEF GInv

(* set_evictable: the frame can be evicted from now on. *)
LEMMA DropReportKeepsGInv ==
  ASSUME GInv, NEW g \in AnyGuard, drop_report(g)
  PROVE  GInv'
<1>1. GuardTypes /\ guard[g].pc = "report" /\ ~Pins(g) /\ Live(g) /\ Typed
  BY DEF GInv, Typed, drop_report, At, Pins, Live
<1>2. PICK f \in FrameId : f = guard[g].frame
  BY <1>1, GuardFields
<1>3. guard'[g] = NoGuard /\ \A h \in AnyGuard : h # g => guard'[h] = guard[h]
  BY <1>1 DEF GuardTypes, drop_report
<1>4. GuardTypes' /\ ~(Pins(g)')
  BY <1>1, <1>3 DEF GuardTypes, Pins, NoGuard, drop_report
<1>5. /\ set_evictable(f)
      /\ UNCHANGED <<next_page_id, page_table, free_frames, is_dirty, frame_data, disk,
                     op, latest, stolen, pin_count>>
  BY <1>2 DEF drop_report, table_vars, frame_vars, history
<1>6. poisoned' = poisoned /\ f \in evictable_pages' /\ evictable_pages \subseteq evictable_pages'
  BY <1>5 DEF set_evictable
<1>7. DropStep(g)
  BY <1>1, <1>3, <1>4, <1>5, <1>6 DEF DropStep
<1>8. ArcTypeOK' /\ pin_count' \in [FrameId -> 0 .. USize - 1]
  BY <1>1, <1>5, SetEvictableTypes DEF Typed, TypeOK, PoolTypeOK
<1>9. /\ IInv' /\ Typed' /\ OpOrder' /\ OnlyMade' /\ DeletedIsForgotten'
      /\ GuardsOnTheirPage' /\ NoUpdateLost'
      /\ Panicked' = Panicked /\ BeingPinned' = BeingPinned
  BY <1>7, <1>8, DropStepKeepsMost
<1>10. \A h \in FrameId : PinsOn(h)' = PinsOn(h)
  BY <1>1, <1>3, <1>4 DEF PinsOn, Pins
<1>11. PinCountIsGuards'
  BY <1>5, <1>9, <1>10 DEF GInv, PinCountIsGuards
<1>12. UnusedFramesAreEvictable'
  <2>1. ASSUME NEW h \in FrameId, Unused(h)', h # f
        PROVE  Unused(h)
    <3>1. \A k \in AnyGuard : Live(k) => guard[k].frame # h
      BY <1>2, <1>3, <2>1 DEF Unused, Live
    <3> QED BY <1>5, <2>1, <3>1 DEF Unused
  <2> QED BY <1>5, <1>6, <1>9, <2>1 DEF GInv, UnusedFramesAreEvictable
<1> QED BY <1>9, <1>11, <1>12 DEF GInv

-----------------------------------------------------------------------------
(* The steps of the calls that leave the guards, the frames and the page   *)
(* table alone, and are not about a guard being made.                      *)
LEMMA OpMoves ==
  ASSUME GInv, UNCHANGED <<guard, stolen, page_table, frame_vars, evictable_pages, poisoned>>,
         op.pc \notin {"pin", "record", "panicked", "record_failed", "load_failed"},
         op'.pc \notin {"record", "record_failed"},
         next_page_id' \in Nat, disk' \in [PageId -> Data \cup {Absent}],
         latest' \in [PageId -> Data \cup {Absent}], ArcTypeOK', IInv',
         OpTypes', OpOrder', OnlyMade', DeletedIsForgotten', NoUpdateLost'
  PROVE  GInv'
<1>1. SameGuards /\ GuardTypes'
  BY UnchangedIsSame DEF GInv, Typed, GuardTypes
<1>2. Resident' = Resident /\ BeingPinned' = BeingPinned
  BY DEF Resident, BeingPinned
<1>3. Panicked => Panicked'
  BY DEF Panicked
<1>4. TypeOK'
  BY <1>2 DEF GInv, IInv, PoolShape, Typed, TypeOK, PoolTypeOK, frame_vars
<1>5. PinCountIsGuards'
  BY <1>1, <1>2, KeepPinCount DEF GInv, frame_vars
<1>6. GuardsOnTheirPage'
  BY <1>1, <1>2, KeepOnPage DEF GInv
<1>7. UnusedFramesAreEvictable'
  <2>1. \A f \in FrameId : Unused(f)' => Unused(f)
    <3> TAKE f \in FrameId
    <3> HAVE Unused(f)'
    <3>1. f \in Range(page_table)
      BY DEF Unused
    <3> QED BY <1>1, <3>1, SameUnused DEF GInv
  <2> QED BY <1>3, <2>1, KeepUnused DEF GInv
<1> QED BY <1>1, <1>4, <1>5, <1>6, <1>7 DEF GInv, Typed

(* The content of the pages, when the disk is left alone too and no page   *)
(* is on its way out.                                                      *)
LEMMA SameContent ==
  ASSUME GInv, UNCHANGED <<stolen, page_table, frame_data, disk, latest>>,
         op.pc \notin {"copy_out", "write_back"}, op'.pc \notin {"copy_out", "write_back"}
  PROVE  NoUpdateLost'
<1>1. \A p \in PageId : Content(p)' = Content(p)
  BY DEF Content, Resident
<1> QED BY <1>1 DEF GInv, NoUpdateLost

LEMMA SameMade ==
  ASSUME GInv, UNCHANGED <<guard, next_page_id, page_table>>,
         \A p \in PageId : disk'[p] # Absent => p < next_page_id,
         op'.pc \in {"copy_out", "write_back"} => op'.old < next_page_id
  PROVE  OnlyMade'
BY DEF GInv, OnlyMade, Resident, Pins

LEMMA NewPageKeepsGInv ==
  ASSUME GInv, new_page
  PROVE  GInv'
<1>1. PICK n \in Nat : n = next_page_id
  BY DEF GInv, Typed, TypeOK, PoolTypeOK
<1>2. /\ op = Idle /\ op' = op /\ n \in PageId /\ next_page_id' = n + 1
      /\ disk' = [disk EXCEPT ![n] = Zero] /\ latest' = [latest EXCEPT ![n] = Zero]
      /\ UNCHANGED <<guard, stolen, page_table, free_frames, frame_data, is_dirty, pin_count,
                     arc_vars, evictable_pages, poisoned>>
  BY <1>1 DEF new_page, frame_vars, table_vars, arc_vars
<1>3. op.pc = "idle" /\ op'.pc = "idle"
  BY <1>2 DEF Idle
<1>4. /\ disk \in [PageId -> Data \cup {Absent}] /\ latest \in [PageId -> Data \cup {Absent}]
      /\ Resident \subseteq PageId
  BY DEF GInv, Typed, TypeOK, PoolTypeOK
<1>5. /\ disk'[n] = Zero /\ latest'[n] = Zero
      /\ \A p \in PageId : p # n => disk'[p] = disk[p] /\ latest'[p] = latest[p]
  BY <1>2, <1>4
<1>6. ArcTypeOK'
  BY <1>2 DEF GInv, Typed, TypeOK, ArcTypeOK, arc_vars
<1>7. IInv'
  BY <1>2, NothingMoves DEF GInv
<1>8. OpTypes' /\ OpOrder' /\ DeletedIsForgotten'
  BY <1>3 DEF OpTypes, OpOrder, DeletedIsForgotten, Making, Evicting
<1>9. OnlyMade'
  <2>1. Resident' = Resident /\ \A g \in AnyGuard : Pins(g)' = Pins(g)
    BY <1>2 DEF Resident, Pins
  <2>2. \A p \in PageId : p < n => p < n + 1
    BY ReplacerAssumption
  <2>3. \A p \in PageId : disk'[p] # Absent => p < n + 1
    BY <1>1, <1>5, <2>2 DEF GInv, OnlyMade
  <2>4. \A g \in AnyGuard : Pins(g)' => guard'[g].page < n + 1
    BY <1>1, <1>2, <2>1, <2>2, GuardFields DEF GInv, OnlyMade, Typed
  <2>5. \A p \in Resident' : p < n + 1
    BY <1>1, <1>4, <2>1, <2>2 DEF GInv, OnlyMade
  <2> QED BY <1>2, <1>3, <2>3, <2>4, <2>5 DEF OnlyMade
<1>10. NoUpdateLost'
  <2>1. n \notin Resident
    BY <1>1 DEF GInv, OnlyMade
  <2>2. Content(n)' = Zero
    BY <1>2, <1>3, <1>5, <2>1 DEF Content, Resident
  <2>3. \A p \in PageId : p # n => Content(p)' = Content(p)
    BY <1>2, <1>3, <1>5 DEF Content, Resident
  <2> QED BY <1>2, <1>5, <2>2, <2>3 DEF GInv, NoUpdateLost
<1>11. /\ disk' \in [PageId -> Data \cup {Absent}] /\ latest' \in [PageId -> Data \cup {Absent}]
       /\ n + 1 \in Nat
  BY <1>2, <1>4, PoolAssumption
<1> QED BY <1>2, <1>3, <1>6, <1>7, <1>8, <1>9, <1>10, <1>11, OpMoves DEF frame_vars

(* A resident page goes straight to its guard. *)
LEMMA CheckHitKeepsGInv ==
  ASSUME GInv, NEW g \in Guard, NEW p \in PageId, check_page(g, p), check_hit(g, p)
  PROVE  GInv'
<1>1. /\ op.pc = "idle" /\ ~Live(g) /\ p \in Resident /\ g \in AnyGuard
      /\ op'.pc = "pin" /\ op'.guard = g /\ op'.page = p /\ op'.frame = page_table[p]
      /\ op'.fresh = FALSE /\ op'.todo = {}
  BY DEF check_page, check_hit, MakeGuard, Idle, AnyGuard
<1>2. UNCHANGED <<guard, stolen, page_table, free_frames, frame_data, is_dirty, pin_count,
                  evictable_pages, poisoned, next_page_id, disk, latest, arc_vars>>
  <2>1. UNCHANGED <<guard, page_table, free_frames, frame_data, is_dirty, pin_count,
                    evictable_pages, poisoned, next_page_id, disk, latest, arc_vars>>
    BY DEF check_page, check_hit, frame_vars, table_vars, arc_vars
  <2>2. stolen' = (stolen \/ \E f \in evictable_pages \ evictable_pages' : PinsOn(f) # {})
    BY DEF check_page
  <2>3. stolen' = stolen
    BY <2>1, <2>2 DEF GInv, Typed, TypeOK, PoolTypeOK
  <2> QED BY <2>1, <2>3
<1>3. IInv'
  BY CheckPage DEF GInv
<1>4. TypeOK /\ page_table[p] \in FrameId /\ Resident' = Resident /\ ~(Live(g)')
  BY <1>1, <1>2 DEF GInv, Typed, TypeOK, PoolTypeOK, Resident, Live
<1>5. ArcTypeOK'
  BY <1>2, <1>4 DEF TypeOK, ArcTypeOK, arc_vars
<1>6. OpTypes' /\ OpOrder' /\ DeletedIsForgotten'
  BY <1>1, <1>2, <1>4 DEF OpTypes, OpOrder, DeletedIsForgotten, Making, Evicting, Live
<1>7. OnlyMade'
  BY <1>1, <1>2, SameMade DEF GInv, OnlyMade
<1>8. NoUpdateLost'
  BY <1>1, <1>2, SameContent
<1> QED BY <1>1, <1>2, <1>3, <1>4, <1>5, <1>6, <1>7, <1>8, OpMoves
        DEF frame_vars, TypeOK, PoolTypeOK

(* A page that is not resident gets a free frame, if there is one; the     *)
(* call panics when the replacer has no victim either.                     *)
LEMMA CheckFreeKeepsGInv ==
  ASSUME GInv, NEW g \in Guard, NEW p \in PageId, check_page(g, p),
         check_free(g, p) \/ check_no_victim(p)
  PROVE  GInv'
<1>1. /\ op.pc = "idle" /\ ~Live(g) /\ p \notin Resident /\ g \in AnyGuard
      /\ disk[p] # Absent
      /\ \/ op'.pc = "panicked"
         \/ /\ op'.pc = "load" /\ op'.guard = g /\ op'.page = p
            /\ op'.frame = Last(free_frames) /\ free_frames # <<>>
  BY DEF check_page, check_free, check_no_victim, Idle, AnyGuard
<1>2. UNCHANGED <<guard, stolen, page_table, frame_data, is_dirty, pin_count,
                  evictable_pages, poisoned, next_page_id, disk, latest, arc_vars>>
  <2>1. UNCHANGED <<guard, page_table, frame_data, is_dirty, pin_count,
                    evictable_pages, poisoned, next_page_id, disk, latest, arc_vars>>
    BY DEF check_page, check_free, check_no_victim, frame_vars, table_vars, arc_vars
  <2>2. stolen' = (stolen \/ \E f \in evictable_pages \ evictable_pages' : PinsOn(f) # {})
    BY DEF check_page
  <2>3. stolen' = stolen
    BY <2>1, <2>2 DEF GInv, Typed, TypeOK, PoolTypeOK
  <2> QED BY <2>1, <2>3
<1>3. IInv'
  BY CheckPage DEF GInv
<1>4. TypeOK /\ Resident' = Resident /\ ~(Live(g)')
  BY <1>1, <1>2 DEF GInv, Typed, Resident, Live
<1>5. op'.pc = "load" => op'.frame \in FrameId
  BY <1>1, PopFrame DEF GInv, IInv, PoolShape, FramePartition
<1>6. ArcTypeOK'
  BY <1>2, <1>4 DEF TypeOK, ArcTypeOK, arc_vars
<1>7. OpTypes' /\ OpOrder' /\ DeletedIsForgotten'
  BY <1>1, <1>2, <1>4, <1>5 DEF OpTypes, OpOrder, DeletedIsForgotten, Making, Evicting, Live
<1>8. OnlyMade'
  BY <1>1, <1>2, SameMade DEF GInv, OnlyMade
<1>9. NoUpdateLost'
  BY <1>1, <1>2, SameContent
<1> QED BY <1>1, <1>2, <1>3, <1>4, <1>6, <1>7, <1>8, <1>9, OpMoves
        DEF frame_vars, TypeOK, PoolTypeOK

(* The victim's bytes go to the copy that is written, and the copy to disk. *)
LEMMA CopyOutKeepsGInv ==
  ASSUME GInv, copy_out
  PROVE  GInv'
<1>1. /\ op.pc = "copy_out" /\ op'.pc = "write_back"
      /\ op'.guard = op.guard /\ op'.page = op.page /\ op'.frame = op.frame
      /\ op'.old = op.old /\ op'.data = frame_data[op.frame]
      /\ UNCHANGED <<guard, stolen, page_table, free_frames, frame_data, is_dirty, pin_count,
                     evictable_pages, poisoned, next_page_id, disk, latest, arc_vars>>
  BY DEF copy_out, frame_vars, table_vars, arc_vars, history
<1>2. IInv'
  BY WritingOut DEF GInv
<1>3. TypeOK /\ OpTypes /\ OpOrder /\ Resident' = Resident
  BY <1>1 DEF GInv, Typed, Resident
<1>4. ArcTypeOK'
  BY <1>1, <1>3 DEF TypeOK, ArcTypeOK, arc_vars
<1>5. frame_data[op.frame] \in Data
  BY <1>1, <1>3 DEF TypeOK, PoolTypeOK, OpTypes, Making
<1>6. OpTypes'
  BY <1>1, <1>3, <1>5 DEF OpTypes, Making
<1>7. OpOrder' /\ DeletedIsForgotten'
  BY <1>1, <1>3 DEF OpOrder, Making, Evicting, Live, DeletedIsForgotten
<1>8. OnlyMade'
  BY <1>1, SameMade DEF GInv, OnlyMade
<1>9. NoUpdateLost'
  <2>1. \A p \in PageId : Content(p)' = Content(p)
    BY <1>1, <1>3 DEF Content
  <2> QED BY <1>1, <2>1 DEF GInv, NoUpdateLost
<1> QED BY <1>1, <1>2, <1>3, <1>4, <1>6, <1>7, <1>8, <1>9, OpMoves
        DEF frame_vars, TypeOK, PoolTypeOK

LEMMA WriteBackKeepsGInv ==
  ASSUME GInv, write_back \/ write_back_err
  PROVE  GInv'
<1>1. /\ op.pc = "write_back" /\ op'.pc = "reset"
      /\ op'.guard = op.guard /\ op'.page = op.page /\ op'.frame = op.frame
      /\ UNCHANGED <<guard, stolen, page_table, free_frames, frame_data, is_dirty, pin_count,
                     evictable_pages, poisoned, next_page_id, arc_vars>>
  BY DEF write_back, write_back_err, frame_vars, table_vars, arc_vars, history
<1>2. IInv'
  BY WritingOut DEF GInv
<1>3. TypeOK /\ OpTypes /\ OpOrder /\ Resident' = Resident
  BY <1>1 DEF GInv, Typed, Resident
<1>4. ArcTypeOK'
  BY <1>1, <1>3 DEF TypeOK, ArcTypeOK, arc_vars
<1>5. PICK q \in PageId, d \in Data, l \in Data \cup {Absent} :
        /\ q = op.old /\ disk' = [disk EXCEPT ![q] = d] /\ latest' = [latest EXCEPT ![q] = l]
        /\ (l = latest[q] /\ d = op.data) \/ l = Absent
  <2>1. PICK q \in PageId : q = op.old
    BY <1>1, <1>3 DEF OpTypes
  <2>2. /\ op.data \in Data /\ latest[q] \in Data \cup {Absent}
        /\ latest = [latest EXCEPT ![q] = latest[q]]
    BY <1>1, <1>3 DEF OpTypes, TypeOK, PoolTypeOK
  <2>3. CASE write_back
    BY <2>1, <2>2, <2>3 DEF write_back, WrittenBack, history
  <2>4. CASE write_back_err
    BY <2>1, <2>2, <2>4 DEF write_back_err
  <2> QED BY <2>3, <2>4
<1>6. /\ disk' \in [PageId -> Data \cup {Absent}] /\ latest' \in [PageId -> Data \cup {Absent}]
      /\ disk'[q] = d /\ latest'[q] = l
      /\ \A p \in PageId : p # q => disk'[p] = disk[p] /\ latest'[p] = latest[p]
  BY <1>3, <1>5 DEF TypeOK, PoolTypeOK
<1>7. OpTypes' /\ DeletedIsForgotten'
  BY <1>1, <1>3 DEF OpTypes, Making, DeletedIsForgotten
<1>8. OpOrder'
  <2>1. op.page \in PageId /\ disk[op.page] # Absent
    BY <1>1, <1>3 DEF OpTypes, OpOrder, Making, Evicting
  <2>2. disk'[op.page] # Absent
    BY <1>6, <2>1, PoolAssumption
  <2> QED BY <1>1, <1>3, <2>2 DEF OpOrder, Making, Evicting, Live
<1>9. OnlyMade'
  <2>1. \A p \in PageId : disk'[p] # Absent => p < next_page_id
    BY <1>1, <1>5, <1>6 DEF GInv, OnlyMade
  <2> QED BY <1>1, <2>1, SameMade
<1>10. NoUpdateLost'
  <2>1. \A p \in PageId : p # q => Content(p)' = Content(p)
    BY <1>1, <1>3, <1>5, <1>6 DEF Content
  <2>2. ASSUME ~stolen, l # Absent PROVE Content(q)' = l
    <3>1. l = latest[q] /\ d = op.data /\ Content(q) = l
      BY <1>5, <2>2 DEF GInv, NoUpdateLost
    <3> QED BY <1>1, <1>3, <1>5, <1>6, <3>1 DEF Content
  <2> QED BY <1>1, <1>6, <2>1, <2>2 DEF GInv, NoUpdateLost
<1> QED BY <1>1, <1>2, <1>3, <1>4, <1>6, <1>7, <1>8, <1>9, <1>10, OpMoves
        DEF frame_vars, TypeOK, PoolTypeOK

LEMMA LoadErrKeepsGInv ==
  ASSUME GInv, load_err
  PROVE  GInv'
<1>1. /\ op.pc = "load" /\ op'.pc = "load_failed" /\ op'.frame = op.frame
      /\ UNCHANGED <<guard, stolen, page_table, free_frames, frame_data, is_dirty, pin_count,
                     evictable_pages, poisoned, next_page_id, disk, latest, arc_vars>>
  BY DEF load_err, frame_vars, table_vars, arc_vars, history
<1>2. IInv'
  BY LoadFails DEF GInv
<1>3. TypeOK /\ OpTypes
  BY DEF GInv, Typed
<1>4. ArcTypeOK'
  BY <1>1, <1>3 DEF TypeOK, ArcTypeOK, arc_vars
<1>5. OpTypes' /\ OpOrder' /\ DeletedIsForgotten'
  BY <1>1, <1>3 DEF OpTypes, OpOrder, DeletedIsForgotten, Making, Evicting
<1>6. OnlyMade'
  BY <1>1, SameMade DEF GInv, OnlyMade
<1>7. NoUpdateLost'
  BY <1>1, SameContent
<1> QED BY <1>1, <1>2, <1>3, <1>4, <1>5, <1>6, <1>7, OpMoves
        DEF frame_vars, TypeOK, PoolTypeOK

(* flush_page and flush_all_pages take the pages that are resident. *)
LEMMA FlushPagesKeepsGInv ==
  ASSUME GInv, NEW todo \in SUBSET Resident, flush_pages(todo)
  PROVE  GInv'
<1>1. /\ op.pc = "idle" /\ op'.pc = "flushing" /\ op'.todo = todo
      /\ UNCHANGED <<guard, stolen, page_table, free_frames, frame_data, is_dirty, pin_count,
                     evictable_pages, poisoned, next_page_id, disk, latest, arc_vars>>
  BY DEF flush_pages, frame_vars, table_vars, arc_vars, history, Idle
<1>2. IInv'
  BY <1>1, QuietStep DEF GInv
<1>3. TypeOK /\ Resident' = Resident
  BY <1>1 DEF GInv, Typed, Resident
<1>4. ArcTypeOK'
  BY <1>1, <1>3 DEF TypeOK, ArcTypeOK, arc_vars
<1>5. OpTypes' /\ OpOrder' /\ DeletedIsForgotten'
  BY <1>1, <1>3 DEF OpTypes, OpOrder, DeletedIsForgotten, Making, Evicting
<1>6. OnlyMade'
  BY <1>1, SameMade DEF GInv, OnlyMade
<1>7. NoUpdateLost'
  BY <1>1, SameContent
<1> QED BY <1>1, <1>2, <1>3, <1>4, <1>5, <1>6, <1>7, OpMoves
        DEF frame_vars, TypeOK, PoolTypeOK

LEMMA FlushNextKeepsGInv ==
  ASSUME GInv, flush_next
  PROVE  GInv'
<1>1. /\ op.pc = "flushing" /\ ~Live(Flusher) /\ Flusher \in AnyGuard
      /\ UNCHANGED <<guard, stolen, page_table, free_frames, frame_data, is_dirty, pin_count,
                     evictable_pages, poisoned, next_page_id, disk, latest, arc_vars>>
  BY DEF flush_next, frame_vars, table_vars, arc_vars, history, AnyGuard
<1>2. \/ op'.pc = "idle"
      \/ \E p \in op.todo :
           /\ op'.pc = "pin" /\ op'.guard = Flusher /\ op'.page = p
           /\ op'.frame = page_table[p] /\ op'.fresh = FALSE /\ op'.todo = op.todo \ {p}
  BY DEF flush_next, MakeGuard, Idle
<1>3. IInv'
  BY PoolSteps DEF GInv
<1>4. TypeOK /\ Resident' = Resident /\ op.todo \subseteq Resident
  BY <1>1 DEF GInv, Typed, Resident, OpOrder
<1>5. \A p \in Resident : p \in PageId /\ page_table[p] \in FrameId
  BY <1>4 DEF TypeOK, PoolTypeOK
<1>6. ArcTypeOK'
  BY <1>1, <1>4 DEF TypeOK, ArcTypeOK, arc_vars
<1>7. OpTypes' /\ OpOrder' /\ DeletedIsForgotten'
  BY <1>1, <1>2, <1>4, <1>5 DEF OpTypes, OpOrder, DeletedIsForgotten, Making, Evicting, Live
<1>8. OnlyMade'
  BY <1>1, <1>2, SameMade DEF GInv, OnlyMade
<1>9. NoUpdateLost'
  BY <1>1, <1>2, SameContent
<1> QED BY <1>1, <1>2, <1>3, <1>4, <1>6, <1>7, <1>8, <1>9, OpMoves
        DEF frame_vars, TypeOK, PoolTypeOK

LEMMA DeleteRemoveKeepsGInv ==
  ASSUME GInv, delete_remove
  PROVE  GInv'
<1>1. /\ op.pc = "remove" /\ op'.pc = "erase" /\ op'.page = op.page /\ op'.frame = op.frame
      /\ remove(op.frame)
      /\ UNCHANGED <<guard, stolen, page_table, free_frames, frame_data, is_dirty, pin_count,
                     next_page_id, disk, latest>>
  BY DEF delete_remove, frame_vars, table_vars, history
<1>2. evictable_pages' = evictable_pages /\ poisoned' = poisoned
  BY <1>1 DEF remove, arc_vars
<1>3. IInv'
  BY DeleteRemove DEF GInv
<1>4. TypeOK /\ OpTypes /\ OpOrder /\ Resident' = Resident
  BY <1>1 DEF GInv, Typed, Resident
<1>5. ArcTypeOK'
  BY <1>1, <1>4, RemoveTypes DEF TypeOK
<1>6. OpTypes' /\ OpOrder'
  BY <1>1, <1>4 DEF OpTypes, OpOrder, Making, Evicting
<1>7. DeletedIsForgotten'
  BY <1>1 DEF GInv, DeletedIsForgotten
<1>8. OnlyMade'
  BY <1>1, SameMade DEF GInv, OnlyMade
<1>9. NoUpdateLost'
  BY <1>1, SameContent
<1> QED BY <1>1, <1>2, <1>3, <1>4, <1>5, <1>6, <1>7, <1>8, <1>9, OpMoves
        DEF frame_vars, TypeOK, PoolTypeOK

-----------------------------------------------------------------------------
(* The steps of the calls that move a page or a frame.                     *)

(* The victim leaves the page table.  Its content is in its frame still,   *)
(* and a guard on it makes the step a theft.                               *)
LEMMA CheckEvictKeepsGInv ==
  ASSUME GInv, NEW g \in Guard, NEW p \in PageId, check_page(g, p), check_evict(g, p)
  PROVE  GInv'
<1>1. /\ op = Idle /\ op.pc = "idle" /\ ~Live(g) /\ p \notin Resident /\ free_frames = <<>>
      /\ g \in AnyGuard /\ disk[p] # Absent
      /\ UNCHANGED <<guard, frame_data, is_dirty, pin_count, next_page_id, disk, latest>>
  BY DEF check_page, check_evict, frame_vars, Idle, AnyGuard
<1>2. PICK f \in FrameId :
        /\ evict(f) /\ free_frames' = Append(free_frames, f)
        /\ \E old \in Resident :
             /\ page_table[old] = f
             /\ page_table' = WithoutPage(old)
             /\ op' = [pc |-> "copy_out", guard |-> g, page |-> p,
                       frame |-> f, old |-> old]
  BY <1>1, VictimIsMapped DEF GInv, check_evict
<1>3. PICK old \in Resident :
        /\ page_table[old] = f
        /\ page_table' = WithoutPage(old)
        /\ op' = [pc |-> "copy_out", guard |-> g, page |-> p,
                  frame |-> f, old |-> old]
  BY <1>2
<1>4. /\ op'.pc = "copy_out" /\ op'.guard = g /\ op'.page = p /\ op'.frame = f
      /\ op'.old = old
  BY <1>3
<1>5. /\ f \in evictable_pages /\ evictable_pages' = evictable_pages \ {f}
      /\ poisoned' = poisoned
  BY <1>2, EvictTakesReported DEF evict, evict_from_mru_ghost, evict_from_mfu_ghost
<1>6. stolen \in BOOLEAN /\ stolen' = (stolen \/ PinsOn(f) # {})
  <2>1. stolen' = (stolen \/ \E h \in evictable_pages \ evictable_pages' : PinsOn(h) # {})
    BY DEF check_page
  <2>2. evictable_pages \ evictable_pages' = {f}
    BY <1>5
  <2> QED BY <2>1, <2>2 DEF GInv, Typed, TypeOK, PoolTypeOK
<1>7. /\ Typed /\ TypeOK /\ page_table \in [Resident -> FrameId] /\ IsInjective(page_table)
      /\ Resident \subseteq PageId
  BY DEF GInv, Typed, TypeOK, PoolTypeOK, IInv, FramePartition
<1>8. /\ Resident' = Resident \ {old}
      /\ \A q \in Resident' : page_table'[q] = page_table[q]
      /\ Range(page_table') = Range(page_table) \ {f}
  BY <1>3, <1>7, TakePageOut DEF Resident, WithoutPage
<1>9. IInv'
  BY CheckPage DEF GInv
<1>10. SameGuards /\ GuardTypes' /\ BeingPinned' = BeingPinned
  BY <1>1, <1>4, <1>7, UnchangedIsSame DEF Typed, GuardTypes, BeingPinned
<1>11. Panicked' = Panicked
  BY <1>1, <1>4, <1>5 DEF Panicked
<1>12. ArcTypeOK'
  BY <1>2, <1>7, EvictTypes DEF TypeOK
<1>13. TypeOK'
  BY <1>1, <1>6, <1>7, <1>8, <1>9, <1>12 DEF TypeOK, PoolTypeOK, IInv, PoolShape
<1>14. OpTypes' /\ DeletedIsForgotten'
  BY <1>4, <1>7, <1>1 DEF OpTypes, Making, DeletedIsForgotten
<1>15. OpOrder'
  <2>1. free_frames' = <<f>>
    BY <1>1, <1>2
  <2> QED BY <1>1, <1>4, <2>1 DEF OpOrder, Making, Evicting, Live
<1>16. OnlyMade'
  BY <1>1, <1>4, <1>7, <1>8 DEF GInv, OnlyMade, Pins
<1>17. PinCountIsGuards'
  BY <1>1, <1>6, <1>7, <1>10, KeepPinCount DEF GInv
<1>18. GuardsOnTheirPage'
  <2>1. \A q \in Resident :
          ~stolen' /\ PinsOn(page_table[q]) # {} =>
            q \in Resident' /\ page_table'[q] = page_table[q]
    BY <1>3, <1>6, <1>8
  <2> QED BY <1>6, <1>7, <1>10, <2>1, KeepOnPage DEF GInv
<1>19. NoUpdateLost'
  <2>1. Content(old)' = frame_data[f] /\ Content(old) = frame_data[f]
    BY <1>1, <1>3, <1>4, <1>8 DEF Content
  <2>2. \A q \in PageId : q # old => Content(q)' = Content(q)
    BY <1>1, <1>4, <1>8 DEF Content
  <2> QED BY <1>1, <1>6, <2>1, <2>2 DEF GInv, NoUpdateLost
<1>20. UnusedFramesAreEvictable'
  <2>1. ASSUME NEW h \in FrameId, Unused(h)'
        PROVE  Unused(h) /\ (h \in evictable_pages => h \in evictable_pages')
    <3>1. h \in Range(page_table) /\ h # f
      BY <1>8, <2>1 DEF Unused
    <3>2. Unused(h)
      BY <1>1, <1>7, <1>10, <2>1, <3>1, SameUnused
    <3> QED BY <1>5, <3>1, <3>2
  <2> QED BY <1>6, <1>11, <2>1, KeepUnused DEF GInv
<1> QED BY <1>9, <1>10, <1>13, <1>14, <1>15, <1>16, <1>17, <1>18, <1>19, <1>20
        DEF GInv, Typed

(* reset, of a frame that is in no page's entry: its bytes and its pin     *)
(* count are nobody's.                                                     *)
LEMMA ResetUnmapped ==
  ASSUME GInv, guard' = guard, stolen' = stolen, NEW f \in FrameId, reset(f),
         f \notin Range(page_table), BeingPinned = {}, BeingPinned' = {}
  PROVE  /\ frame_data' \in [FrameId -> Data]
         /\ pin_count' \in [FrameId -> 0 .. USize - 1]
         /\ is_dirty' \in [FrameId -> BOOLEAN]
         /\ \A q \in Resident : frame_data'[page_table[q]] = frame_data[page_table[q]]
         /\ PinCountIsGuards'
<1>1. /\ frame_data \in [FrameId -> Data] /\ pin_count \in [FrameId -> 0 .. USize - 1]
      /\ is_dirty \in [FrameId -> BOOLEAN] /\ page_table \in [Resident -> FrameId]
      /\ GuardTypes
  BY DEF GInv, Typed, TypeOK, PoolTypeOK
<1>2. 0 \in 0 .. USize - 1
  BY PoolAssumption, FS_CardinalityType
<1>3. /\ frame_data' \in [FrameId -> Data] /\ is_dirty' \in [FrameId -> BOOLEAN]
      /\ pin_count' \in [FrameId -> 0 .. USize - 1]
  BY <1>1, <1>2, PoolAssumption DEF reset
<1>4. pin_count'[f] = 0 /\ \A h \in FrameId : h # f => pin_count'[h] = pin_count[h]
  BY <1>1 DEF reset
<1>5. \A q \in Resident : frame_data'[page_table[q]] = frame_data[page_table[q]]
  <2>1. \A q \in Resident : page_table[q] # f
    BY DEF Range, Resident
  <2> QED BY <1>1, <2>1 DEF reset
<1>6. PinCountIsGuards'
  <2> SUFFICES ASSUME ~stolen, NEW h \in FrameId
               PROVE  pin_count'[h] = Cardinality(PinsOn(h)') + Cardinality(BeingPinned' \cap {h})
    BY DEF PinCountIsGuards
  <2>1. PinsOn(h)' = PinsOn(h)
    BY DEF PinsOn, Pins
  <2>2. BeingPinned' \cap {h} = BeingPinned \cap {h}
    OBVIOUS
  <2>3. CASE h # f
    BY <1>4, <2>1, <2>2, <2>3 DEF GInv, PinCountIsGuards
  <2>4. CASE h = f
    <3>1. PinsOn(f) = {}
      BY UnmappedHasNoPins DEF GInv
    <3>2. Cardinality(PinsOn(f)) = 0 /\ Cardinality(BeingPinned \cap {f}) = 0
      BY <3>1, BeingPinnedIsOne, FS_EmptySet
    <3> QED BY <1>4, <2>1, <2>2, <2>4, <3>2
  <2> QED BY <2>3, <2>4
<1> QED BY <1>3, <1>5, <1>6

(* The steps of the calls that reset a frame and leave the page table. *)
LEMMA ResetMoves ==
  ASSUME GInv, UNCHANGED <<guard, stolen, page_table, next_page_id, latest, arc_vars>>,
         NEW f \in FrameId, reset(f), f \notin Range(page_table),
         op.pc \in {"reset", "erase"}, op'.pc \in {"load", "idle"},
         disk' \in [PageId -> Data \cup {Absent}],
         IInv', OpTypes', OpOrder', OnlyMade',
         ~stolen => \A q \in PageId : latest[q] # Absent => disk'[q] = disk[q]
  PROVE  GInv'
<1>1. BeingPinned = {} /\ BeingPinned' = {} /\ Resident' = Resident
  BY DEF BeingPinned, Resident
<1>2. /\ frame_data' \in [FrameId -> Data]
      /\ pin_count' \in [FrameId -> 0 .. USize - 1]
      /\ is_dirty' \in [FrameId -> BOOLEAN]
      /\ \A q \in Resident : frame_data'[page_table[q]] = frame_data[page_table[q]]
      /\ PinCountIsGuards'
  BY <1>1, ResetUnmapped
<1>3. SameGuards /\ GuardTypes' /\ Typed /\ TypeOK
  BY UnchangedIsSame DEF GInv, Typed, GuardTypes
<1>4. evictable_pages' = evictable_pages /\ Panicked' = Panicked
  BY DEF arc_vars, Panicked
<1>5. TypeOK'
  BY <1>1, <1>2, <1>3 DEF TypeOK, ArcTypeOK, PoolTypeOK, IInv, PoolShape, arc_vars
<1>6. GuardsOnTheirPage'
  BY <1>1, <1>3, KeepOnPage DEF GInv
<1>7. DeletedIsForgotten'
  BY DEF DeletedIsForgotten
<1>8. NoUpdateLost'
  <2>1. \A q \in PageId : Content(q)' = IF q \in Resident THEN Content(q) ELSE disk'[q]
    BY <1>1, <1>2 DEF Content
  <2>2. \A q \in PageId : q \notin Resident => Content(q) = disk[q]
    BY DEF Content
  <2> QED BY <2>1, <2>2 DEF GInv, NoUpdateLost
<1>9. UnusedFramesAreEvictable'
  <2>1. ASSUME NEW h \in FrameId, Unused(h)' PROVE Unused(h)
    <3>1. h \in Range(page_table)
      BY <2>1 DEF Unused
    <3> QED BY <1>3, <2>1, <3>1, SameUnused
  <2> QED BY <1>4, <2>1, KeepUnused DEF GInv
<1> QED BY <1>2, <1>3, <1>5, <1>6, <1>7, <1>8, <1>9 DEF GInv, Typed

LEMMA ResetVictimKeepsGInv ==
  ASSUME GInv, reset_victim
  PROVE  GInv'
<1>1. PICK f \in FrameId : f = op.frame
  BY DEF GInv, Typed, OpTypes, Making, reset_victim
<1>2. op.pc = "reset" /\ free_frames = <<f>> /\ OpTypes /\ OpOrder
  BY <1>1 DEF GInv, Typed, OpOrder, Evicting, reset_victim
<1>3. Last(free_frames) = f /\ f \in Range(free_frames)
  BY <1>2 DEF Last, Range
<1>4. /\ reset(f) /\ op'.pc = "load" /\ op'.guard = op.guard /\ op'.page = op.page
      /\ op'.frame = f
      /\ UNCHANGED <<guard, stolen, page_table, next_page_id, latest, arc_vars, disk>>
  BY <1>1, <1>3 DEF reset_victim, history
<1>5. f \notin Range(page_table)
  BY <1>3 DEF GInv, IInv, FramePartition
<1>6. IInv'
  BY ResetVictim DEF GInv
<1>7. OpTypes' /\ OpOrder'
  BY <1>2, <1>4 DEF OpTypes, OpOrder, Making, Evicting, Live
<1>8. OnlyMade'
  BY <1>4, SameMade DEF GInv, OnlyMade
<1>9. disk' \in [PageId -> Data \cup {Absent}]
  BY <1>4 DEF GInv, Typed, TypeOK, PoolTypeOK
<1> QED BY <1>2, <1>4, <1>5, <1>6, <1>7, <1>8, <1>9, ResetMoves

LEMMA DeleteEraseKeepsGInv ==
  ASSUME GInv, delete_erase
  PROVE  GInv'
<1>1. op.pc = "erase" /\ OpTypes /\ OpOrder
  BY DEF delete_erase, GInv, Typed
<1>2. PICK f \in FrameId, p \in PageId : f = op.frame /\ p = op.page
  BY <1>1 DEF OpTypes
<1>3. /\ reset(f) /\ op'.pc = "idle" /\ disk' = [disk EXCEPT ![p] = Absent]
      /\ UNCHANGED <<guard, stolen, page_table, next_page_id, latest, arc_vars>>
  BY <1>2 DEF delete_erase, history, Idle
<1>4. f \notin Range(page_table)
  BY <1>1, <1>2 DEF GInv, IInv, FramePartition, InHand
<1>5. IInv'
  BY DeleteErase DEF GInv
<1>6. OpTypes' /\ OpOrder'
  BY <1>3 DEF OpTypes, OpOrder, Making, Evicting
<1>7. disk \in [PageId -> Data \cup {Absent}]
  BY DEF GInv, Typed, TypeOK, PoolTypeOK
<1>8. /\ disk' \in [PageId -> Data \cup {Absent}] /\ disk'[p] = Absent
      /\ \A q \in PageId : q # p => disk'[q] = disk[q]
  BY <1>3, <1>7
<1>9. OnlyMade'
  <2>1. \A q \in PageId : disk'[q] # Absent => q < next_page_id
    BY <1>8 DEF GInv, OnlyMade
  <2> QED BY <1>3, <2>1, SameMade
<1>10. ~stolen => latest[p] = Absent
  BY <1>1, <1>2 DEF GInv, DeletedIsForgotten
<1> QED BY <1>1, <1>3, <1>4, <1>5, <1>6, <1>8, <1>9, <1>10, ResetMoves

(* The page that was read is in its frame, and its guard is to be made. *)
LEMMA LoadKeepsGInv ==
  ASSUME GInv, load
  PROVE  GInv'
<1>1. op.pc = "load" /\ OpTypes /\ OpOrder /\ Typed /\ TypeOK
  BY DEF load, GInv, Typed
<1>2. PICK f \in FrameId, p \in PageId : f = op.frame /\ p = op.page
  BY <1>1 DEF OpTypes, Making
<1>3. /\ frame_data' = [frame_data EXCEPT ![f] = disk[p]]
      /\ page_table' = WithPage(p, f)
      /\ op'.pc = "pin" /\ op'.guard = op.guard /\ op'.page = p /\ op'.frame = f
      /\ op'.fresh = TRUE /\ op'.todo = {}
      /\ UNCHANGED <<arc_vars, evictable_pages, poisoned, next_page_id, free_frames, pin_count,
                     is_dirty, disk, guard, latest, stolen>>
  BY <1>2 DEF load, MakeGuard, history, arc_vars
<1>4. /\ f \notin Range(page_table) /\ p \notin Resident
      /\ IsInjective(page_table) /\ page_table \in [Resident -> FrameId]
  BY <1>1, <1>2 DEF GInv, IInv, PoolShape, FramePartition, InHand
<1>5. /\ Resident' = Resident \cup {p} /\ page_table'[p] = f
      /\ \A q \in Resident : page_table'[q] = page_table[q] /\ page_table[q] # f
      /\ Range(page_table') = Range(page_table) \cup {f}
  <2>1. \A q \in Resident : page_table[q] # f
    BY <1>4 DEF Range, Resident
  <2>2. Resident' = Resident \cup {p} /\ Range(page_table') = Range(page_table) \cup {f}
    BY <1>3, <1>4, EnterPage DEF Resident
  <2>3. page_table'[p] = f /\ \A q \in Resident : page_table'[q] = page_table[q]
    BY <1>3, <1>4 DEF WithPage
  <2> QED BY <2>1, <2>2, <2>3
<1>6. /\ disk[p] \in Data /\ disk[p] # Absent /\ frame_data \in [FrameId -> Data]
      /\ Resident \subseteq PageId
  BY <1>1, <1>2 DEF OpOrder, TypeOK, PoolTypeOK
<1>7. /\ frame_data' \in [FrameId -> Data] /\ frame_data'[f] = disk[p]
      /\ \A h \in FrameId : h # f => frame_data'[h] = frame_data[h]
  BY <1>3, <1>6
<1>8. IInv'
  BY Load DEF GInv
<1>9. SameGuards /\ GuardTypes' /\ BeingPinned' = BeingPinned /\ Panicked' = Panicked
  BY <1>1, <1>3, UnchangedIsSame DEF Typed, GuardTypes, BeingPinned, Panicked
<1>10. TypeOK'
  BY <1>1, <1>3, <1>5, <1>6, <1>7, <1>8
     DEF TypeOK, ArcTypeOK, PoolTypeOK, IInv, PoolShape, arc_vars
<1>11. OpTypes' /\ OpOrder' /\ DeletedIsForgotten'
  BY <1>1, <1>2, <1>3, <1>5 DEF OpTypes, OpOrder, Making, Evicting, Live, DeletedIsForgotten
<1>12. OnlyMade'
  BY <1>3, <1>5, <1>6 DEF GInv, OnlyMade, Pins
<1>13. PinCountIsGuards'
  BY <1>1, <1>3, <1>9, KeepPinCount DEF GInv
<1>14. GuardsOnTheirPage'
  BY <1>1, <1>3, <1>5, <1>9, KeepOnPage DEF GInv
<1>15. NoUpdateLost'
  <2>1. Content(p)' = disk[p] /\ Content(p) = disk[p]
    BY <1>1, <1>4, <1>5, <1>7 DEF Content
  <2>2. ASSUME NEW q \in PageId, q # p PROVE Content(q)' = Content(q)
    <3>1. q \in Resident => frame_data'[page_table[q]] = frame_data[page_table[q]]
      BY <1>4, <1>5, <1>7
    <3> QED BY <1>1, <1>3, <1>5, <2>2, <3>1 DEF Content
  <2> QED BY <1>3, <2>1, <2>2 DEF GInv, NoUpdateLost
<1>16. UnusedFramesAreEvictable'
  <2>1. ASSUME NEW h \in FrameId, Unused(h)' PROVE Unused(h)
    <3>1. h \in Range(page_table) /\ h # f
      BY <1>3, <1>5, <2>1 DEF Unused
    <3> QED BY <1>1, <1>9, <2>1, <3>1, SameUnused
  <2> QED BY <1>3, <1>9, <2>1, KeepUnused DEF GInv
<1> QED BY <1>8, <1>9, <1>10, <1>11, <1>12, <1>13, <1>14, <1>15, <1>16 DEF GInv, Typed

(* The page that is deleted has no guard: its pin count is 0. *)
LEMMA DeletePageKeepsGInv ==
  ASSUME GInv, NEW p \in PageId, delete_page(p)
  PROVE  GInv'
<1>1. /\ op.pc = "idle" /\ p \in Resident /\ Typed /\ TypeOK
      /\ page_table \in [Resident -> FrameId] /\ IsInjective(page_table)
  BY DEF delete_page, Idle, GInv, Typed, TypeOK, PoolTypeOK, IInv, FramePartition
<1>2. PICK f \in FrameId : f = page_table[p]
  BY <1>1
<1>3. /\ pin_count[f] = 0 /\ page_table' = WithoutPage(p)
      /\ op'.pc = "remove" /\ op'.page = p /\ op'.frame = f
      /\ latest' = [latest EXCEPT ![p] = Absent]
      /\ UNCHANGED <<arc_vars, evictable_pages, poisoned, next_page_id, free_frames, pin_count,
                     is_dirty, frame_data, disk, guard, stolen>>
  BY <1>2 DEF delete_page, Unpinned, frame_vars, arc_vars
<1>4. /\ Resident' = Resident \ {p}
      /\ \A q \in Resident' : page_table'[q] = page_table[q]
      /\ Range(page_table') = Range(page_table) \ {f}
  BY <1>1, <1>2, <1>3, TakePageOut DEF Resident, WithoutPage
<1>5. latest \in [PageId -> Data \cup {Absent}]
  BY <1>1 DEF TypeOK, PoolTypeOK
<1>6. /\ latest' \in [PageId -> Data \cup {Absent}] /\ latest'[p] = Absent
      /\ \A q \in PageId : q # p => latest'[q] = latest[q]
  BY <1>3, <1>5
<1>7. IInv'
  BY DeletePage DEF GInv
<1>8. SameGuards /\ GuardTypes' /\ BeingPinned' = BeingPinned /\ Panicked' = Panicked
  BY <1>1, <1>3, UnchangedIsSame DEF Typed, GuardTypes, BeingPinned, Panicked
<1>9. TypeOK'
  BY <1>1, <1>3, <1>4, <1>6, <1>7
     DEF TypeOK, ArcTypeOK, PoolTypeOK, IInv, PoolShape, arc_vars
<1>10. OpTypes' /\ OpOrder' /\ DeletedIsForgotten'
  BY <1>3, <1>4, <1>6 DEF OpTypes, OpOrder, Making, Evicting, DeletedIsForgotten
<1>11. OnlyMade'
  BY <1>3, <1>4 DEF GInv, OnlyMade, Pins
<1>12. PinCountIsGuards'
  BY <1>1, <1>3, <1>8, KeepPinCount DEF GInv
<1>13. GuardsOnTheirPage'
  <2>1. ~stolen => PinsOn(f) = {}
    <3>1. Cardinality(PinsOn(f)) \in Nat /\ Cardinality(BeingPinned \cap {f}) \in Nat
      BY PinsAreFinite, BeingPinnedIsOne
    <3>2. ~stolen => Cardinality(PinsOn(f)) + Cardinality(BeingPinned \cap {f}) = 0
      BY <1>3 DEF GInv, PinCountIsGuards
    <3>3. ~stolen => Cardinality(PinsOn(f)) = 0
      BY <3>1, <3>2
    <3> QED BY <3>3, PinsAreFinite, FS_EmptySet
  <2>2. \A q \in Resident :
          ~stolen' /\ PinsOn(page_table[q]) # {} =>
            q \in Resident' /\ page_table'[q] = page_table[q]
    BY <1>2, <1>3, <1>4, <2>1
  <2> QED BY <1>1, <1>3, <1>8, <2>2, KeepOnPage DEF GInv
<1>14. NoUpdateLost'
  <2>1. \A q \in PageId : q # p => Content(q)' = Content(q)
    BY <1>1, <1>3, <1>4 DEF Content
  <2> QED BY <1>3, <1>6, <2>1 DEF GInv, NoUpdateLost
<1>15. UnusedFramesAreEvictable'
  <2>1. ASSUME NEW h \in FrameId, Unused(h)' PROVE Unused(h)
    <3>1. h \in Range(page_table)
      BY <1>4, <2>1 DEF Unused
    <3> QED BY <1>1, <1>8, <2>1, <3>1, SameUnused
  <2> QED BY <1>3, <1>8, <2>1, KeepUnused DEF GInv
<1> QED BY <1>7, <1>8, <1>9, <1>10, <1>11, <1>12, <1>13, <1>14, <1>15 DEF GInv, Typed

-----------------------------------------------------------------------------
(* The making of a guard.                                                  *)

(* fetch_add: the guard is counted before it exists, and the count does    *)
(* not wrap because this guard is not one of those on the frame.           *)
LEMMA PinKeepsGInv ==
  ASSUME GInv, pin
  PROVE  GInv'
<1>1. op.pc = "pin" /\ OpTypes /\ OpOrder /\ Typed /\ TypeOK
  BY DEF pin, GInv, Typed
<1>2. PICK f \in FrameId : f = op.frame
  BY <1>1 DEF OpTypes, Making
<1>3. /\ pin_count' = [pin_count EXCEPT ![f] = (pin_count[f] + 1) % USize]
      /\ op'.pc = "record" /\ op'.guard = op.guard /\ op'.page = op.page /\ op'.frame = f
      /\ op'.fresh = op.fresh /\ op'.todo = op.todo
      /\ UNCHANGED <<arc_vars, evictable_pages, poisoned, next_page_id, page_table, free_frames,
                     is_dirty, frame_data, disk, guard, latest, stolen>>
  BY <1>2 DEF pin, OnePinMore, table_vars, history, arc_vars
<1>4. PICK u \in Nat \ {0} : u = USize
  BY PoolAssumption, FS_CardinalityType
<1>5. pin_count \in [FrameId -> 0 .. u - 1]
  BY <1>1, <1>4 DEF TypeOK, PoolTypeOK
<1>6. pin_count' \in [FrameId -> 0 .. u - 1]
  <2>1. pin_count[f] \in Int
    BY <1>5
  <2>2. (pin_count[f] + 1) % u \in 0 .. u - 1
    BY <2>1
  <2> QED BY <1>3, <1>4, <1>5, <2>2
<1>7. IInv'
  BY PoolSteps DEF GInv
<1>8. /\ SameGuards /\ GuardTypes' /\ Panicked' = Panicked /\ Resident' = Resident
      /\ BeingPinned = {} /\ BeingPinned' = {f}
  BY <1>1, <1>3, UnchangedIsSame DEF Typed, GuardTypes, Panicked, Resident, BeingPinned
<1>9. TypeOK'
  BY <1>1, <1>3, <1>4, <1>6, <1>8 DEF TypeOK, ArcTypeOK, PoolTypeOK, arc_vars
<1>10. OpTypes' /\ OpOrder' /\ DeletedIsForgotten'
  BY <1>1, <1>2, <1>3, <1>8 DEF OpTypes, OpOrder, Making, Evicting, Live, DeletedIsForgotten
<1>11. OnlyMade'
  BY <1>3, SameMade DEF GInv, OnlyMade
<1>12. PinCountIsGuards'
  <2> SUFFICES ASSUME ~stolen, NEW h \in FrameId
               PROVE  pin_count'[h] = Cardinality(PinsOn(h)') + Cardinality(BeingPinned' \cap {h})
    BY <1>3 DEF PinCountIsGuards
  <2>1. PinsOn(h)' = PinsOn(h)
    BY <1>3 DEF PinsOn, Pins
  <2>2. pin_count[h] = Cardinality(PinsOn(h)) + Cardinality(BeingPinned \cap {h})
    BY DEF GInv, PinCountIsGuards
  <2>3. Cardinality(BeingPinned \cap {h}) = 0
    BY <1>8, BeingPinnedIsOne
  <2>4. CASE h # f
    <3>1. BeingPinned' \cap {h} = BeingPinned \cap {h}
      BY <1>8, <2>4
    <3> QED BY <1>3, <1>5, <2>1, <2>2, <2>4, <3>1
  <2>5. CASE h = f
    <3>1. BeingPinned' \cap {f} = {f} /\ Cardinality({f}) = 1
      BY <1>8, FS_Singleton
    <3>2. op.guard \in AnyGuard /\ op.guard \notin PinsOn(f)
      BY <1>1, GuardFields DEF OpTypes, OpOrder, Making, PinsOn, Typed
    <3>3. PICK n \in Nat : n = Cardinality(PinsOn(f))
      BY PinsAreFinite
    <3>4. n + 1 < u
      BY <1>4, <3>2, <3>3, PinsAreFinite
    <3>5. (n + 1) % u = n + 1
      BY <3>4
    <3>6. pin_count[f] = n
      BY <2>2, <2>3, <2>5, <3>3
    <3>7. pin_count'[f] = n + 1
      BY <1>3, <1>4, <1>5, <3>5, <3>6
    <3> QED BY <2>1, <2>5, <3>1, <3>3, <3>7
  <2> QED BY <2>4, <2>5
<1>13. GuardsOnTheirPage'
  BY <1>1, <1>3, <1>8, KeepOnPage DEF GInv
<1>14. NoUpdateLost'
  BY <1>1, <1>3, SameContent
<1>15. UnusedFramesAreEvictable'
  <2>1. ASSUME NEW h \in FrameId, Unused(h)' PROVE Unused(h)
    <3>1. h \in Range(page_table) /\ op.frame # h
      BY <1>2, <1>3, <2>1 DEF Unused
    <3> QED BY <1>1, <1>8, <2>1, <3>1, SameUnused
  <2> QED BY <1>3, <1>8, <2>1, KeepUnused DEF GInv
<1> QED BY <1>7, <1>8, <1>9, <1>10, <1>11, <1>12, <1>13, <1>14, <1>15 DEF GInv, Typed

(* record_access, and the guard exists: it has the pin that was counted. *)
LEMMA RecordKeepsGInv ==
  ASSUME GInv, ~Panicked, record
  PROVE  GInv'
<1>1. op.pc = "record" /\ OpTypes /\ OpOrder /\ Typed /\ TypeOK /\ GuardTypes
  BY DEF record, GInv, Typed
<1>2. PICK f \in FrameId, p \in PageId, g \in AnyGuard :
        f = op.frame /\ p = op.page /\ g = op.guard
  BY <1>1 DEF OpTypes, Making
<1>3. PICK s \in PinningGuard :
        s.page = p /\ s.frame = f /\ guard' = [guard EXCEPT ![g] = s]
  <2>1. PICK mutable \in BOOLEAN :
          guard' = [guard EXCEPT ![op.guard] =
            [pc |-> IF op.guard = Flusher THEN "flush" ELSE "held",
             page |-> op.page, frame |-> op.frame, mutable |-> mutable]]
    BY DEF record
  <2>2. PICK s : s = [pc |-> IF g = Flusher THEN "flush" ELSE "held",
                      page |-> p, frame |-> f, mutable |-> mutable]
    OBVIOUS
  <2>3. s \in PinningGuard /\ s.page = p /\ s.frame = f
    BY <2>2 DEF PinningGuard, PinningPc
  <2> QED BY <1>2, <2>1, <2>2, <2>3
<1>4. guard'[g] = s /\ \A h \in AnyGuard : h # g => guard'[h] = guard[h]
  BY <1>1, <1>3 DEF GuardTypes
<1>5. GuardTypes' /\ Pins(g)' /\ Live(g)' /\ ~Live(g) /\ ~Pins(g)
  BY <1>1, <1>2, <1>3, <1>4, GuardFields
     DEF GuardTypes, Pins, Live, PinningGuard, PinningPc, OpOrder, Making
<1>6. /\ record_access(f, p)
      /\ op'.pc \in {"flushing", "idle"} /\ (op'.pc = "flushing" => op'.todo = op.todo)
      /\ UNCHANGED <<next_page_id, page_table, free_frames, pin_count, is_dirty, frame_data,
                     disk, latest, stolen>>
  BY <1>2 DEF record, Idle, table_vars, frame_vars, history
<1>7. evictable_pages' = evictable_pages
  BY <1>6 DEF record_access
<1>8. /\ Resident' = Resident /\ BeingPinned = {f} /\ BeingPinned' = {}
      /\ p \in Resident /\ page_table[p] = f
  BY <1>1, <1>2, <1>6 DEF Resident, BeingPinned, OpOrder
<1>9. IInv'
  BY PoolSteps DEF GInv
<1>10. ArcTypeOK'
  BY <1>1, <1>6, RecordAccessTypes DEF TypeOK
<1>11. TypeOK'
  BY <1>1, <1>6, <1>8, <1>10 DEF TypeOK, PoolTypeOK
<1>12. OpTypes' /\ OpOrder' /\ DeletedIsForgotten'
  BY <1>1, <1>6, <1>8 DEF OpTypes, OpOrder, Making, Evicting, DeletedIsForgotten
<1>13. OnlyMade'
  <2>1. \A h \in AnyGuard : Pins(h)' => guard'[h].page < next_page_id
    BY <1>3, <1>4, <1>8 DEF GInv, OnlyMade, Pins
  <2> QED BY <1>6, <1>8, <2>1 DEF GInv, OnlyMade
<1>14. PinCountIsGuards'
  <2> SUFFICES ASSUME ~stolen, NEW h \in FrameId
               PROVE  pin_count'[h] = Cardinality(PinsOn(h)') + Cardinality(BeingPinned' \cap {h})
    BY <1>6 DEF PinCountIsGuards
  <2>1. pin_count[h] = Cardinality(PinsOn(h)) + Cardinality(BeingPinned \cap {h})
    BY DEF GInv, PinCountIsGuards
  <2>2. CASE h # f
    <3>1. PinsOn(h)' = PinsOn(h)
      BY <1>3, <1>4, <1>5, <2>2 DEF PinsOn, Pins
    <3>2. BeingPinned' \cap {h} = BeingPinned \cap {h}
      BY <1>8, <2>2
    <3> QED BY <1>6, <2>1, <3>1, <3>2
  <2>3. CASE h = f
    <3>1. PinsOn(f)' = PinsOn(f) \cup {g} /\ g \notin PinsOn(f)
      BY <1>3, <1>4, <1>5 DEF PinsOn, Pins
    <3>2. PICK n \in Nat : n = Cardinality(PinsOn(f))
      BY PinsAreFinite
    <3>3. Cardinality(PinsOn(f) \cup {g}) = n + 1
      BY <3>1, <3>2, PinsAreFinite, FS_AddElement
    <3>4. Cardinality(BeingPinned \cap {f}) = 1
      BY <1>8, BeingPinnedIsOne
    <3>5. BeingPinned' \cap {f} = {} /\ Cardinality({}) = 0
      BY <1>8, FS_EmptySet
    <3>6. pin_count[f] = n + 1
      BY <2>1, <2>3, <3>2, <3>4
    <3> QED BY <1>6, <2>3, <3>1, <3>3, <3>5, <3>6
  <2> QED BY <2>2, <2>3
<1>15. GuardsOnTheirPage'
  <2>1. \A h \in AnyGuard : h # g /\ Pins(h)' => Pins(h) /\ guard'[h] = guard[h]
    BY <1>4 DEF Pins
  <2> QED BY <1>3, <1>4, <1>6, <1>8, <2>1 DEF GInv, GuardsOnTheirPage
<1>16. NoUpdateLost'
  BY <1>1, <1>6, SameContent
<1>17. UnusedFramesAreEvictable'
  <2>1. ASSUME NEW h \in FrameId, Unused(h)' PROVE Unused(h)
    <3>1. h # f
      BY <1>3, <1>4, <1>5, <2>1 DEF Unused
    <3>2. \A k \in AnyGuard : Live(k) => guard[k].frame # h
      BY <1>4, <1>5, <2>1 DEF Unused, Live
    <3> QED BY <1>2, <1>6, <2>1, <3>1, <3>2 DEF Unused
  <2> QED BY <1>6, <1>7, <2>1, KeepUnused DEF GInv
<1> QED BY <1>5, <1>9, <1>11, <1>12, <1>13, <1>14, <1>15, <1>16, <1>17 DEF GInv, Typed

(* record_access panics: the pin that was counted stays.                   *)
LEMMA RecordPanicsKeepsGInv ==
  ASSUME GInv, ~Panicked, record_panics
  PROVE  GInv'
<1>1. op.pc = "record" /\ OpTypes /\ OpOrder /\ Typed /\ TypeOK /\ GuardTypes
  BY DEF record_panics, GInv, Typed
<1>2. PICK f \in FrameId, p \in PageId : f = op.frame /\ p = op.page
  BY <1>1 DEF OpTypes, Making
<1>3. /\ record_access(f, p)
      /\ op'.pc = "record_failed" /\ op'.frame = f
      /\ UNCHANGED <<next_page_id, page_table, free_frames, pin_count, is_dirty, frame_data,
                     disk, guard, latest, stolen>>
  BY <1>2 DEF record_panics, table_vars, frame_vars, history
<1>4. /\ SameGuards /\ GuardTypes' /\ Panicked'
      /\ Resident' = Resident /\ BeingPinned' = BeingPinned
  BY <1>1, <1>2, <1>3, UnchangedIsSame
     DEF Typed, GuardTypes, Panicked, Resident, BeingPinned
<1>5. IInv'
  BY PoolSteps DEF GInv
<1>6. ArcTypeOK'
  BY <1>1, <1>3, RecordAccessTypes DEF TypeOK
<1>7. TypeOK'
  BY <1>1, <1>3, <1>4, <1>6 DEF TypeOK, PoolTypeOK
<1>8. OpTypes' /\ OpOrder' /\ DeletedIsForgotten'
  BY <1>3 DEF OpTypes, OpOrder, Making, Evicting, DeletedIsForgotten
<1>9. OnlyMade'
  BY <1>3, <1>4 DEF GInv, OnlyMade, Pins
<1>10. PinCountIsGuards'
  BY <1>1, <1>3, <1>4, KeepPinCount DEF GInv
<1>11. GuardsOnTheirPage'
  BY <1>1, <1>3, <1>4, KeepOnPage DEF GInv
<1>12. NoUpdateLost'
  BY <1>1, <1>3, <1>4, SameContent
<1>13. UnusedFramesAreEvictable'
  BY <1>4 DEF UnusedFramesAreEvictable
<1> QED BY <1>4, <1>5, <1>7, <1>8, <1>9, <1>10, <1>11, <1>12, <1>13 DEF GInv, Typed

-----------------------------------------------------------------------------
LEMMA InitGInv == Init => GInv
<1> SUFFICES ASSUME Init PROVE GInv
  OBVIOUS
<1>1. IInv
  BY InitIInv
<1>2. /\ Resident = {} /\ Range(page_table) = {} /\ op.pc = "idle" /\ BeingPinned = {}
      /\ stolen = FALSE /\ next_page_id = 0
  BY DEF Init, Resident, Range, Idle, BeingPinned
<1>3. \A g \in AnyGuard : guard[g] = NoGuard /\ ~Pins(g)
  BY DEF Init, Pins, NoGuard
<1>4. \A f \in FrameId : PinsOn(f) = {}
  BY <1>3 DEF PinsOn
<1>5. ArcTypeOK
  BY InitTypes DEF Init
<1>6. pin_count \in [FrameId -> 0 .. USize - 1]
  <2>1. 0 \in 0 .. USize - 1
    BY PoolAssumption, FS_CardinalityType
  <2> QED BY <2>1 DEF Init
<1>7. TypeOK
  <2>1. page_table \in [Resident -> FrameId] /\ free_frames \in Seq(FrameId)
    BY <1>1 DEF IInv, PoolShape
  <2>2. /\ is_dirty \in [FrameId -> BOOLEAN] /\ frame_data \in [FrameId -> Data]
        /\ disk \in [PageId -> Data \cup {Absent}] /\ latest \in [PageId -> Data \cup {Absent}]
    BY PoolAssumption DEF Init
  <2> QED BY <1>2, <1>5, <1>6, <2>1, <2>2 DEF TypeOK, PoolTypeOK
<1>8. GuardTypes
  BY DEF Init, GuardTypes
<1>9. OpTypes /\ OpOrder /\ DeletedIsForgotten
  BY <1>2 DEF OpTypes, OpOrder, DeletedIsForgotten, Making, Evicting
<1>10. OnlyMade
  BY <1>2, <1>3 DEF Init, OnlyMade
<1>11. PinCountIsGuards
  <2>1. \A f \in FrameId : pin_count[f] = 0
    BY DEF Init
  <2>2. ASSUME NEW f \in FrameId
        PROVE  Cardinality(PinsOn(f)) = 0 /\ Cardinality(BeingPinned \cap {f}) = 0
    BY <1>2, <1>4, BeingPinnedIsOne, FS_EmptySet
  <2> QED BY <2>1, <2>2 DEF PinCountIsGuards
<1>12. GuardsOnTheirPage
  BY <1>3 DEF GuardsOnTheirPage
<1>13. NoUpdateLost
  BY DEF Init, NoUpdateLost
<1>14. UnusedFramesAreEvictable
  BY <1>2 DEF UnusedFramesAreEvictable, Unused
<1> QED BY <1>1, <1>7, <1>8, <1>9, <1>10, <1>11, <1>12, <1>13, <1>14 DEF GInv, Typed

LEMMA StutterKeepsGInv ==
  ASSUME GInv, UNCHANGED vars
  PROVE  GInv'
<1>1. /\ UNCHANGED <<arc_vars, next_page_id, page_table, free_frames, pin_count, is_dirty,
                     frame_data, disk, op, guard, latest, stolen>>
      /\ UNCHANGED <<mru, mfu, mru_ghost, mfu_ghost, mru_target_size, evictable_pages, poisoned>>
  BY DEF vars, table_vars, frame_vars, history, arc_vars
<1>2. IInv'
  BY <1>1, NothingMoves DEF GInv
<1>3. /\ Resident' = Resident /\ BeingPinned' = BeingPinned /\ Panicked' = Panicked
      /\ \A p : Content(p)' = Content(p)
      /\ \A g : (Live(g)' <=> Live(g)) /\ (Pins(g)' <=> Pins(g))
  BY <1>1 DEF Resident, BeingPinned, Panicked, Content, Live, Pins
<1>4. \A f : PinsOn(f)' = PinsOn(f) /\ (Unused(f)' <=> Unused(f))
  BY <1>1, <1>3 DEF PinsOn, Unused
<1>5. Typed'
  BY <1>1, <1>3 DEF GInv, Typed, TypeOK, ArcTypeOK, PoolTypeOK, GuardTypes, OpTypes
<1>6. OpOrder' /\ OnlyMade' /\ DeletedIsForgotten'
  BY <1>1, <1>3 DEF GInv, OpOrder, OnlyMade, DeletedIsForgotten
<1>7. PinCountIsGuards' /\ GuardsOnTheirPage' /\ NoUpdateLost' /\ UnusedFramesAreEvictable'
  BY <1>1, <1>3, <1>4
     DEF GInv, PinCountIsGuards, GuardsOnTheirPage, NoUpdateLost, UnusedFramesAreEvictable
<1> QED BY <1>2, <1>5, <1>6, <1>7 DEF GInv

LEMMA NextPreservesGInv ==
  ASSUME GInv, [NextFaulty]_vars
  PROVE  GInv'
<1>1. CASE ~Panicked /\ PoolContinues
  BY <1>1, CopyOutKeepsGInv, WriteBackKeepsGInv, ResetVictimKeepsGInv, LoadKeepsGInv,
     PinKeepsGInv, RecordKeepsGInv, RecordPanicsKeepsGInv, FlushNextKeepsGInv,
     DeleteRemoveKeepsGInv, DeleteEraseKeepsGInv
     DEF PoolContinues
<1>2. CASE PoolCalls
  <2>1. CASE new_page
    BY <2>1, NewPageKeepsGInv
  <2>2. CASE flush_all_pages \/ \E p \in PageId : flush_page(p)
    <3>1. \E todo \in SUBSET Resident : flush_pages(todo)
      BY <2>2 DEF flush_all_pages, flush_page
    <3> QED BY <3>1, FlushPagesKeepsGInv
  <2>3. ASSUME NEW p \in PageId, NEW g \in Guard, check_page(g, p)
        PROVE  GInv'
    <3>1. check_hit(g, p) \/ check_free(g, p) \/ check_evict(g, p) \/ check_no_victim(p)
      BY <2>3 DEF check_page
    <3> QED BY <2>3, <3>1, CheckHitKeepsGInv, CheckFreeKeepsGInv, CheckEvictKeepsGInv
  <2> QED BY <1>2, <2>1, <2>2, <2>3 DEF PoolCalls
<1>3. ASSUME NEW g \in AnyGuard, GuardContinues(g) \/ GuardCalls(g) \/ flush_store_err(g)
      PROVE  GInv'
  <2>1. CASE drop(g)
    BY <2>1, DropKeepsGInv
  <2>2. CASE drop_load(g)
    BY <2>2, DropLoadKeepsGInv
  <2>3. CASE drop_report(g)
    BY <2>3, DropReportKeepsGInv
  <2>4. CASE \/ data_mut(g) \/ lock(g) \/ write(g) \/ data(g) \/ end_read(g)
             \/ flush(g) \/ flush_clean(g)
    BY <2>4, GotoSteps, PinnedStepKeepsGInv
  <2>5. CASE flush_clone(g) \/ flush_store(g) \/ flush_store_err(g)
    BY <2>5, CloneStep, StoreStep, PinnedStepKeepsGInv
  <2> QED BY <1>3, <2>1, <2>2, <2>3, <2>4, <2>5 DEF GuardContinues, GuardCalls
<1>4. CASE \E p \in PageId : delete_page(p)
  BY <1>4, DeletePageKeepsGInv
<1>5. CASE UNCHANGED vars
  BY <1>5, StutterKeepsGInv
<1>6. CASE write_back_err \/ load_err
  BY <1>6, WriteBackKeepsGInv, LoadErrKeepsGInv
<1> QED BY <1>1, <1>2, <1>3, <1>4, <1>5, <1>6
        DEF NextFaulty, NextDelete, Next, Halted, RequestFails

LEMMA GInvHolds == SpecFaulty => []GInv
BY InitGInv, NextPreservesGInv, PTL DEF SpecFaulty

-----------------------------------------------------------------------------
(* The variables of the pool, its frames and its replacer keep their       *)
(* types: no access of buffer_pool.rs or arc_replacer.rs is out of bounds, *)
(* also with pages deleted and disk requests failing.                      *)
THEOREM PoolTypeCorrect == SpecFaulty => []TypeOK
<1>1. GInv => TypeOK
  BY DEF GInv, Typed
<1> QED BY GInvHolds, <1>1, PTL

(* The pin count of every frame is the number of guards on it, and the one *)
(* the running call has counted and not yet made.  The fetch_add and       *)
(* fetch_sub of guard.rs, which take no latch, neither lose a pin nor      *)
(* wrap, and reset never clears the count of a frame with a guard, until a *)
(* frame is evicted under a guard.                                         *)
THEOREM PinCountsAreExact == SpecFaulty => []PinCountIsGuards
<1>1. GInv => PinCountIsGuards
  BY DEF GInv
<1> QED BY GInvHolds, <1>1, PTL

(* A guard reads and writes the frame of its own page: neither delete_page *)
(* nor a load moves the page or puts another one in the frame, until a     *)
(* frame is evicted under a guard.                                         *)
THEOREM GuardsKeepTheirPage == SpecFaulty => []GuardsOnTheirPage
<1>1. GInv => GuardsOnTheirPage
  BY DEF GInv
<1> QED BY GInvHolds, <1>1, PTL

(* The content last given to a page is in its frame, in the copy that is   *)
(* being written back, or on disk, however flushes and changes overtake    *)
(* each other and whichever flush fails: buffer_pool.rs writes every       *)
(* victim back, clean or not.  Only a failing write back of the page       *)
(* itself, its deletion, or an eviction under a guard loses it.            *)
THEOREM UpdatesAreKept == SpecFaulty => []NoUpdateLost
<1>1. GInv => NoUpdateLost
  BY DEF GInv
<1> QED BY GInvHolds, <1>1, PTL

(* Whichever of several drops comes last reports the frame to the          *)
(* replacer: the fetch_sub, the load and the set_evictable of guard.rs,    *)
(* which other guards and calls may come between, leave no frame that      *)
(* nobody uses and that is not evictable.                                  *)
THEOREM UnusedFramesAreReported == SpecFaulty => []UnusedFramesAreEvictable
<1>1. GInv => UnusedFramesAreEvictable
  BY DEF GInv
<1> QED BY GInvHolds, <1>1, PTL

(* While no frame has been evicted under a guard, nobody has the lock of   *)
(* the frame that an eviction copies and resets, a load fills or a delete  *)
(* resets: buffer_pool.rs takes it with the latch held, and never waits.   *)
THEOREM RequestsNeverWait == SpecFaulty => []RequestsWaitForNobody
<1>1. ASSUME GInv PROVE RequestsWaitForNobody
  <2> SUFFICES ASSUME ~stolen, op.pc \in {"copy_out", "reset", "load", "erase"}
               PROVE  CanWrite(op.frame)
    BY DEF RequestsWaitForNobody
  <2>1. op.frame \notin Range(page_table)
    <3>1. CASE op.pc \in {"copy_out", "reset"}
      <4>1. free_frames = <<op.frame>>
        BY <1>1, <3>1 DEF GInv, OpOrder, Evicting
      <4>2. op.frame \in Range(free_frames)
        BY <4>1 DEF Range
      <4> QED BY <1>1, <4>2 DEF GInv, IInv, FramePartition
    <3>2. CASE op.pc \in {"load", "erase"}
      BY <1>1, <3>2 DEF GInv, IInv, FramePartition, InHand
    <3> QED BY <3>1, <3>2
  <2>2. PinsOn(op.frame) = {}
    BY <1>1, <2>1, UnmappedHasNoPins DEF GInv
  <2> QED BY <2>2 DEF CanWrite, CanRead, LockPoisoned, Writers, Readers
<1> QED BY GInvHolds, <1>1, PTL
-----------------------------------------------------------------------------
(***************************************************************************)
(* The pool uses the replacer as ArcClient says.  What the refinement maps *)
(* page_of to, as a function of the page table and of the running call.    *)
(***************************************************************************)
Removing(o, f) == o.pc = "remove" /\ o.frame = f
Entering(o, f) == o.pc \in {"pin", "record"} /\ o.frame = f /\ o.fresh
Holder(table, f) ==
  IF f \in Range(table) THEN CHOOSE p \in DOMAIN table : table[p] = f ELSE NoPage

PageIn(table, o, f) ==
  IF Removing(o, f) THEN o.page
  ELSE IF Entering(o, f) THEN NoPage
  ELSE Holder(table, f)

View == [f \in FrameId |-> PageOf(f)]

LEMMA PageOfIsPageIn ==
  /\ \A f : PageOf(f) = PageIn(page_table, op, f)
  /\ \A f : PageOf(f)' = PageIn(page_table', op', f)
BY Zenon DEF PageOf, PageIn, Removing, Entering, Holder, Resident

LEMMA HolderIs ==
  ASSUME NEW table, IsInjective(table), NEW f
  PROVE  /\ \A p \in DOMAIN table : table[p] = f => Holder(table, f) = p
         /\ f \notin Range(table) => Holder(table, f) = NoPage
<1>1. ASSUME NEW p \in DOMAIN table, table[p] = f PROVE Holder(table, f) = p
  <2>1. f \in Range(table)
    BY <1>1 DEF Range
  <2>2. \A q \in DOMAIN table : table[q] = f => q = p
    BY <1>1 DEF IsInjective
  <2> QED BY <1>1, <2>1, <2>2 DEF Holder
<1> QED BY <1>1 DEF Holder

(* The frames of the view, in a state of the invariant. *)
LEMMA ViewFacts ==
  ASSUME GInv, NEW f \in FrameId
  PROVE  /\ View[f] = PageOf(f)
         /\ View[f] # NoPage => View[f] \in PageId
         /\ View[f] # NoPage /\ ~Removing(op, f) =>
              View[f] \in Resident /\ page_table[View[f]] = f
         /\ ~Removing(op, f) /\ ~Entering(op, f) =>
              \A p \in Resident : page_table[p] = f => View[f] = p
<1>1. View[f] = PageIn(page_table, op, f) /\ View[f] = PageOf(f)
  BY PageOfIsPageIn DEF View
<1>2. IsInjective(page_table) /\ Resident \subseteq PageId
  BY DEF GInv, IInv, FramePartition, Typed, TypeOK, PoolTypeOK
<1>3. \A p \in Resident : page_table[p] = f => Holder(page_table, f) = p
  BY <1>2, HolderIs DEF Resident
<1>4. Holder(page_table, f) # NoPage =>
        Holder(page_table, f) \in Resident /\ page_table[Holder(page_table, f)] = f
  <2>1. CASE f \in Range(page_table)
    <3>1. PICK p \in Resident : page_table[p] = f
      BY <2>1 DEF Range, Resident
    <3> QED BY <1>3, <3>1
  <2> QED BY <2>1, <1>2, HolderIs
<1>5. Removing(op, f) => op.page \in PageId
  BY DEF Removing, GInv, Typed, OpTypes
<1> QED BY <1>1, <1>2, <1>3, <1>4, <1>5 DEF PageIn

-----------------------------------------------------------------------------
(* The calls of the replacer are the same ones in both modules. *)

LEMMA SameRecordAccess ==
  ASSUME NEW f, NEW p, record_access(f, p)
  PROVE  Replacer!record_access(f, p)
BY DEF record_access, HitResident, HitMruGhost, HitMfuGhost, Miss, Tracked, Without, Retain,
       Prepend, DropBack, RaisedTarget, LoweredTarget, LowerByOne, Panic, Range, Front,
       Replacer!record_access, Replacer!HitResident, Replacer!HitMruGhost,
       Replacer!HitMfuGhost, Replacer!Miss, Replacer!Tracked, Replacer!Without,
       Replacer!Retain, Replacer!Prepend, Replacer!DropBack, Replacer!RaisedTarget,
       Replacer!LoweredTarget, Replacer!LowerByOne, Replacer!Panic, Replacer!Range,
       Replacer!Front

LEMMA SameEvict ==
  ASSUME NEW f, evict(f)
  PROVE  Replacer!evict(f)
BY DEF evict, evict_from_mru_ghost, evict_from_mfu_ghost, IsVictim, HasEvictable, Prepend,
       RemoveAt, Replacer!evict, Replacer!evict_from_mru_ghost,
       Replacer!evict_from_mfu_ghost, Replacer!IsVictim, Replacer!HasEvictable,
       Replacer!Prepend, Replacer!RemoveAt

LEMMA SameRemove ==
  ASSUME NEW f, remove(f)
  PROVE  Replacer!remove(f)
BY DEF remove, WithoutFrame, Without, Retain, PagesOf, RemovedPage, LastPageOf, arc_vars,
       Replacer!remove, Replacer!WithoutFrame, Replacer!Without, Replacer!Retain,
       Replacer!PagesOf, Replacer!RemovedPage, Replacer!LastPageOf, Replacer!arc_vars

LEMMA SameSetEvictable ==
  ASSUME NEW f, set_evictable(f)
  PROVE  Replacer!set_evictable(f)
BY DEF set_evictable, Replacer!set_evictable

(* A step of the pool that is none of the client. *)
LEMMA ViewStays ==
  ASSUME UNCHANGED arc_vars, View' = View
  PROVE  UNCHANGED Replacer!vars
BY DEF View, arc_vars, Replacer!vars, Replacer!arc_vars

(* Nothing is being deleted or entered for the first time. *)
Quiet(o) == o.pc # "remove" /\ (o.pc \in {"pin", "record"} => ~o.fresh)

LEMMA QuietView ==
  ASSUME page_table' = page_table, Quiet(op), Quiet(op')
  PROVE  View' = View
<1>1. \A f \in FrameId : PageIn(page_table', op', f) = PageIn(page_table, op, f)
  BY DEF PageIn, Quiet, Removing, Entering
<1> QED BY <1>1, PageOfIsPageIn DEF View

(* Every step that leaves the replacer alone leaves the view alone. *)
LEMMA QuietCalls ==
  ASSUME GInv,
         \/ new_page \/ copy_out \/ write_back \/ write_back_err \/ reset_victim \/ load_err
         \/ \E todo : flush_pages(todo)
         \/ flush_next \/ delete_erase
         \/ \E g, p : check_page(g, p)
                      /\ (check_hit(g, p) \/ check_free(g, p) \/ check_no_victim(p))
  PROVE  UNCHANGED Replacer!vars
<1>1. page_table' = page_table /\ UNCHANGED arc_vars
  BY DEF new_page, copy_out, write_back, write_back_err, reset_victim, load_err, flush_pages,
         flush_next, delete_erase, check_hit, check_free, check_no_victim, table_vars
<1>2. Quiet(op)
  <2>1. CASE new_page \/ (\E todo : flush_pages(todo)) \/ (\E g, p : check_page(g, p))
    BY <2>1 DEF new_page, flush_pages, check_page, Idle, Quiet
  <2>2. CASE \/ copy_out \/ write_back \/ write_back_err \/ reset_victim \/ load_err
             \/ flush_next \/ delete_erase
    BY <2>2 DEF copy_out, write_back, write_back_err, reset_victim, load_err, flush_next,
                delete_erase, Quiet
  <2> QED BY <2>1, <2>2
<1>3. Quiet(op')
  <2>1. CASE new_page
    BY <1>2, <2>1 DEF new_page
  <2>2. CASE copy_out \/ write_back \/ write_back_err \/ reset_victim \/ load_err \/ delete_erase
    BY <2>2 DEF copy_out, write_back, write_back_err, reset_victim, load_err, delete_erase,
                Idle, Quiet
  <2>3. CASE flush_next \/ \E todo : flush_pages(todo)
    BY <2>3 DEF flush_pages, flush_next, MakeGuard, Idle, Quiet
  <2>4. CASE \E g, p : check_hit(g, p) \/ check_free(g, p) \/ check_no_victim(p)
    BY <2>4 DEF check_hit, check_free, check_no_victim, MakeGuard, Quiet
  <2> QED BY <2>1, <2>2, <2>3, <2>4
<1> QED BY <1>1, <1>2, <1>3, QuietView, ViewStays

LEMMA GuardView ==
  ASSUME UNCHANGED <<page_table, op>>
  PROVE  View' = View
<1>1. \A f \in FrameId : PageIn(page_table', op', f) = PageIn(page_table, op, f)
  OBVIOUS
<1> QED BY <1>1, PageOfIsPageIn DEF View

LEMMA PinView ==
  ASSUME pin
  PROVE  UNCHANGED Replacer!vars
<1>1. \A f \in FrameId : PageIn(page_table', op', f) = PageIn(page_table, op, f)
  BY DEF pin, PageIn, Removing, Entering, table_vars
<1>2. View' = View /\ UNCHANGED arc_vars
  BY <1>1, PageOfIsPageIn DEF View, pin
<1> QED BY <1>2, ViewStays

(* The page that is loaded is not held yet: its frame was empty before. *)
LEMMA LoadView ==
  ASSUME GInv, load
  PROVE  UNCHANGED Replacer!vars
<1>1. PICK f \in FrameId, p \in PageId : f = op.frame /\ p = op.page
  BY DEF GInv, Typed, OpTypes, Making, load
<1>2. /\ op.pc = "load" /\ page_table' = WithPage(p, f)
      /\ op'.pc = "pin" /\ op'.frame = f /\ op'.fresh = TRUE /\ UNCHANGED arc_vars
  BY <1>1 DEF load, MakeGuard
<1>3. /\ f \notin Range(page_table) /\ p \notin Resident /\ f \in FrameId
      /\ IsInjective(page_table) /\ page_table \in [Resident -> FrameId]
  BY <1>1, <1>2 DEF GInv, IInv, PoolShape, FramePartition, InHand
<1>4. /\ IsInjective(page_table') /\ DOMAIN page_table' = Resident \cup {p}
      /\ Range(page_table') = Range(page_table) \cup {f}
      /\ \A q \in Resident : page_table'[q] = page_table[q]
  <2>1. \A q \in Resident : page_table'[q] = page_table[q]
    BY <1>2, <1>3 DEF WithPage
  <2> QED BY <1>2, <1>3, <2>1, EnterPage
<1>5. ASSUME NEW h \in FrameId
      PROVE  PageIn(page_table', op', h) = PageIn(page_table, op, h)
  <2>1. PageIn(page_table, op, h) = Holder(page_table, h)
    BY <1>2 DEF PageIn, Removing, Entering
  <2>2. CASE h = f
    <3>1. PageIn(page_table', op', h) = NoPage
      BY <1>2, <2>2 DEF PageIn, Removing, Entering
    <3> QED BY <1>3, <2>1, <2>2, <3>1, HolderIs
  <2>3. CASE h # f
    <3>1. PageIn(page_table', op', h) = Holder(page_table', h)
      BY <1>2, <2>3 DEF PageIn, Removing, Entering
    <3>2. CASE h \in Range(page_table)
      <4>1. PICK q \in Resident : page_table[q] = h
        BY <3>2 DEF Range, Resident
      <4>2. Holder(page_table, h) = q /\ Holder(page_table', h) = q
        BY <1>3, <1>4, <4>1, HolderIs DEF Resident
      <4> QED BY <2>1, <3>1, <4>2
    <3>3. CASE h \notin Range(page_table)
      <4>1. h \notin Range(page_table')
        BY <1>4, <2>3, <3>3
      <4>2. Holder(page_table', h) = NoPage /\ Holder(page_table, h) = NoPage
        BY <1>3, <1>4, <3>3, <4>1, HolderIs
      <4> QED BY <2>1, <3>1, <4>2
    <3> QED BY <3>2, <3>3
  <2> QED BY <2>2, <2>3
<1>6. View' = View
  BY <1>5, PageOfIsPageIn DEF View
<1> QED BY <1>2, <1>6, ViewStays

(* The page to delete leaves the page table, and is held until the         *)
(* replacer is told.                                                       *)
LEMMA DeleteView ==
  ASSUME GInv, NEW p \in PageId, delete_page(p)
  PROVE  UNCHANGED Replacer!vars
<1>1. /\ op.pc = "idle" /\ p \in Resident
      /\ page_table \in [Resident -> FrameId] /\ IsInjective(page_table)
  BY DEF delete_page, Idle, GInv, Typed, TypeOK, PoolTypeOK, IInv, FramePartition
<1>2. PICK f \in FrameId : f = page_table[p]
  BY <1>1
<1>3. /\ page_table' = WithoutPage(p) /\ UNCHANGED arc_vars
      /\ op'.pc = "remove" /\ op'.page = p /\ op'.frame = f
  BY <1>2 DEF delete_page
<1>4. /\ DOMAIN page_table' = Resident \ {p} /\ IsInjective(page_table')
      /\ Range(page_table') = Range(page_table) \ {f}
      /\ \A q \in Resident \ {p} : page_table'[q] = page_table[q]
  BY <1>1, <1>2, <1>3, TakePageOut DEF WithoutPage
<1>5. ASSUME NEW h \in FrameId
      PROVE  PageIn(page_table', op', h) = PageIn(page_table, op, h)
  <2>1. PageIn(page_table, op, h) = Holder(page_table, h)
    BY <1>1 DEF PageIn, Removing, Entering
  <2>2. CASE h = f
    <3>1. PageIn(page_table', op', h) = p
      BY <1>3, <2>2 DEF PageIn, Removing
    <3>2. Holder(page_table, h) = p
      BY <1>1, <1>2, <2>2, HolderIs DEF Resident
    <3> QED BY <2>1, <3>1, <3>2
  <2>3. CASE h # f
    <3>1. PageIn(page_table', op', h) = Holder(page_table', h)
      BY <1>3, <2>3 DEF PageIn, Removing, Entering
    <3>2. CASE h \in Range(page_table)
      <4>1. PICK q \in Resident : page_table[q] = h
        BY <3>2 DEF Range, Resident
      <4>2. q # p
        BY <1>2, <2>3, <4>1
      <4>3. Holder(page_table, h) = q
        BY <1>1, <4>1, HolderIs DEF Resident
      <4>4. Holder(page_table', h) = q
        BY <1>4, <4>1, <4>2, HolderIs
      <4> QED BY <2>1, <3>1, <4>3, <4>4
    <3>3. CASE h \notin Range(page_table)
      <4>1. h \notin Range(page_table')
        BY <1>4, <3>3
      <4>2. Holder(page_table', h) = NoPage /\ Holder(page_table, h) = NoPage
        BY <1>1, <1>4, <3>3, <4>1, HolderIs
      <4> QED BY <2>1, <3>1, <4>2
    <3> QED BY <3>2, <3>3
  <2> QED BY <2>2, <2>3
<1>6. View' = View
  BY <1>5, PageOfIsPageIn DEF View
<1> QED BY <1>3, <1>6, ViewStays

-----------------------------------------------------------------------------
(* The steps of the client. *)

(* The victim is taken when every frame holds a page, for a page that none *)
(* of them holds.                                                          *)
LEMMA EvictionIsEvict ==
  ASSUME GInv, NEW g, NEW p \in PageId, check_page(g, p), check_evict(g, p)
  PROVE  \E f \in FrameId : Replacer!Evict(f)
<1>1. op = Idle /\ op.pc = "idle" /\ p \notin Resident /\ free_frames = <<>>
  BY DEF check_page, check_evict, Idle
<1>2. PICK f \in FrameId :
        /\ evict(f)
        /\ \E old \in Resident :
             /\ page_table[old] = f
             /\ page_table' = WithoutPage(old)
             /\ op' = [pc |-> "copy_out", guard |-> g, page |-> p,
                       frame |-> f, old |-> old]
  BY <1>1, VictimIsMapped DEF GInv, check_evict
<1>3. PICK old \in Resident :
        page_table[old] = f /\ page_table' = WithoutPage(old) /\ op'.pc = "copy_out"
  BY <1>2
<1>4. /\ page_table \in [Resident -> FrameId] /\ IsInjective(page_table)
      /\ Resident \subseteq PageId
  BY DEF GInv, Typed, TypeOK, PoolTypeOK, IInv, FramePartition
<1>5. /\ DOMAIN page_table' = Resident \ {old} /\ IsInjective(page_table')
      /\ Range(page_table') = Range(page_table) \ {f}
      /\ \A q \in Resident \ {old} : page_table'[q] = page_table[q]
  BY <1>3, <1>4, TakePageOut DEF WithoutPage
<1>6. ASSUME NEW h \in FrameId
      PROVE  \E q \in Resident : page_table[q] = h /\ View[h] = q
  <2>1. PICK q \in Resident : page_table[q] = h
    BY <1>1, VictimIsMapped DEF GInv
  <2> QED BY <1>1, <2>1, ViewFacts DEF Removing, Entering
<1>7. \A h \in FrameId : View[h] \in Resident /\ View[h] # NoPage /\ View[h] # p
  BY <1>1, <1>4, <1>6, NoPageAssumption
<1>8. ASSUME NEW h \in FrameId
      PROVE  View'[h] = IF h = f THEN NoPage ELSE View[h]
  <2>1. View'[h] = Holder(page_table', h)
    BY <1>3, PageOfIsPageIn DEF View, PageIn, Removing, Entering
  <2>2. CASE h = f
    <3>1. f \notin Range(page_table')
      BY <1>5
    <3> QED BY <1>5, <2>1, <2>2, <3>1, HolderIs
  <2>3. CASE h # f
    <3>1. PICK q \in Resident : page_table[q] = h /\ View[h] = q
      BY <1>6
    <3>2. q # old
      BY <1>3, <2>3, <3>1
    <3> QED BY <1>5, <2>1, <2>3, <3>1, <3>2, HolderIs
  <2> QED BY <2>2, <2>3
<1>9. View' = [View EXCEPT ![f] = NoPage]
  BY <1>8 DEF View
<1>10. Replacer!Free = {}
  BY <1>7 DEF Replacer!Free, View
<1>11. p \notin Replacer!Loaded
  BY <1>7 DEF Replacer!Loaded, View
<1> QED BY <1>2, <1>9, <1>10, <1>11, SameEvict DEF Replacer!Evict, View

(* The record of a guard is an access to a page that is held, or the load  *)
(* of a page that is not held yet.                                         *)
LEMMA RecordIsAccess ==
  ASSUME GInv, record \/ record_panics
  PROVE  \E f \in FrameId : Replacer!Access(f) \/ \E p \in PageId : Replacer!Load(f, p)
<1>1. op.pc = "record" /\ OpTypes /\ OpOrder
  BY DEF record, record_panics, GInv, Typed
<1>2. PICK f \in FrameId, p \in PageId : f = op.frame /\ p = op.page
  BY <1>1 DEF OpTypes, Making
<1>3. /\ record_access(f, p) /\ page_table' = page_table
      /\ op'.pc \in {"flushing", "idle", "record_failed"}
  BY <1>2 DEF record, record_panics, Idle, table_vars
<1>4. /\ p \in Resident /\ page_table[p] = f /\ op.fresh \in BOOLEAN
      /\ page_table \in [Resident -> FrameId] /\ IsInjective(page_table)
  BY <1>1, <1>2 DEF OpOrder, OpTypes, GInv, Typed, TypeOK, PoolTypeOK, IInv, FramePartition
<1>5. \A h \in FrameId : View'[h] = Holder(page_table, h)
  BY <1>3, PageOfIsPageIn DEF View, PageIn, Removing, Entering
<1>6. Holder(page_table, f) = p
  BY <1>4, HolderIs DEF Resident
<1>7. \A h \in FrameId : h # f => View[h] = Holder(page_table, h)
  BY <1>1, <1>2, PageOfIsPageIn DEF View, PageIn, Removing, Entering
<1>8. CASE ~op.fresh
  <2>1. View[f] = p
    BY <1>1, <1>4, <1>8, ViewFacts DEF Removing, Entering
  <2>2. View' = View
    BY <1>5, <1>6, <1>7, <2>1 DEF View
  <2>3. f \notin Replacer!Free /\ PageOf(f) = p
    BY <2>1, NoPageAssumption DEF Replacer!Free, View
  <2>4. Replacer!Access(f)
    BY <1>3, <2>1, <2>2, <2>3, SameRecordAccess DEF Replacer!Access, View
  <2> QED BY <2>4
<1>9. CASE op.fresh
  <2>1. View[f] = NoPage
    BY <1>1, <1>2, <1>9, PageOfIsPageIn DEF View, PageIn, Removing, Entering
  <2>2. View' = [View EXCEPT ![f] = p]
    BY <1>5, <1>6, <1>7 DEF View
  <2>3. f \in Replacer!Free
    BY <2>1 DEF Replacer!Free, View
  <2>4. p \notin Replacer!Loaded
    <3>1. ASSUME NEW h \in FrameId, View[h] # NoPage PROVE View[h] # p
      <4>1. page_table[View[h]] = h /\ h # f
        BY <1>1, <2>1, <3>1, ViewFacts DEF Removing
      <4> QED BY <1>4, <4>1
    <3> QED BY <3>1 DEF Replacer!Loaded, Replacer!Free, View
  <2>5. Replacer!Load(f, p)
    BY <1>3, <2>2, <2>3, <2>4, SameRecordAccess DEF Replacer!Load, View
  <2> QED BY <2>5
<1> QED BY <1>4, <1>8, <1>9

LEMMA RemoveIsDelete ==
  ASSUME GInv, delete_remove
  PROVE  \E f \in FrameId : Replacer!Delete(f)
<1>1. op.pc = "remove" /\ OpTypes
  BY DEF delete_remove, GInv, Typed
<1>2. PICK f \in FrameId, p \in PageId : f = op.frame /\ p = op.page
  BY <1>1 DEF OpTypes
<1>3. remove(f) /\ page_table' = page_table /\ op'.pc = "erase"
  BY <1>2 DEF delete_remove, table_vars
<1>4. f \notin Range(page_table) /\ IsInjective(page_table)
  BY <1>1, <1>2 DEF GInv, IInv, FramePartition, InHand
<1>5. View[f] = p
  BY <1>1, <1>2, PageOfIsPageIn DEF View, PageIn, Removing
<1>6. \A h \in FrameId : View'[h] = IF h = f THEN NoPage ELSE View[h]
  <2>1. \A h \in FrameId : View'[h] = Holder(page_table, h)
    BY <1>3, PageOfIsPageIn DEF View, PageIn, Removing, Entering
  <2>2. \A h \in FrameId : h # f => View[h] = Holder(page_table, h)
    BY <1>1, <1>2, PageOfIsPageIn DEF View, PageIn, Removing, Entering
  <2>3. Holder(page_table, f) = NoPage
    BY <1>4, HolderIs
  <2> QED BY <2>1, <2>2, <2>3
<1>7. View' = [View EXCEPT ![f] = NoPage]
  BY <1>6 DEF View
<1>8. f \notin Replacer!Free
  BY <1>5, NoPageAssumption DEF Replacer!Free, View
<1> QED BY <1>3, <1>7, <1>8, SameRemove DEF Replacer!Delete, View

LEMMA ReportIsRelease ==
  ASSUME GInv, NEW g \in AnyGuard, drop_report(g)
  PROVE  \E f \in FrameId : Replacer!Release(f)
<1>1. guard[g].pc = "report" /\ GuardTypes
  BY DEF drop_report, At, GInv, Typed
<1>2. PICK f \in FrameId : f = guard[g].frame
  BY <1>1, GuardFields DEF Live
<1>3. set_evictable(f) /\ UNCHANGED <<page_table, op>>
  BY <1>2 DEF drop_report, table_vars
<1>4. View' = View
  BY <1>3, GuardView
<1> QED BY <1>3, <1>4, SameSetEvictable DEF Replacer!Release, View

(* Every step but the removal of a page is one of the client or none. *)
LEMMA StepIsClientStep ==
  ASSUME GInv, [NextFaulty]_vars, ~delete_remove
  PROVE  [Replacer!Next]_(Replacer!vars)
<1>1. CASE UNCHANGED vars
  <2>1. UNCHANGED <<page_table, op>> /\ UNCHANGED arc_vars
    BY <1>1 DEF vars, table_vars
  <2> QED BY <2>1, GuardView, ViewStays
<1>2. CASE ~Panicked /\ (PoolContinues \/ PoolCalls \/ write_back_err \/ load_err)
  <2>1. ~poisoned
    BY <1>2 DEF Panicked
  <2>2. CASE record \/ record_panics
    BY <2>1, <2>2, RecordIsAccess DEF Replacer!Next
  <2>4. CASE load \/ pin
    BY <2>4, LoadView, PinView
  <2>5. CASE \/ new_page \/ copy_out \/ write_back \/ write_back_err \/ reset_victim
             \/ load_err \/ flush_next \/ delete_erase
    BY <2>5, QuietCalls
  <2>6. CASE flush_all_pages \/ \E p \in PageId : flush_page(p)
    <3>1. \E todo : flush_pages(todo)
      BY <2>6 DEF flush_all_pages, flush_page
    <3> QED BY <3>1, QuietCalls
  <2>7. ASSUME NEW p \in PageId, NEW g \in Guard, check_page(g, p)
        PROVE  [Replacer!Next]_(Replacer!vars)
    <3>1. CASE check_evict(g, p)
      BY <2>1, <2>7, <3>1, EvictionIsEvict DEF Replacer!Next
    <3>2. CASE check_hit(g, p) \/ check_free(g, p) \/ check_no_victim(p)
      BY <2>7, <3>2, QuietCalls
    <3> QED BY <2>7, <3>1, <3>2 DEF check_page
  <2> QED BY <1>2, <2>2, <2>4, <2>5, <2>6, <2>7 DEF PoolContinues, PoolCalls
<1>3. ASSUME NEW g \in AnyGuard,
             GuardContinues(g) \/ GuardCalls(g) \/ flush_store_err(g)
      PROVE  [Replacer!Next]_(Replacer!vars)
  <2>2. CASE drop_report(g)
    <3>1. ~poisoned
      BY <2>2 DEF drop_report, ReplacerPoisoned
    <3> QED BY <2>2, <3>1, ReportIsRelease DEF Replacer!Next
  <2>3. CASE ~drop_report(g)
    <3>1. UNCHANGED <<page_table, op>> /\ UNCHANGED arc_vars
      BY <1>3, <2>3
         DEF GuardContinues, GuardCalls, GuardOnly, table_vars, data_mut, lock, write, data,
             end_read, flush, flush_clone, flush_store, flush_store_err, flush_clean, drop,
             drop_load
    <3> QED BY <3>1, GuardView, ViewStays
  <2> QED BY <2>2, <2>3
<1>4. CASE \E p \in PageId : delete_page(p)
  BY <1>4, DeleteView
<1> QED BY <1>1, <1>2, <1>3, <1>4
        DEF NextFaulty, NextDelete, Next, Halted, RequestFails

LEMMA RemovalIsClientStep ==
  ASSUME GInv, [NextFaulty]_vars, delete_remove
  PROVE  Replacer!NextDelete
<1>1. op.pc = "remove" /\ op'.pc = "erase"
  BY DEF delete_remove
<1>2. op' # op
  BY <1>1
<1>3. ~poisoned
  <2>1. ASSUME NEW g, GuardContinues(g) \/ GuardCalls(g) \/ flush_store_err(g)
        PROVE  op' = op
    BY <2>1
       DEF GuardContinues, GuardCalls, GuardOnly, data_mut, lock, write, data, end_read,
           flush, flush_clone, flush_store, flush_store_err, flush_clean, drop, drop_load,
           drop_report
  <2> QED BY <1>2, <2>1
       DEF NextFaulty, NextDelete, Next, Halted, RequestFails, Panicked, vars
<1> QED BY <1>3, RemoveIsDelete DEF Replacer!NextDelete

LEMMA InitIsClientInit ==
  ASSUME Init
  PROVE  Replacer!Init
<1>1. IsInjective(page_table) /\ Range(page_table) = {} /\ op.pc = "idle"
  BY DEF Init, IsInjective, Range, Idle
<1>2. \A f \in FrameId : PageOf(f) = NoPage
  BY <1>1, PageOfIsPageIn, HolderIs DEF PageIn, Removing, Entering
<1> QED BY <1>2 DEF Init, ArcInit, Replacer!Init, Replacer!ArcInit

(* buffer_pool.rs and guard.rs call the replacer as ArcClient does, with   *)
(* any number of frames, pages and guards, with pages deleted and disk     *)
(* requests failing: a frame is evicted only when every frame holds a page *)
(* that has been recorded, and a page is recorded for one frame at a time. *)
THEOREM ReplacerIsUsedAsClient == SpecFaulty => ReplacerSpec
<1>1. Init => Replacer!Init
  BY InitIsClientInit
<1>2. GInv /\ [NextFaulty]_vars => [Replacer!NextDelete]_(Replacer!vars)
  BY StepIsClientStep, RemovalIsClientStep DEF Replacer!NextDelete
<1>3. SpecFaulty => []GInv
  BY GInvHolds
<1> QED BY <1>1, <1>2, <1>3, PTL DEF SpecFaulty, ReplacerSpec, Replacer!SpecDelete

(* While no page is deleted, no frame is being removed. *)
NothingDeleted == op.pc \notin {"remove", "erase"}

LEMMA StepDeletesNothing ==
  ASSUME NothingDeleted, [Next]_vars
  PROVE  NothingDeleted'
<1>1. CASE UNCHANGED op
  BY <1>1 DEF NothingDeleted
<1>2. CASE PoolContinues
  BY <1>2
     DEF PoolContinues, copy_out, write_back, reset_victim, load, pin, record,
         record_panics, flush_next, delete_remove, delete_erase, MakeGuard, Idle, NothingDeleted
<1>3. CASE new_page \/ flush_all_pages \/ \E p \in PageId : flush_page(p)
  BY <1>3 DEF new_page, flush_all_pages, flush_page, flush_pages, NothingDeleted
<1>4. ASSUME NEW g \in Guard, NEW p \in PageId, check_page(g, p)
      PROVE  NothingDeleted'
  BY <1>4
     DEF check_page, check_hit, check_free, check_evict, check_no_victim, MakeGuard,
         NothingDeleted
<1>5. ASSUME NEW g \in AnyGuard, GuardContinues(g) \/ GuardCalls(g)
      PROVE  UNCHANGED op
  BY <1>5
     DEF GuardContinues, GuardCalls, GuardOnly, data_mut, lock, write, data, end_read, flush,
         flush_clone, flush_store, flush_clean, drop, drop_load, drop_report
<1>6. CASE UNCHANGED vars
  BY <1>1, <1>6 DEF vars
<1> QED BY <1>1, <1>2, <1>3, <1>4, <1>5, <1>6 DEF Next, PoolCalls, Halted

(* As long as clients delete no page, buffer_pool.rs and guard.rs drive    *)
(* the replacer by loads, accesses, evictions and reports only: what is    *)
(* proved of the lists of arc_replacer.rs under those calls holds of them  *)
(* in the pool.                                                            *)
THEOREM ReplacerIsUsedWithoutRemoval == Spec => Replacer!Spec
<1>1. Init => GInv /\ NothingDeleted /\ Replacer!Init
  <2>1. Init => NothingDeleted
    BY DEF Init, Idle, NothingDeleted
  <2> QED BY <2>1, InitGInv, InitIsClientInit
<1>2. [Next]_vars => [NextFaulty]_vars
  BY DEF NextFaulty, NextDelete
<1>3. GInv /\ [Next]_vars => GInv'
  BY <1>2, NextPreservesGInv
<1>4. NothingDeleted /\ [Next]_vars => NothingDeleted'
  BY StepDeletesNothing
<1>5. GInv /\ NothingDeleted /\ [Next]_vars => [Replacer!Next]_(Replacer!vars)
  BY <1>2, StepIsClientStep DEF NothingDeleted, delete_remove
<1> QED BY <1>1, <1>3, <1>4, <1>5, PTL DEF Spec, Replacer!Spec
=============================================================================
