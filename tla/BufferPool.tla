---------------------------- MODULE BufferPool -----------------------------
(***************************************************************************)
(* src/src/buffer_pool.rs, src/src/guard.rs and src/src/frame_header.rs:   *)
(* the buffer pool and the page guards it hands out.                       *)
(*                                                                         *)
(* BufferPoolManager's methods take &mut self (new_page the latch alone)   *)
(* and hold the latch to the end, so one of them runs at a time: op is     *)
(* that call, and its steps are the places where another thread could see  *)
(* or change something of it.  Guards can be sent to other threads and     *)
(* take no latch, so their steps come between those of op.  The pool       *)
(* thread makes guards of its own to flush a page: it is the guard Flusher *)
(* of the model.                                                           *)
(*                                                                         *)
(* A guard or op at a pc has yet to do what the pc names.  The frame's     *)
(* RwLock is the pair of sets Writers(f) and Readers(f); a step that locks *)
(* and unlocks in one go only needs the lock to be free.  disk is the page *)
(* store behind the disk scheduler, whose requests are each answered       *)
(* before the caller goes on.  A write of a page that fails has spoilt the *)
(* page on disk, and a read that fails has not changed anything; what a    *)
(* failing first write of a page does is left to DiskManager.tla.          *)
(*                                                                         *)
(* latest and stolen are history variables: the content last given to each *)
(* page, Absent once a failing write back has destroyed it, and the fact   *)
(* that a frame with a guard on it has been evicted.                       *)
(***************************************************************************)
EXTENDS ArcReplacer

CONSTANTS
  Guard,             (* the guards clients can have at a time              *)
  Flusher,           (* the pool's own guard                               *)
  Data,              (* contents of a page                                 *)
  Zero,              (* the page of zeros                                  *)
  Absent,            (* a page the disk has no slot for                    *)
  USize              (* 2^64, or any modulus above the number of guards    *)

ASSUME PoolAssumption ==
  /\ IsFiniteSet(Guard) /\ Flusher \notin Guard
  /\ Zero \in Data /\ Absent \notin Data
  /\ USize \in Nat /\ USize > Cardinality(Guard) + 1
  /\ PageId = 0 .. Cardinality(PageId) - 1

VARIABLES
  next_page_id, page_table, free_frames,          (* of the pool           *)
  pin_count, is_dirty, frame_data,                (* of every frame        *)
  disk,                                           (* page -> content       *)
  op,                                             (* the call that runs    *)
  guard,                                          (* of every guard        *)
  latest, stolen                                  (* history               *)

frame_vars == <<pin_count, is_dirty, frame_data>>
table_vars == <<page_table, free_frames>>
history == <<latest, stolen>>
vars == <<arc_vars, next_page_id, table_vars, frame_vars, disk, op, guard, history>>

AnyGuard == Guard \cup {Flusher}
Idle == [pc |-> "idle"]
NoGuard == [pc |-> "none"]
Resident == DOMAIN page_table

-----------------------------------------------------------------------------
Live(g) == guard[g].pc # "none"

(* A guard has its pin on the frame until drop has taken it back. *)
Pins(g) == guard[g].pc \notin {"none", "unpinned", "report"}
PinsOn(f) == {g \in AnyGuard : Pins(g) /\ guard[g].frame = f}

Writers(f) == {g \in PinsOn(f) : guard[g].pc = "write"}
Readers(f) == {g \in PinsOn(f) : guard[g].pc = "read"}

(* A load that panics has the frame's lock, and poisons it. *)
LockPoisoned(f) == op.pc = "load_failed" /\ op.frame = f

CanRead(f) == ~LockPoisoned(f) /\ Writers(f) = {}
CanWrite(f) == CanRead(f) /\ Readers(f) = {}

At(g, pc) == guard[g].pc = pc
Goto(g, pc) == guard' = [guard EXCEPT ![g].pc = pc]

(* Mutation of WithPage: the page is not entered. *)
WithPageForgotten(p, f) == page_table

(* Mutation of WithoutPage: the old entry stays. *)
WithoutPageForgotten(p) == page_table

(* The page table with page p entered, and without it. *)
WithPage(p, f) ==
  [q \in Resident \cup {p} |-> IF q = p THEN f ELSE page_table[q]]

WithoutPage(p) == [q \in Resident \ {p} |-> page_table[q]]

(* Mutation of OnePinLess: no wrap. *)
OnePinLessUnwrapped(n) == n - 1

(* AtomicUsize::fetch_add and fetch_sub, which wrap. *)
OnePinMore(n) == (n + 1) % USize
OnePinLess(n) == (n - 1) % USize

Init ==
  /\ ArcInit
  /\ next_page_id = 0
  /\ page_table = [p \in {} |-> 0]
  /\ free_frames = [i \in 1 .. replacer_size |-> i - 1]
  /\ pin_count = [f \in FrameId |-> 0]
  /\ is_dirty = [f \in FrameId |-> FALSE]
  /\ frame_data = [f \in FrameId |-> Zero]
  /\ disk = [p \in PageId |-> Absent]
  /\ op = Idle
  /\ guard = [g \in AnyGuard |-> NoGuard]
  /\ latest = [p \in PageId |-> Absent]
  /\ stolen = FALSE

-----------------------------------------------------------------------------
(* FrameHeader::reset, with the frame's lock free.  Its three stores are   *)
(* one step: no guard has a pin on the frame, unless it has been stolen.   *)
reset(f) ==
  /\ CanWrite(f)
  /\ frame_data' = [frame_data EXCEPT ![f] = Zero]
  /\ pin_count' = [pin_count EXCEPT ![f] = 0]
  /\ is_dirty' = [is_dirty EXCEPT ![f] = FALSE]

(* A thread has panicked with the latch held, which poisons it for good:   *)
(* the pool can no longer be called.  Guards take no latch and live on.    *)
Panicked == poisoned \/ op.pc \in {"panicked", "record_failed", "load_failed"}

(* A panic in the replacer, or on its having no victim, which unwraps with *)
(* the mutex held, poisons that too.                                       *)
ReplacerPoisoned == poisoned \/ op.pc = "panicked"

-----------------------------------------------------------------------------
(* The calls.  Clients ask for pages that new_page has made and that have  *)
(* not been deleted; the page ids run out at the bound of the model.       *)

new_page ==
  /\ op = Idle /\ next_page_id \in PageId
  /\ next_page_id' = next_page_id + 1
  /\ disk' = [disk EXCEPT ![next_page_id] = Zero]
  /\ latest' = [latest EXCEPT ![next_page_id] = Zero]
  /\ UNCHANGED <<arc_vars, table_vars, frame_vars, op, guard, stolen>>

(* The step every call ends with that makes a guard: WritePageGuard::new   *)
(* or ReadPageGuard::new for page p in frame f.  fresh tells a page that   *)
(* has just been loaded, todo the pages a flush call still has to flush.   *)
MakeGuard(g, p, f, fresh, todo) ==
  op' = [pc |-> "pin", guard |-> g, page |-> p, frame |-> f,
         fresh |-> fresh, todo |-> todo]

(* check_write_page and check_read_page, which differ only in the guard.   *)
check_hit(g, p) ==
  /\ p \in Resident
  /\ MakeGuard(g, p, page_table[p], FALSE, {})
  /\ UNCHANGED <<arc_vars, table_vars>>

check_free(g, p) ==
  /\ p \notin Resident /\ free_frames # <<>>
  /\ free_frames' = Front(free_frames)
  /\ op' = [pc |-> "load", guard |-> g, page |-> p, frame |-> Last(free_frames)]
  /\ UNCHANGED <<arc_vars, page_table>>

(* The victim goes from the page table to the free list at once.  A victim *)
(* that no page is in fails the expect("evicted frame must have a page     *)
(* id"), and having no victim fails the unwrap before it.                  *)
check_evict(g, p) ==
  /\ p \notin Resident /\ free_frames = <<>>
  /\ \E f \in FrameId :
       /\ evict(f)
       /\ free_frames' = Append(free_frames, f)
       /\ \/ \E old \in Resident :
               /\ page_table[old] = f
               /\ page_table' = WithoutPage(old)
               /\ op' = [pc |-> "copy_out", guard |-> g, page |-> p,
                         frame |-> f, old |-> old]
          \/ /\ \A old \in Resident : page_table[old] # f
             /\ op' = [pc |-> "panicked"]
             /\ UNCHANGED page_table

check_no_victim(p) ==
  /\ p \notin Resident /\ free_frames = <<>> /\ ~CanEvict
  /\ op' = [pc |-> "panicked"]
  /\ UNCHANGED <<arc_vars, table_vars>>

check_page(g, p) ==
  /\ op = Idle /\ ~Live(g) /\ disk[p] # Absent
  /\ \/ check_hit(g, p)
     \/ check_free(g, p)
     \/ check_evict(g, p)
     \/ check_no_victim(p)
  /\ stolen' = (stolen \/ \E f \in evictable_pages \ evictable_pages' : PinsOn(f) # {})
  /\ UNCHANGED <<next_page_id, frame_vars, disk, guard, latest>>

-----------------------------------------------------------------------------
(* The rest of an eviction and of a load.                                  *)

copy_out ==
  /\ op.pc = "copy_out" /\ CanRead(op.frame)
  /\ op' = [pc |-> "write_back", guard |-> op.guard, page |-> op.page,
            frame |-> op.frame, old |-> op.old, data |-> frame_data[op.frame]]
  /\ UNCHANGED <<arc_vars, next_page_id, table_vars, frame_vars, disk, guard, history>>

(* Mutation of WrittenBack: only a dirty victim is written.               *)
WrittenBackIfDirty ==
  IF is_dirty[op.frame] THEN [disk EXCEPT ![op.old] = op.data] ELSE disk

(* The victim is written whether it is dirty or not. *)
WrittenBack == [disk EXCEPT ![op.old] = op.data]

write_back ==
  /\ op.pc = "write_back"
  /\ disk' = WrittenBack
  /\ op' = [pc |-> "reset", guard |-> op.guard, page |-> op.page, frame |-> op.frame]
  /\ UNCHANGED <<arc_vars, next_page_id, table_vars, frame_vars, guard, history>>

(* The reply None is received and not looked at: the frame is reset.       *)
write_back_err ==
  /\ op.pc = "write_back"
  /\ \E d \in Data : disk' = [disk EXCEPT ![op.old] = d]
  /\ latest' = [latest EXCEPT ![op.old] = Absent]
  /\ op' = [pc |-> "reset", guard |-> op.guard, page |-> op.page, frame |-> op.frame]
  /\ UNCHANGED <<arc_vars, next_page_id, table_vars, frame_vars, guard, stolen>>

(* The frame popped off the free list is the one the eviction pushed. *)
reset_victim ==
  /\ op.pc = "reset"
  /\ reset(op.frame)
  /\ free_frames' = Front(free_frames)
  /\ op' = [pc |-> "load", guard |-> op.guard, page |-> op.page,
            frame |-> Last(free_frames)]
  /\ UNCHANGED <<arc_vars, next_page_id, page_table, disk, guard, history>>

load ==
  /\ op.pc = "load" /\ CanWrite(op.frame)
  /\ frame_data' = [frame_data EXCEPT ![op.frame] = disk[op.page]]
  /\ page_table' = WithPage(op.page, op.frame)
  /\ MakeGuard(op.guard, op.page, op.frame, TRUE, {})
  /\ UNCHANGED <<arc_vars, next_page_id, free_frames, pin_count, is_dirty, disk,
                 guard, history>>

(* data.unwrap() panics when the read has failed; the frame has left the   *)
(* free list and the page table.                                           *)
load_err ==
  /\ op.pc = "load" /\ CanWrite(op.frame)
  /\ op' = [pc |-> "load_failed", frame |-> op.frame]
  /\ UNCHANGED <<arc_vars, next_page_id, table_vars, frame_vars, disk, guard, history>>

pin ==
  /\ op.pc = "pin"
  /\ pin_count' = [pin_count EXCEPT ![op.frame] = OnePinMore(@)]
  /\ op' = [pc |-> "record", guard |-> op.guard, page |-> op.page,
            frame |-> op.frame, fresh |-> op.fresh, todo |-> op.todo]
  /\ UNCHANGED <<arc_vars, next_page_id, table_vars, is_dirty, frame_data, disk,
                 guard, history>>

(* The guard exists, for reading or for writing, and the call returns it;  *)
(* a flush call flushes through the guard and drops it.                    *)
record ==
  /\ op.pc = "record"
  /\ record_access(op.frame, op.page) /\ ~poisoned'
  /\ \E mutable \in BOOLEAN :
       /\ op.guard = Flusher => ~mutable
       /\ guard' = [guard EXCEPT ![op.guard] =
            [pc |-> IF op.guard = Flusher THEN "flush" ELSE "held",
             page |-> op.page, frame |-> op.frame, mutable |-> mutable]]
  /\ op' = IF op.guard = Flusher THEN [pc |-> "flushing", todo |-> op.todo] ELSE Idle
  /\ UNCHANGED <<next_page_id, table_vars, frame_vars, disk, history>>

(* record_access panics: there is no guard that would take back the pin.   *)
record_panics ==
  /\ op.pc = "record"
  /\ record_access(op.frame, op.page) /\ poisoned'
  /\ op' = [pc |-> "record_failed", frame |-> op.frame]
  /\ UNCHANGED <<next_page_id, table_vars, frame_vars, disk, guard, history>>

-----------------------------------------------------------------------------
(* flush_page, flush_all_pages and delete_page.                            *)

flush_pages(todo) ==
  /\ op = Idle
  /\ op' = [pc |-> "flushing", todo |-> todo]
  /\ UNCHANGED <<arc_vars, next_page_id, table_vars, frame_vars, disk, guard, history>>

flush_page(p) == p \in Resident /\ flush_pages({p})
flush_all_pages == Resident # {} /\ flush_pages(Resident)

(* The guard of the previous page has been dropped. *)
flush_next ==
  /\ op.pc = "flushing" /\ ~Live(Flusher)
  /\ IF op.todo = {}
     THEN op' = Idle
     ELSE \E p \in op.todo : MakeGuard(Flusher, p, page_table[p], FALSE, op.todo \ {p})
  /\ UNCHANGED <<arc_vars, next_page_id, table_vars, frame_vars, disk, guard, history>>

(* Mutation of Unpinned: the pin count is not looked at. *)
PinsIgnored(p) == TRUE

Unpinned(p) == pin_count[page_table[p]] = 0

(* A page that is not resident, or is pinned, is left as it is. *)
delete_page(p) ==
  /\ op = Idle /\ p \in Resident /\ Unpinned(p)
  /\ page_table' = WithoutPage(p)
  /\ op' = [pc |-> "remove", page |-> p, frame |-> page_table[p]]
  /\ latest' = [latest EXCEPT ![p] = Absent]
  /\ UNCHANGED <<arc_vars, next_page_id, free_frames, frame_vars, disk, guard, stolen>>

delete_remove ==
  /\ op.pc = "remove"
  /\ remove(op.frame)
  /\ op' = [pc |-> "erase", page |-> op.page, frame |-> op.frame]
  /\ UNCHANGED <<next_page_id, table_vars, frame_vars, disk, guard, history>>

delete_erase ==
  /\ op.pc = "erase"
  /\ reset(op.frame)
  /\ free_frames' = Append(free_frames, op.frame)
  /\ disk' = [disk EXCEPT ![op.page] = Absent]
  /\ op' = Idle
  /\ UNCHANGED <<arc_vars, next_page_id, page_table, guard, history>>

-----------------------------------------------------------------------------
(* Guards.  Flusher only flushes and drops.                                *)

GuardOnly == UNCHANGED <<arc_vars, next_page_id, table_vars, op, stolen>>

(* data_mut marks the page dirty, then waits for the lock. *)
data_mut(g) ==
  /\ At(g, "held") /\ g \in Guard /\ guard[g].mutable
  /\ is_dirty' = [is_dirty EXCEPT ![guard[g].frame] = TRUE]
  /\ Goto(g, "lock")
  /\ UNCHANGED <<pin_count, frame_data, disk, latest>> /\ GuardOnly

lock(g) ==
  /\ At(g, "lock") /\ CanWrite(guard[g].frame)
  /\ Goto(g, "write")
  /\ UNCHANGED <<frame_vars, disk, latest>> /\ GuardOnly

(* The borrow ends, with what the client has made of the page. *)
write(g) ==
  /\ At(g, "write")
  /\ \E d \in Data :
       /\ frame_data' = [frame_data EXCEPT ![guard[g].frame] = d]
       /\ latest' = [latest EXCEPT ![guard[g].page] = d]
  /\ Goto(g, "held")
  /\ UNCHANGED <<pin_count, is_dirty, disk>> /\ GuardOnly

data(g) ==
  /\ At(g, "held") /\ g \in Guard /\ CanRead(guard[g].frame)
  /\ Goto(g, "read")
  /\ UNCHANGED <<frame_vars, disk, latest>> /\ GuardOnly

end_read(g) ==
  /\ At(g, "read")
  /\ Goto(g, "held")
  /\ UNCHANGED <<frame_vars, disk, latest>> /\ GuardOnly

(* flush: nothing to do for a clean page, else copy, write and clean. *)
flush(g) ==
  /\ IF g = Flusher THEN At(g, "flush") ELSE At(g, "held")
  /\ Goto(g, IF is_dirty[guard[g].frame] THEN "clone" ELSE "held")
  /\ UNCHANGED <<frame_vars, disk, latest>> /\ GuardOnly

flush_clone(g) ==
  /\ At(g, "clone") /\ CanRead(guard[g].frame)
  /\ guard' = [guard EXCEPT ![g] =
       [pc |-> "store", page |-> @.page, frame |-> @.frame, mutable |-> @.mutable,
        data |-> frame_data[@.frame]]]
  /\ UNCHANGED <<frame_vars, disk, latest>> /\ GuardOnly

flush_store(g) ==
  /\ At(g, "store")
  /\ disk' = [disk EXCEPT ![guard[g].page] = guard[g].data]
  /\ guard' = [guard EXCEPT ![g] =
       [pc |-> "clean", page |-> @.page, frame |-> @.frame, mutable |-> @.mutable]]
  /\ UNCHANGED <<frame_vars, latest>> /\ GuardOnly

(* The reply None is not looked at here either: the page is marked clean.  *)
flush_store_err(g) ==
  /\ At(g, "store")
  /\ \E d \in Data : disk' = [disk EXCEPT ![guard[g].page] = d]
  /\ guard' = [guard EXCEPT ![g] =
       [pc |-> "clean", page |-> @.page, frame |-> @.frame, mutable |-> @.mutable]]
  /\ UNCHANGED <<frame_vars, latest>> /\ GuardOnly

flush_clean(g) ==
  /\ At(g, "clean")
  /\ is_dirty' = [is_dirty EXCEPT ![guard[g].frame] = FALSE]
  /\ Goto(g, "held")
  /\ UNCHANGED <<pin_count, frame_data, disk, latest>> /\ GuardOnly

(* Mutation of LastPinGone: the count before fetch_sub is expected. *)
OnePinLeft(f) == pin_count[f] = 1

(* drop: fetch_sub, load and set_evictable are three steps. *)
LastPinGone(f) == pin_count[f] = 0

drop(g) ==
  /\ At(g, "held")
  /\ pin_count' = [pin_count EXCEPT ![guard[g].frame] = OnePinLess(@)]
  /\ guard' = [guard EXCEPT ![g] = [pc |-> "unpinned", frame |-> @.frame]]
  /\ UNCHANGED <<is_dirty, frame_data, disk, latest>> /\ GuardOnly

drop_load(g) ==
  /\ At(g, "unpinned")
  /\ guard' = [guard EXCEPT ![g] =
       IF LastPinGone(@.frame) THEN [pc |-> "report", frame |-> @.frame] ELSE NoGuard]
  /\ UNCHANGED <<frame_vars, disk, latest>> /\ GuardOnly

(* The report unwraps the replacer's mutex. *)
drop_report(g) ==
  /\ At(g, "report") /\ ~ReplacerPoisoned
  /\ set_evictable(guard[g].frame)
  /\ guard' = [guard EXCEPT ![g] = NoGuard]
  /\ UNCHANGED <<next_page_id, table_vars, frame_vars, disk, op, history>>

-----------------------------------------------------------------------------
PoolContinues ==
  copy_out \/ write_back \/ reset_victim \/ load \/ pin \/ record \/ record_panics
  \/ flush_next \/ delete_remove \/ delete_erase

PoolCalls ==
  \/ new_page
  \/ flush_all_pages
  \/ \E p \in PageId : flush_page(p) \/ \E g \in Guard : check_page(g, p)

(* What a guard does without waiting for its client to want it. *)
GuardContinues(g) ==
  \/ lock(g) \/ write(g) \/ end_read(g)
  \/ flush_clone(g) \/ flush_store(g) \/ flush_clean(g)
  \/ drop_load(g) \/ drop_report(g)
  \/ g = Flusher /\ (flush(g) \/ drop(g))

GuardCalls(g) == data_mut(g) \/ data(g) \/ flush(g) \/ drop(g)

Halted == Panicked /\ UNCHANGED vars

Next ==
  \/ ~Panicked /\ (PoolContinues \/ PoolCalls)
  \/ \E g \in AnyGuard : GuardContinues(g) \/ GuardCalls(g)
  \/ Halted

Spec == Init /\ [][Next]_vars

(* Pages are deleted too. *)
NextDelete ==
  \/ Next
  \/ ~Panicked /\ \E p \in PageId : delete_page(p)

SpecDelete == Init /\ [][NextDelete]_vars

(* And disk requests fail. *)
RequestFails ==
  \/ ~Panicked /\ (write_back_err \/ load_err)
  \/ \E g \in AnyGuard : flush_store_err(g)

NextFaulty ==
  \/ NextDelete
  \/ RequestFails

SpecFaulty == Init /\ [][NextFaulty]_vars
=============================================================================
