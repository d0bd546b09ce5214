---------------------------- MODULE ArcCounting ----------------------------
(***************************************************************************)
(* The counter curr_size of src/src/arc_replacer.rs, a u32 kept beside the *)
(* calls of ArcClient.  It is incremented by every set_evictable, also of  *)
(* a frame that is evictable already, and decremented by every eviction;   *)
(* record_access and remove leave it alone.                                *)
(*                                                                         *)
(* count_wrapped is a history variable: the increment has gone past        *)
(* 2^32 - 1, and so has wrapped or, in a debug build, panicked.            *)
(***************************************************************************)
EXTENDS ArcClient

VARIABLES curr_size, count_wrapped

count_vars == <<curr_size, count_wrapped>>
counting_vars == <<vars, count_vars>>

CountingInit == Init /\ curr_size = 0 /\ count_wrapped = FALSE

(* Mutation of CountedRelease: the count is not incremented. *)
UncountedRelease(f) == Release(f) /\ UNCHANGED count_vars

(* The frame is entered before the addition panics. *)
ReleasePanics(f) ==
  /\ evictable_pages' = evictable_pages \cup {f}
  /\ poisoned' = TRUE
  /\ UNCHANGED <<mru, mfu, mru_ghost, mfu_ghost, mru_target_size, page_of, curr_size>>

CountedRelease(f) ==
  /\ IF OverflowChecks /\ curr_size + 1 = U32
     THEN ReleasePanics(f)
     ELSE Release(f) /\ curr_size' = (curr_size + 1) % U32
  /\ count_wrapped' = (count_wrapped \/ curr_size + 1 = U32)

(* The subtraction at 0 is not a panic here: CountCoversEvictable says     *)
(* that it is not reached in a debug build, where wrapping is the end.     *)
CountedEvict(f) ==
  /\ Evict(f)
  /\ curr_size' = (curr_size - 1) % U32
  /\ UNCHANGED count_wrapped

Uncounted(f) ==
  /\ Access(f) \/ \E p \in PageId : Load(f, p)
  /\ UNCHANGED count_vars

CountingNext ==
  /\ ~poisoned
  /\ \E f \in FrameId : CountedRelease(f) \/ CountedEvict(f) \/ Uncounted(f)

CountingSpec == CountingInit /\ [][CountingNext]_counting_vars

(* Pages are deleted too. *)
CountingNextDelete ==
  \/ CountingNext
  \/ ~poisoned /\ \E f \in FrameId : Delete(f) /\ UNCHANGED count_vars

CountingSpecDelete == CountingInit /\ [][CountingNextDelete]_counting_vars

(* Of the two ways the u32 counter can leave its range, the increment of   *)
(* arc_replacer.rs:51 comes first: until it has been passed, the counter   *)
(* is at least the number of evictable frames, so that evict's             *)
(* curr_size -= 1 (:155 and :177) neither wraps nor panics, however often  *)
(* frames are released again and in whatever order they are evicted.       *)
CountCoversEvictable ==
  ~count_wrapped => curr_size >= Cardinality(evictable_pages)
=============================================================================
