---------------------------- MODULE ArcReplacer ----------------------------
(***************************************************************************)
(* src/src/arc_replacer.rs: the adaptive replacement policy of the buffer  *)
(* pool.  Frames that hold a page are listed with that page in mru (pages  *)
(* seen once) or mfu (pages seen again), most recent first; pages whose    *)
(* frame has been taken away leave their id in a ghost list.               *)
(*                                                                         *)
(* The replacer sits behind a mutex that each caller holds for one call,   *)
(* so a method is one step.  This module holds the methods; the modules    *)
(* ArcClient and BufferPool are made of them.  timestamp_access and        *)
(* dirty_pages are written and never read, and are left out; curr_size,    *)
(* which nothing reads either, is in ArcCounting.                          *)
(***************************************************************************)
EXTENDS Integers, Sequences, FiniteSets, SequencesExt

CONSTANTS
  FrameId,           (* frames, 0 .. num_frames - 1                        *)
  PageId,            (* page identifiers, from 0                           *)
  replacer_size,     (* the number of frames                               *)
  U32,               (* 2^32, or any modulus well above replacer_size      *)
  OverflowChecks     (* TRUE: arithmetic that wraps panics (debug build)   *)

ASSUME ReplacerAssumption ==
  /\ replacer_size \in Nat \ {0}
  /\ FrameId = 0 .. replacer_size - 1
  /\ PageId \subseteq Nat
  /\ U32 \in Nat /\ U32 > 4 * replacer_size
  /\ OverflowChecks \in BOOLEAN

VARIABLES
  mru, mfu,          (* sequences of pairs <<frame, page>>                 *)
  mru_ghost,         (* sequences of pages                                 *)
  mfu_ghost,
  mru_target_size,   (* the length mru is steered to                       *)
  evictable_pages,   (* frames reported unpinned and not evicted since     *)
  poisoned           (* a thread panicked with the mutex held              *)

arc_vars == <<mru, mfu, mru_ghost, mfu_ghost, mru_target_size,
              evictable_pages, poisoned>>

ArcInit ==
  /\ mru = <<>> /\ mfu = <<>>
  /\ mru_ghost = <<>> /\ mfu_ghost = <<>>
  /\ mru_target_size = 0
  /\ evictable_pages = {}
  /\ poisoned = FALSE

ArcTypeOK ==
  /\ mru \in Seq(FrameId \X PageId) /\ mfu \in Seq(FrameId \X PageId)
  /\ mru_ghost \in Seq(PageId) /\ mfu_ghost \in Seq(PageId)
  /\ mru_target_size \in 0 .. U32 - 1
  /\ evictable_pages \subseteq FrameId
  /\ poisoned \in BOOLEAN

-----------------------------------------------------------------------------
Prepend(e, list) == <<e>> \o list

(* VecDeque::retain: the entries that are not gone, in the same order. *)
Retain(list, gone) ==
  LET kept[i \in 0 .. Len(list)] ==
        IF i = 0 THEN <<>>
        ELSE IF list[i] \in gone THEN kept[i - 1]
        ELSE Append(kept[i - 1], list[i])
  IN  kept[Len(list)]

(* Mutation of Without: the retain is forgotten. *)
WithEverything(list, e) == list

(* retain(|x| x != e) *)
Without(list, e) == Retain(list, {e})

(* Mutation of DropBack: the oldest ghost is kept. *)
KeepBack(list) == list

(* VecDeque::pop_back, its result unused *)
DropBack(list) == IF list = <<>> THEN <<>> ELSE Front(list)

set_evictable(f) ==
  /\ evictable_pages' = evictable_pages \cup {f}
  /\ UNCHANGED <<mru, mfu, mru_ghost, mfu_ghost, mru_target_size, poisoned>>

-----------------------------------------------------------------------------
(* record_access, one definition for each of its returns.                  *)

Panic ==
  /\ poisoned' = TRUE
  /\ UNCHANGED <<mru, mfu, mru_ghost, mfu_ghost, mru_target_size>>

(* The new target, after wrapping, of a hit in mru_ghost. *)
RaisedTarget ==
  LET increase == Len(mfu_ghost) \div Len(mru_ghost)
  IN  IF /\ Len(mru_ghost) >= Len(mfu_ghost)
         /\ (mru_target_size + 1) % U32 < replacer_size
      THEN (mru_target_size + 1) % U32
      ELSE IF (mru_target_size + increase) % U32 <= replacer_size
           THEN (mru_target_size + increase) % U32
           ELSE mru_target_size

(* The additions of a hit in mru_ghost wrap only at a target that has      *)
(* wrapped before, which the checks of a debug build rule out.             *)

(* Mutation of LoweredTarget: the second subtraction is not guarded. *)
LoweredUnchecked == mru_target_size - (Len(mru_ghost) \div Len(mfu_ghost))

(* Mutation of LoweredTarget: the wrong direction. *)
LoweredUpwards == mru_target_size + 1

(* A hit in mfu_ghost computes mru_target_size - 1 before it compares it   *)
(* with 0: at target 0 that wraps.                                         *)
LowerByOne == Len(mfu_ghost) >= Len(mru_ghost)

LoweredTarget ==
  LET decrease == Len(mru_ghost) \div Len(mfu_ghost)
  IN  IF LowerByOne /\ (mru_target_size - 1) % U32 > 0
      THEN (mru_target_size - 1) % U32
      ELSE IF mru_target_size >= decrease
           THEN mru_target_size - decrease
           ELSE mru_target_size

Tracked(f, p) == <<f, p>> \in Range(mru) \cup Range(mfu)

HitResident(f, p) ==
  /\ Tracked(f, p)
  /\ mru' = Without(mru, <<f, p>>)
  /\ mfu' = Prepend(<<f, p>>, Without(mfu, <<f, p>>))
  /\ UNCHANGED <<mru_ghost, mfu_ghost, mru_target_size, poisoned>>

HitMruGhost(f, p) ==
  /\ ~Tracked(f, p) /\ p \in Range(mru_ghost)
  /\ mru_target_size' = RaisedTarget
  /\ mru_ghost' = Without(mru_ghost, p)
  /\ mfu' = Prepend(<<f, p>>, mfu)
  /\ UNCHANGED <<mru, mfu_ghost, poisoned>>

HitMfuGhost(f, p) ==
  /\ ~Tracked(f, p) /\ p \notin Range(mru_ghost) /\ p \in Range(mfu_ghost)
  /\ IF OverflowChecks /\ LowerByOne /\ mru_target_size = 0
     THEN Panic
     ELSE /\ mru_target_size' = LoweredTarget
          /\ mfu_ghost' = Without(mfu_ghost, p)
          /\ mfu' = Prepend(<<f, p>>, mfu)
          /\ UNCHANGED <<mru, mru_ghost, poisoned>>

(* A page in none of the lists.  When mru and its ghosts outnumber the     *)
(* frames the page is not entered anywhere.                                *)
Miss(f, p) ==
  LET seen_once == Len(mru) + Len(mru_ghost)
      listed == seen_once + Len(mfu) + Len(mfu_ghost)
  IN
  /\ ~Tracked(f, p) /\ p \notin Range(mru_ghost) \cup Range(mfu_ghost)
  /\ mru' = IF seen_once <= replacer_size THEN Prepend(<<f, p>>, mru) ELSE mru
  /\ mru_ghost' = IF seen_once = replacer_size THEN DropBack(mru_ghost)
                  ELSE mru_ghost
  /\ mfu_ghost' = IF seen_once < replacer_size /\ listed = 2 * replacer_size
                  THEN DropBack(mfu_ghost) ELSE mfu_ghost
  /\ UNCHANGED <<mfu, mru_target_size, poisoned>>

record_access(f, p) ==
  /\ \/ HitResident(f, p)
     \/ HitMruGhost(f, p)
     \/ HitMfuGhost(f, p)
     \/ Miss(f, p)
  /\ UNCHANGED evictable_pages

-----------------------------------------------------------------------------
(* evict returns a frame, or None when CanEvict is false.                  *)

HasEvictable(list) ==
  \E i \in DOMAIN list : list[i][1] \in evictable_pages

CanEvict == HasEvictable(mru) \/ HasEvictable(mfu)

(* Position i of a list is the last one with an evictable frame. *)
IsVictim(list, i) ==
  /\ list[i][1] \in evictable_pages
  /\ \A j \in i + 1 .. Len(list) : list[j][1] \notin evictable_pages

evict_from_mru_ghost(f) ==
  \E i \in DOMAIN mru :
    /\ IsVictim(mru, i) /\ f = mru[i][1]
    /\ mru' = RemoveAt(mru, i)
    /\ mru_ghost' = Prepend(mru[i][2], mru_ghost)
    /\ evictable_pages' = evictable_pages \ {f}
    /\ UNCHANGED <<mfu, mfu_ghost, mru_target_size, poisoned>>

evict_from_mfu_ghost(f) ==
  \E i \in DOMAIN mfu :
    /\ IsVictim(mfu, i) /\ f = mfu[i][1]
    /\ mfu' = RemoveAt(mfu, i)
    /\ mfu_ghost' = Prepend(mfu[i][2], mfu_ghost)
    /\ evictable_pages' = evictable_pages \ {f}
    /\ UNCHANGED <<mru, mru_ghost, mru_target_size, poisoned>>

evict(f) ==
  IF Len(mru) >= mru_target_size
  THEN \/ evict_from_mru_ghost(f)
       \/ ~HasEvictable(mru) /\ evict_from_mfu_ghost(f)
  ELSE \/ evict_from_mfu_ghost(f)
       \/ ~HasEvictable(mfu) /\ evict_from_mru_ghost(f)

-----------------------------------------------------------------------------
(* remove does nothing to a frame that is evictable.  For any other frame  *)
(* the entries of one list go, mru first; a frame that is in neither list  *)
(* takes page 0 out of the ghost lists instead of its own page.            *)
PagesOf(f, list) == {list[i][2] : i \in {k \in DOMAIN list : list[k][1] = f}}

(* Of several entries for one frame the closure keeps the page of the last *)
(* one it drops.                                                           *)
LastPageOf(f, list) ==
  CHOOSE p \in PagesOf(f, list) :
    \E i \in DOMAIN list :
      /\ list[i] = <<f, p>>
      /\ \A j \in i + 1 .. Len(list) : list[j][1] # f

RemovedPage(f) ==
  IF PagesOf(f, mru) # {} THEN LastPageOf(f, mru)
  ELSE IF PagesOf(f, mfu) # {} THEN LastPageOf(f, mfu)
  ELSE 0

WithoutFrame(list, f) == Retain(list, {f} \X PageId)

remove(f) ==
  IF f \in evictable_pages
  THEN UNCHANGED arc_vars
  ELSE /\ mru' = WithoutFrame(mru, f)
       /\ mfu' = IF PagesOf(f, mru) = {} THEN WithoutFrame(mfu, f) ELSE mfu
       /\ mru_ghost' = Without(mru_ghost, RemovedPage(f))
       /\ mfu_ghost' = Without(mfu_ghost, RemovedPage(f))
       /\ UNCHANGED <<mru_target_size, evictable_pages, poisoned>>
=============================================================================
