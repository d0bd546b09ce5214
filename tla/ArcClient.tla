----------------------------- MODULE ArcClient -----------------------------
(***************************************************************************)
(* The replacer of arc_replacer.rs driven the way the buffer pool drives   *)
(* it (src/src/buffer_pool.rs, src/src/guard.rs), with everything of the   *)
(* pool but the page of each frame abstracted away: a page is loaded into  *)
(* a frame that holds none, a frame is taken away only when every frame    *)
(* holds a page, and a frame becomes evictable when its last guard goes.   *)
(***************************************************************************)
EXTENDS ArcReplacer

CONSTANT NoPage    (* the content of a frame that is free                  *)

ASSUME ClientAssumption == NoPage \notin PageId

VARIABLE page_of   (* the page each frame holds                            *)

vars == <<arc_vars, page_of>>

Free == {f \in FrameId : page_of[f] = NoPage}
Loaded == {page_of[f] : f \in FrameId \ Free}

Init ==
  /\ ArcInit
  /\ page_of = [f \in FrameId |-> NoPage]

(* A guard is made for a resident page. *)
Access(f) ==
  /\ f \notin Free
  /\ record_access(f, page_of[f])
  /\ UNCHANGED page_of

(* A guard is made for a page that has just been read into a free frame. *)
Load(f, p) ==
  /\ f \in Free /\ p \notin Loaded
  /\ record_access(f, p)
  /\ page_of' = [page_of EXCEPT ![f] = p]

(* A page is asked for that is not resident and there is no free frame. *)
Evict(f) ==
  /\ Free = {} /\ PageId \ Loaded # {}
  /\ evict(f)
  /\ page_of' = [page_of EXCEPT ![f] = NoPage]

(* The last guard of a frame is dropped.  The report is the last step of   *)
(* drop and takes no latch: it can come again for a frame that has been    *)
(* reported already, and late, for a frame that holds another page or none *)
(* by then.                                                                *)
Release(f) ==
  /\ set_evictable(f)
  /\ UNCHANGED page_of

(* delete_page, for a page whose pin count is 0. *)
Delete(f) ==
  /\ f \notin Free
  /\ remove(f)
  /\ page_of' = [page_of EXCEPT ![f] = NoPage]

(* A panic poisons the mutex: every later call panics too. *)
Next ==
  /\ ~poisoned
  /\ \E f \in FrameId :
       \/ Access(f) \/ Evict(f) \/ Release(f)
       \/ \E p \in PageId : Load(f, p)

Spec == Init /\ [][Next]_vars

(* Pages are deleted too. *)
NextDelete ==
  \/ Next
  \/ ~poisoned /\ \E f \in FrameId : Delete(f)

SpecDelete == Init /\ [][NextDelete]_vars

-----------------------------------------------------------------------------
Listed(list) == [i \in DOMAIN list |-> list[i][1]]

TypeOK ==
  /\ ArcTypeOK
  /\ page_of \in [FrameId -> PageId \cup {NoPage}]

(* The lists of the replacer and the page table of the pool agree: the     *)
(* frames listed are exactly the frames that hold a page, each listed once *)
(* and with that page.  Nothing in arc_replacer.rs states it, yet evict    *)
(* only finds what is listed.  It holds as long as no page is deleted      *)
(* (Spec): remove leaves an evictable frame listed.                        *)
ListsMatchFrames ==
  ~poisoned =>
    /\ Range(mru) \cup Range(mfu) = {<<f, page_of[f]>> : f \in FrameId \ Free}
    /\ IsInjective(Listed(mru)) /\ IsInjective(Listed(mfu))
    /\ Range(mru) \cap Range(mfu) = {}

(* A page is at most once in the ghost lists of arc_replacer.rs and never  *)
(* while it is loaded: record_access takes it out of the list it hit.      *)
(* Without deletes too: remove leaves the page of an evictable frame in    *)
(* its list, and a later eviction makes a ghost of it.                     *)
GhostsAreNotLoaded ==
  ~poisoned =>
    /\ IsInjective(mru_ghost) /\ IsInjective(mfu_ghost)
    /\ Range(mru_ghost) \cap Range(mfu_ghost) = {}
    /\ (Range(mru_ghost) \cup Range(mfu_ghost)) \cap Loaded = {}

(* The sizes the policy keeps to: mru with its ghosts never outgrows the   *)
(* frames, and all lists together never exceed twice the frames, so the    *)
(* last case of record_access, which tracks nothing, is never reached as   *)
(* long as no page is deleted (Spec).                                      *)
SizesBounded ==
  /\ Len(mru) + Len(mru_ghost) <= replacer_size
  /\ Len(mru) + Len(mfu) + Len(mru_ghost) + Len(mfu_ghost) <= 2 * replacer_size

(* README.md: "A hit in a ghost list moves mru_target_size, so the cache   *)
(* shifts toward whichever list is paying off": a ghost hit is served and  *)
(* is never the end of the program.                                        *)
GhostHitsAreServed == ~poisoned

(* A hit in the ghosts of one list never moves the target away from that   *)
(* list, as long as the target has not wrapped and this hit does not wrap  *)
(* it (arc_replacer.rs:67-74 and :83-90).                                  *)
TargetMovesTowardTheHit ==
  [][mru_target_size <= replacer_size =>
       \A p \in PageId \ Loaded :
         p \in Loaded' =>
           /\ p \in Range(mru_ghost) => mru_target_size' >= mru_target_size
           /\ p \in Range(mfu_ghost) /\ mru_target_size > 0
                => mru_target_size' <= mru_target_size]_vars
=============================================================================
