-------------------------- MODULE DiskManagerProps -------------------------
(***************************************************************************)
(* What is expected of the disk manager, as state predicates and as the    *)
(* abstract specification it implements.                                   *)
(***************************************************************************)
EXTENDS DiskManager

Reply ==
  [op : {"none"}] \cup [op : {"write", "error", "delete", "panic"}, page : PageId]
    \cup [op : {"read"}, page : PageId, data : Data]

(* Slots are below the capacity, which is why a set_len that does work     *)
(* never cuts off a slot in use, however many have failed before it.       *)
TypeOK ==
  /\ Mapped \subseteq PageId
  /\ page_capacity \in Nat \ {0}
  /\ pages \in [Mapped -> 0 .. page_capacity - 1]
  /\ free_slots \in Seq(0 .. page_capacity - 1)
  /\ FileSize(file) \in Nat
  /\ file \in [0 .. FileSize(file) - 1 -> Data]
  /\ reply \in Reply

(* Slots handed out so far: the next fresh slot is numbered by the count   *)
(* of mapped pages, which is this number exactly when the free list is     *)
(* empty.                                                                  *)
SlotsInUse == Cardinality(Mapped) + Len(free_slots)

(* The map from pages to offsets and the free list of disk_manager.rs      *)
(* partition the slots handed out: no two pages share a slot, no free slot *)
(* belongs to a page or is listed twice, and no slot is lost.  It is what  *)
(* makes the count of mapped pages a fresh slot number when the free list  *)
(* is empty.                                                               *)
SlotPartition ==
  /\ IsInjective(pages)
  /\ IsInjective(free_slots)
  /\ Range(pages) \cap Range(free_slots) = {}
  /\ Range(pages) \cup Range(free_slots) = 0 .. SlotsInUse - 1

(* Every slot that a page has, or that the free list offers, lies inside   *)
(* the file, and read_page has not found one "out of bounds", although the *)
(* capacity doubles when set_len fails and the file stays as it is         *)
(* (disk_manager.rs:83-86): a slot is recorded only after the write to it  *)
(* has extended the file, whatever calls, known pages or not, have failed. *)
SlotsInFile ==
  /\ Range(pages) \cup Range(free_slots) \subseteq DOMAIN file
  /\ reply.op # "panic"

(* A call for one page leaves the content of every other mapped page       *)
(* alone, even a call that fails or that reads a page nobody created, as   *)
(* long as no slot has been lost: the count of slots in use still covers   *)
(* every slot a page has.                                                  *)
LeavesOthersAlone ==
  SlotPartition =>
    \A q \in Mapped \cap Mapped' :
      reply'.page # q => file'[pages'[q]] = file[pages[q]]

OthersUntouched == [][LeavesOthersAlone]_vars

(* README.md, "Disk manager": "Maps each page_id to a byte offset in the   *)
(* file."  test_use_existing_slot (disk_manager.rs:254) asserts that the   *)
(* offsets of two pages differ.                                            *)
PagesDoNotShareSlots ==
  \A p, q \in Mapped : p # q => pages[p] # pages[q]

(* The disk manager implements the abstract page store: the content of a   *)
(* page is what its slot of the file holds.                                *)
Store == INSTANCE PageStore WITH
  store <- [p \in PageId |-> IF p \in Mapped THEN file[pages[p]] ELSE Absent]

StoreSpec == Store!Spec
=============================================================================
