---------------------------- MODULE DiskManager ----------------------------
(***************************************************************************)
(* src/src/disk_manager.rs: the page table of the database file.           *)
(*                                                                         *)
(* A page lives in a slot of PAGE_SIZE bytes; the slot with number s is at *)
(* byte offset s * PAGE_SIZE, and offsets are modelled by slot numbers.    *)
(* The file is a function from its slots to their contents.  Deleting a    *)
(* page puts its slot on a stack of free slots; a page without a slot gets *)
(* the top of that stack, or else the slot whose number is the number of   *)
(* mapped pages, doubling the capacity of the file when it fills up.  The  *)
(* length of the file is set at the same time, but nobody looks at whether *)
(* that has worked: the capacity is what the table of pages goes by, and   *)
(* the file may be shorter or longer.                                      *)
(*                                                                         *)
(* Every method takes &mut self and is called by one worker thread with    *)
(* the manager's mutex held, so each is one step.  A call that panics ends *)
(* that thread and poisons the mutex: no call comes after it.  num_writes  *)
(* and num_deletes are read by tests only and are left out.                *)
(***************************************************************************)
EXTENDS Naturals, Sequences, FiniteSets, SequencesExt

CONSTANTS
  PageId,            (* page identifiers, a finite set (u32)               *)
  Data,              (* contents of a slot                                 *)
  Zero,              (* the content of a slot that set_len has added       *)
  Absent,            (* stands for "no content" in the abstract store      *)
  InitialCapacity,   (* DB_IO_SIZE                                         *)
  FileLengths        (* how many slots the file can have once it is open   *)

ASSUME PageIdAssumption == IsFiniteSet(PageId)
ASSUME DataAssumption == Zero \in Data /\ Absent \notin Data
ASSUME CapacityAssumption == InitialCapacity \in Nat \ {0}
(* new panics over a file that is shorter than the capacity. *)
ASSUME LengthsAssumption ==
  \A n \in FileLengths : n \in Nat /\ n >= InitialCapacity

VARIABLES
  pages,             (* the slot of every mapped page                      *)
  free_slots,        (* stack of slots of deleted pages, top at the end    *)
  page_capacity,     (* the slots the file is meant to have, less one      *)
  file,              (* the content of every slot of the file              *)
  reply              (* the answer of the last call                        *)

vars == <<pages, free_slots, page_capacity, file, reply>>

Mapped == DOMAIN pages

-----------------------------------------------------------------------------
(* The number of slots of a file. *)
FileSize(f) == Cardinality(DOMAIN f)

(* File::set_len: slots beyond the old end read as zeros, slots beyond the *)
(* new end are gone.                                                       *)
SetLen(f, n) ==
  [s \in 0 .. n - 1 |-> IF s \in DOMAIN f THEN f[s] ELSE Zero]

(* seek and write_all: writing past the end extends the file. *)
Overwrite(f, s, d) ==
  [x \in DOMAIN f \cup 0 .. s |->
     IF x = s THEN d ELSE IF x \in DOMAIN f THEN f[x] ELSE Zero]

(* seek and read_exact: at the end of the file read_page returns the       *)
(* buffer as the caller has passed it, and callers pass zeros.             *)
Contents(f, s) == IF s \in DOMAIN f THEN f[s] ELSE Zero

(* Mutation of SlotFor: the free list is not looked at. *)
SlotIgnoringFree(p) == IF p \in Mapped THEN pages[p] ELSE Cardinality(Mapped)

(* The slot read_page and write_page go to for page p. *)
SlotFor(p) ==
  IF p \in Mapped THEN pages[p]
  ELSE IF free_slots # <<>> THEN Last(free_slots)
  ELSE Cardinality(Mapped)

(* A page without a slot is given a new one while the file is nearly full. *)
FillsUp(p) ==
  /\ p \notin Mapped
  /\ free_slots = <<>>
  /\ Cardinality(Mapped) + 1 >= page_capacity

(* Mutation of NewCapacity: the file is made longer, the capacity is not.  *)
SameCapacity == page_capacity

NewCapacity == 2 * page_capacity

(* What locating the slot of p does to the free list and to the capacity,  *)
(* and the files it can leave: the result of set_len is dropped, so the    *)
(* file may be as it was.                                                  *)
Locate(p) ==
  /\ free_slots' = IF p \notin Mapped /\ free_slots # <<>>
                   THEN Front(free_slots) ELSE free_slots
  /\ page_capacity' = IF FillsUp(p) THEN NewCapacity ELSE page_capacity

GrownFiles(p) ==
  {file} \cup (IF FillsUp(p) THEN {SetLen(file, 2 * page_capacity + 1)} ELSE {})

(* The page table with page p in slot s, and without page p. *)
WithSlot(p, s) == [q \in Mapped \cup {p} |-> IF q = p THEN s ELSE pages[q]]
WithoutSlot(p) == [q \in Mapped \ {p} |-> pages[q]]

-----------------------------------------------------------------------------
(* DiskManager::new: the file may be left over from an earlier run; it is  *)
(* cut or extended to one slot more than the capacity unless set_len       *)
(* fails, and no page of it is mapped.                                     *)
Init ==
  /\ pages = [p \in {} |-> 0]
  /\ free_slots = <<>>
  /\ page_capacity = InitialCapacity
  /\ \E n \in FileLengths : file \in [0 .. n - 1 -> Data]
  /\ reply = [op |-> "none"]

Working == reply.op # "panic"

write_page(p, d) ==
  /\ Locate(p)
  /\ \E f \in GrownFiles(p) : file' = Overwrite(f, SlotFor(p), d)
  /\ pages' = WithSlot(p, SlotFor(p))
  /\ reply' = [op |-> "write", page |-> p]

(* Mutation of write_page_err: the page is mapped before it is written.    *)
write_page_err_mapped(p, d) ==
  /\ Locate(p)
  /\ \E f \in GrownFiles(p) : file' \in {f, Overwrite(f, SlotFor(p), d)}
  /\ pages' = WithSlot(p, SlotFor(p))
  /\ reply' = [op |-> "error", page |-> p]

(* The ? operator after seek or write_all: the slot has been chosen, its   *)
(* content may be as it was or torn, and the page is not mapped to it.     *)
write_page_err(p, d) ==
  /\ Locate(p)
  /\ \E f \in GrownFiles(p) : file' \in {f, Overwrite(f, SlotFor(p), d)}
  /\ reply' = [op |-> "error", page |-> p]
  /\ UNCHANGED pages

(* A page without a slot takes one here too, but is not mapped to it.  An  *)
(* offset behind the end of the file is a panic.                           *)
read_page(p) ==
  /\ Locate(p)
  /\ file' \in GrownFiles(p)
  /\ reply' = IF SlotFor(p) > FileSize(file')
              THEN [op |-> "panic", page |-> p]
              ELSE [op |-> "read", page |-> p, data |-> Contents(file', SlotFor(p))]
  /\ UNCHANGED pages

(* metadata, seek or read_exact fails. *)
read_page_err(p) ==
  /\ Locate(p)
  /\ file' \in GrownFiles(p)
  /\ reply' = [op |-> "error", page |-> p]
  /\ UNCHANGED pages

delete_page(p) ==
  /\ IF p \in Mapped
     THEN /\ pages' = WithoutSlot(p)
          /\ free_slots' = Append(free_slots, pages[p])
     ELSE UNCHANGED <<pages, free_slots>>
  /\ reply' = [op |-> "delete", page |-> p]
  /\ UNCHANGED <<page_capacity, file>>

-----------------------------------------------------------------------------
(* The calls the buffer pool makes as long as its clients ask for pages    *)
(* they have created and not deleted: new_page writes a page before        *)
(* anything reads it.  A call may fail when the page has a slot; a page    *)
(* whose first write fails has no slot, and is in NextAny.                 *)
Next ==
  /\ Working
  /\ \E p \in PageId :
       \/ \E d \in Data : write_page(p, d) \/ (p \in Mapped /\ write_page_err(p, d))
       \/ p \in Mapped /\ (read_page(p) \/ read_page_err(p))
       \/ delete_page(p)

Spec == Init /\ [][Next]_vars

(* Every call the interface accepts, and every failure of it. *)
NextAny ==
  /\ Working
  /\ \E p \in PageId :
       \/ \E d \in Data : write_page(p, d) \/ write_page_err(p, d)
       \/ read_page(p) \/ read_page_err(p)
       \/ delete_page(p)

SpecAny == Init /\ [][NextAny]_vars
=============================================================================
