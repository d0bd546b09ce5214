-------------------------- MODULE ArcClientProofs --------------------------
(***************************************************************************)
(* Proofs about the replacer as the buffer pool drives it (ArcClient.tla), *)
(* and about its counter curr_size (ArcCounting.tla), for any number of    *)
(* frames and pages, in a debug and in a release build.                    *)
(***************************************************************************)
EXTENDS ArcCounting, ArcReplacerProofs

Entry == FrameId \X PageId

(* Every frame that holds a page, with that page. *)
Held == {<<f, page_of[f]>> : f \in FrameId \ Free}

(* A page is in one frame at most: a page is loaded only when it is not.   *)
OneFrameEach ==
  \A f, g \in FrameId \ Free : page_of[f] = page_of[g] => f = g

(***************************************************************************)
(* The inductive invariant.  The sizes need the lists to match the frames: *)
(* a miss drops a ghost to make room, and that there is one to drop is     *)
(* because the frame the page goes to is not listed.  That a ghost is not  *)
(* loaded needs that a page leaves the frames for good when its frame is   *)
(* taken away.                                                             *)
(***************************************************************************)
IInv ==
  /\ TypeOK
  /\ OneFrameEach
  /\ ListsMatchFrames
  /\ GhostsAreNotLoaded
  /\ SizesBounded

(* The entry of a frame in a list is of the page the frame holds. *)
LEMMA EntriesAreHeld ==
  ASSUME TypeOK, NEW e \in Held
  PROVE  /\ e \in Entry /\ e[1] \in FrameId \ Free
         /\ e = <<e[1], page_of[e[1]]>>
         /\ page_of[e[1]] \in PageId /\ e[2] = page_of[e[1]]
<1>1. PICK f \in FrameId \ Free : e = <<f, page_of[f]>>
  BY DEF Held
<1>2. page_of[f] \in PageId
  BY DEF TypeOK, Free
<1> QED BY <1>1, <1>2 DEF Entry

(* A frame that holds no page is on no list. *)
LEMMA NotListed ==
  ASSUME TypeOK, NEW list, Range(list) \subseteq Held,
         NEW f, f \notin FrameId \ Free
  PROVE  f \notin Range(Frames(list))
<1>1. \A i \in DOMAIN list : list[i][1] \in FrameId \ Free
  BY EntriesAreHeld DEF Range
<1> QED BY <1>1 DEF Frames, Range

(* A list without duplicates that leaves out a frame is shorter than the   *)
(* number of frames.                                                       *)
LEMMA RoomForOneMore ==
  ASSUME NEW list \in Seq(Entry), IsInjective(Frames(list)),
         NEW f \in FrameId, f \notin Range(Frames(list))
  PROVE  Len(list) <= replacer_size - 1
<1>1. PICK n \in Nat : n = Len(list) /\ DOMAIN list = 1 .. n
  BY LenProperties
<1>2. PICK others : others = FrameId \ {f}
  OBVIOUS
<1>3. PICK h : h = Frames(list)
  OBVIOUS
<1>4. h \in [1 .. n -> others]
  <2>1. \A i \in 1 .. n : list[i] \in Entry
    BY <1>1, ElementOfSeq
  <2>2. \A i \in 1 .. n : list[i][1] \in FrameId
    BY <2>1 DEF Entry
  <2>3. \A i \in 1 .. n : list[i][1] # f
    BY <1>1 DEF Frames, Range
  <2> QED BY <1>1, <1>2, <1>3, <2>2, <2>3 DEF Frames
<1>5. IsFiniteSet(FrameId) /\ Cardinality(FrameId) = replacer_size
  BY ReplacerAssumption, FS_Interval
<1>6. IsFiniteSet(others) /\ Cardinality(others) = replacer_size - 1
  BY <1>2, <1>5, FS_RemoveElement
<1>7. h \in Injection(1 .. n, others)
  BY <1>3, <1>4 DEF Injection, IsInjective
<1>8. Cardinality(1 .. n) <= Cardinality(others)
  BY <1>6, <1>7, FS_Injection
<1>9. Cardinality(1 .. n) = n
  BY FS_Interval
<1> QED BY <1>1, <1>6, <1>8, <1>9

(* The invariant without its guards, in a state where nobody has panicked. *)
Matches ==
  /\ Range(mru) \cup Range(mfu) = Held
  /\ IsInjective(Frames(mru)) /\ IsInjective(Frames(mfu))
  /\ Range(mru) \cap Range(mfu) = {}

LEMMA ListsAreMatched ==
  ListsMatchFrames <=> (~poisoned => Matches)
BY DEF ListsMatchFrames, Matches, Held, Listed, Frames

LEMMA ListsAreMatchedNext ==
  ListsMatchFrames' <=> (~poisoned' => Matches')
BY DEF ListsMatchFrames, Matches, Held, Listed, Frames

LEMMA InitIInv == Init => IInv
<1> SUFFICES ASSUME Init PROVE IInv
  OBVIOUS
<1>1. TypeOK
  BY InitTypes DEF Init, TypeOK
<1>2. Free = FrameId /\ Held = {} /\ Loaded = {}
  BY DEF Init, Free, Held, Loaded
<1>3. /\ mru = <<>> /\ mfu = <<>> /\ mru_ghost = <<>> /\ mfu_ghost = <<>>
      /\ Range(<<>>) = {} /\ IsInjective(<<>>) /\ IsInjective(Frames(<<>>))
      /\ Len(<<>>) = 0
  BY DEF Init, ArcInit, Range, IsInjective, Frames
<1>4. ListsMatchFrames
  BY <1>2, <1>3, ListsAreMatched DEF Matches
<1>5. GhostsAreNotLoaded /\ OneFrameEach
  BY <1>2, <1>3 DEF GhostsAreNotLoaded, OneFrameEach
<1>6. SizesBounded
  BY <1>3, ReplacerAssumption DEF SizesBounded
<1> QED BY <1>1, <1>4, <1>5, <1>6 DEF IInv

-----------------------------------------------------------------------------
(* An access to a page that is resident finds it listed, and moves it to   *)
(* the front of mfu.                                                       *)
LEMMA AccessKeepsIInv ==
  ASSUME IInv, ~poisoned, NEW f \in FrameId, Access(f)
  PROVE  IInv'
<1>1. PICK p : p = page_of[f]
  OBVIOUS
<1>2. /\ f \in FrameId \ Free /\ record_access(f, p) /\ page_of' = page_of
      /\ Matches
  BY <1>1, ListsAreMatched DEF Access, IInv
<1>3. PICK e : e = <<f, p>>
  OBVIOUS
<1>4. e \in Held /\ e \in Entry /\ e[1] = f /\ p \in PageId
  BY <1>1, <1>2, <1>3, EntriesAreHeld DEF Held, IInv
<1>5. HitResident(f, p)
  BY <1>2, <1>3, <1>4 DEF record_access, HitMruGhost, HitMfuGhost, Miss, Tracked, Matches
<1>6. PICK r : r = Without(mfu, e)
  OBVIOUS
<1>7. /\ mru' = Without(mru, e) /\ mfu' = Prepend(e, r)
      /\ UNCHANGED <<mru_ghost, mfu_ghost, poisoned>>
  BY <1>3, <1>5, <1>6 DEF HitResident
<1>8. mru \in Seq(Entry) /\ mfu \in Seq(Entry)
  BY DEF IInv, TypeOK, ArcTypeOK, Entry
<1>9. /\ mru' \in Seq(Entry) /\ Range(mru') = Range(mru) \ {e}
      /\ IsInjective(Frames(mru)')
      /\ Len(mru') <= Len(mru) /\ (e \in Range(mru) => Len(mru') < Len(mru))
  <2>1. PICK q : q = Without(mru, e)
    OBVIOUS
  <2>2. /\ q \in Seq(Entry) /\ Range(q) = Range(mru) \ {e} /\ IsInjective(Frames(q))
        /\ Len(q) <= Len(mru) /\ (e \in Range(mru) => Len(q) < Len(mru))
    BY <1>2, <1>8, <2>1, Retained DEF Without, Matches
  <2>3. mru' = q
    BY <1>7, <2>1
  <2> QED BY <2>2, <2>3 DEF Frames
<1>10. /\ r \in Seq(Entry) /\ Range(r) = Range(mfu) \ {e} /\ IsInjective(Frames(r))
       /\ Len(r) <= Len(mfu) /\ (e \in Range(mfu) => Len(r) < Len(mfu))
  BY <1>2, <1>6, <1>8, Retained DEF Without, Matches
<1>11. f \notin Range(Frames(r))
  <2>1. \A i \in DOMAIN r : r[i] \in Held /\ r[i] # e
    BY <1>2, <1>10 DEF Range, Matches
  <2>2. \A i \in DOMAIN r : r[i] = <<r[i][1], page_of[r[i][1]]>>
    BY <2>1, EntriesAreHeld DEF IInv
  <2>3. \A i \in DOMAIN r : r[i][1] # f
    BY <1>1, <1>3, <2>1, <2>2
  <2> QED BY <2>3 DEF Frames, Range
<1>12. /\ mfu' \in Seq(Entry) /\ Range(mfu') = Range(r) \cup {e}
       /\ IsInjective(Frames(mfu)') /\ Len(mfu') = Len(r) + 1
  BY <1>4, <1>7, <1>10, <1>11, Prepended DEF Frames
<1>13. TypeOK'
  BY <1>1, <1>2, <1>4, RecordAccessTypes DEF IInv, TypeOK
<1>14. Free' = Free /\ Loaded' = Loaded /\ Held' = Held
  BY <1>2 DEF Free, Loaded, Held
<1>15. Matches'
  BY <1>2, <1>4, <1>9, <1>10, <1>12, <1>14 DEF Matches
<1>16. OneFrameEach' /\ GhostsAreNotLoaded'
  BY <1>2, <1>7, <1>14 DEF IInv, OneFrameEach, GhostsAreNotLoaded
<1>17. SizesBounded'
  <2>1. e \in Range(mru) \/ e \in Range(mfu)
    BY <1>2, <1>4 DEF Matches
  <2>2. /\ Len(mru) \in Nat /\ Len(mfu) \in Nat /\ Len(mru_ghost) \in Nat
        /\ Len(mfu_ghost) \in Nat /\ Len(mru') \in Nat /\ Len(mfu') \in Nat
        /\ Len(r) \in Nat
    BY <1>8, <1>9, <1>10, <1>12, LenProperties DEF IInv, TypeOK, ArcTypeOK
  <2>3. Len(mru') + Len(mfu') <= Len(mru) + Len(mfu)
    BY <1>9, <1>10, <1>12, <2>1, <2>2
  <2> QED BY <1>7, <1>9, <2>2, <2>3, ReplacerAssumption DEF IInv, SizesBounded
<1> QED BY <1>13, <1>15, <1>16, <1>17, ListsAreMatchedNext DEF IInv

-----------------------------------------------------------------------------
(* A page is loaded into a free frame.  What is common to the three cases: *)
(* one list gets the new entry, the other one stays.                       *)
LoadInto(f, p) ==
  /\ f \in Free /\ p \in PageId /\ p \notin Loaded
  /\ page_of' = [page_of EXCEPT ![f] = p]

LEMMA LoadChangesFrames ==
  ASSUME TypeOK, OneFrameEach, NEW f \in FrameId, NEW p, LoadInto(f, p)
  PROVE  /\ Free' = Free \ {f}
         /\ Loaded' = Loaded \cup {p}
         /\ Held' = Held \cup {<<f, p>>}
         /\ <<f, p>> \in Entry /\ <<f, p>> \notin Held
         /\ OneFrameEach'
<1>1. /\ p # NoPage /\ page_of[f] = NoPage /\ page_of'[f] = p
      /\ \A g \in FrameId \ {f} : page_of'[g] = page_of[g]
      /\ p \in PageId /\ p \notin Loaded
  BY ClientAssumption DEF LoadInto, TypeOK, Free
<1>2. Free' = Free \ {f}
  BY <1>1 DEF Free
<1>3. FrameId \ Free' = (FrameId \ Free) \cup {f} /\ f \notin FrameId \ Free
  BY <1>2 DEF LoadInto
<1>4. Loaded' = Loaded \cup {p}
  BY <1>1, <1>3 DEF Loaded
<1>5. Held' = Held \cup {<<f, p>>}
  <2>1. \A g \in FrameId \ Free : <<g, page_of'[g]>> = <<g, page_of[g]>>
    BY <1>1, <1>3
  <2> QED BY <1>1, <1>3, <2>1 DEF Held
<1>6. <<f, p>> \in Entry /\ <<f, p>> \notin Held
  BY <1>1, <1>3 DEF Entry, Held
<1>7. OneFrameEach'
  <2>1. \A g \in FrameId \ Free : page_of[g] # p
    BY <1>1 DEF Loaded
  <2> QED BY <1>1, <1>3, <2>1 DEF OneFrameEach
<1> QED BY <1>2, <1>4, <1>5, <1>6, <1>7

LEMMA EntryPrepended ==
  ASSUME NEW list \in Seq(Entry), NEW e \in Entry,
         e[1] \notin Range(Frames(list)), IsInjective(Frames(list))
  PROVE  /\ Range(Prepend(e, list)) = Range(list) \cup {e}
         /\ IsInjective(Frames(Prepend(e, list)))
<1>1. Range(Prepend(e, list)) = Range(list) \cup {e}
  BY Prepended
<1>2. IsInjective(Frames(Prepend(e, list)))
  BY Prepended
<1> QED BY <1>1, <1>2

LEMMA LoadMatches ==
  ASSUME TypeOK, OneFrameEach, Matches, NEW f \in FrameId, NEW p, LoadInto(f, p),
         \/ mru' = Prepend(<<f, p>>, mru) /\ mfu' = mfu
         \/ mfu' = Prepend(<<f, p>>, mfu) /\ mru' = mru
  PROVE  Matches'
<1>1. PICK e : e = <<f, p>>
  OBVIOUS
<1>2. Held' = Held \cup {e} /\ e \in Entry /\ e \notin Held /\ e[1] = f
  BY <1>1, LoadChangesFrames
<1>3. mru \in Seq(Entry) /\ mfu \in Seq(Entry)
  BY DEF TypeOK, ArcTypeOK, Entry
<1>4. f \notin Range(Frames(mru)) /\ f \notin Range(Frames(mfu))
  BY NotListed DEF Matches, LoadInto
<1>5. CASE mru' = Prepend(e, mru) /\ mfu' = mfu
  <2>1. e[1] \notin Range(Frames(mru)) /\ IsInjective(Frames(mru)) /\ e \in Entry
    BY <1>2, <1>4 DEF Matches
  <2>2. /\ Range(Prepend(e, mru)) = Range(mru) \cup {e}
        /\ IsInjective(Frames(Prepend(e, mru)))
    BY <1>3, <2>1, EntryPrepended
  <2>3. Frames(mru)' = Frames(Prepend(e, mru)) /\ Frames(mfu)' = Frames(mfu)
    BY <1>5 DEF Frames
  <2> QED BY <1>2, <1>5, <2>2, <2>3 DEF Matches
<1>6. CASE mfu' = Prepend(e, mfu) /\ mru' = mru
  <2>1. e[1] \notin Range(Frames(mfu)) /\ IsInjective(Frames(mfu)) /\ e \in Entry
    BY <1>2, <1>4 DEF Matches
  <2>2. /\ Range(Prepend(e, mfu)) = Range(mfu) \cup {e}
        /\ IsInjective(Frames(Prepend(e, mfu)))
    BY <1>3, <2>1, EntryPrepended
  <2>3. Frames(mfu)' = Frames(Prepend(e, mfu)) /\ Frames(mru)' = Frames(mru)
    BY <1>6 DEF Frames
  <2> QED BY <1>2, <1>6, <2>2, <2>3 DEF Matches
<1> QED BY <1>1, <1>5, <1>6

(* A ghost that is loaded leaves its list. *)
LEMMA GhostsStayOut ==
  ASSUME TypeOK, OneFrameEach, GhostsAreNotLoaded, ~poisoned,
         NEW f \in FrameId, NEW p, LoadInto(f, p),
         Range(mru_ghost') \subseteq Range(mru_ghost) \ {p},
         Range(mfu_ghost') \subseteq Range(mfu_ghost) \ {p},
         IsInjective(mru_ghost'), IsInjective(mfu_ghost')
  PROVE  GhostsAreNotLoaded'
<1>1. Loaded' = Loaded \cup {p}
  BY LoadChangesFrames
<1> QED BY <1>1 DEF GhostsAreNotLoaded

(* The lengths of the lists, as numbers. *)
LEMMA LengthsAreNumbers ==
  ASSUME ArcTypeOK
  PROVE  /\ Len(mru) \in Nat /\ Len(mfu) \in Nat
         /\ Len(mru_ghost) \in Nat /\ Len(mfu_ghost) \in Nat
BY LenProperties DEF ArcTypeOK

LEMMA LengthsAreNumbersNext ==
  ASSUME ArcTypeOK'
  PROVE  /\ Len(mru') \in Nat /\ Len(mfu') \in Nat
         /\ Len(mru_ghost') \in Nat /\ Len(mfu_ghost') \in Nat
BY LenProperties DEF ArcTypeOK

LEMMA LoadKeepsIInv ==
  ASSUME IInv, ~poisoned, NEW f \in FrameId, NEW p \in PageId, Load(f, p)
  PROVE  IInv'
<1>1. LoadInto(f, p) /\ record_access(f, p) /\ Matches /\ TypeOK /\ OneFrameEach
  BY ListsAreMatched DEF Load, LoadInto, IInv
<1>2. TypeOK' /\ OneFrameEach'
  <2>1. page_of' \in [FrameId -> PageId \cup {NoPage}]
    BY <1>1 DEF LoadInto, TypeOK
  <2>2. ArcTypeOK'
    BY <1>1, RecordAccessTypes DEF TypeOK
  <2> QED BY <1>1, <2>1, <2>2, LoadChangesFrames DEF TypeOK
<1>3. PICK e : e = <<f, p>> /\ e \in Entry /\ e \notin Held
  BY <1>1, LoadChangesFrames
<1>4. ~Tracked(f, p)
  BY <1>1, <1>3 DEF Tracked, Matches
<1>5. /\ mru \in Seq(Entry) /\ mfu \in Seq(Entry)
      /\ mru_ghost \in Seq(PageId) /\ mfu_ghost \in Seq(PageId)
  BY <1>1 DEF TypeOK, ArcTypeOK, Entry
<1>6. PICK N \in Nat, a \in Nat, b \in Nat, c \in Nat, d \in Nat :
        /\ N = replacer_size /\ a = Len(mru) /\ b = Len(mfu)
        /\ c = Len(mru_ghost) /\ d = Len(mfu_ghost)
  BY <1>1, LengthsAreNumbers, ReplacerAssumption DEF TypeOK
<1>7. a + c <= N /\ a + b + c + d <= 2 * N
  BY <1>6 DEF IInv, SizesBounded
<1>8. CASE HitMruGhost(f, p)
  <2>1. /\ mru_ghost' = Without(mru_ghost, p) /\ mfu' = Prepend(e, mfu)
        /\ UNCHANGED <<mru, mfu_ghost, poisoned>> /\ p \in Range(mru_ghost)
    BY <1>3, <1>8 DEF HitMruGhost
  <2>2. /\ Range(mru_ghost') = Range(mru_ghost) \ {p} /\ Len(mru_ghost') < c
        /\ IsInjective(mru_ghost')
    BY <1>5, <1>6, <2>1, Retained DEF Without, IInv, GhostsAreNotLoaded
  <2>3. Len(mfu') = b + 1
    BY <1>3, <1>5, <1>6, <2>1, Prepended
  <2>4. Matches'
    BY <1>1, <1>3, <2>1, LoadMatches
  <2>5. GhostsAreNotLoaded'
    BY <1>1, <2>1, <2>2, GhostsStayOut DEF IInv, GhostsAreNotLoaded
  <2>6. SizesBounded'
    <3>1. PICK cc \in Nat : cc = Len(mru_ghost')
      BY <1>2, LengthsAreNumbersNext DEF TypeOK
    <3>2. a + cc <= N /\ a + (b + 1) + cc + d <= 2 * N
      BY <1>7, <2>2, <3>1
    <3> QED BY <1>6, <2>1, <2>3, <3>1, <3>2 DEF SizesBounded
  <2> QED BY <1>2, <2>4, <2>5, <2>6, ListsAreMatchedNext DEF IInv
<1>9. CASE HitMfuGhost(f, p)
  <2>1. CASE Panic
    <3>1. poisoned' /\ UNCHANGED <<mru, mfu, mru_ghost, mfu_ghost>>
      BY <2>1 DEF Panic
    <3>2. SizesBounded'
      BY <3>1 DEF IInv, SizesBounded
    <3> QED BY <1>2, <3>1, <3>2 DEF IInv, ListsMatchFrames, GhostsAreNotLoaded
  <2>2. CASE /\ mfu_ghost' = Without(mfu_ghost, p)
             /\ mfu' = Prepend(e, mfu)
             /\ UNCHANGED <<mru, mru_ghost, poisoned>>
    <3>1. p \in Range(mfu_ghost) /\ p \notin Range(mru_ghost)
      BY <1>9 DEF HitMfuGhost
    <3>2. /\ Range(mfu_ghost') = Range(mfu_ghost) \ {p} /\ Len(mfu_ghost') < d
          /\ IsInjective(mfu_ghost')
      BY <1>5, <1>6, <2>2, <3>1, Retained DEF Without, IInv, GhostsAreNotLoaded
    <3>3. Len(mfu') = b + 1
      BY <1>3, <1>5, <1>6, <2>2, Prepended
    <3>4. Matches'
      BY <1>1, <1>3, <2>2, LoadMatches
    <3>5. GhostsAreNotLoaded'
      BY <1>1, <2>2, <3>1, <3>2, GhostsStayOut DEF IInv, GhostsAreNotLoaded
    <3>6. SizesBounded'
      <4>1. PICK dd \in Nat : dd = Len(mfu_ghost')
        BY <1>2, LengthsAreNumbersNext DEF TypeOK
      <4>2. a + c <= N /\ a + (b + 1) + c + dd <= 2 * N
        BY <1>7, <3>2, <4>1
      <4> QED BY <1>6, <2>2, <3>3, <4>1, <4>2 DEF SizesBounded
    <3> QED BY <1>2, <3>4, <3>5, <3>6, ListsAreMatchedNext DEF IInv
  <2> QED BY <1>3, <1>9, <2>1, <2>2 DEF HitMfuGhost
<1>10. CASE Miss(f, p)
  <2>1. /\ p \notin Range(mru_ghost) /\ p \notin Range(mfu_ghost)
        /\ mru' = Prepend(e, mru)
        /\ mru_ghost' = IF a + c = N THEN DropBack(mru_ghost) ELSE mru_ghost
        /\ mfu_ghost' = IF a + c < N /\ a + c + b + d = 2 * N
                        THEN DropBack(mfu_ghost) ELSE mfu_ghost
        /\ UNCHANGED <<mfu, poisoned>>
    BY <1>3, <1>6, <1>7, <1>10 DEF Miss
  <2>2. a <= N - 1 /\ b <= N - 1
    <3>1. f \notin Range(Frames(mru)) /\ f \notin Range(Frames(mfu))
      BY <1>1, NotListed DEF Matches, LoadInto
    <3> QED BY <1>1, <1>5, <1>6, <3>1, RoomForOneMore DEF Matches
  <2>3. Len(mru') = a + 1
    BY <1>3, <1>5, <1>6, <2>1, Prepended
  <2>4. /\ Range(mru_ghost') \subseteq Range(mru_ghost)
        /\ IsInjective(mru_ghost')
        /\ Len(mru_ghost') = IF a + c = N THEN c - 1 ELSE c
    <3>1. a + c = N => c > 0
      BY <2>2
    <3> QED BY <1>5, <1>6, <2>1, <3>1, BackDropped DEF IInv, GhostsAreNotLoaded
  <2>5. /\ Range(mfu_ghost') \subseteq Range(mfu_ghost)
        /\ IsInjective(mfu_ghost')
        /\ Len(mfu_ghost') = IF a + c < N /\ a + c + b + d = 2 * N THEN d - 1 ELSE d
    <3>1. a + c < N /\ a + c + b + d = 2 * N => d > 0
      BY <2>2
    <3> QED BY <1>5, <1>6, <2>1, <3>1, BackDropped DEF IInv, GhostsAreNotLoaded
  <2>6. Matches'
    BY <1>1, <1>3, <2>1, LoadMatches
  <2>7. GhostsAreNotLoaded'
    BY <1>1, <2>1, <2>4, <2>5, GhostsStayOut DEF IInv
  <2>8. SizesBounded'
    <3>1. PICK cc \in Nat, dd \in Nat : cc = Len(mru_ghost') /\ dd = Len(mfu_ghost')
      BY <1>2, LengthsAreNumbersNext DEF TypeOK
    <3>2. (a + 1) + cc <= N /\ (a + 1) + b + cc + dd <= 2 * N
      BY <1>7, <2>4, <2>5, <3>1
    <3> QED BY <1>6, <2>1, <2>3, <3>1, <3>2 DEF SizesBounded
  <2> QED BY <1>2, <2>6, <2>7, <2>8, ListsAreMatchedNext DEF IInv
<1> QED BY <1>1, <1>4, <1>8, <1>9, <1>10 DEF record_access, HitResident

-----------------------------------------------------------------------------
(* A frame is taken away: its entry leaves its list, and its page becomes  *)
(* the first ghost of that list.                                           *)
LEMMA EvictChangesFrames ==
  ASSUME TypeOK, OneFrameEach, NEW f \in FrameId \ Free, NEW p, p = page_of[f],
         page_of' = [page_of EXCEPT ![f] = NoPage]
  PROVE  /\ Free' = Free \cup {f}
         /\ Loaded' = Loaded \ {p} /\ p \in Loaded /\ p \in PageId
         /\ Held' = Held \ {<<f, p>>}
         /\ OneFrameEach'
         /\ page_of' \in [FrameId -> PageId \cup {NoPage}]
<1>1. /\ page_of'[f] = NoPage
      /\ \A g \in FrameId \ {f} : page_of'[g] = page_of[g]
      /\ page_of' \in [FrameId -> PageId \cup {NoPage}]
  BY DEF TypeOK
<1>2. Free' = Free \cup {f}
  BY <1>1 DEF Free
<1>3. FrameId \ Free' = (FrameId \ Free) \ {f}
  BY <1>2
<1>4. \A g \in (FrameId \ Free) \ {f} : page_of[g] # p /\ page_of'[g] = page_of[g]
  BY <1>1 DEF OneFrameEach
<1>5. Loaded' = Loaded \ {p} /\ p \in Loaded /\ p \in PageId
  BY <1>3, <1>4 DEF Loaded, TypeOK, Free
<1>6. Held' = Held \ {<<f, p>>}
  <2>1. \A g \in (FrameId \ Free) \ {f} : <<g, page_of'[g]>> = <<g, page_of[g]>>
    BY <1>4
  <2> QED BY <1>3, <2>1 DEF Held
<1>7. OneFrameEach'
  BY <1>3, <1>4 DEF OneFrameEach
<1> QED BY <1>1, <1>2, <1>5, <1>6, <1>7

(* What leaves a list and becomes a ghost. *)
LEMMA EntryBecomesGhost ==
  ASSUME NEW list \in Seq(Entry), NEW ghosts \in Seq(PageId),
         IsInjective(Frames(list)), IsInjective(ghosts),
         NEW i \in DOMAIN list, NEW p \in PageId, p \notin Range(ghosts)
  PROVE  /\ list[i] \in Range(list)
         /\ Range(RemoveAt(list, i)) = Range(list) \ {list[i]}
         /\ IsInjective(Frames(RemoveAt(list, i)))
         /\ Len(RemoveAt(list, i)) = Len(list) - 1
         /\ Range(Prepend(p, ghosts)) = Range(ghosts) \cup {p}
         /\ IsInjective(Prepend(p, ghosts))
         /\ Len(Prepend(p, ghosts)) = Len(ghosts) + 1
<1>1. PICK r : r = RemoveAt(list, i)
  OBVIOUS
<1>2. /\ list[i] \in Entry /\ list[i] \in Range(list)
      /\ Range(r) \subseteq Range(list) /\ Range(list) \ {list[i]} \subseteq Range(r)
      /\ Len(r) = Len(list) - 1
      /\ IsInjective(Frames(r)) /\ list[i] \notin Range(r)
  BY <1>1, EntryRemoved
<1>3. Range(Prepend(p, ghosts)) = Range(ghosts) \cup {p}
  BY Prepended
<1>4. IsInjective(Prepend(p, ghosts)) /\ Len(Prepend(p, ghosts)) = Len(ghosts) + 1
  BY Prepended
<1> QED BY <1>1, <1>2, <1>3, <1>4

LEMMA EvictKeepsIInv ==
  ASSUME IInv, ~poisoned, NEW f \in FrameId, Evict(f)
  PROVE  IInv'
<1>1. /\ Free = {} /\ evict(f) /\ page_of' = [page_of EXCEPT ![f] = NoPage]
      /\ Matches /\ TypeOK /\ OneFrameEach
  BY ListsAreMatched DEF Evict, IInv
<1>2. PICK p : p = page_of[f]
  OBVIOUS
<1>3. f \in FrameId \ Free
  BY <1>1
<1>4. /\ Loaded' = Loaded \ {p} /\ p \in Loaded /\ p \in PageId
      /\ Held' = Held \ {<<f, p>>}
      /\ OneFrameEach'
      /\ page_of' \in [FrameId -> PageId \cup {NoPage}]
  BY <1>1, <1>2, <1>3, EvictChangesFrames
<1>5. TypeOK'
  BY <1>1, <1>4, EvictTypes DEF TypeOK
<1>6. p \notin Range(mru_ghost) /\ p \notin Range(mfu_ghost)
  BY <1>4 DEF IInv, GhostsAreNotLoaded
<1>7. /\ mru \in Seq(Entry) /\ mfu \in Seq(Entry)
      /\ mru_ghost \in Seq(PageId) /\ mfu_ghost \in Seq(PageId)
      /\ IsInjective(mru_ghost) /\ IsInjective(mfu_ghost)
  BY DEF IInv, TypeOK, ArcTypeOK, Entry, GhostsAreNotLoaded
<1>8. /\ Len(mru) \in Nat /\ Len(mfu) \in Nat
      /\ Len(mru_ghost) \in Nat /\ Len(mfu_ghost) \in Nat
  BY <1>1, LengthsAreNumbers DEF TypeOK
<1>9. CASE evict_from_mru_ghost(f)
  <2>1. PICK i \in DOMAIN mru :
          /\ f = mru[i][1]
          /\ mru' = RemoveAt(mru, i)
          /\ mru_ghost' = Prepend(mru[i][2], mru_ghost)
          /\ UNCHANGED <<mfu, mfu_ghost, poisoned>>
    BY <1>9 DEF evict_from_mru_ghost
  <2>2. mru[i] \in Held
    BY <1>1 DEF Matches, Range
  <2>3. mru[i] = <<f, p>> /\ mru[i][2] = p
    BY <1>1, <1>2, <2>1, <2>2, EntriesAreHeld
  <2>4. /\ Range(mru') = Range(mru) \ {<<f, p>>}
        /\ IsInjective(Frames(RemoveAt(mru, i)))
        /\ Len(mru') = Len(mru) - 1 /\ <<f, p>> \in Range(mru)
        /\ Range(mru_ghost') = Range(mru_ghost) \cup {p}
        /\ IsInjective(mru_ghost')
        /\ Len(mru_ghost') = Len(mru_ghost) + 1
    <3>1. IsInjective(Frames(mru)) /\ p \in PageId
      BY <1>1, <1>4 DEF Matches
    <3>2. PICK q, h : q = RemoveAt(mru, i) /\ h = Prepend(p, mru_ghost)
      OBVIOUS
    <3>3. /\ mru[i] \in Range(mru) /\ Range(q) = Range(mru) \ {mru[i]}
          /\ IsInjective(Frames(q)) /\ Len(q) = Len(mru) - 1
          /\ Range(h) = Range(mru_ghost) \cup {p} /\ IsInjective(h)
          /\ Len(h) = Len(mru_ghost) + 1
      BY <1>6, <1>7, <3>1, <3>2, EntryBecomesGhost
    <3>4. mru' = q /\ mru_ghost' = h
      BY <2>1, <2>3, <3>2
    <3> QED BY <2>3, <3>2, <3>3, <3>4
  <2>5. Frames(mru)' = Frames(RemoveAt(mru, i)) /\ Frames(mfu)' = Frames(mfu)
    BY <2>1 DEF Frames
  <2>6. Matches'
    BY <1>1, <1>4, <2>1, <2>4, <2>5 DEF Matches
  <2>7. GhostsAreNotLoaded'
    BY <1>4, <1>6, <2>1, <2>4 DEF IInv, GhostsAreNotLoaded
  <2>8. SizesBounded'
    BY <1>8, <2>1, <2>4, ReplacerAssumption DEF IInv, SizesBounded
  <2> QED BY <1>4, <1>5, <2>6, <2>7, <2>8, ListsAreMatchedNext DEF IInv
<1>10. CASE evict_from_mfu_ghost(f)
  <2>1. PICK i \in DOMAIN mfu :
          /\ f = mfu[i][1]
          /\ mfu' = RemoveAt(mfu, i)
          /\ mfu_ghost' = Prepend(mfu[i][2], mfu_ghost)
          /\ UNCHANGED <<mru, mru_ghost, poisoned>>
    BY <1>10 DEF evict_from_mfu_ghost
  <2>2. mfu[i] \in Held
    BY <1>1 DEF Matches, Range
  <2>3. mfu[i] = <<f, p>> /\ mfu[i][2] = p
    BY <1>1, <1>2, <2>1, <2>2, EntriesAreHeld
  <2>4. /\ Range(mfu') = Range(mfu) \ {<<f, p>>}
        /\ IsInjective(Frames(RemoveAt(mfu, i)))
        /\ Len(mfu') = Len(mfu) - 1 /\ <<f, p>> \in Range(mfu)
        /\ Range(mfu_ghost') = Range(mfu_ghost) \cup {p}
        /\ IsInjective(mfu_ghost')
        /\ Len(mfu_ghost') = Len(mfu_ghost) + 1
    <3>1. IsInjective(Frames(mfu)) /\ p \in PageId
      BY <1>1, <1>4 DEF Matches
    <3>2. PICK q, h : q = RemoveAt(mfu, i) /\ h = Prepend(p, mfu_ghost)
      OBVIOUS
    <3>3. /\ mfu[i] \in Range(mfu) /\ Range(q) = Range(mfu) \ {mfu[i]}
          /\ IsInjective(Frames(q)) /\ Len(q) = Len(mfu) - 1
          /\ Range(h) = Range(mfu_ghost) \cup {p} /\ IsInjective(h)
          /\ Len(h) = Len(mfu_ghost) + 1
      BY <1>6, <1>7, <3>1, <3>2, EntryBecomesGhost
    <3>4. mfu' = q /\ mfu_ghost' = h
      BY <2>1, <2>3, <3>2
    <3> QED BY <2>3, <3>2, <3>3, <3>4
  <2>5. Frames(mfu)' = Frames(RemoveAt(mfu, i)) /\ Frames(mru)' = Frames(mru)
    BY <2>1 DEF Frames
  <2>6. Matches'
    BY <1>1, <1>4, <2>1, <2>4, <2>5 DEF Matches
  <2>7. GhostsAreNotLoaded'
    BY <1>4, <1>6, <2>1, <2>4 DEF IInv, GhostsAreNotLoaded
  <2>8. SizesBounded'
    BY <1>8, <2>1, <2>4, ReplacerAssumption DEF IInv, SizesBounded
  <2> QED BY <1>4, <1>5, <2>6, <2>7, <2>8, ListsAreMatchedNext DEF IInv
<1> QED BY <1>1, <1>9, <1>10 DEF evict

-----------------------------------------------------------------------------
(* A step that leaves the lists and the frames as they are. *)
LEMMA ListsStay ==
  ASSUME IInv, TypeOK', UNCHANGED <<mru, mfu, mru_ghost, mfu_ghost, poisoned, page_of>>
  PROVE  IInv'
<1>1. Free' = Free /\ Loaded' = Loaded /\ Held' = Held
  BY DEF Free, Loaded, Held
<1>2. ListsMatchFrames'
  BY <1>1 DEF IInv, ListsMatchFrames, Listed
<1> QED BY <1>1, <1>2 DEF IInv, OneFrameEach, GhostsAreNotLoaded, SizesBounded

LEMMA ReleaseKeepsIInv ==
  ASSUME IInv, NEW f \in FrameId, Release(f)
  PROVE  IInv'
<1>1. TypeOK'
  BY SetEvictableTypes DEF IInv, TypeOK, Release
<1> QED BY <1>1, ListsStay DEF Release, set_evictable

LEMMA NextKeepsIInv ==
  ASSUME IInv, [Next]_vars
  PROVE  IInv'
<1>1. CASE Next
  <2>1. PICK f \in FrameId :
          \/ Access(f) \/ Evict(f) \/ Release(f)
          \/ \E p \in PageId : Load(f, p)
    BY <1>1 DEF Next
  <2>2. ~poisoned
    BY <1>1 DEF Next
  <2> QED BY <2>1, <2>2, AccessKeepsIInv, EvictKeepsIInv, ReleaseKeepsIInv, LoadKeepsIInv
<1>2. CASE UNCHANGED vars
  <2>1. TypeOK'
    BY <1>2 DEF IInv, TypeOK, ArcTypeOK, vars, arc_vars
  <2> QED BY <1>2, <2>1, ListsStay DEF vars, arc_vars
<1> QED BY <1>1, <1>2

LEMMA IInvHolds == Spec => []IInv
BY InitIInv, NextKeepsIInv, PTL DEF Spec

(* The lists of arc_replacer.rs and the page table of the pool agree       *)
(* whatever is accessed, loaded and evicted, and however late or often a   *)
(* frame is reported evictable: evict finds every frame that may go, and   *)
(* with the page it holds.                                                 *)
THEOREM ListsStayMatched == Spec => []ListsMatchFrames
<1>1. IInv => ListsMatchFrames
  BY DEF IInv
<1> QED BY IInvHolds, <1>1, PTL

(* A page is in a ghost list of arc_replacer.rs at most once, and never    *)
(* while a frame holds it.                                                 *)
THEOREM GhostsStayUnloaded == Spec => []GhostsAreNotLoaded
<1>1. IInv => GhostsAreNotLoaded
  BY DEF IInv
<1> QED BY IInvHolds, <1>1, PTL

(* The lists of arc_replacer.rs stay within their sizes: record_access     *)
(* always has a ghost to drop when it needs room, and its last case, which *)
(* would leave a page untracked, is never reached.                         *)
THEOREM SizesStayBounded == Spec => []SizesBounded
<1>1. IInv => SizesBounded
  BY DEF IInv
<1> QED BY IInvHolds, <1>1, PTL

(* The variables of arc_replacer.rs keep their types, the target size its  *)
(* width, also when pages are deleted.                                     *)
THEOREM TypeCorrect == SpecDelete => []TypeOK
<1>1. Init => TypeOK
  BY InitIInv DEF IInv
<1>2. TypeOK /\ [NextDelete]_vars => TypeOK'
  <2> SUFFICES ASSUME TypeOK, [NextDelete]_vars PROVE TypeOK'
    OBVIOUS
  <2>1. ASSUME NEW f \in FrameId, Access(f) PROVE TypeOK'
    <3>1. page_of[f] \in PageId
      BY <2>1 DEF Access, TypeOK, Free
    <3> QED BY <2>1, <3>1, RecordAccessTypes DEF Access, TypeOK
  <2>2. ASSUME NEW f \in FrameId, NEW p \in PageId, Load(f, p) PROVE TypeOK'
    BY <2>2, RecordAccessTypes DEF Load, TypeOK
  <2>3. ASSUME NEW f \in FrameId, Evict(f) PROVE TypeOK'
    BY <2>3, EvictTypes DEF Evict, TypeOK
  <2>4. ASSUME NEW f \in FrameId, Release(f) PROVE TypeOK'
    BY <2>4, SetEvictableTypes DEF Release, TypeOK
  <2>5. ASSUME NEW f \in FrameId, Delete(f) PROVE TypeOK'
    BY <2>5, RemoveTypes DEF Delete, TypeOK
  <2>6. CASE UNCHANGED vars
    BY <2>6 DEF TypeOK, ArcTypeOK, vars, arc_vars
  <2> QED BY <2>1, <2>2, <2>3, <2>4, <2>5, <2>6 DEF NextDelete, Next
<1> QED BY <1>1, <1>2, PTL DEF SpecDelete

-----------------------------------------------------------------------------
(* The target.  A page that becomes loaded has been loaded by this step.   *)
LEMMA LoadedByLoad ==
  ASSUME IInv, [Next]_vars, NEW p \in PageId \ Loaded, p \in Loaded'
  PROVE  \E f \in FrameId : Load(f, p)
<1>1. Next
  BY DEF vars, Loaded, Free
<1>2. PICK f \in FrameId :
        \/ Access(f) \/ Evict(f) \/ Release(f)
        \/ \E q \in PageId : Load(f, q)
  BY <1>1 DEF Next
<1>3. ~(Access(f) \/ Release(f))
  BY DEF Access, Release, Loaded, Free
<1>4. ~Evict(f)
  <2> SUFFICES ASSUME Evict(f) PROVE FALSE
    OBVIOUS
  <2>1. Loaded' = Loaded \ {page_of[f]}
    BY EvictChangesFrames DEF Evict, IInv
  <2> QED BY <2>1
<1>5. PICK q \in PageId : Load(f, q)
  BY <1>2, <1>3, <1>4
<1>6. Loaded' = Loaded \cup {q}
  BY <1>5, LoadChangesFrames DEF Load, LoadInto, IInv
<1> QED BY <1>5, <1>6

(* No sum or difference of a target that has not wrapped wraps, the target *)
(* 0 of a hit in mfu_ghost apart: the lists are too short for it.          *)
LEMMA TargetMoves ==
  ASSUME IInv, mru_target_size <= replacer_size
  PROVE  /\ mru_ghost # <<>> => RaisedTarget >= mru_target_size
         /\ mfu_ghost # <<>> /\ mru_target_size > 0 => LoweredTarget <= mru_target_size
<1>1. PICK a \in Nat, b \in Nat, N \in Nat \ {0} :
        a = Len(mru_ghost) /\ b = Len(mfu_ghost) /\ N = replacer_size
  BY LengthsAreNumbers, ReplacerAssumption DEF IInv, TypeOK
<1>2. PICK u \in Nat : u = U32 /\ u > 4 * N
  BY <1>1, ReplacerAssumption
<1>3. PICK t \in Nat : t = mru_target_size /\ t <= N
  BY <1>1 DEF IInv, TypeOK, ArcTypeOK
<1>4. a <= 2 * N /\ b <= 2 * N
  BY <1>1, LengthsAreNumbers DEF IInv, TypeOK, SizesBounded
<1>5. \A n \in Nat : n < u => n % u = n
  BY <1>2
<1>6. ASSUME mru_ghost # <<>> PROVE RaisedTarget >= t
  <2>1. a # 0
    BY <1>1, <1>6, EmptySeq DEF IInv, TypeOK, ArcTypeOK
  <2>2. PICK d \in Nat : d = b \div a /\ d <= b
    BY <2>1
  <2>3. t + 1 < u /\ t + d < u
    BY <1>2, <1>3, <1>4, <2>2
  <2>4. (t + 1) % u = t + 1 /\ (t + d) % u = t + d
    BY <1>5, <2>3
  <2>5. RaisedTarget = t + 1 \/ RaisedTarget = t + d \/ RaisedTarget = t
    <3>1. PICK v \in Nat, w \in Nat : v = t + 1 /\ w = t + d
      OBVIOUS
    <3>2. /\ (mru_target_size + 1) % U32 = v
          /\ (mru_target_size + Len(mfu_ghost) \div Len(mru_ghost)) % U32 = w
      BY <1>1, <1>2, <1>3, <2>2, <2>4, <3>1
    <3> QED BY <1>3, <3>1, <3>2, Zenon DEF RaisedTarget
  <2> QED BY <2>5
<1>7. ASSUME mfu_ghost # <<>>, t > 0 PROVE LoweredTarget <= t
  <2>1. b # 0
    BY <1>1, <1>7, EmptySeq DEF IInv, TypeOK, ArcTypeOK
  <2>2. PICK d \in Nat : d = a \div b
    BY <2>1
  <2>3. PICK s \in Nat : s = t - 1 /\ s < u
    BY <1>2, <1>3, <1>7
  <2>4. s % u = s
    BY <1>5, <2>3
  <2> QED BY <1>1, <1>2, <1>3, <2>2, <2>3, <2>4 DEF LoweredTarget
<1> QED BY <1>3, <1>6, <1>7

(* A hit in a ghost list of arc_replacer.rs steers the target toward that  *)
(* list or leaves it, for any number of frames and any lengths of the two  *)
(* lists, as long as the target has not wrapped.                           *)
THEOREM TargetIsSteered == Spec => TargetMovesTowardTheHit
<1> DEFINE Steered ==
      mru_target_size <= replacer_size =>
        \A p \in PageId \ Loaded :
          p \in Loaded' =>
            /\ p \in Range(mru_ghost) => mru_target_size' >= mru_target_size
            /\ p \in Range(mfu_ghost) /\ mru_target_size > 0
                 => mru_target_size' <= mru_target_size
<1>1. IInv /\ [Next]_vars => [Steered]_vars
  <2> SUFFICES ASSUME IInv, [Next]_vars, mru_target_size <= replacer_size,
                      NEW p \in PageId \ Loaded, p \in Loaded'
               PROVE  /\ p \in Range(mru_ghost) => mru_target_size' >= mru_target_size
                      /\ p \in Range(mfu_ghost) /\ mru_target_size > 0
                           => mru_target_size' <= mru_target_size
    OBVIOUS
  <2>1. PICK f \in FrameId : Load(f, p)
    BY LoadedByLoad
  <2>2. ~poisoned
    BY DEF vars, Loaded, Free, Next
  <2>3. /\ record_access(f, p) /\ ~Tracked(f, p)
        /\ mru_target_size \in Nat
    <3>1. LoadInto(f, p) /\ TypeOK /\ OneFrameEach /\ Matches
      BY <2>1, <2>2, ListsAreMatched DEF Load, LoadInto, IInv
    <3>2. <<f, p>> \notin Held
      BY <3>1, LoadChangesFrames
    <3> QED BY <2>1, <3>1, <3>2 DEF Load, Tracked, Matches, TypeOK, ArcTypeOK
  <2>4. CASE p \in Range(mru_ghost)
    <3>1. mru_ghost # <<>> /\ p \notin Range(mfu_ghost)
      BY <2>2, <2>4 DEF Range, IInv, GhostsAreNotLoaded
    <3>2. mru_target_size' = RaisedTarget
      BY <2>3, <2>4 DEF record_access, HitResident, HitMruGhost, HitMfuGhost, Miss
    <3> QED BY <3>1, <3>2, TargetMoves
  <2>5. CASE p \in Range(mfu_ghost)
    <3>1. mfu_ghost # <<>> /\ p \notin Range(mru_ghost)
      BY <2>2, <2>5 DEF Range, IInv, GhostsAreNotLoaded
    <3>2. mru_target_size' = LoweredTarget \/ mru_target_size' = mru_target_size
      BY <2>3, <2>5, <3>1
         DEF record_access, HitResident, HitMruGhost, HitMfuGhost, Miss, Panic
    <3> QED BY <2>3, <3>1, <3>2, TargetMoves
  <2> QED BY <2>4, <2>5
<1> QED BY <1>1, IInvHolds, PTL DEF Spec, TargetMovesTowardTheHit

-----------------------------------------------------------------------------
(* The inductive invariant of the counter: evictable_pages is a set of     *)
(* frames, and so can be counted, and curr_size covers it until the        *)
(* increment wraps.  Nothing about the lists is needed: an eviction takes  *)
(* a frame that is in the set.                                             *)
CountInv ==
  /\ evictable_pages \subseteq FrameId
  /\ curr_size \in 0 .. U32 - 1
  /\ count_wrapped \in BOOLEAN
  /\ CountCoversEvictable

LEMMA FramesAreFinite ==
  \A S \in SUBSET FrameId : IsFiniteSet(S) /\ Cardinality(S) \in Nat
<1>1. IsFiniteSet(FrameId)
  BY ReplacerAssumption, FS_Interval
<1> QED BY <1>1, FS_Subset, FS_CardinalityType

(* Arithmetic of a u32. *)
LEMMA Modulo ==
  ASSUME NEW n \in 0 .. U32 - 1
  PROVE  /\ (n + 1) % U32 \in 0 .. U32 - 1
         /\ (n - 1) % U32 \in 0 .. U32 - 1
         /\ n + 1 # U32 => (n + 1) % U32 = n + 1
         /\ n > 0 => (n - 1) % U32 = n - 1
  BY ReplacerAssumption

(* A frame that is reported again is counted twice. *)
LEMMA ReleaseIsCovered ==
  ASSUME CountInv, NEW f \in FrameId, CountedRelease(f)
  PROVE  CountInv'
<1>1. /\ evictable_pages' = evictable_pages \cup {f}
      /\ count_wrapped' = (count_wrapped \/ curr_size + 1 = U32)
      /\ curr_size' = curr_size \/ curr_size' = (curr_size + 1) % U32
      /\ curr_size + 1 # U32 => curr_size' = (curr_size + 1) % U32
  BY DEF CountedRelease, Release, ReleasePanics, set_evictable
<1>2. Cardinality(evictable_pages \cup {f}) <= Cardinality(evictable_pages) + 1
  BY FramesAreFinite, FS_AddElement DEF CountInv
<1>3. Cardinality(evictable_pages) \in Nat /\ Cardinality(evictable_pages \cup {f}) \in Nat
  BY FramesAreFinite DEF CountInv
<1>4. /\ curr_size \in 0 .. U32 - 1 /\ curr_size' \in 0 .. U32 - 1
      /\ curr_size + 1 # U32 => curr_size' = curr_size + 1
  BY <1>1, Modulo DEF CountInv
<1>5. CountCoversEvictable'
  <2> SUFFICES ASSUME ~count_wrapped' PROVE curr_size' >= Cardinality(evictable_pages')
    BY DEF CountCoversEvictable
  <2>1. curr_size' = curr_size + 1 /\ curr_size >= Cardinality(evictable_pages)
    BY <1>1, <1>4 DEF CountInv, CountCoversEvictable
  <2> QED BY <1>1, <1>2, <1>3, <1>4, <2>1
<1> QED BY <1>1, <1>4, <1>5 DEF CountInv

LEMMA EvictionIsCovered ==
  ASSUME CountInv, NEW f \in FrameId, CountedEvict(f)
  PROVE  CountInv'
<1>1. /\ f \in evictable_pages
      /\ evictable_pages' = evictable_pages \ {f}
      /\ curr_size' = (curr_size - 1) % U32
      /\ count_wrapped' = count_wrapped
  BY EvictTakesReported DEF CountedEvict, Evict
<1>2. Cardinality(evictable_pages \ {f}) = Cardinality(evictable_pages) - 1
  BY <1>1, FramesAreFinite, FS_RemoveElement DEF CountInv
<1>3. Cardinality(evictable_pages) \in Nat /\ Cardinality(evictable_pages \ {f}) \in Nat
  BY FramesAreFinite DEF CountInv
<1>4. /\ curr_size \in 0 .. U32 - 1 /\ curr_size' \in 0 .. U32 - 1
      /\ curr_size > 0 => curr_size' = curr_size - 1
  BY <1>1, Modulo DEF CountInv
<1>5. CountCoversEvictable'
  <2> SUFFICES ASSUME ~count_wrapped PROVE curr_size' >= Cardinality(evictable_pages')
    BY <1>1 DEF CountCoversEvictable
  <2>1. curr_size >= Cardinality(evictable_pages)
    BY DEF CountInv, CountCoversEvictable
  <2> QED BY <1>1, <1>2, <1>3, <1>4, <2>1
<1> QED BY <1>1, <1>4, <1>5 DEF CountInv

(* Until the increment of arc_replacer.rs:51 has gone past 2^32 - 1, the   *)
(* counter covers the evictable frames, whatever is released again,        *)
(* evicted or deleted: curr_size -= 1 in an eviction finds it above 0.     *)
THEOREM CountWrapsUpFirst == CountingSpecDelete => []CountCoversEvictable
<1>1. CountingInit => CountInv
  <2>1. Cardinality({}) = 0
    BY FS_EmptySet
  <2> QED BY <2>1, ReplacerAssumption
       DEF CountingInit, Init, ArcInit, CountInv, CountCoversEvictable
<1>2. CountInv /\ [CountingNextDelete]_counting_vars => CountInv'
  <2> SUFFICES ASSUME CountInv, [CountingNextDelete]_counting_vars PROVE CountInv'
    OBVIOUS
  <2>1. ASSUME NEW f \in FrameId, CountedRelease(f) PROVE CountInv'
    BY <2>1, ReleaseIsCovered
  <2>2. ASSUME NEW f \in FrameId, CountedEvict(f) PROVE CountInv'
    BY <2>2, EvictionIsCovered
  <2>3. ASSUME evictable_pages' = evictable_pages, UNCHANGED count_vars PROVE CountInv'
    BY <2>3 DEF CountInv, CountCoversEvictable, count_vars
  <2>4. ASSUME NEW f \in FrameId, Uncounted(f) PROVE CountInv'
    BY <2>3, <2>4 DEF Uncounted, Access, Load, record_access
  <2>5. ASSUME NEW f \in FrameId, Delete(f), UNCHANGED count_vars PROVE CountInv'
    BY <2>3, <2>5 DEF Delete, remove, arc_vars
  <2>6. CASE UNCHANGED counting_vars
    BY <2>3, <2>6 DEF counting_vars, vars, arc_vars
  <2> QED BY <2>1, <2>2, <2>4, <2>5, <2>6 DEF CountingNextDelete, CountingNext
<1>3. CountInv => CountCoversEvictable
  BY DEF CountInv
<1> QED BY <1>1, <1>2, <1>3, PTL DEF CountingSpecDelete

(* In a release build, counting changes no call of arc_replacer.rs: what   *)
(* has been shown of the calls of ArcClient without deletes holds with the *)
(* counter beside them.                                                    *)
THEOREM CountedCallsAreCalls ==
  ASSUME ~OverflowChecks
  PROVE  CountingSpec =>
           [](ListsMatchFrames /\ GhostsAreNotLoaded /\ SizesBounded)
           /\ TargetMovesTowardTheHit
<1>1. CountingInit => Init
  BY DEF CountingInit
<1>2. [CountingNext]_counting_vars => [Next]_vars
  BY DEF CountingNext, CountedRelease, CountedEvict, Uncounted, Next, counting_vars
<1>3. CountingSpec => Spec
  BY <1>1, <1>2, PTL DEF CountingSpec, Spec
<1> QED BY <1>3, ListsStayMatched, GhostsStayUnloaded, SizesStayBounded, TargetIsSteered, PTL
=============================================================================
