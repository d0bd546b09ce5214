------------------------- MODULE DiskManagerProofs -------------------------
(***************************************************************************)
(* Proofs about the disk manager of DiskManager.tla: under any calls and   *)
(* failures its slots stay inside the file, and under the calls of the     *)
(* pool they stay partitioned and it implements the abstract page store,   *)
(* for any number of pages, any initial capacity and any initial length of *)
(* the file.                                                               *)
(***************************************************************************)
EXTENDS DiskManagerProps, SequenceTheorems, FiniteSetTheorems, TLAPS

-----------------------------------------------------------------------------
(* Popping takes one slot off a stack. *)
LEMMA Pop ==
  ASSUME NEW S, NEW s \in Seq(S), s # <<>>
  PROVE  /\ Front(s) \in Seq(S)
         /\ Len(Front(s)) = Len(s) - 1
         /\ Last(s) \in S
         /\ Range(s) = Range(Front(s)) \cup {Last(s)}
         /\ IsInjective(s) =>
              IsInjective(Front(s)) /\ Last(s) \notin Range(Front(s))
<1> DEFINE n == Len(s)
<1>1. n \in Nat /\ n > 0 /\ DOMAIN s = 1 .. n /\ \A i \in 1 .. n : s[i] \in S
  BY EmptySeq, LenProperties, ElementOfSeq
<1>2. /\ Front(s) \in Seq(S)
      /\ Len(Front(s)) = n - 1
      /\ DOMAIN Front(s) = 1 .. n - 1
      /\ \A i \in 1 .. n - 1 : Front(s)[i] = s[i]
  BY <1>1, SubSeqProperties, LenProperties DEF Front
<1>3. Range(s) = Range(Front(s)) \cup {Last(s)}
  BY <1>1, <1>2 DEF Range, Last
<1>4. IsInjective(s) => IsInjective(Front(s)) /\ Last(s) \notin Range(Front(s))
  BY <1>1, <1>2 DEF IsInjective, Range, Last
<1> QED BY <1>1, <1>2, <1>3, <1>4 DEF Last

(* Pushing puts a slot on it. *)
LEMMA Push ==
  ASSUME NEW S, NEW s \in Seq(S), NEW e \in S
  PROVE  /\ Append(s, e) \in Seq(S)
         /\ Len(Append(s, e)) = Len(s) + 1
         /\ Range(Append(s, e)) = Range(s) \cup {e}
         /\ IsInjective(s) /\ e \notin Range(s) => IsInjective(Append(s, e))
<1> DEFINE n == Len(s)
           t == Append(s, e)
<1>1. n \in Nat /\ DOMAIN s = 1 .. n
  BY LenProperties
<1>2. /\ t \in Seq(S) /\ Len(t) = n + 1 /\ DOMAIN t = 1 .. n + 1
      /\ \A i \in 1 .. n : t[i] = s[i]
      /\ t[n + 1] = e
  BY <1>1, AppendProperties, LenProperties
<1>3. IsInjective(s) /\ e \notin Range(s) => IsInjective(t)
  BY <1>1, <1>2 DEF IsInjective, Range
<1>4. Range(t) = Range(s) \cup {e}
  <2>1. \A i \in 1 .. n : s[i] \in Range(t)
    BY <1>1, <1>2 DEF Range
  <2>2. e \in Range(t)
    BY <1>1, <1>2 DEF Range
  <2>3. \A i \in 1 .. n + 1 : t[i] \in Range(s) \cup {e}
    BY <1>1, <1>2 DEF Range
  <2> QED BY <1>1, <1>2, <2>1, <2>2, <2>3 DEF Range
<1> QED BY <1>2, <1>3, <1>4

(* Giving a page a slot, and taking its slot away. *)
LEMMA GiveSlot ==
  ASSUME pages \in [Mapped -> Nat], NEW p, NEW s \in Nat
  PROVE  /\ DOMAIN WithSlot(p, s) = Mapped \cup {p}
         /\ WithSlot(p, s) \in [DOMAIN WithSlot(p, s) -> Nat]
         /\ Range(WithSlot(p, s)) \subseteq Range(pages) \cup {s}
         /\ p \notin Mapped => Range(WithSlot(p, s)) = Range(pages) \cup {s}
         /\ IsInjective(pages) /\ s \notin Range(pages) => IsInjective(WithSlot(p, s))
BY DEF IsInjective, Range, WithSlot, Mapped

LEMMA TakeSlot ==
  ASSUME pages \in [Mapped -> Nat], NEW p \in Mapped
  PROVE  /\ DOMAIN WithoutSlot(p) = Mapped \ {p}
         /\ WithoutSlot(p) \in [DOMAIN WithoutSlot(p) -> Nat]
         /\ pages[p] \in Range(pages)
         /\ Range(WithoutSlot(p)) \subseteq Range(pages)
         /\ IsInjective(pages) =>
              /\ IsInjective(WithoutSlot(p))
              /\ Range(WithoutSlot(p)) = Range(pages) \ {pages[p]}
BY DEF IsInjective, Range, WithoutSlot, Mapped

(* A page that has a slot keeps it. *)
LEMMA KeepSlot ==
  ASSUME pages \in [Mapped -> Nat], NEW p \in Mapped
  PROVE  WithSlot(p, pages[p]) = pages
BY DEF WithSlot, Mapped

-----------------------------------------------------------------------------
(* Files: an initial segment of the slots. *)
IsFile(f) == FileSize(f) \in Nat /\ f \in [0 .. FileSize(f) - 1 -> Data]

LEMMA FileLength ==
  ASSUME NEW n \in Nat, NEW f \in [0 .. n - 1 -> Data]
  PROVE  IsFile(f) /\ FileSize(f) = n
<1>1. DOMAIN f = 0 .. n - 1 /\ Cardinality(0 .. n - 1) = n
  BY FS_Interval
<1> QED BY <1>1 DEF FileSize, IsFile

LEMMA SettingLength ==
  ASSUME NEW f, IsFile(f), NEW n \in Nat
  PROVE  /\ IsFile(SetLen(f, n)) /\ FileSize(SetLen(f, n)) = n
         /\ \A x \in DOMAIN f : x < n =>
              x \in DOMAIN SetLen(f, n) /\ SetLen(f, n)[x] = f[x]
<1>1. SetLen(f, n) \in [0 .. n - 1 -> Data]
  BY DataAssumption DEF SetLen, IsFile
<1>2. \A x \in DOMAIN f : x < n =>
        x \in DOMAIN SetLen(f, n) /\ SetLen(f, n)[x] = f[x]
  BY DEF SetLen, IsFile
<1> QED BY <1>1, <1>2, FileLength

(* Writing a slot of the file, or the one behind its end. *)
LEMMA Overwriting ==
  ASSUME NEW f, IsFile(f), NEW s \in 0 .. FileSize(f), NEW d \in Data
  PROVE  /\ IsFile(Overwrite(f, s, d))
         /\ FileSize(f) <= FileSize(Overwrite(f, s, d))
         /\ s < FileSize(Overwrite(f, s, d))
         /\ Overwrite(f, s, d)[s] = d
         /\ \A x \in DOMAIN f : x # s => Overwrite(f, s, d)[x] = f[x]
<1> DEFINE n == FileSize(f)
           g == Overwrite(f, s, d)
           m == IF s = n THEN n + 1 ELSE n
<1>1. n \in Nat /\ f \in [0 .. n - 1 -> Data] /\ DOMAIN f = 0 .. n - 1
  BY DEF IsFile
<1>2. s \in 0 .. n
  OBVIOUS
<1> HIDE DEF n
<1>3. m \in Nat /\ 0 .. n - 1 \cup 0 .. s = 0 .. m - 1
  BY <1>1, <1>2
<1>4. g \in [0 .. m - 1 -> Data] /\ g[s] = d
  BY <1>1, <1>2, <1>3, DataAssumption DEF Overwrite
<1>5. \A x \in DOMAIN f : x # s => g[x] = f[x]
  BY <1>1 DEF Overwrite
<1>6. IsFile(g) /\ FileSize(g) = m
  BY <1>3, <1>4, FileLength
<1>7. n <= m /\ s < m
  BY <1>1, <1>2
<1> QED BY <1>4, <1>5, <1>6, <1>7 DEF n

-----------------------------------------------------------------------------
(***************************************************************************)
(* The invariant of all calls and failures.  That slots lie inside the     *)
(* file rests on the count of slots, not on where each one came from: the  *)
(* next fresh slot is numbered by the count of mapped pages, which neither *)
(* exceeds the capacity nor the length of the file, even when slots have   *)
(* been lost and two pages share one.                                      *)
(***************************************************************************)
SlotsFit == SlotsInUse <= page_capacity /\ SlotsInUse <= FileSize(file)

AnyInv == TypeOK /\ SlotsFit /\ SlotsInFile

LEMMA AnyFacts ==
  ASSUME AnyInv
  PROVE  /\ IsFiniteSet(Mapped) /\ Cardinality(Mapped) \in Nat /\ Mapped \subseteq PageId
         /\ Len(free_slots) \in Nat /\ page_capacity \in Nat \ {0}
         /\ SlotsInUse \in Nat
         /\ pages \in [Mapped -> Nat] /\ free_slots \in Seq(Nat)
         /\ IsFile(file) /\ FileSize(file) \in Nat /\ DOMAIN file = 0 .. FileSize(file) - 1
         /\ \A s \in Range(pages) \cup Range(free_slots) :
              s \in 0 .. page_capacity - 1 /\ s \in 0 .. FileSize(file) - 1
<1>1. IsFiniteSet(Mapped) /\ Cardinality(Mapped) \in Nat
  BY PageIdAssumption, FS_Subset, FS_CardinalityType DEF AnyInv, TypeOK
<1>2. /\ Len(free_slots) \in Nat /\ free_slots \in Seq(Nat)
      /\ \A s \in Range(free_slots) : s \in 0 .. page_capacity - 1
  BY LenProperties, ElementOfSeq DEF AnyInv, TypeOK, Range
<1>3. /\ pages \in [Mapped -> Nat]
      /\ \A s \in Range(pages) : s \in 0 .. page_capacity - 1
  BY DEF AnyInv, TypeOK, Range, Mapped
<1>4. IsFile(file) /\ FileSize(file) \in Nat /\ DOMAIN file = 0 .. FileSize(file) - 1
  BY DEF AnyInv, TypeOK, IsFile
<1> QED BY <1>1, <1>2, <1>3, <1>4 DEF AnyInv, TypeOK, SlotsInFile, SlotsInUse

(* The bounds give the types of the page table and of the free list back. *)
LEMMA BelowCapacity ==
  ASSUME NEW n \in Nat, NEW P, NEW t \in [P -> Nat], NEW s \in Seq(Nat),
         \A x \in Range(t) \cup Range(s) : x \in 0 .. n - 1
  PROVE  t \in [P -> 0 .. n - 1] /\ s \in Seq(0 .. n - 1)
<1>1. t \in [P -> 0 .. n - 1]
  BY DEF Range
<1>2. Len(s) \in Nat /\ DOMAIN s = 1 .. Len(s) /\ s \in [1 .. Len(s) -> Nat]
  BY LenProperties
<1>3. s \in [1 .. Len(s) -> 0 .. n - 1]
  BY <1>2 DEF Range
<1>4. s \in UNION {[1 .. m -> 0 .. n - 1] : m \in Nat}
  BY <1>2, <1>3
<1> QED BY <1>1, <1>4, SeqDef

(* Locating a slot for p, whether or not set_len works: the slots in use   *)
(* keep their contents, the one located is below the capacity and at most  *)
(* just behind the end of the file, and there is room to map p to it.      *)
LEMMA Located ==
  ASSUME AnyInv, NEW p \in PageId, Locate(p), NEW f \in GrownFiles(p)
  PROVE  /\ page_capacity' \in Nat \ {0} /\ page_capacity <= page_capacity'
         /\ IsFile(f)
         /\ SlotFor(p) \in 0 .. page_capacity' - 1
         /\ SlotFor(p) \in 0 .. FileSize(f)
         /\ free_slots' \in Seq(Nat) /\ Len(free_slots') \in Nat
         /\ Range(free_slots') \subseteq Range(free_slots)
         /\ \A x \in Range(pages) \cup Range(free_slots) :
              x \in DOMAIN f /\ f[x] = file[x]
         /\ Cardinality(Mapped \cup {p}) + Len(free_slots') <= page_capacity'
         /\ Cardinality(Mapped \cup {p}) + Len(free_slots') <=
              IF SlotFor(p) = FileSize(f) THEN FileSize(f) + 1 ELSE FileSize(f)
         /\ Cardinality(Mapped) + Len(free_slots') <= page_capacity'
         /\ Cardinality(Mapped) + Len(free_slots') <= FileSize(f)
<1>0. /\ Cardinality(Mapped) \in Nat /\ Len(free_slots) \in Nat
      /\ page_capacity \in Nat \ {0} /\ FileSize(file) \in Nat
      /\ Cardinality(Mapped) + Len(free_slots) <= page_capacity
      /\ Cardinality(Mapped) + Len(free_slots) <= FileSize(file)
      /\ DOMAIN file = 0 .. FileSize(file) - 1
      /\ \A x \in Range(pages) \cup Range(free_slots) :
           x \in 0 .. page_capacity - 1 /\ x \in DOMAIN file
  BY AnyFacts DEF AnyInv, SlotsFit, SlotsInUse
<1>1. CASE p \in Mapped
  <2>1. /\ free_slots' = free_slots /\ page_capacity' = page_capacity
        /\ f = file /\ SlotFor(p) = pages[p]
        /\ Mapped \cup {p} = Mapped
    BY <1>1 DEF Locate, GrownFiles, FillsUp, SlotFor
  <2>2. pages[p] \in Range(pages)
    BY <1>1 DEF Range, Mapped
  <2>3. pages[p] \in 0 .. page_capacity - 1 /\ pages[p] \in 0 .. FileSize(file) - 1
    BY <1>0, <2>2
  <2>4. /\ SlotFor(p) \in 0 .. page_capacity' - 1 /\ SlotFor(p) \in 0 .. FileSize(f)
        /\ Len(free_slots') \in Nat
    BY <1>0, <2>1, <2>3
  <2>5. IsFile(f) /\ free_slots' \in Seq(Nat)
    BY <2>1, AnyFacts
  <2>6. /\ Cardinality(Mapped) + Len(free_slots') <= page_capacity'
        /\ Cardinality(Mapped) + Len(free_slots') <= FileSize(f)
        /\ SlotFor(p) # FileSize(f)
    BY <1>0, <2>1, <2>3
  <2>8. /\ Cardinality(Mapped \cup {p}) + Len(free_slots') <= page_capacity'
        /\ Cardinality(Mapped \cup {p}) + Len(free_slots') <=
             IF SlotFor(p) = FileSize(f) THEN FileSize(f) + 1 ELSE FileSize(f)
    BY <2>1, <2>6
  <2>7. \A x \in Range(pages) \cup Range(free_slots) : x \in DOMAIN f /\ f[x] = file[x]
    BY <1>0, <2>1
  <2>9. page_capacity' \in Nat \ {0} /\ page_capacity <= page_capacity'
    BY <1>0, <2>1
  <2>10. Range(free_slots') \subseteq Range(free_slots)
    BY <2>1
  <2> QED BY <2>4, <2>5, <2>6, <2>7, <2>8, <2>9, <2>10
<1>2. CASE p \notin Mapped /\ free_slots # <<>>
  <2>1. /\ free_slots' = Front(free_slots) /\ page_capacity' = page_capacity
        /\ f = file /\ SlotFor(p) = Last(free_slots)
    BY <1>2 DEF Locate, GrownFiles, FillsUp, SlotFor
  <2>2. /\ free_slots' \in Seq(Nat) /\ Len(free_slots') = Len(free_slots) - 1
        /\ Range(free_slots') \subseteq Range(free_slots)
        /\ SlotFor(p) \in Range(free_slots)
    <3>1. /\ Front(free_slots) \in Seq(Nat)
          /\ Len(Front(free_slots)) = Len(free_slots) - 1
          /\ Range(free_slots) = Range(Front(free_slots)) \cup {Last(free_slots)}
      BY <1>2, AnyFacts, Pop
    <3> QED BY <2>1, <3>1
  <2>3. Cardinality(Mapped \cup {p}) = Cardinality(Mapped) + 1
    BY <1>2, AnyFacts, FS_AddElement
  <2>4. Len(free_slots') \in Nat
    BY <2>2, LenProperties
  <2>5. SlotFor(p) \in 0 .. page_capacity' - 1 /\ SlotFor(p) \in 0 .. FileSize(f) - 1
    BY <1>0, <2>1, <2>2
  <2>6. /\ Cardinality(Mapped \cup {p}) + Len(free_slots') <= page_capacity'
        /\ Cardinality(Mapped \cup {p}) + Len(free_slots') <= FileSize(f)
        /\ Cardinality(Mapped) + Len(free_slots') <= page_capacity'
        /\ Cardinality(Mapped) + Len(free_slots') <= FileSize(f)
        /\ SlotFor(p) \in 0 .. FileSize(f) /\ SlotFor(p) # FileSize(f)
    BY <1>0, <2>1, <2>2, <2>3, <2>5
  <2>7. \A x \in Range(pages) \cup Range(free_slots) : x \in DOMAIN f /\ f[x] = file[x]
    BY <1>0, <2>1
  <2>8. IsFile(f)
    BY <2>1, AnyFacts
  <2> QED BY <1>0, <2>1, <2>2, <2>4, <2>5, <2>6, <2>7, <2>8
<1>3. CASE p \notin Mapped /\ free_slots = <<>>
  <2> DEFINE c == Cardinality(Mapped)
  <2>1. /\ free_slots' = <<>> /\ Len(free_slots') = 0 /\ Range(free_slots') = {}
        /\ Len(free_slots) = 0 /\ free_slots' \in Seq(Nat)
        /\ SlotFor(p) = c
    BY <1>3, EmptySeq DEF Locate, SlotFor, Range
  <2>2. Cardinality(Mapped \cup {p}) = c + 1
    BY <1>3, AnyFacts, FS_AddElement
  <2>3. c <= page_capacity /\ c <= FileSize(file) /\ c \in Nat
    BY <1>0, <2>1
  <2>4. /\ page_capacity' \in Nat \ {0} /\ page_capacity <= page_capacity'
        /\ c + 1 <= page_capacity'
        /\ FillsUp(p) => page_capacity' = 2 * page_capacity
    BY <1>0, <1>3, <2>3 DEF Locate, FillsUp, NewCapacity
  <2>5. /\ IsFile(f) /\ FileSize(f) \in Nat /\ c <= FileSize(f)
        /\ \A x \in Range(pages) \cup Range(free_slots) : x \in DOMAIN f /\ f[x] = file[x]
    <3>1. CASE f = file
      BY <1>0, <2>3, <3>1, AnyFacts
    <3>2. CASE f = SetLen(file, 2 * page_capacity + 1)
      <4>1. 2 * page_capacity + 1 \in Nat
        BY <1>0
      <4>2. /\ IsFile(f) /\ FileSize(f) = 2 * page_capacity + 1
            /\ \A x \in DOMAIN file : x < 2 * page_capacity + 1 =>
                 x \in DOMAIN f /\ f[x] = file[x]
        BY <3>2, <4>1, AnyFacts, SettingLength
      <4>3. \A x \in Range(pages) \cup Range(free_slots) :
              x \in DOMAIN file /\ x < 2 * page_capacity + 1
        BY <1>0
      <4> QED BY <1>0, <2>3, <4>2, <4>3
    <3> QED BY <3>1, <3>2 DEF GrownFiles
  <2> HIDE DEF c
  <2>6. /\ SlotFor(p) \in 0 .. page_capacity' - 1 /\ SlotFor(p) \in 0 .. FileSize(f)
        /\ c + 1 <= IF SlotFor(p) = FileSize(f) THEN FileSize(f) + 1 ELSE FileSize(f)
        /\ c <= page_capacity'
    <3>1. SlotFor(p) = c /\ c \in Nat /\ c <= FileSize(f) /\ FileSize(f) \in Nat
          /\ page_capacity' \in Nat /\ c + 1 <= page_capacity'
      BY <2>1, <2>3, <2>4, <2>5
    <3> DEFINE n == FileSize(f)
    <3>2. c + 1 <= IF c = n THEN n + 1 ELSE n
      BY <3>1
    <3>3. c \in 0 .. page_capacity' - 1 /\ c \in 0 .. n /\ c <= page_capacity'
      <4>1. ASSUME NEW k \in Nat, NEW b \in Nat, k + 1 <= b
            PROVE  k \in 0 .. b - 1 /\ k <= b
        BY <4>1
      <4>2. c \in 0 .. n
        BY <3>1
      <4>3. c \in Nat /\ page_capacity' \in Nat /\ c + 1 <= page_capacity'
        BY <3>1
      <4> QED BY <4>1, <4>2, <4>3
    <3> QED BY <3>1, <3>2, <3>3
  <2>7. Cardinality(Mapped) + Len(free_slots') = c
        /\ Cardinality(Mapped \cup {p}) + Len(free_slots') = c + 1
    BY <2>1, <2>2, <2>3 DEF c
  <2>8. Range(free_slots') \subseteq Range(free_slots)
    BY <2>1
  <2> QED BY <2>1, <2>4, <2>5, <2>6, <2>7, <2>8
<1> QED BY <1>1, <1>2, <1>3

-----------------------------------------------------------------------------
LEMMA InitAnyInv == Init => AnyInv /\ SlotPartition
<1> SUFFICES ASSUME Init PROVE AnyInv /\ SlotPartition
  OBVIOUS
<1>1. pages = [p \in {} |-> 0] /\ Mapped = {} /\ Range(pages) = {}
  BY DEF Init, Mapped, Range
<1>2. free_slots = <<>> /\ Len(free_slots) = 0 /\ Range(free_slots) = {}
  BY EmptySeq DEF Init, Range
<1>3. Cardinality(Mapped) = 0
  BY <1>1, FS_EmptySet
<1>4. SlotsInUse = 0
  BY <1>2, <1>3 DEF SlotsInUse
<1>5. page_capacity = InitialCapacity /\ page_capacity \in Nat \ {0}
  BY CapacityAssumption DEF Init
<1>6. IsFile(file)
  <2>1. PICK n \in FileLengths : file \in [0 .. n - 1 -> Data]
    BY DEF Init
  <2> QED BY <2>1, LengthsAssumption, FileLength
<1>7. reply \in Reply /\ reply.op # "panic"
  BY DEF Init, Reply
<1>8. TypeOK
  <2>1. pages \in [Mapped -> 0 .. page_capacity - 1]
    BY <1>1
  <2>2. free_slots \in Seq(0 .. page_capacity - 1)
    BY <1>2, EmptySeq
  <2> QED BY <1>1, <1>5, <1>6, <1>7, <2>1, <2>2 DEF TypeOK, IsFile
<1>9. SlotPartition
  BY <1>1, <1>2, <1>4 DEF SlotPartition, IsInjective
<1>10. SlotsFit /\ SlotsInFile
  BY <1>1, <1>2, <1>4, <1>5, <1>6, <1>7 DEF SlotsFit, SlotsInFile, IsFile
<1> QED BY <1>8, <1>9, <1>10 DEF AnyInv

(* Every call that locates a slot leaves the page table as it was, or with *)
(* p mapped to a slot that has been written.                               *)
LEMMA LocatingPreservesAnyInv ==
  ASSUME AnyInv, NEW p \in PageId, Locate(p), NEW f \in GrownFiles(p), NEW d \in Data,
         \/ file' = f /\ pages' = pages
         \/ /\ file' = Overwrite(f, SlotFor(p), d)
            /\ pages' = pages \/ pages' = WithSlot(p, SlotFor(p)),
         reply' \in Reply, reply'.op # "panic"
  PROVE  AnyInv'
<1> DEFINE s == SlotFor(p)
<1>1. /\ page_capacity' \in Nat \ {0} /\ page_capacity <= page_capacity'
      /\ IsFile(f) /\ s \in 0 .. page_capacity' - 1 /\ s \in 0 .. FileSize(f)
      /\ free_slots' \in Seq(Nat) /\ Len(free_slots') \in Nat
      /\ Range(free_slots') \subseteq Range(free_slots)
      /\ \A x \in Range(pages) \cup Range(free_slots) : x \in DOMAIN f
      /\ Cardinality(Mapped \cup {p}) + Len(free_slots') <= page_capacity'
      /\ Cardinality(Mapped \cup {p}) + Len(free_slots') <=
           IF s = FileSize(f) THEN FileSize(f) + 1 ELSE FileSize(f)
      /\ Cardinality(Mapped) + Len(free_slots') <= page_capacity'
      /\ Cardinality(Mapped) + Len(free_slots') <= FileSize(f)
  BY Located
<1> HIDE DEF s
<1>2. /\ IsFile(file') /\ FileSize(f) <= FileSize(file')
      /\ pages' = WithSlot(p, s) => s < FileSize(file') \/ pages' = pages
      /\ FileSize(f) \in Nat /\ FileSize(file') \in Nat
  <2>1. CASE file' = f /\ pages' = pages
    BY <1>1, <2>1 DEF IsFile
  <2>2. CASE file' = Overwrite(f, s, d)
    <3>1. /\ IsFile(Overwrite(f, s, d)) /\ FileSize(f) <= FileSize(Overwrite(f, s, d))
          /\ s < FileSize(Overwrite(f, s, d))
      BY <1>1, Overwriting
    <3> QED BY <1>1, <2>2, <3>1 DEF IsFile
  <2> QED BY <2>1, <2>2 DEF s
<1>3. /\ Mapped' \subseteq PageId /\ pages' \in [Mapped' -> Nat]
      /\ \/ pages' = pages /\ Mapped' = Mapped
         \/ /\ Mapped' = Mapped \cup {p} /\ s < FileSize(file')
            /\ Range(pages') \subseteq Range(pages) \cup {s}
  <2>1. CASE pages' = pages
    BY <2>1, AnyFacts DEF Mapped
  <2>2. CASE pages' = WithSlot(p, s) /\ pages' # pages
    <3>1. s \in Nat
      BY <1>1
    <3>2. /\ DOMAIN WithSlot(p, s) = Mapped \cup {p}
          /\ WithSlot(p, s) \in [DOMAIN WithSlot(p, s) -> Nat]
          /\ Range(WithSlot(p, s)) \subseteq Range(pages) \cup {s}
      BY <3>1, AnyFacts, GiveSlot
    <3> QED BY <1>2, <2>2, <3>2, AnyFacts DEF Mapped
  <2> QED BY <2>1, <2>2 DEF s
<1>4. \A x \in Range(pages') \cup Range(free_slots') :
        x \in 0 .. page_capacity' - 1 /\ x \in 0 .. FileSize(file') - 1
  <2>1. \A x \in Range(pages) \cup Range(free_slots) :
          x \in 0 .. page_capacity' - 1 /\ x \in 0 .. FileSize(file') - 1
    <3>1. DOMAIN f = 0 .. FileSize(f) - 1
      BY <1>1 DEF IsFile
    <3>2. \A x \in Range(pages) \cup Range(free_slots) :
            x \in 0 .. page_capacity - 1 /\ x \in 0 .. FileSize(f) - 1
      BY <1>1, <3>1, AnyFacts
    <3>3. page_capacity \in Nat
      BY AnyFacts
    <3> QED BY <1>1, <1>2, <3>2, <3>3
  <2>2. Range(pages') \subseteq Range(pages) \cup {s}
    BY <1>3
  <2>3. CASE pages' = pages
    BY <1>1, <2>1, <2>3
  <2>4. CASE s < FileSize(file')
    <3>1. s \in 0 .. page_capacity' - 1 /\ s \in 0 .. FileSize(file') - 1
      <4>1. s \in 0 .. page_capacity' - 1 /\ s \in 0 .. FileSize(f)
        BY <1>1
      <4>2. FileSize(f) \in Nat /\ FileSize(file') \in Nat
        BY <1>2
      <4> QED BY <2>4, <4>1, <4>2
    <3> QED BY <1>1, <2>1, <2>2, <3>1
  <2> QED BY <1>3, <2>3, <2>4
<1>5. SlotsFit'
  <2>1. CASE pages' = pages /\ Mapped' = Mapped
    <3>1. Cardinality(Mapped') + Len(free_slots') <= page_capacity'
          /\ Cardinality(Mapped') + Len(free_slots') <= FileSize(f)
      BY <1>1, <2>1
    <3>2. Cardinality(Mapped') + Len(free_slots') \in Nat
      BY <1>1, <2>1, AnyFacts
    <3> QED BY <1>2, <3>1, <3>2 DEF SlotsFit, SlotsInUse
  <2>2. CASE Mapped' = Mapped \cup {p} /\ s < FileSize(file')
    <3>1. Cardinality(Mapped') + Len(free_slots') <= page_capacity'
          /\ Cardinality(Mapped') + Len(free_slots') <=
               IF s = FileSize(f) THEN FileSize(f) + 1 ELSE FileSize(f)
      BY <1>1, <2>2
    <3>2. Cardinality(Mapped') \in Nat
      <4>1. IsFiniteSet(Mapped')
        BY <1>3, PageIdAssumption, FS_Subset
      <4> QED BY <4>1, FS_CardinalityType
    <3>3. Cardinality(Mapped') + Len(free_slots') <= FileSize(file')
      BY <1>1, <1>2, <2>2, <3>1, <3>2
    <3> QED BY <3>1, <3>3 DEF SlotsFit, SlotsInUse
  <2> QED BY <1>3, <2>1, <2>2
<1>6. TypeOK'
  <2>2. pages' \in [Mapped' -> 0 .. page_capacity' - 1]
        /\ free_slots' \in Seq(0 .. page_capacity' - 1)
    BY <1>1, <1>3, <1>4, BelowCapacity
  <2> QED BY <1>1, <1>2, <1>3, <2>2 DEF TypeOK, IsFile
<1>7. SlotsInFile'
  BY <1>2, <1>4 DEF SlotsInFile, IsFile
<1> QED BY <1>5, <1>6, <1>7 DEF AnyInv

LEMMA DeletePreservesAnyInv ==
  ASSUME AnyInv, NEW p \in PageId, delete_page(p)
  PROVE  AnyInv'
<1>1. /\ page_capacity' = page_capacity /\ file' = file
      /\ reply' = [op |-> "delete", page |-> p]
  BY DEF delete_page
<1>2. reply' \in Reply /\ reply'.op # "panic"
  BY <1>1 DEF Reply
<1>3. CASE p \notin Mapped
  <2>1. pages' = pages /\ free_slots' = free_slots
    BY <1>3 DEF delete_page
  <2> QED BY <1>1, <1>2, <2>1
       DEF AnyInv, TypeOK, SlotsFit, SlotsInFile, SlotsInUse, Mapped, FileSize
<1>4. CASE p \in Mapped
  <2>1. pages' = WithoutSlot(p) /\ free_slots' = Append(free_slots, pages[p])
    BY <1>4 DEF delete_page
  <2>2. /\ Mapped' = Mapped \ {p} /\ pages' \in [Mapped' -> Nat]
        /\ Range(pages') \subseteq Range(pages)
        /\ pages[p] \in Range(pages)
    BY <1>4, <2>1, AnyFacts, TakeSlot DEF Mapped
  <2>3. /\ free_slots' \in Seq(Nat) /\ Len(free_slots') = Len(free_slots) + 1
        /\ Range(free_slots') = Range(free_slots) \cup {pages[p]}
    <3>1. pages[p] \in Nat
      BY <1>4, AnyFacts
    <3> QED BY <2>1, <3>1, AnyFacts, Push
  <2>4. Cardinality(Mapped') = Cardinality(Mapped) - 1
    BY <1>4, <2>2, AnyFacts, FS_RemoveElement
  <2>5. SlotsInUse' = SlotsInUse
    BY <2>3, <2>4, AnyFacts DEF SlotsInUse
  <2>6. SlotsFit'
    BY <1>1, <2>5 DEF AnyInv, SlotsFit, FileSize
  <2>7. Range(pages') \cup Range(free_slots') \subseteq Range(pages) \cup Range(free_slots)
    BY <2>2, <2>3
  <2>8. TypeOK'
    <3>2. \A x \in Range(pages') \cup Range(free_slots') : x \in 0 .. page_capacity - 1
      BY <2>7, AnyFacts
    <3>3. page_capacity \in Nat
      BY AnyFacts
    <3>4. pages' \in [Mapped' -> 0 .. page_capacity - 1]
          /\ free_slots' \in Seq(0 .. page_capacity - 1)
      BY <2>2, <2>3, <3>2, <3>3, BelowCapacity
    <3> QED BY <1>1, <1>2, <2>2, <3>4, AnyFacts DEF AnyInv, TypeOK, FileSize
  <2>9. SlotsInFile'
    BY <1>1, <1>2, <2>7 DEF AnyInv, SlotsInFile
  <2> QED BY <2>6, <2>8, <2>9 DEF AnyInv
<1> QED BY <1>3, <1>4

LEMMA NextAnyPreservesAnyInv ==
  ASSUME AnyInv, [NextAny]_vars
  PROVE  AnyInv'
<1>1. ASSUME NEW p \in PageId, NEW d \in Data, write_page(p, d) PROVE AnyInv'
  <2>1. PICK f \in GrownFiles(p) : file' = Overwrite(f, SlotFor(p), d)
    BY <1>1 DEF write_page
  <2>2. reply' \in Reply /\ reply'.op # "panic"
    BY <1>1 DEF write_page, Reply
  <2> QED BY <1>1, <2>1, <2>2, LocatingPreservesAnyInv DEF write_page
<1>2. ASSUME NEW p \in PageId, NEW d \in Data, write_page_err(p, d) PROVE AnyInv'
  <2>1. PICK f \in GrownFiles(p) : file' \in {f, Overwrite(f, SlotFor(p), d)}
    BY <1>2 DEF write_page_err
  <2>2. reply' \in Reply /\ reply'.op # "panic"
    BY <1>2 DEF write_page_err, Reply
  <2> QED BY <1>2, <2>1, <2>2, LocatingPreservesAnyInv DEF write_page_err
<1>3. ASSUME NEW p \in PageId, read_page(p) PROVE AnyInv'
  <2>1. Locate(p) /\ file' \in GrownFiles(p) /\ pages' = pages
    BY <1>3 DEF read_page
  <2>2. IsFile(file') /\ SlotFor(p) \in 0 .. FileSize(file')
    BY <2>1, Located
  <2>3. reply' = [op |-> "read", page |-> p, data |-> Contents(file', SlotFor(p))]
    BY <1>3, <2>2 DEF read_page, IsFile
  <2>4. Contents(file', SlotFor(p)) \in Data
    BY <2>2, DataAssumption DEF Contents, IsFile
  <2>5. reply' \in Reply /\ reply'.op # "panic"
    BY <2>3, <2>4 DEF Reply
  <2> QED BY <2>1, <2>5, DataAssumption, LocatingPreservesAnyInv
<1>4. ASSUME NEW p \in PageId, read_page_err(p) PROVE AnyInv'
  <2>1. reply' \in Reply /\ reply'.op # "panic"
    BY <1>4 DEF read_page_err, Reply
  <2> QED BY <1>4, <2>1, DataAssumption, LocatingPreservesAnyInv DEF read_page_err
<1>5. ASSUME NEW p \in PageId, delete_page(p) PROVE AnyInv'
  BY <1>5, DeletePreservesAnyInv
<1>6. CASE UNCHANGED vars
  BY <1>6 DEF vars, AnyInv, TypeOK, SlotsFit, SlotsInFile, SlotsInUse, Mapped, FileSize
<1> QED BY <1>1, <1>2, <1>3, <1>4, <1>5, <1>6 DEF NextAny

LEMMA AnyInvHolds == SpecAny => []AnyInv
<1>1. Init => AnyInv
  BY InitAnyInv
<1> QED BY <1>1, NextAnyPreservesAnyInv, PTL DEF SpecAny

(* The variables of disk_manager.rs keep their types, and every slot is    *)
(* below the capacity, whatever its clients call and whichever call to the *)
(* file fails.                                                             *)
THEOREM TypeCorrect == SpecAny => []TypeOK
<1>1. AnyInv => TypeOK
  BY DEF AnyInv
<1> QED BY AnyInvHolds, <1>1, PTL

(* Every slot that disk_manager.rs has given to a page or put on the free  *)
(* list is inside the file, and no read is out of bounds, whatever calls   *)
(* came before and whichever failed, set_len included.                     *)
THEOREM SlotsStayInFile == SpecAny => []SlotsInFile
<1>1. AnyInv => SlotsInFile
  BY DEF AnyInv
<1> QED BY AnyInvHolds, <1>1, PTL

-----------------------------------------------------------------------------
(***************************************************************************)
(* Calls and failures leave the other pages alone, as long as the slots    *)
(* are partitioned.                                                        *)
(***************************************************************************)
IInv == AnyInv /\ SlotPartition

(* What locating does for a page that has a slot. *)
LEMMA LocatedInPlace ==
  ASSUME AnyInv, NEW p \in Mapped, Locate(p)
  PROVE  /\ free_slots' = free_slots /\ page_capacity' = page_capacity
         /\ GrownFiles(p) = {file} /\ SlotFor(p) = pages[p]
         /\ pages[p] \in Range(pages) /\ pages[p] \in DOMAIN file
<1>1. pages[p] \in Range(pages)
  BY DEF Range, Mapped
<1> QED BY <1>1, AnyFacts DEF Locate, GrownFiles, FillsUp, SlotFor

(* The slot a page without one is given belongs to no other page. *)
LEMMA NewSlot ==
  ASSUME IInv, NEW p \in PageId, p \notin Mapped
  PROVE  /\ SlotFor(p) \in Nat
         /\ SlotFor(p) \notin Range(pages)
         /\ free_slots = <<>> => SlotFor(p) = SlotsInUse
         /\ free_slots # <<>> => SlotFor(p) = Last(free_slots)
<1>1. CASE free_slots = <<>>
  <2>1. Len(free_slots) = 0 /\ SlotFor(p) = Cardinality(Mapped)
    BY <1>1, EmptySeq DEF SlotFor
  <2>2. SlotFor(p) = SlotsInUse /\ SlotsInUse \in Nat
    BY <2>1, AnyFacts DEF SlotsInUse, IInv
  <2>3. \A s \in Range(pages) : s \in 0 .. SlotsInUse - 1
    BY DEF IInv, SlotPartition
  <2> QED BY <1>1, <2>2, <2>3
<1>2. CASE free_slots # <<>>
  <2>1. /\ Last(free_slots) \in Nat
        /\ Range(free_slots) = Range(Front(free_slots)) \cup {Last(free_slots)}
    BY <1>2, AnyFacts, Pop DEF IInv
  <2> QED BY <1>2, <2>1 DEF SlotFor, IInv, SlotPartition
<1> QED BY <1>1, <1>2

(* A call for p changes the file at most in the slot of p. *)
LEMMA OthersKept ==
  ASSUME IInv, NEW p \in PageId, Locate(p), NEW f \in GrownFiles(p), NEW d \in Data,
         file' = f \/ file' = Overwrite(f, SlotFor(p), d),
         NEW q \in Mapped, q # p
  PROVE  file'[pages[q]] = file[pages[q]]
<1>1. pages[q] \in Range(pages) /\ pages[q] # SlotFor(p)
  <2>1. pages[q] \in Range(pages)
    BY DEF Range, Mapped
  <2>2. CASE p \in Mapped
    BY <2>1, <2>2 DEF SlotFor, IInv, SlotPartition, IsInjective, Mapped
  <2>3. CASE p \notin Mapped
    BY <2>1, <2>3, NewSlot
  <2> QED BY <2>1, <2>2, <2>3
<1>2. /\ IsFile(f) /\ SlotFor(p) \in 0 .. FileSize(f)
      /\ pages[q] \in DOMAIN f /\ f[pages[q]] = file[pages[q]]
  BY <1>1, Located DEF IInv
<1>3. Overwrite(f, SlotFor(p), d)[pages[q]] = f[pages[q]]
  BY <1>1, <1>2, Overwriting
<1> QED BY <1>2, <1>3

LEMMA CallLeavesOthers ==
  ASSUME IInv, NextAny
  PROVE  /\ reply'.page \in PageId
         /\ \A q \in Mapped : q # reply'.page =>
              /\ q \in Mapped' /\ pages'[q] = pages[q]
              /\ file'[pages[q]] = file[pages[q]]
<1> DEFINE Kept(p) ==
      \A q \in Mapped : q # p =>
        /\ q \in Mapped' /\ pages'[q] = pages[q]
        /\ file'[pages[q]] = file[pages[q]]
<1>1. ASSUME NEW p \in PageId, NEW d \in Data, write_page(p, d)
      PROVE  reply'.page = p /\ Kept(p)
  <2>1. PICK f \in GrownFiles(p) : file' = Overwrite(f, SlotFor(p), d)
    BY <1>1 DEF write_page
  <2>2. \A q \in Mapped : q # p => file'[pages[q]] = file[pages[q]]
    BY <1>1, <2>1, OthersKept DEF write_page
  <2> QED BY <1>1, <2>2 DEF write_page, WithSlot, Mapped
<1>2. ASSUME NEW p \in PageId, NEW d \in Data, write_page_err(p, d)
      PROVE  reply'.page = p /\ Kept(p)
  <2>1. PICK f \in GrownFiles(p) : file' \in {f, Overwrite(f, SlotFor(p), d)}
    BY <1>2 DEF write_page_err
  <2>2. \A q \in Mapped : q # p => file'[pages[q]] = file[pages[q]]
    BY <1>2, <2>1, OthersKept DEF write_page_err
  <2> QED BY <1>2, <2>2 DEF write_page_err, Mapped
<1>3. ASSUME NEW p \in PageId, Locate(p), file' \in GrownFiles(p), pages' = pages
      PROVE  Kept(p)
  BY <1>3, OthersKept, DataAssumption DEF Mapped
<1>4. ASSUME NEW p \in PageId, delete_page(p) PROVE reply'.page = p /\ Kept(p)
  <2>1. reply'.page = p /\ file' = file
    BY <1>4 DEF delete_page
  <2>2. \A q \in Mapped : q # p => q \in Mapped' /\ pages'[q] = pages[q]
    BY <1>4 DEF delete_page, WithoutSlot, Mapped
  <2> QED BY <2>1, <2>2
<1>5. ASSUME NEW p \in PageId, read_page(p) PROVE reply'.page = p /\ Kept(p)
  BY <1>3, <1>5 DEF read_page
<1>6. ASSUME NEW p \in PageId, read_page_err(p) PROVE reply'.page = p /\ Kept(p)
  BY <1>3, <1>6 DEF read_page_err
<1> QED BY <1>1, <1>2, <1>4, <1>5, <1>6 DEF NextAny

(* A call of disk_manager.rs for one page leaves the other pages alone,    *)
(* under any calls and failures, until a slot has been lost.               *)
THEOREM CallsLeaveOthersAlone == SpecAny => OthersUntouched
<1>1. AnyInv /\ [NextAny]_vars => [LeavesOthersAlone]_vars
  <2> SUFFICES ASSUME AnyInv, NextAny, SlotPartition,
                      NEW q \in Mapped, q \in Mapped', reply'.page # q
               PROVE  file'[pages'[q]] = file[pages[q]]
    BY DEF LeavesOthersAlone
  <2> QED BY CallLeavesOthers DEF IInv
<1> QED BY AnyInvHolds, <1>1, PTL DEF SpecAny, OthersUntouched

-----------------------------------------------------------------------------
(***************************************************************************)
(* The calls of the pool keep the slots partitioned.                       *)
(***************************************************************************)

(* Mapping a page that has a slot to it again, ... *)
LEMMA MapInPlace ==
  ASSUME IInv, NEW p \in Mapped, Locate(p),
         pages' = pages \/ pages' = WithSlot(p, SlotFor(p))
  PROVE  pages' = pages /\ SlotPartition'
<1>1. free_slots' = free_slots /\ SlotFor(p) = pages[p]
  BY LocatedInPlace DEF IInv
<1>2. pages' = pages
  BY <1>1, KeepSlot, AnyFacts DEF IInv
<1>3. Mapped' = Mapped /\ SlotsInUse' = SlotsInUse
  BY <1>1, <1>2 DEF Mapped, SlotsInUse
<1> QED BY <1>1, <1>2, <1>3 DEF IInv, SlotPartition

(* ... and one that has none to its first. *)
LEMMA MapNewPage ==
  ASSUME IInv, NEW p \in PageId, p \notin Mapped, Locate(p),
         pages' = WithSlot(p, SlotFor(p))
  PROVE  SlotPartition'
<1> DEFINE s == SlotFor(p)
<1>1. s \in Nat /\ s \notin Range(pages)
  BY NewSlot
<1>2. free_slots' = IF free_slots # <<>> THEN Front(free_slots) ELSE free_slots
  BY DEF Locate
<1>3. /\ pages \in [Mapped -> Nat] /\ IsInjective(pages)
      /\ free_slots \in Seq(Nat) /\ IsInjective(free_slots)
      /\ Range(pages) \cap Range(free_slots) = {}
      /\ Range(pages) \cup Range(free_slots) = 0 .. SlotsInUse - 1
      /\ SlotsInUse \in Nat /\ Cardinality(Mapped) \in Nat /\ Len(free_slots) \in Nat
  BY AnyFacts DEF IInv, SlotPartition
<1>4. /\ Mapped' = Mapped \cup {p}
      /\ IsInjective(pages')
      /\ Range(pages') = Range(pages) \cup {s}
  BY <1>1, <1>3, GiveSlot DEF Mapped
<1>5. Cardinality(Mapped') = Cardinality(Mapped) + 1
  BY <1>4, AnyFacts, FS_AddElement DEF IInv
<1>6. CASE free_slots = <<>>
  <2>1. free_slots' = <<>> /\ Len(free_slots) = 0 /\ Range(free_slots) = {}
    BY <1>2, <1>6, EmptySeq DEF Range
  <2>2. s = SlotsInUse /\ SlotsInUse' = SlotsInUse + 1
    BY <1>3, <1>5, <1>6, <2>1, NewSlot DEF SlotsInUse
  <2>3. 0 .. SlotsInUse' - 1 = (0 .. SlotsInUse - 1) \cup {SlotsInUse}
    BY <1>3, <2>2
  <2>4. Range(pages') \cup Range(free_slots') = 0 .. SlotsInUse' - 1
    BY <1>3, <1>4, <1>6, <2>1, <2>2, <2>3
  <2> QED BY <1>3, <1>4, <1>6, <2>1, <2>4 DEF SlotPartition
<1>7. CASE free_slots # <<>>
  <2>1. s = Last(free_slots) /\ free_slots' = Front(free_slots)
    BY <1>2, <1>7, NewSlot
  <2> HIDE DEF s
  <2>2. /\ Len(free_slots') = Len(free_slots) - 1
        /\ IsInjective(free_slots') /\ s \notin Range(free_slots')
        /\ Range(free_slots) = Range(free_slots') \cup {s}
    <3>1. /\ Len(Front(free_slots)) = Len(free_slots) - 1
          /\ IsInjective(Front(free_slots)) /\ Last(free_slots) \notin Range(Front(free_slots))
          /\ Range(free_slots) = Range(Front(free_slots)) \cup {Last(free_slots)}
      BY <1>3, <1>7, Pop
    <3> QED BY <2>1, <3>1
  <2>3. SlotsInUse' = SlotsInUse
    BY <1>3, <1>5, <2>2 DEF SlotsInUse
  <2> QED BY <1>3, <1>4, <2>2, <2>3 DEF SlotPartition
<1> QED BY <1>6, <1>7

(* delete_page: the slot of the page goes on the stack. *)
LEMMA UnmapPage ==
  ASSUME IInv, NEW p \in PageId, delete_page(p)
  PROVE  SlotPartition' /\ Mapped' = Mapped \ {p} /\ file' = file
<1>1. CASE p \notin Mapped
  <2>1. pages' = pages /\ free_slots' = free_slots /\ file' = file
    BY <1>1 DEF delete_page
  <2>2. Mapped' = Mapped /\ SlotsInUse' = SlotsInUse
    BY <2>1 DEF Mapped, SlotsInUse
  <2> QED BY <1>1, <2>1, <2>2 DEF IInv, SlotPartition
<1>2. CASE p \in Mapped
  <2> DEFINE s == pages[p]
  <2>1. pages' = WithoutSlot(p) /\ free_slots' = Append(free_slots, s) /\ file' = file
    BY <1>2 DEF delete_page
  <2>2. /\ pages \in [Mapped -> Nat] /\ IsInjective(pages)
        /\ free_slots \in Seq(Nat) /\ IsInjective(free_slots)
        /\ Range(pages) \cap Range(free_slots) = {}
        /\ Range(pages) \cup Range(free_slots) = 0 .. SlotsInUse - 1
        /\ Cardinality(Mapped) \in Nat /\ Len(free_slots) \in Nat
    BY AnyFacts DEF IInv, SlotPartition
  <2>3. /\ Mapped' = Mapped \ {p}
        /\ IsInjective(pages')
        /\ s \in Range(pages)
        /\ Range(pages') = Range(pages) \ {s}
    BY <1>2, <2>1, <2>2, TakeSlot DEF Mapped
  <2>4. s \in Nat /\ s \notin Range(free_slots)
    BY <1>2, <2>2, <2>3
  <2>5. /\ Len(free_slots') = Len(free_slots) + 1
        /\ IsInjective(free_slots')
        /\ Range(free_slots') = Range(free_slots) \cup {s}
    BY <2>1, <2>2, <2>4, Push
  <2>6. Cardinality(Mapped') = Cardinality(Mapped) - 1
    BY <1>2, <2>3, AnyFacts, FS_RemoveElement DEF IInv
  <2>7. SlotsInUse' = SlotsInUse
    BY <2>2, <2>5, <2>6 DEF SlotsInUse
  <2> QED BY <2>1, <2>2, <2>3, <2>5, <2>7 DEF SlotPartition
<1> QED BY <1>1, <1>2

LEMMA NextPreservesIInv ==
  ASSUME IInv, [Next]_vars
  PROVE  IInv'
<1>1. AnyInv'
  <2>1. [NextAny]_vars
    BY DEF Next, NextAny
  <2> QED BY <2>1, NextAnyPreservesAnyInv DEF IInv
<1>2. ASSUME NEW p \in PageId, NEW d \in Data, write_page(p, d) PROVE SlotPartition'
  BY <1>2, MapInPlace, MapNewPage DEF write_page
<1>3. ASSUME NEW p \in Mapped, Locate(p), pages' = pages PROVE SlotPartition'
  BY <1>3, MapInPlace
<1>4. ASSUME NEW p \in PageId, delete_page(p) PROVE SlotPartition'
  BY <1>4, UnmapPage
<1>5. ASSUME UNCHANGED vars PROVE SlotPartition'
  <2>1. Mapped' = Mapped /\ SlotsInUse' = SlotsInUse
    BY <1>5 DEF vars, Mapped, SlotsInUse
  <2> QED BY <1>5, <2>1 DEF vars, IInv, SlotPartition
<1>6. SlotPartition'
  <2>1. ASSUME NEW p \in Mapped, NEW d \in Data, write_page_err(p, d) PROVE SlotPartition'
    BY <1>3, <2>1 DEF write_page_err
  <2>2. ASSUME NEW p \in Mapped, read_page(p) PROVE SlotPartition'
    BY <1>3, <2>2 DEF read_page
  <2>3. ASSUME NEW p \in Mapped, read_page_err(p) PROVE SlotPartition'
    BY <1>3, <2>3 DEF read_page_err
  <2>4. CASE Next
    BY <1>2, <1>4, <2>1, <2>2, <2>3, <2>4, Zenon DEF Next
  <2> QED BY <1>5, <2>4
<1> QED BY <1>1, <1>6 DEF IInv

LEMMA IInvHolds == Spec => []IInv
<1>1. Init => IInv
  BY InitAnyInv DEF IInv
<1> QED BY <1>1, NextPreservesIInv, PTL DEF Spec

(* The map from pages to offsets of disk_manager.rs and its free list      *)
(* partition the slots handed out.                                         *)
THEOREM SlotsStayPartitioned == Spec => []SlotPartition
<1>1. IInv => SlotPartition
  BY DEF IInv
<1> QED BY IInvHolds, <1>1, PTL

-----------------------------------------------------------------------------
(* The refinement: a page's content is what its slot of the file holds.    *)

StoreView == [p \in PageId |-> IF p \in Mapped THEN file[pages[p]] ELSE Absent]

LEMMA StoredIsData ==
  ASSUME IInv, NEW p \in Mapped
  PROVE  file[pages[p]] \in Data /\ file[pages[p]] # Absent
<1>1. pages[p] \in Range(pages)
  BY DEF Range, Mapped
<1>2. pages[p] \in DOMAIN file
  BY <1>1, AnyFacts DEF IInv
<1> QED BY <1>2, AnyFacts, DataAssumption DEF IInv, IsFile

LEMMA WriteImplementsWrite ==
  ASSUME IInv, Working, NEW p \in PageId, NEW d \in Data, write_page(p, d)
  PROVE  Store!Write(p, d)
<1>1. Mapped' = Mapped \cup {p} /\ pages'[p] = SlotFor(p) /\ reply'.page = p
  BY DEF write_page, WithSlot, Mapped
<1>2. file'[SlotFor(p)] = d
  <2>1. PICK f \in GrownFiles(p) : file' = Overwrite(f, SlotFor(p), d)
    BY DEF write_page
  <2>2. IsFile(f) /\ SlotFor(p) \in 0 .. FileSize(f)
    BY Located DEF write_page, IInv
  <2> QED BY <2>1, <2>2, Overwriting
<1>3. \A q \in Mapped : q # p => file'[pages'[q]] = file[pages[q]]
  <2>1. NextAny
    BY DEF NextAny
  <2> QED BY <1>1, <2>1, CallLeavesOthers
<1>4. StoreView' = [StoreView EXCEPT ![p] = d]
  BY <1>1, <1>2, <1>3 DEF StoreView
<1> QED BY <1>4 DEF Store!Write, StoreView, write_page

LEMMA FailureImplementsFailure ==
  ASSUME IInv, Working, NEW p \in PageId, p \in Mapped, NEW d \in Data,
         write_page_err(p, d)
  PROVE  \E e \in Data : Store!WriteFails(p, e)
<1>1. pages' = pages /\ Mapped' = Mapped /\ reply'.page = p
  BY DEF write_page_err, Mapped
<1>2. file' = file \/ file' = Overwrite(file, pages[p], d)
  BY LocatedInPlace DEF write_page_err, IInv
<1>3. file'[pages[p]] \in Data
  <2>1. CASE file' = file
    BY <2>1, StoredIsData
  <2>2. CASE file' = Overwrite(file, pages[p], d)
    <3>1. IsFile(file) /\ pages[p] \in 0 .. FileSize(file)
      BY LocatedInPlace, AnyFacts DEF write_page_err, IInv
    <3> QED BY <2>2, <3>1, Overwriting
  <2> QED BY <1>2, <2>1, <2>2
<1>4. \A q \in Mapped : q # p => file'[pages'[q]] = file[pages[q]]
  <2>1. NextAny
    BY DEF NextAny
  <2> QED BY <1>1, <2>1, CallLeavesOthers
<1>5. StoreView' = [StoreView EXCEPT ![p] = file'[pages[p]]]
  BY <1>1, <1>4 DEF StoreView
<1>6. StoreView[p] # Absent
  BY StoredIsData DEF StoreView
<1> QED BY <1>3, <1>5, <1>6 DEF Store!WriteFails, StoreView, write_page_err

LEMMA ReadImplementsRead ==
  ASSUME IInv, NEW p \in PageId, p \in Mapped, read_page(p)
  PROVE  Store!Read(p)
<1>1. pages' = pages /\ file' = file /\ SlotFor(p) = pages[p] /\ pages[p] \in DOMAIN file
  BY LocatedInPlace DEF read_page, IInv
<1>2. pages[p] \in 0 .. FileSize(file) - 1 /\ FileSize(file) \in Nat
  BY <1>1, AnyFacts DEF IInv
<1>3. reply' = [op |-> "read", page |-> p, data |-> file[pages[p]]]
  BY <1>1, <1>2 DEF read_page, Contents
<1>4. StoreView' = StoreView /\ StoreView[p] = file[pages[p]]
  BY <1>1 DEF StoreView, Mapped
<1> QED BY <1>3, <1>4, StoredIsData DEF Store!Read, StoreView

LEMMA ReadFailureImplementsFailure ==
  ASSUME IInv, NEW p \in PageId, p \in Mapped, read_page_err(p)
  PROVE  Store!ReadFails(p)
<1>1. pages' = pages /\ file' = file
  BY LocatedInPlace DEF read_page_err, IInv
<1>2. StoreView' = StoreView /\ StoreView[p] = file[pages[p]]
  BY <1>1 DEF StoreView, Mapped
<1> QED BY <1>2, StoredIsData DEF Store!ReadFails, StoreView, read_page_err

LEMMA DeleteImplementsDelete ==
  ASSUME IInv, NEW p \in PageId, delete_page(p)
  PROVE  Store!Delete(p)
<1>1. Mapped' = Mapped \ {p} /\ file' = file
  BY UnmapPage
<1>2. \A q \in Mapped \ {p} : pages'[q] = pages[q]
  BY DEF delete_page, WithoutSlot
<1>3. StoreView' = [StoreView EXCEPT ![p] = Absent]
  BY <1>1, <1>2 DEF StoreView
<1> QED BY <1>3 DEF Store!Delete, StoreView, delete_page

(* disk_manager.rs is a dictionary of pages to the layers above it: a read *)
(* returns what was last written to the page, and no call touches another  *)
(* page, however slots are freed and reused, the file grows or fails to,   *)
(* and requests for pages with a slot fail.                                *)
THEOREM ImplementsPageStore == Spec => StoreSpec
<1>1. Init => Store!Init
  BY DEF Init, Store!Init, Mapped
<1>2. IInv /\ [Next]_vars => [Store!Next]_(Store!vars)
  <2> SUFFICES ASSUME IInv, [Next]_vars PROVE [Store!Next]_(Store!vars)
    OBVIOUS
  <2>1. ASSUME Working, NEW p \in PageId, NEW d \in Data, write_page(p, d) PROVE Store!Next
    BY <2>1, WriteImplementsWrite DEF Store!Next
  <2>2. ASSUME NEW p \in PageId, p \in Mapped, read_page(p) PROVE Store!Next
    BY <2>2, ReadImplementsRead DEF Store!Next
  <2>3. ASSUME NEW p \in PageId, delete_page(p) PROVE Store!Next
    BY <2>3, DeleteImplementsDelete DEF Store!Next
  <2>4. ASSUME Working, NEW p \in PageId, p \in Mapped, NEW d \in Data, write_page_err(p, d)
        PROVE  Store!Next
    BY <2>4, FailureImplementsFailure DEF Store!Next
  <2>5. ASSUME NEW p \in PageId, p \in Mapped, read_page_err(p) PROVE Store!Next
    BY <2>5, ReadFailureImplementsFailure DEF Store!Next
  <2>6. CASE UNCHANGED vars
    BY <2>6 DEF vars, Store!vars, Mapped
  <2> QED BY <2>1, <2>2, <2>3, <2>4, <2>5, <2>6 DEF Next
<1> QED BY <1>1, <1>2, IInvHolds, PTL DEF Spec, StoreSpec, Store!Spec
=============================================================================
