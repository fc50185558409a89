--------------------------- MODULE PartFileProofs ---------------------------
(***************************************************************************)
(* Proofs about PartFile for every set of chunks, number of fragments and  *)
(* bound on faults: the type invariant; that no crash leaves metadata      *)
(* ahead of the data; that the target is only ever the whole content; and  *)
(* that the part file implements ResumeStore, so that no crash, writeback  *)
(* or retry takes an acknowledged chunk back.                              *)
(***************************************************************************)
EXTENDS PartFile, TLAPS

\* read_best_metadata finds a valid slot whenever there is one, and no valid slot
\* is newer than the one it finds.
LEMMA BestSlotValid ==
    ASSUME NEW image \in Image, ValidSlots(image) # {}
    PROVE  /\ BestSlot(image) \in ValidSlots(image)
           /\ \A j \in ValidSlots(image) :
                  image.slots[j].gen <= image.slots[BestSlot(image)].gen
<1> DEFINE V == ValidSlots(image)
           IsBest(i) == \A j \in V : image.slots[j].gen <= image.slots[i].gen
<1>1. V \subseteq {0, 1} /\ V # {}
  BY DEF ValidSlots
<1>2. \A i \in {0, 1} : image.slots[i].gen \in Nat
  BY DEF Image, Slot, Generations
<1>3. \E i \in V : IsBest(i)
  <2>1. CASE 0 \in V /\ (1 \in V => image.slots[1].gen <= image.slots[0].gen)
    <3>1. IsBest(0)
      BY <2>1, <1>1, <1>2
    <3>2. QED
      BY <3>1, <2>1
  <2>2. CASE 1 \in V /\ (0 \in V => image.slots[0].gen <= image.slots[1].gen)
    <3>1. IsBest(1)
      BY <2>2, <1>1, <1>2
    <3>2. QED
      BY <3>1, <2>2
  <2>3. QED
    BY <2>1, <2>2, <1>1, <1>2
<1>4. QED
  BY <1>3 DEF BestSlot

\* The metadata a process resumes from is well formed.
LEMMA BestMetaType ==
    ASSUME NEW image \in Image, ValidSlots(image) # {}
    PROVE  BestMeta(image) \in [gen : Generations, done : SUBSET Chunks]
<1>1. BestSlot(image) \in {0, 1}
  BY BestSlotValid DEF ValidSlots
<1>2. QED
  BY <1>1 DEF BestMeta, Image, Slot

\* A slot that does not decode is a slot.
LEMMA NoSlotType == NoSlot \in Slot
BY DEF NoSlot, Slot, Generations

\* An empty file is a file.
LEMMA NoFileType == NoFile \in Image
BY DEF NoFile, Image, NoSlot, Slot, Generations

\* What a process believes before it has read a slot is typed.
LEMMA NoMetaType == NoMeta \in [gen : Generations, done : SUBSET Chunks]
BY DEF NoMeta, Generations

\* So is how far it has written then.
LEMMA NoCursorType == NoCursor \in [Chunks -> 0 .. Fragments]
BY FragmentsAssumption DEF NoCursor

\* Writing a slot of an image gives an image.
LEMMA SlotWriteType ==
    ASSUME NEW image \in Image, NEW i \in {0, 1}, NEW s \in Slot
    PROVE  [image EXCEPT !.slots[i] = s] \in Image
BY DEF Image

\* The images a stopped process can leave in the cache are images.
LEMMA UnfinishedType ==
    ASSUME cache \in Image
    PROVE  Unfinished \subseteq Image
<1>1. \A i \in TornSlots : [cache EXCEPT !.slots[i] = NoSlot] \in Image
  BY NoSlotType, SlotWriteType DEF TornSlots
<1>2. QED
  BY <1>1 DEF Unfinished

-----------------------------------------------------------------------------
\* Every reachable state of the part file is well typed, whatever the resource
\* and the faults.
THEOREM TypeCorrect == Spec => []TypeOK
<1>1. Init => TypeOK
  <2> SUFFICES ASSUME Init PROVE TypeOK
    OBVIOUS
  <2>1. cache \in Image /\ disk \in Image
    BY NoFileType DEF Init
  <2>2. /\ meta \in [gen : Generations, done : SUBSET Chunks]
        /\ cursor \in [Chunks -> 0 .. Fragments]
    BY NoMetaType, NoCursorType DEF Init
  <2>3. faults \in 0 .. MaxFaults
    BY FaultsAssumption DEF Init
  <2>4. QED
    BY <2>1, <2>2, <2>3 DEF Init, TypeOK
<1>2. TypeOK /\ [Next]_vars => TypeOK'
  <2> SUFFICES ASSUME TypeOK, [Next]_vars
               PROVE  TypeOK'
    OBVIOUS
  <2> USE DEF TypeOK
  <2>1. ASSUME OpenOrCreate PROVE TypeOK'
    <3>1. CASE Create
      <4>1. [NoFile EXCEPT !.name = "part"] \in Image
        BY NoFileType DEF Image
      <4>2. QED
        BY <3>1, <4>1 DEF Create
    <3>2. CASE CreateSetLen
      <4>1. [cache EXCEPT !.len = "expected"] \in Image
        BY DEF Image
      <4>2. QED
        BY <3>2, <4>1 DEF CreateSetLen
    <3>3. CASE CreateWriteSlot
      <4>1. SlotFor(NoMeta) \in Slot
        BY NoMetaType DEF SlotFor, Slot
      <4>2. [cache EXCEPT !.slots[0] = SlotFor(NoMeta)] \in Image
        BY <4>1 DEF Image
      <4>3. QED
        BY <3>3, <4>2 DEF CreateWriteSlot
    <3>4. CASE CreateSync
      BY <3>4, NoMetaType DEF CreateSync, Sync
    <3>5. CASE OpenRefused
      BY <3>5 DEF OpenRefused, OpenRefusal
    <3>6. CASE OpenIncompatible
      BY <3>6, FaultsAssumption DEF OpenIncompatible
    <3>7. CASE OpenExisting
      <4>1. ValidSlots(cache) # {}
        BY <3>7 DEF OpenExisting, OpenRefusal
      <4>2. QED
        BY <3>7, <4>1, BestMetaType DEF OpenExisting
    <3>8. QED
      BY <2>1, <3>1, <3>2, <3>3, <3>4, <3>5, <3>6, <3>7 DEF OpenOrCreate
  <2>2. ASSUME WriteAndCommit PROVE TypeOK'
    <3>1. ASSUME NEW c \in Chunks, WriteFragment(c) PROVE TypeOK'
      <4>1. <<c, cursor[c]>> \in Pieces /\ cursor[c] + 1 \in 0 .. Fragments
        BY <3>1, FragmentsAssumption DEF WriteFragment, Pieces
      <4>2. [cache EXCEPT !.data = @ \cup {<<c, cursor[c]>>}] \in Image
        BY <4>1 DEF Image
      <4>3. [cursor EXCEPT ![c] = @ + 1] \in [Chunks -> 0 .. Fragments]
        BY <4>1
      <4>4. QED
        BY <3>1, <4>2, <4>3 DEF WriteFragment
    <3>2. ASSUME NEW c \in Chunks, RestartChunk(c) PROVE TypeOK'
      <4>1. [cursor EXCEPT ![c] = 0] \in [Chunks -> 0 .. Fragments]
        BY FragmentsAssumption
      <4>2. QED
        BY <3>2, <4>1, FaultsAssumption DEF RestartChunk
    <3>3. ASSUME NEW c \in Chunks, CommitIgnored(c) PROVE TypeOK'
      BY <3>3 DEF CommitIgnored
    <3>4. ASSUME NEW c \in Chunks, CommitSyncData(c) PROVE TypeOK'
      BY <3>4 DEF CommitSyncData, Sync
    <3>5. CASE CommitWriteSlot
      <4> DEFINE next == [gen |-> meta.gen + 1, done |-> meta.done \cup chunk]
      <4>1. next \in [gen : Generations, done : SUBSET Chunks]
        BY DEF Generations
      <4>2. SlotFor(next) \in Slot /\ next.gen % 2 \in {0, 1}
        BY <4>1 DEF SlotFor, Slot, Generations
      <4>3. [cache EXCEPT !.slots[next.gen % 2] = SlotFor(next)] \in Image
        BY <4>2 DEF Image
      <4>4. QED
        BY <3>5, <4>1, <4>3 DEF CommitWriteSlot
    <3>6. CASE CommitSyncAll
      BY <3>6 DEF CommitSyncAll, Sync
    <3>7. QED
      BY <2>2, <3>1, <3>2, <3>3, <3>4, <3>5, <3>6 DEF WriteAndCommit
  <2>3. ASSUME Finalize PROVE TypeOK'
    <3>1. CASE FinalizeIncomplete
      BY <3>1, NoMetaType, NoCursorType, FaultsAssumption DEF FinalizeIncomplete, Drop
    <3>2. CASE FinalizeHashMismatch
      BY <3>2, NoMetaType, NoCursorType DEF FinalizeHashMismatch, Drop
    <3>3. CASE FinalizeVerify
      BY <3>3 DEF FinalizeVerify
    <3>4. CASE FinalizeSetLen
      <4>1. [cache EXCEPT !.len = "content", !.slots = NoFile.slots] \in Image
        BY NoFileType DEF Image
      <4>2. QED
        BY <3>4, <4>1 DEF FinalizeSetLen
    <3>5. CASE FinalizeSync
      BY <3>5 DEF FinalizeSync, Sync
    <3>6. CASE FinalizeRename
      <4>1. [cache EXCEPT !.name = "target"] \in Image
        BY DEF Image
      <4>2. QED
        BY <3>6, <4>1 DEF FinalizeRename
    <3>7. CASE FinalizeSyncDir
      BY <3>7, NoMetaType, NoCursorType DEF FinalizeSyncDir, Drop
    <3>8. QED
      BY <2>3, <3>1, <3>2, <3>3, <3>4, <3>5, <3>6, <3>7 DEF Finalize
  <2>4. ASSUME Writeback PROVE TypeOK'
    <3>1. disk' \in Image
      <4>1. CASE WritebackName
        BY <4>1 DEF WritebackName, Image
      <4>2. CASE WritebackLen
        BY <4>2, NoFileType DEF WritebackLen, Image
      <4>3. CASE WritebackData
        <5>1. PICK piece \in cache.data \ disk.data :
                  disk' = [disk EXCEPT !.data = @ \cup {piece}]
          BY <4>3 DEF WritebackData
        <5>2. QED
          BY <5>1 DEF Image
      <4>4. CASE WritebackSlot
        <5>1. PICK i \in {0, 1} : \E s \in {cache.slots[i], NoSlot} :
                  disk' = [disk EXCEPT !.slots[i] = s]
          BY <4>4 DEF WritebackSlot
        <5>2. PICK s \in {cache.slots[i], NoSlot} : disk' = [disk EXCEPT !.slots[i] = s]
          BY <5>1
        <5>3. cache.slots[i] \in Slot
          BY DEF Image
        <5>4. s \in Slot
          BY <5>2, <5>3, NoSlotType
        <5>5. QED
          BY <5>2, <5>4, SlotWriteType
      <4>5. QED
        BY <2>4, <4>1, <4>2, <4>3, <4>4 DEF Writeback
    <3>2. QED
      BY <2>4, <3>1 DEF Writeback
  <2>5. CASE Interrupt
    BY <2>5, UnfinishedType, NoMetaType, NoCursorType, FaultsAssumption DEF Interrupt, Drop
  <2>6. CASE PowerLoss
    BY <2>6, NoMetaType, NoCursorType, FaultsAssumption DEF PowerLoss, Drop
  <2>7. CASE UNCHANGED vars
    BY <2>7 DEF vars
  <2>8. QED
    BY <2>1, <2>2, <2>3, <2>4, <2>5, <2>6, <2>7 DEF Next
<1>3. QED
  BY <1>1, <1>2, PTL DEF Spec
-----------------------------------------------------------------------------
(* No image is ever ahead of the data.                                     *)

\* Bytes that are on one image are on any image that holds more.
LEMMA FullGrows ==
    ASSUME NEW a \in Image, NEW b \in Image, a.data \subseteq b.data,
           NEW S, Full(a, S)
    PROVE  Full(b, S)
BY DEF Full

\* Chunks that are whole, one set and another, are whole together.
LEMMA FullUnion ==
    ASSUME NEW a \in Image, NEW S \in SUBSET Chunks, NEW T \in SUBSET Chunks,
           Full(a, S), Full(a, T)
    PROVE  Full(a, S \cup T)
BY DEF Full, PiecesOf

\* No chunk lacks nothing.
LEMMA FullEmpty == ASSUME NEW a \in Image PROVE Full(a, {})
BY DEF Full, PiecesOf

\* Dropping the PartFile forgets what the process believed and wrote.
LEMMA DropForgets ==
    ASSUME TypeOK, TypeOK', Drop
    PROVE  /\ Full(disk', meta'.done)
           /\ pc' # "synced"
           /\ \A c \in Chunks : \A k \in 0 .. cursor'[c] - 1 : <<c, k>> \in cache'.data
<1>1. meta'.done = {}
  BY DEF Drop, NoMeta
<1>2. Full(disk', {})
  BY FullEmpty DEF TypeOK
<1>3. \A c \in Chunks : cursor'[c] = 0
  BY DEF Drop, NoCursor
<1>4. QED
  BY <1>1, <1>2, <1>3 DEF Drop

\* A sync makes every claim about the cache one about the disk.
LEMMA SyncCrashSafe ==
    ASSUME TypeOK, TypeOK', CrashInv, Sync
    PROVE  /\ disk'.data \subseteq cache'.data
           /\ CrashSafe'
           /\ ResumeSafe'
           /\ \A S : Full(disk, S) => Full(disk', S)
<1>1. disk' = cache /\ cache' = cache
  BY DEF Sync
<1>2. \A S : Full(disk, S) => Full(disk', S)
  BY <1>1, FullGrows DEF CrashInv, TypeOK
<1>3. \A i \in ValidSlots(cache) : Full(disk', cache.slots[i].done)
  BY <1>2 DEF CrashInv, ResumeSafe
<1>4. QED
  BY <1>1, <1>2, <1>3 DEF CrashSafe, ResumeSafe

\* The invariant speaks of nothing but the images, pc, meta, chunk and cursor.
LEMMA CrashInvFrame ==
    ASSUME CrashInv, UNCHANGED <<cache, disk, pc, meta, chunk, cursor>>
    PROVE  CrashInv'
BY DEF CrashInv, CrashSafe, ResumeSafe, Full, ValidSlots

\* There is no file at first.
LEMMA CrashInvInit ==
    ASSUME Init
    PROVE  CrashInv
<1>1. /\ cache = NoFile /\ disk = NoFile /\ pc = "closed"
      /\ meta.done = {} /\ \A c \in Chunks : cursor[c] = 0
  BY DEF Init, NoMeta, NoCursor
<1>2. ValidSlots(NoFile) = {}
  BY DEF ValidSlots, NoFile, NoSlot
<1>3. CrashSafe /\ ResumeSafe
  BY <1>1, <1>2 DEF CrashSafe, ResumeSafe
<1>4. Full(disk, meta.done)
  BY <1>1, FullEmpty, NoFileType
<1>5. NoFile.name = "none"
  BY DEF NoFile
<1>6. QED
  BY <1>1, <1>3, <1>4, <1>5 DEF CrashInv

\* CrashInv is kept by open_or_create: creating, sizing and reading the slots back.
LEMMA CrashInvOpen ==
    ASSUME TypeOK, TypeOK', CrashInv, OpenOrCreate
    PROVE  CrashInv'
<1>1. CASE Create
  <2>1. cache = NoFile /\ disk = NoFile /\ cache.data = {}
    BY <1>1 DEF Create, CrashInv, NoFile
  <2>2. /\ cache'.name = "part" /\ cache'.data = {} /\ cache'.slots = NoFile.slots
        /\ UNCHANGED <<disk, meta, cursor>> /\ pc' = "created"
    BY <1>1 DEF Create, NoFile
  <2>3. ValidSlots(disk') = {} /\ ValidSlots(cache') = {}
    BY <2>1, <2>2 DEF ValidSlots, NoFile, NoSlot
  <2>4. CrashSafe' /\ ResumeSafe'
    BY <2>3 DEF CrashSafe, ResumeSafe
  <2>5. disk'.data \subseteq cache'.data
    BY <2>1, <2>2
  <2>6. \A c \in Chunks : \A k \in 0 .. cursor'[c] - 1 : <<c, k>> \in cache'.data
    BY <2>1, <2>2 DEF CrashInv
  <2>7. QED
    BY <2>1, <2>2, <2>4, <2>5, <2>6 DEF CrashInv, Full
<1>2. CASE CreateSetLen
  <2>1. /\ cache'.name = cache.name /\ cache'.data = cache.data
        /\ cache'.slots = cache.slots /\ UNCHANGED <<disk, meta, cursor, chunk>>
        /\ pc' = "sized" /\ pc = "created"
    BY <1>2 DEF CreateSetLen, TypeOK, Image
  <2>2. CrashSafe' /\ ResumeSafe'
    BY <2>1 DEF CrashInv, CrashSafe, ResumeSafe, ValidSlots, Full
  <2>3. QED
    BY <2>1, <2>2 DEF CrashInv, Full
<1>3. CASE CreateWriteSlot
  <2>1. /\ cache'.name = cache.name /\ cache'.data = cache.data
        /\ cache'.slots = [cache.slots EXCEPT ![0] = SlotFor(NoMeta)]
        /\ UNCHANGED <<disk, meta, cursor, chunk>>
        /\ pc' = "slotted" /\ pc = "sized"
    BY <1>3 DEF CreateWriteSlot, TypeOK, Image
  <2>2. CrashSafe'
    BY <2>1 DEF CrashInv, CrashSafe, ValidSlots, Full
  <2>3. ASSUME NEW i \in ValidSlots(cache')
        PROVE  Full(disk', cache'.slots[i].done)
    <3>1. CASE i = 0
      <4>1. cache'.slots[i].done = {}
        BY <3>1, <2>1 DEF TypeOK, Image, SlotFor, NoMeta
      <4>2. QED
        BY <4>1, FullEmpty DEF TypeOK
    <3>2. CASE i # 0
      <4>1. cache'.slots[i] = cache.slots[i] /\ i \in ValidSlots(cache)
        BY <3>2, <2>1 DEF TypeOK, Image, ValidSlots
      <4>2. QED
        BY <4>1, <2>1 DEF CrashInv, ResumeSafe, Full
    <3>3. QED
      BY <3>1, <3>2
  <2>4. ResumeSafe'
    BY <2>3 DEF ResumeSafe
  <2>5. QED
    BY <2>1, <2>2, <2>4 DEF CrashInv, Full
<1>4. CASE CreateSync
  <2>1. cache.name # "none" /\ pc' = "open" /\ meta'.done = {} /\ cursor' = cursor
    BY <1>4 DEF CreateSync, CrashInv, NoMeta
  <2>2. disk' = cache /\ cache' = cache /\ Sync
    BY <1>4 DEF CreateSync, Sync
  <2>3. QED
    BY <2>1, <2>2, SyncCrashSafe, FullEmpty DEF CrashInv, TypeOK
<1>5. CASE OpenRefused
  BY <1>5, CrashInvFrame DEF OpenRefused
<1>6. CASE OpenIncompatible
  BY <1>6, CrashInvFrame DEF OpenIncompatible
<1>7. CASE OpenExisting
  <2>1. /\ UNCHANGED <<cache, disk, cursor>> /\ pc' = "open" /\ cache.name # "none"
        /\ meta' = BestMeta(cache) /\ ValidSlots(cache) # {}
    BY <1>7 DEF OpenExisting, OpenRefusal
  <2>2. BestSlot(cache) \in ValidSlots(cache)
    BY <2>1, BestSlotValid DEF TypeOK
  <2>3. Full(disk', meta'.done)
    BY <2>1, <2>2 DEF CrashInv, ResumeSafe, BestMeta, Full
  <2>4. CrashSafe' /\ ResumeSafe'
    BY <2>1 DEF CrashInv, CrashSafe, ResumeSafe, ValidSlots, Full
  <2>5. QED
    BY <2>1, <2>3, <2>4 DEF CrashInv
<1>8. QED
  BY <1>1, <1>2, <1>3, <1>4, <1>5, <1>6, <1>7 DEF OpenOrCreate

\* CrashInv is kept by writes and commits, the slot only after the sync of what it marks.
LEMMA CrashInvCommit ==
    ASSUME TypeOK, TypeOK', CrashInv, WriteAndCommit
    PROVE  CrashInv'
<1>1. ASSUME NEW c \in Chunks, WriteFragment(c) PROVE CrashInv'
  <2>1. /\ cache'.name = cache.name /\ cache'.data = cache.data \cup {<<c, cursor[c]>>}
        /\ cache'.slots = cache.slots /\ UNCHANGED <<disk, pc, meta, chunk>>
        /\ cursor' = [cursor EXCEPT ![c] = @ + 1] /\ pc = "open"
    BY <1>1 DEF WriteFragment, TypeOK, Image
  <2>2. CrashSafe' /\ ResumeSafe'
    BY <2>1 DEF CrashInv, CrashSafe, ResumeSafe, ValidSlots, Full
  <2>3. ASSUME NEW d \in Chunks, NEW k \in 0 .. cursor'[d] - 1
        PROVE  <<d, k>> \in cache'.data
    <3>1. CASE d = c /\ k = cursor[c]
      BY <3>1, <2>1
    <3>2. CASE d = c /\ k # cursor[c]
      <4>1. k \in 0 .. cursor[c] - 1
        BY <3>2, <2>1 DEF TypeOK
      <4>2. QED
        BY <4>1, <3>2, <2>1 DEF CrashInv
    <3>3. CASE d # c
      BY <3>3, <2>1 DEF CrashInv, TypeOK
    <3>4. QED
      BY <3>1, <3>2, <3>3
  <2>4. disk'.data \subseteq cache'.data
    BY <2>1 DEF CrashInv
  <2>5. QED
    BY <2>1, <2>2, <2>3, <2>4 DEF CrashInv, Full
<1>2. ASSUME NEW c \in Chunks, RestartChunk(c) PROVE CrashInv'
  <2>1. /\ UNCHANGED <<cache, disk, pc, meta, chunk>>
        /\ cursor' = [cursor EXCEPT ![c] = 0]
    BY <1>2 DEF RestartChunk
  <2>2. CrashSafe' /\ ResumeSafe'
    BY <2>1 DEF CrashInv, CrashSafe, ResumeSafe, ValidSlots, Full
  <2>3. ASSUME NEW d \in Chunks, NEW k \in 0 .. cursor'[d] - 1
        PROVE  <<d, k>> \in cache'.data
    <3>1. d # c
      BY <2>1 DEF TypeOK
    <3>2. cursor'[d] = cursor[d]
      BY <3>1, <2>1 DEF TypeOK
    <3>3. QED
      BY <3>2, <2>1 DEF CrashInv
  <2>4. QED
    BY <2>1, <2>2, <2>3 DEF CrashInv, Full
<1>3. ASSUME NEW c \in Chunks, CommitIgnored(c) PROVE CrashInv'
  BY <1>3, CrashInvFrame DEF CommitIgnored
<1>4. ASSUME NEW c \in Chunks, CommitSyncData(c) PROVE CrashInv'
  <2>1. /\ Sync /\ disk' = cache /\ cache' = cache /\ UNCHANGED <<meta, cursor>>
        /\ chunk' = {c} /\ pc' = "synced" /\ pc = "open" /\ cursor[c] = Fragments
    BY <1>4 DEF CommitSyncData, Sync
  <2>2. Full(disk', chunk')
    BY <2>1 DEF CrashInv, Full, PiecesOf
  <2>3. cache.name # "none"
    BY <2>1 DEF CrashInv
  <2>4. QED
    BY <2>1, <2>2, <2>3, SyncCrashSafe DEF CrashInv
<1>5. CASE CommitWriteSlot
  <2> DEFINE next == [gen |-> meta.gen + 1, done |-> meta.done \cup chunk]
             s == next.gen % 2
  <2>1. s \in {0, 1}
    BY DEF TypeOK, Generations
  <2>2. /\ cache' = [cache EXCEPT !.slots[s] = SlotFor(next)] /\ meta' = next
        /\ UNCHANGED <<disk, cursor, chunk>>
        /\ pc' = "marked" /\ pc = "synced"
    BY <1>5 DEF CommitWriteSlot
  <2>3. /\ cache'.name = cache.name /\ cache'.data = cache.data
        /\ cache'.slots = [cache.slots EXCEPT ![s] = SlotFor(next)]
    BY <2>2 DEF TypeOK, Image
  <2>4. Full(disk', next.done)
    BY <2>2, FullUnion DEF CrashInv, TypeOK
  <2>5. CrashSafe'
    BY <2>2 DEF CrashInv, CrashSafe, ValidSlots, Full
  <2>6. ASSUME NEW i \in ValidSlots(cache')
        PROVE  Full(disk', cache'.slots[i].done)
    <3>1. CASE i = s
      <4>1. cache'.slots[i].done = next.done
        BY <3>1, <2>1, <2>3 DEF TypeOK, Image, SlotFor
      <4>2. QED
        BY <4>1, <2>4
    <3>2. CASE i # s
      <4>1. cache'.slots[i] = cache.slots[i] /\ i \in ValidSlots(cache)
        BY <3>2, <2>1, <2>3 DEF TypeOK, Image, ValidSlots
      <4>2. QED
        BY <4>1, <2>2 DEF CrashInv, ResumeSafe, Full
    <3>3. QED
      BY <3>1, <3>2
  <2>7. ResumeSafe'
    BY <2>6 DEF ResumeSafe
  <2>8. cache'.name # "none"
    BY <2>2, <2>3 DEF CrashInv
  <2>9. QED
    BY <2>2, <2>3, <2>4, <2>5, <2>7, <2>8 DEF CrashInv
<1>6. CASE CommitSyncAll
  <2>1. Sync /\ disk' = cache /\ cache' = cache /\ UNCHANGED <<meta, cursor>>
        /\ pc' = "open" /\ pc = "marked"
    BY <1>6 DEF CommitSyncAll, Sync
  <2>2. cache.name # "none"
    BY <2>1 DEF CrashInv
  <2>3. QED
    BY <2>1, <2>2, SyncCrashSafe DEF CrashInv
<1>7. QED
  BY <1>1, <1>2, <1>3, <1>4, <1>5, <1>6 DEF WriteAndCommit

\* CrashInv is kept by the hash, the truncation, the sync and the rename.
LEMMA CrashInvFinalize ==
    ASSUME TypeOK, TypeOK', CrashInv, Finalize
    PROVE  CrashInv'
<1>1. ASSUME UNCHANGED <<cache, disk>>, Drop, pc # "closed"
      PROVE  CrashInv'
  <2>1. CrashSafe' /\ ResumeSafe'
    BY <1>1 DEF CrashInv, CrashSafe, ResumeSafe, ValidSlots, Full
  <2>2. QED
    BY <1>1, <2>1, DropForgets DEF CrashInv
<1>2. CASE FinalizeIncomplete
  BY <1>2, <1>1 DEF FinalizeIncomplete
<1>3. CASE FinalizeHashMismatch
  BY <1>3, <1>1 DEF FinalizeHashMismatch
<1>4. CASE FinalizeVerify
  <2>1. UNCHANGED <<cache, disk, meta, chunk, cursor>> /\ pc' = "verified" /\ pc = "open"
    BY <1>4 DEF FinalizeVerify
  <2>2. CrashSafe' /\ ResumeSafe'
    BY <2>1 DEF CrashInv, CrashSafe, ResumeSafe, ValidSlots, Full
  <2>3. QED
    BY <2>1, <2>2 DEF CrashInv, Full
<1>5. CASE FinalizeSetLen
  <2>1. /\ cache'.name = cache.name /\ cache'.data = cache.data
        /\ cache'.slots = NoFile.slots /\ UNCHANGED <<disk, meta, chunk, cursor>>
        /\ pc' = "cut" /\ pc = "verified"
    BY <1>5 DEF FinalizeSetLen, TypeOK, Image
  <2>2. ValidSlots(cache') = {}
    BY <2>1 DEF ValidSlots, NoFile, NoSlot
  <2>3. CrashSafe' /\ ResumeSafe'
    BY <2>1, <2>2 DEF CrashInv, CrashSafe, ResumeSafe, ValidSlots, Full
  <2>4. QED
    BY <2>1, <2>3 DEF CrashInv, Full
<1>6. CASE FinalizeSync
  <2>1. Sync /\ disk' = cache /\ cache' = cache /\ UNCHANGED <<meta, cursor>>
        /\ pc' = "flushed" /\ pc = "cut"
    BY <1>6 DEF FinalizeSync, Sync
  <2>2. cache.name # "none"
    BY <2>1 DEF CrashInv
  <2>3. QED
    BY <2>1, <2>2, SyncCrashSafe DEF CrashInv
<1>7. CASE FinalizeRename
  <2>1. /\ cache'.name = "target" /\ cache'.data = cache.data
        /\ cache'.slots = cache.slots /\ UNCHANGED <<disk, meta, chunk, cursor>>
        /\ pc' = "renamed" /\ pc = "flushed"
    BY <1>7 DEF FinalizeRename, TypeOK, Image
  <2>2. CrashSafe' /\ ResumeSafe'
    BY <2>1 DEF CrashInv, CrashSafe, ResumeSafe, ValidSlots, Full
  <2>3. QED
    BY <2>1, <2>2 DEF CrashInv, Full
<1>8. CASE FinalizeSyncDir
  <2>1. CASE disk' = disk
    BY <1>8, <2>1, <1>1 DEF FinalizeSyncDir
  <2>2. CASE disk' = cache
    <3>1. Sync /\ Drop /\ cache.name # "none" /\ cache' = cache
      BY <1>8, <2>2 DEF FinalizeSyncDir, Sync, CrashInv
    <3>2. QED
      BY <3>1, <2>2, SyncCrashSafe, DropForgets DEF CrashInv
  <2>3. QED
    BY <1>8, <2>1, <2>2 DEF FinalizeSyncDir
<1>9. QED
  BY <1>2, <1>3, <1>4, <1>5, <1>6, <1>7, <1>8 DEF Finalize

\* CrashInv is kept by the kernel's writing back any fragment or slot at any time.
LEMMA CrashInvWriteback ==
    ASSUME TypeOK, TypeOK', CrashInv, Writeback
    PROVE  CrashInv'
<1>1. UNCHANGED <<cache, pc, meta, chunk, cursor>>
  BY DEF Writeback
<1>2. /\ disk.data \subseteq disk'.data /\ disk'.data \subseteq cache.data
      /\ disk'.name # "none" /\ cache.name # "none"
  <2>1. CASE WritebackName
    BY <2>1 DEF WritebackName, CrashInv, TypeOK, Image
  <2>2. CASE WritebackLen
    BY <2>2 DEF WritebackLen, CrashInv, TypeOK, Image
  <2>3. CASE WritebackData
    <3>1. PICK piece \in cache.data \ disk.data :
              disk' = [disk EXCEPT !.data = @ \cup {piece}]
      BY <2>3 DEF WritebackData
    <3>2. disk'.data = disk.data \cup {piece} /\ disk'.name = disk.name /\ disk.name # "none"
      BY <3>1, <2>3 DEF WritebackData, TypeOK, Image
    <3>3. QED
      BY <3>1, <3>2 DEF CrashInv
  <2>4. CASE WritebackSlot
    <3>1. PICK i \in {0, 1} : \E s \in {cache.slots[i], NoSlot} :
              disk' = [disk EXCEPT !.slots[i] = s]
      BY <2>4 DEF WritebackSlot
    <3>2. disk'.data = disk.data /\ disk'.name = disk.name
      BY <3>1 DEF TypeOK, Image
    <3>3. disk.name # "none"
      BY <2>4 DEF WritebackSlot, CrashInv, NoFile
    <3>4. QED
      BY <3>2, <3>3 DEF CrashInv
  <2>5. QED
    BY <2>1, <2>2, <2>3, <2>4 DEF Writeback
<1>3. \A S : Full(disk, S) => Full(disk', S)
  BY <1>2, FullGrows DEF TypeOK
<1>4. \A j \in ValidSlots(disk') :
          \/ j \in ValidSlots(disk) /\ disk'.slots[j] = disk.slots[j]
          \/ j \in ValidSlots(cache) /\ disk'.slots[j] = cache.slots[j]
  <2>1. CASE WritebackName
    BY <2>1 DEF WritebackName, TypeOK, Image, ValidSlots
  <2>2. CASE WritebackLen
    BY <2>2 DEF WritebackLen, TypeOK, Image, ValidSlots, NoFile, NoSlot
  <2>3. CASE WritebackData
    <3>1. disk'.slots = disk.slots
      BY <2>3 DEF WritebackData, TypeOK, Image
    <3>2. QED
      BY <3>1 DEF ValidSlots
  <2>4. CASE WritebackSlot
    <3>1. PICK i \in {0, 1} : \E s \in {cache.slots[i], NoSlot} :
              disk' = [disk EXCEPT !.slots[i] = s]
      BY <2>4 DEF WritebackSlot
    <3>2. PICK s \in {cache.slots[i], NoSlot} : disk' = [disk EXCEPT !.slots[i] = s]
      BY <3>1
    <3>3. disk'.slots = [disk.slots EXCEPT ![i] = s]
      BY <3>2 DEF TypeOK, Image
    <3>4. QED
      BY <3>2, <3>3 DEF ValidSlots, NoSlot, TypeOK, Image
  <2>5. QED
    BY <2>1, <2>2, <2>3, <2>4 DEF Writeback
<1>5. CrashSafe'
  BY <1>3, <1>4 DEF CrashInv, CrashSafe, ResumeSafe
<1>6. ResumeSafe'
  BY <1>1, <1>3 DEF CrashInv, ResumeSafe, ValidSlots
<1>7. QED
  BY <1>1, <1>2, <1>3, <1>5, <1>6 DEF CrashInv

\* CrashInv is kept by a kill, that leaves the cache, and by a power loss, that leaves the disk.
LEMMA CrashInvFaults ==
    ASSUME TypeOK, TypeOK', CrashInv, Interrupt \/ PowerLoss
    PROVE  CrashInv'
<1>1. Drop
  BY DEF Interrupt, PowerLoss
<1>2. CASE Interrupt
  <2>1. disk' = disk /\ cache' \in Unfinished /\ pc # "closed"
    BY <1>2 DEF Interrupt
  <2>2. /\ cache'.name = cache.name /\ cache'.data = cache.data
        /\ \A j \in ValidSlots(cache') :
              j \in ValidSlots(cache) /\ cache'.slots[j] = cache.slots[j]
    <3>1. CASE cache' = cache
      BY <3>1
    <3>2. CASE \E i \in TornSlots : cache' = [cache EXCEPT !.slots[i] = NoSlot]
      <4>1. PICK i \in {0, 1} : cache' = [cache EXCEPT !.slots[i] = NoSlot]
        BY <3>2 DEF TornSlots
      <4>2. /\ cache'.slots = [cache.slots EXCEPT ![i] = NoSlot]
            /\ cache'.name = cache.name /\ cache'.data = cache.data
        BY <4>1 DEF TypeOK, Image
      <4>3. QED
        BY <4>2 DEF ValidSlots, NoSlot, TypeOK, Image
    <3>3. QED
      BY <2>1, <3>1, <3>2 DEF Unfinished
  <2>3. CrashSafe'
    BY <2>1 DEF CrashInv, CrashSafe, ValidSlots, Full
  <2>4. ResumeSafe'
    BY <2>1, <2>2 DEF CrashInv, ResumeSafe, Full
  <2>5. QED
    BY <1>1, <2>1, <2>2, <2>3, <2>4, DropForgets DEF CrashInv
<1>3. CASE PowerLoss
  <2>1. disk' = disk /\ cache' = disk /\ pc' = "closed"
    BY <1>3 DEF PowerLoss, Drop
  <2>2. CrashSafe' /\ ResumeSafe'
    BY <2>1 DEF CrashInv, CrashSafe, ResumeSafe, ValidSlots, Full
  <2>3. QED
    BY <1>1, <2>1, <2>2, DropForgets DEF CrashInv
<1>4. QED
  BY <1>2, <1>3

\* The strengthening holds in every reachable state.
THEOREM CrashInvariant == Spec => []CrashInv
<1>1. Init => CrashInv
  BY CrashInvInit
<1>2. TypeOK /\ TypeOK' /\ CrashInv /\ [Next]_vars => CrashInv'
  <2> SUFFICES ASSUME TypeOK, TypeOK', CrashInv, [Next]_vars
               PROVE  CrashInv'
    OBVIOUS
  <2>1. CASE UNCHANGED vars
    BY <2>1, CrashInvFrame DEF vars
  <2>2. QED
    BY <2>1, CrashInvOpen, CrashInvCommit, CrashInvFinalize, CrashInvWriteback,
       CrashInvFaults DEF Next
<1>3. QED
  BY <1>1, <1>2, TypeCorrect, PTL DEF Spec

\* Whatever crashes, and however the kernel orders its writes, metadata on disk
\* never marks a chunk whose bytes are not on disk.
THEOREM CrashSafety == Spec => []CrashSafe
<1>1. CrashInv => CrashSafe
  BY DEF CrashInv
<1>2. QED
  BY <1>1, CrashInvariant, PTL

\* Nor does the metadata a restarted process resumes from.
THEOREM ResumeSafety == Spec => []ResumeSafe
<1>1. CrashInv => ResumeSafe
  BY DEF CrashInv
<1>2. QED
  BY <1>1, CrashInvariant, PTL

\* The two together, as the runs check them.
THEOREM SlotsAlwaysSafe == Spec => []SlotsSafe
<1>1. CrashSafe /\ ResumeSafe => SlotsSafe
  BY DEF SlotsSafe
<1>2. QED
  BY <1>1, CrashSafety, ResumeSafety, PTL
-----------------------------------------------------------------------------
(* The target is the content.                                              *)

\* There is no target at first.
LEMMA TargetInvInit ==
    ASSUME Init
    PROVE  TargetInv
BY DEF Init, NoFile, TargetInv, TargetIsContent

\* TargetInv is kept by open_or_create.
LEMMA TargetInvOpen ==
    ASSUME TypeOK, TypeOK', CrashInv, TargetInv, OpenOrCreate
    PROVE  TargetInv'
<1> USE DEF TargetInv, TargetIsContent
<1>1. CASE Create
  <2>1. /\ cache'.name = "part" /\ disk.name = "none" /\ pc' = "created"
        /\ UNCHANGED <<disk, matches>>
    BY <1>1 DEF Create, CrashInv, NoFile
  <2>2. QED
    BY <2>1
<1>2. CASE CreateSetLen
  <2>1. /\ cache'.name = cache.name /\ cache.name # "target" /\ pc' = "sized"
        /\ UNCHANGED <<disk, matches>>
    BY <1>2 DEF CreateSetLen, TypeOK, Image
  <2>2. QED
    BY <2>1
<1>3. CASE CreateWriteSlot
  <2>1. /\ cache'.name = cache.name /\ cache.name # "target" /\ pc' = "slotted"
        /\ UNCHANGED <<disk, matches>>
    BY <1>3 DEF CreateWriteSlot, TypeOK, Image
  <2>2. QED
    BY <2>1
<1>4. CASE CreateSync
  <2>1. /\ cache.name # "target" /\ disk' = cache /\ cache' = cache /\ pc' = "open"
    BY <1>4 DEF CreateSync, Sync
  <2>2. QED
    BY <2>1
<1>5. CASE OpenRefused
  BY <1>5 DEF OpenRefused, Full
<1>6. CASE OpenIncompatible
  BY <1>6 DEF OpenIncompatible, Full
<1>7. CASE OpenExisting
  <2>1. cache.name # "target" /\ UNCHANGED <<matches, cache, disk>> /\ pc' = "open"
    BY <1>7 DEF OpenExisting, OpenRefusal
  <2>2. QED
    BY <2>1
<1>8. QED
  BY <1>1, <1>2, <1>3, <1>4, <1>5, <1>6, <1>7 DEF OpenOrCreate

\* TargetInv is kept by writes and commits.
LEMMA TargetInvCommit ==
    ASSUME TypeOK, TypeOK', CrashInv, TargetInv, WriteAndCommit
    PROVE  TargetInv'
<1> USE DEF TargetInv, TargetIsContent
<1>1. cache.name # "target" /\ disk.name # "target"
  BY DEF WriteAndCommit, WriteFragment, RestartChunk, CommitIgnored, CommitSyncData,
         CommitWriteSlot, CommitSyncAll
<1>2. cache'.name = cache.name
  <2>1. ASSUME NEW c \in Chunks, WriteFragment(c) PROVE cache'.name = cache.name
    BY <2>1 DEF WriteFragment, TypeOK, Image
  <2>2. CASE CommitWriteSlot
    <3> DEFINE next == [gen |-> meta.gen + 1, done |-> meta.done \cup chunk]
    <3>1. cache' = [cache EXCEPT !.slots[next.gen % 2] = SlotFor(next)]
      BY <2>2 DEF CommitWriteSlot
    <3>2. QED
      BY <3>1 DEF TypeOK, Image
  <2>3. QED
    BY <2>1, <2>2 DEF WriteAndCommit, RestartChunk, CommitIgnored, CommitSyncData,
                      CommitSyncAll, Sync
<1>3. disk' = disk \/ disk' = cache
  BY DEF WriteAndCommit, WriteFragment, RestartChunk, CommitIgnored, CommitSyncData,
         CommitWriteSlot, CommitSyncAll, Sync
<1>4. pc' \in {"open", "synced", "marked"}
  BY DEF WriteAndCommit, WriteFragment, RestartChunk, CommitIgnored, CommitSyncData,
         CommitWriteSlot, CommitSyncAll
<1>5. QED
  BY <1>1, <1>2, <1>3, <1>4

\* TargetInv is kept by finalize, that learns something at each of its steps.
LEMMA TargetInvFinalize ==
    ASSUME TypeOK, TypeOK', CrashInv, TargetInv, Finalize
    PROVE  TargetInv'
<1> USE DEF TargetInv, TargetIsContent
<1>1. CASE FinalizeIncomplete
  BY <1>1 DEF FinalizeIncomplete, Drop, Full
<1>2. CASE FinalizeHashMismatch
  BY <1>2 DEF FinalizeHashMismatch, Drop, Full
<1>3. CASE FinalizeVerify
  BY <1>3 DEF FinalizeVerify, Full
<1>4. CASE FinalizeSetLen
  <2>1. /\ cache'.name = cache.name /\ cache'.len = "content" /\ cache.name # "target"
        /\ UNCHANGED <<disk, matches, meta>> /\ pc' = "cut" /\ pc = "verified"
    BY <1>4 DEF FinalizeSetLen, TypeOK, Image
  <2>2. QED
    BY <2>1
<1>5. CASE FinalizeSync
  <2>1. /\ disk' = cache /\ cache' = cache /\ cache.name # "target"
        /\ UNCHANGED <<matches, meta>> /\ pc' = "flushed" /\ pc = "cut"
    BY <1>5 DEF FinalizeSync, Sync
  <2>2. QED
    BY <2>1
<1>6. CASE FinalizeRename
  <2>1. /\ cache'.name = "target" /\ cache'.len = cache.len
        /\ UNCHANGED <<disk, matches, meta>> /\ pc' = "renamed" /\ pc = "flushed"
    BY <1>6 DEF FinalizeRename, TypeOK, Image
  <2>2. Full(disk', Chunks)
    BY <2>1 DEF CrashInv, Full
  <2>3. QED
    BY <2>1, <2>2
<1>7. CASE FinalizeSyncDir
  <2>1. /\ disk' \in {disk, cache} /\ UNCHANGED <<cache, matches>> /\ pc' = "closed"
        /\ cache.len = "content" /\ disk.len = "content" /\ matches
    BY <1>7 DEF FinalizeSyncDir, Drop
  <2>2. Full(disk, Chunks)
    BY <1>7 DEF CrashInv, FinalizeSyncDir
  <2>3. Full(disk', Chunks)
    BY <2>1, <2>2, FullGrows DEF CrashInv, TypeOK
  <2>4. QED
    BY <2>1, <2>3
<1>8. QED
  BY <1>1, <1>2, <1>3, <1>4, <1>5, <1>6, <1>7 DEF Finalize

\* TargetInv is kept by writeback, that brings the disk closer to the cache.
LEMMA TargetInvWriteback ==
    ASSUME TypeOK, TypeOK', CrashInv, TargetInv, Writeback
    PROVE  TargetInv'
<1> USE DEF TargetInv, TargetIsContent
<1>1. UNCHANGED <<matches, cache, pc, meta>>
  BY DEF Writeback
<1>2. /\ disk.data \subseteq disk'.data
      /\ disk'.name \in {disk.name, cache.name}
      /\ disk'.len \in {disk.len, cache.len}
  <2>1. CASE WritebackName
    BY <2>1 DEF WritebackName, TypeOK, Image
  <2>2. CASE WritebackLen
    BY <2>2 DEF WritebackLen, TypeOK, Image
  <2>3. CASE WritebackData
    <3>1. PICK piece \in cache.data \ disk.data :
              disk' = [disk EXCEPT !.data = @ \cup {piece}]
      BY <2>3 DEF WritebackData
    <3>2. QED
      BY <3>1 DEF TypeOK, Image
  <2>4. CASE WritebackSlot
    <3>1. PICK i \in {0, 1} : \E s \in {cache.slots[i], NoSlot} :
              disk' = [disk EXCEPT !.slots[i] = s]
      BY <2>4 DEF WritebackSlot
    <3>2. QED
      BY <3>1 DEF TypeOK, Image
  <2>5. QED
    BY <2>1, <2>2, <2>3, <2>4 DEF Writeback
<1>3. Full(disk, Chunks) => Full(disk', Chunks)
  BY <1>2, FullGrows DEF TypeOK
<1>4. cache.name = "target" => cache.len = "content"
  OBVIOUS
<1>5. QED
  BY <1>1, <1>2, <1>3, <1>4

\* TargetInv is kept by kills and power losses.
LEMMA TargetInvFaults ==
    ASSUME TypeOK, TypeOK', CrashInv, TargetInv, Interrupt \/ PowerLoss
    PROVE  TargetInv'
<1> USE DEF TargetInv, TargetIsContent
<1>1. CASE Interrupt
  <2>1. UNCHANGED <<disk, matches>> /\ cache' \in Unfinished /\ pc' = "closed"
    BY <1>1 DEF Interrupt, Drop
  <2>2. cache'.name = cache.name /\ cache'.len = cache.len
    BY <2>1 DEF Unfinished, TypeOK, Image
  <2>3. QED
    BY <2>1, <2>2 DEF Full
<1>2. CASE PowerLoss
  <2>1. UNCHANGED <<disk, matches>> /\ cache' = disk /\ pc' = "closed"
    BY <1>2 DEF PowerLoss, Drop
  <2>2. QED
    BY <2>1 DEF Full
<1>3. QED
  BY <1>1, <1>2

\* Finalize never gets past verification with a wrong hash or a missing chunk,
\* whatever interrupts it.
THEOREM TargetInvariant == Spec => []TargetInv
<1>1. Init => TargetInv
  BY TargetInvInit
<1>2. TypeOK /\ TypeOK' /\ CrashInv /\ TargetInv /\ [Next]_vars => TargetInv'
  <2> SUFFICES ASSUME TypeOK, TypeOK', CrashInv, TargetInv, [Next]_vars
               PROVE  TargetInv'
    OBVIOUS
  <2>1. CASE UNCHANGED vars
    BY <2>1 DEF vars, TargetInv, TargetIsContent, Full
  <2>2. QED
    BY <2>1, TargetInvOpen, TargetInvCommit, TargetInvFinalize, TargetInvWriteback,
       TargetInvFaults DEF Next
<1>3. QED
  BY <1>1, <1>2, TypeCorrect, CrashInvariant, PTL DEF Spec

\* The target, in the cache and after any power loss, is the whole content with
\* the configured hash: commit, cut, sync and rename come in the right order.
THEOREM TargetAlwaysContent == Spec => []TargetIsContent
<1>1. TargetInv => TargetIsContent
  BY DEF TargetInv
<1>2. QED
  BY <1>1, TargetInvariant, PTL
-----------------------------------------------------------------------------
(* What the disk holds never shrinks and grows a chunk at a time.          *)

\* Of slots in order, the best one marks all that any of them does.
LEMMA BestMarksAll ==
    ASSUME NEW image \in Image, ValidSlots(image) # {}, SlotsInOrder(image)
    PROVE  Done(image) = BestMeta(image).done
<1> DEFINE b == BestSlot(image)
<1>1. b \in ValidSlots(image) /\ b \in {0, 1}
  BY BestSlotValid DEF ValidSlots
<1>2. \A j \in ValidSlots(image) : image.slots[j].done \subseteq image.slots[b].done
  BY <1>1, BestSlotValid DEF SlotsInOrder
<1>3. image.slots[b].done \subseteq Chunks
  BY <1>1 DEF Image, Slot
<1>4. Done(image) = image.slots[b].done
  BY <1>1, <1>2, <1>3 DEF Done
<1>5. QED
  BY <1>4 DEF BestMeta

\* Without a slot nothing is held.
LEMMA NoFileHolds ==
    ASSUME NEW image \in Image, image.slots = NoFile.slots
    PROVE  ValidSlots(image) = {} /\ Done(image) = {}
BY DEF ValidSlots, Done, NoFile, NoSlot

\* Images alike in length and slots hold the same chunks.
LEMMA SameSlots ==
    ASSUME NEW a \in Image, NEW b \in Image, a.len = b.len, a.slots = b.slots
    PROVE  /\ ValidSlots(a) = ValidSlots(b)
           /\ Done(a) = Done(b)
           /\ Held(a) = Held(b)
           /\ SlotsInOrder(a) <=> SlotsInOrder(b)
<1>1. ValidSlots(a) = ValidSlots(b)
  BY DEF ValidSlots
<1>2. Done(a) = Done(b)
  BY <1>1 DEF Done
<1>3. QED
  BY <1>1, <1>2 DEF Held, SlotsInOrder

\* Metadata that is an image's newest slot marks what the image holds.
LEMMA NewestHolds ==
    ASSUME NEW image \in Image, NEW m \in [gen : Generations, done : SUBSET Chunks],
           image.len = "expected", image.slots[m.gen % 2] = SlotFor(m),
           \A i \in ValidSlots(image) : image.slots[i].done \subseteq m.done
    PROVE  /\ m.gen % 2 \in ValidSlots(image)
           /\ image.slots[m.gen % 2].gen = m.gen
           /\ image.slots[m.gen % 2].done = m.done
           /\ Held(image) = m.done
<1>1. m.gen % 2 \in {0, 1} /\ m.done \subseteq Chunks
  BY DEF Generations
<1>2. /\ m.gen % 2 \in ValidSlots(image)
      /\ image.slots[m.gen % 2].gen = m.gen
      /\ image.slots[m.gen % 2].done = m.done
  BY <1>1 DEF ValidSlots, SlotFor
<1>3. Done(image) = m.done
  BY <1>1, <1>2 DEF Done
<1>4. QED
  BY <1>2, <1>3 DEF Held

\* A process that holds the newest metadata believes what its cache holds.
LEMMA BelievesCache ==
    ASSUME TypeOK, HoldsNewest
    PROVE  /\ meta.gen % 2 \in ValidSlots(cache)
           /\ cache.slots[meta.gen % 2].gen = meta.gen
           /\ cache.slots[meta.gen % 2].done = meta.done
           /\ Held(cache) = meta.done
BY NewestHolds DEF TypeOK, HoldsNewest

\* Nothing of what the invariant relates has changed, but for a closed file.
LEMMA StoreInvFrame ==
    ASSUME TypeOK, TypeOK', StoreInv,
           cache'.len = cache.len, cache'.slots = cache.slots,
           disk'.len = disk.len, disk'.slots = disk.slots,
           UNCHANGED <<acked, created>>,
           \/ pc' \in {"closed", "cut", "flushed", "renamed"}
           \/ UNCHANGED <<pc, meta, chunk>> /\ (pc = "synced" => UNCHANGED <<cache, disk>>)
           \/ pc = "open" /\ pc' = "verified" /\ meta' = meta
    PROVE  StoreInv'
<1>1. /\ ValidSlots(cache') = ValidSlots(cache) /\ Held(cache') = Held(cache)
      /\ ValidSlots(disk') = ValidSlots(disk) /\ Held(disk') = Held(disk)
      /\ SlotsInOrder(cache') /\ SlotsInOrder(disk')
  BY SameSlots DEF StoreInv, TypeOK
<1>2. OneChunkAhead'
  BY <1>1 DEF StoreInv, OneChunkAhead
<1>3. OneSlotDirty <=> OneSlotDirty'
  BY <1>1 DEF OneSlotDirty
<1>4. meta' = meta /\ HoldsNewest => HoldsNewest'
  BY <1>1 DEF HoldsNewest
<1>5. QED
  BY <1>1, <1>2, <1>3, <1>4 DEF StoreInv

\* A sync leaves the disk holding what the cache held.
LEMMA StoreInvSync ==
    ASSUME TypeOK, TypeOK', StoreInv, Sync
    PROVE  /\ disk' = cache /\ cache' = cache
           /\ SlotsInOrder(cache') /\ SlotsInOrder(disk')
           /\ OneSlotDirty' /\ OneChunkAhead'
           /\ Held(disk') = Held(cache)
           /\ Held(disk) \subseteq Held(cache)
<1>1. disk' = cache /\ cache' = cache
  BY DEF Sync
<1>2. Held(disk) \subseteq Held(cache)
  BY DEF StoreInv, OneChunkAhead
<1>3. OneSlotDirty' /\ OneChunkAhead'
  BY <1>1 DEF OneSlotDirty, OneChunkAhead
<1>4. QED
  BY <1>1, <1>2, <1>3 DEF StoreInv

\* The kernel never takes a chunk off the disk: what it writes back leaves there
\* what was there or brings it up to the cache.
LEMMA WritebackHolds ==
    ASSUME TypeOK, TypeOK', StoreInv, Writeback
    PROVE  /\ Held(disk') = Held(disk) \/ Held(disk') = Held(cache)
           /\ SlotsInOrder(disk')
           /\ cache.len = "expected" => OneSlotDirty'
           /\ disk'.len \in {disk.len, cache.len} /\ disk'.name \in {disk.name, cache.name}
           /\ disk'.len = "expected" /\ ValidSlots(disk) # {} => ValidSlots(disk') # {}
<1>1. cache' = cache
  BY DEF Writeback
<1>2. CASE WritebackName \/ WritebackData
  <2>1. /\ disk'.len = disk.len /\ disk'.slots = disk.slots
        /\ disk'.name \in {disk.name, cache.name}
    BY <1>2 DEF WritebackName, WritebackData, TypeOK, Image
  <2>2. /\ Held(disk') = Held(disk) /\ ValidSlots(disk') = ValidSlots(disk)
        /\ SlotsInOrder(disk')
    BY <2>1, SameSlots DEF StoreInv, TypeOK
  <2>3. OneSlotDirty => OneSlotDirty'
    BY <1>1, <2>1, <2>2 DEF OneSlotDirty
  <2>4. QED
    BY <2>1, <2>2, <2>3 DEF StoreInv
<1>3. CASE WritebackLen
  <2>1. /\ disk.len # cache.len /\ disk'.len = cache.len /\ disk'.slots = NoFile.slots
        /\ disk'.name = disk.name
    BY <1>3 DEF WritebackLen, TypeOK, Image
  <2>2. ValidSlots(disk') = {} /\ Done(disk') = {}
    BY <2>1, NoFileHolds DEF TypeOK
  <2>3. SlotsInOrder(disk')
    BY <2>1, <2>2 DEF SlotsInOrder
  <2>4. CASE cache.len = "content"
    BY <2>1, <2>3, <2>4 DEF Held
  <2>5. CASE cache.len = "expected"
    <3>1. disk.len = "zero" /\ disk.slots = NoFile.slots
      BY <2>1, <2>5 DEF StoreInv, SlotsInOrder, TypeOK, Image
    <3>2. ValidSlots(disk) = {} /\ Done(disk) = {}
      BY <3>1, NoFileHolds DEF TypeOK
    <3>3. Held(disk') = Held(disk)
      BY <2>1, <2>2, <2>5, <3>1, <3>2 DEF Held
    <3>4. OneSlotDirty'
      BY <1>1, <2>1, <2>2, <2>5, <3>1, <3>2 DEF StoreInv, OneSlotDirty
    <3>5. QED
      BY <2>1, <2>3, <3>2, <3>3, <3>4
  <2>6. cache.len # "zero"
    BY <2>1 DEF StoreInv
  <2>7. QED
    BY <2>4, <2>5, <2>6 DEF TypeOK, Image
<1>4. CASE WritebackSlot
  <2>1. PICK i \in {0, 1} : /\ disk.slots[i] # cache.slots[i]
                            /\ \E s \in {cache.slots[i], NoSlot} :
                                   disk' = [disk EXCEPT !.slots[i] = s]
    BY <1>4 DEF WritebackSlot
  <2>2. PICK s \in {cache.slots[i], NoSlot} : disk' = [disk EXCEPT !.slots[i] = s]
    BY <2>1
  <2>3. disk.len = "expected" /\ cache.len = "expected"
    BY <1>4 DEF WritebackSlot
  <2>4. /\ disk'.slots = [disk.slots EXCEPT ![i] = s]
        /\ disk'.len = disk.len /\ disk'.name = disk.name
    BY <2>2 DEF TypeOK, Image
  <2>5. /\ disk.slots[1 - i] = cache.slots[1 - i]
        /\ i \in ValidSlots(disk) => /\ 1 - i \in ValidSlots(disk)
                                     /\ disk.slots[i].done \subseteq disk.slots[1 - i].done
    BY <2>1, <2>3 DEF StoreInv, OneSlotDirty
  <2>6. /\ disk'.slots[i] = s /\ disk'.slots[1 - i] = cache.slots[1 - i]
        /\ disk'.slots[1 - i] = disk.slots[1 - i]
        /\ {0, 1} = {i, 1 - i} /\ 1 - (1 - i) = i /\ 1 - i \in {0, 1}
    BY <2>4, <2>5 DEF TypeOK, Image
  <2>7. ASSUME s = cache.slots[i]
        PROVE  /\ Held(disk') = Held(cache) /\ SlotsInOrder(disk') /\ OneSlotDirty'
               /\ ValidSlots(disk) # {} => ValidSlots(disk') # {}
    <3>1. disk'.slots = cache.slots
      BY <2>4, <2>5, <2>7 DEF TypeOK, Image
    <3>2. QED
      BY <1>1, <2>3, <2>4, <2>5, <2>6, <3>1, SameSlots
         DEF StoreInv, OneSlotDirty, TypeOK, ValidSlots
  <2>8. ASSUME s = NoSlot
        PROVE  /\ Held(disk') = Held(disk) /\ SlotsInOrder(disk') /\ OneSlotDirty'
               /\ ValidSlots(disk) # {} => ValidSlots(disk') # {}
    <3>1. /\ ValidSlots(disk') = ValidSlots(disk) \ {i}
          /\ ValidSlots(disk') \subseteq {1 - i}
      BY <2>6, <2>8 DEF ValidSlots, NoSlot
    <3>2. Done(disk') = Done(disk)
      BY <2>5, <2>6, <3>1 DEF Done, ValidSlots
    <3>3. SlotsInOrder(disk')
      BY <2>3, <2>4, <2>6, <3>1 DEF StoreInv, SlotsInOrder
    <3>4. OneSlotDirty'
      BY <1>1, <2>6, <3>1 DEF OneSlotDirty
    <3>5. ValidSlots(disk) # {} => ValidSlots(disk') # {}
      BY <2>5, <2>6, <3>1 DEF ValidSlots
    <3>6. QED
      BY <2>3, <2>4, <3>2, <3>3, <3>4, <3>5 DEF Held
  <2>9. QED
    BY <2>2, <2>4, <2>7, <2>8
<1>5. QED
  BY <1>2, <1>3, <1>4 DEF Writeback

\* Nothing is acknowledged at first.
LEMMA StoreInvInit ==
    ASSUME Init
    PROVE  StoreInv
<1>1. /\ cache = NoFile /\ disk = NoFile /\ pc = "closed" /\ ~created /\ acked = {}
      /\ NoFile.len = "zero"
  BY DEF Init, NoFile
<1>2. ValidSlots(NoFile) = {}
  BY NoFileHolds, NoFileType
<1>3. SlotsInOrder(NoFile)
  BY <1>2 DEF SlotsInOrder
<1>4. OneChunkAhead
  BY <1>1 DEF OneChunkAhead
<1>5. QED
  BY <1>1, <1>3, <1>4 DEF StoreInv

\* StoreInv is kept by open_or_create, that writes the first slot.
LEMMA StoreInvOpen ==
    ASSUME TypeOK, TypeOK', CrashInv, StoreInv, OpenOrCreate
    PROVE  StoreInv'
<1>1. CASE Create
  <2>1. cache = NoFile /\ disk = NoFile
    BY <1>1 DEF Create, CrashInv
  <2>2. /\ cache'.len = "zero" /\ cache'.slots = NoFile.slots /\ pc' = "created"
        /\ UNCHANGED <<disk, acked, created>>
    BY <1>1 DEF Create, NoFile
  <2>3. disk'.len = "zero" /\ disk'.slots = NoFile.slots
    BY <2>1, <2>2 DEF NoFile
  <2>4. /\ ValidSlots(cache') = {} /\ Done(cache') = {}
        /\ ValidSlots(disk') = {} /\ Done(disk') = {}
    BY <2>2, <2>3, NoFileHolds DEF TypeOK
  <2>5. SlotsInOrder(cache') /\ SlotsInOrder(disk')
    BY <2>2, <2>3, <2>4 DEF SlotsInOrder
  <2>6. OneChunkAhead'
    BY <2>2, <2>3, <2>4 DEF OneChunkAhead, Held
  <2>7. QED
    BY <2>1, <2>2, <2>3, <2>5, <2>6 DEF StoreInv
<1>2. CASE CreateSetLen
  <2>1. /\ pc' = "sized" /\ UNCHANGED <<disk, acked, created>>
        /\ cache'.len = "expected" /\ cache'.slots = NoFile.slots
        /\ disk'.len = "zero" /\ disk'.slots = NoFile.slots
    BY <1>2 DEF CreateSetLen, StoreInv, TypeOK, Image
  <2>2. /\ ValidSlots(cache') = {} /\ Done(cache') = {}
        /\ ValidSlots(disk') = {} /\ Done(disk') = {}
    BY <2>1, NoFileHolds DEF TypeOK
  <2>3. SlotsInOrder(cache') /\ SlotsInOrder(disk')
    BY <2>1, <2>2 DEF SlotsInOrder
  <2>4. OneChunkAhead' /\ OneSlotDirty'
    BY <2>1, <2>2 DEF OneChunkAhead, OneSlotDirty, Held
  <2>5. QED
    BY <2>1, <2>3, <2>4 DEF StoreInv
<1>3. CASE CreateWriteSlot
  <2>1. /\ pc' = "slotted" /\ UNCHANGED <<disk, acked, created>>
        /\ cache'.len = "expected" /\ disk.len # "content"
        /\ cache'.slots = [NoFile.slots EXCEPT ![0] = SlotFor(NoMeta)]
        /\ disk'.slots = NoFile.slots
    BY <1>3 DEF CreateWriteSlot, StoreInv, TypeOK, Image
  <2>2. ValidSlots(disk') = {} /\ Done(disk') = {}
    BY <2>1, NoFileHolds DEF TypeOK
  <2>3. /\ cache'.slots[0].gen = 0 /\ cache'.slots[0].done = {}
        /\ cache'.slots[1] = NoSlot /\ disk'.slots[1] = NoSlot
    BY <2>1 DEF NoFile, SlotFor, NoMeta
  <2>4. ValidSlots(cache') \subseteq {0} /\ Done(cache') = {}
    BY <2>3 DEF ValidSlots, Done, NoSlot
  <2>5. SlotsInOrder(cache') /\ SlotsInOrder(disk')
    BY <2>1, <2>2, <2>3, <2>4 DEF SlotsInOrder, StoreInv
  <2>6. OneChunkAhead' /\ OneSlotDirty'
    BY <2>1, <2>2, <2>3, <2>4 DEF OneChunkAhead, OneSlotDirty, Held
  <2>7. QED
    BY <2>1, <2>5, <2>6 DEF StoreInv
<1>4. CASE CreateSync
  <2>1. /\ Sync /\ pc' = "open" /\ meta' = NoMeta /\ created' /\ acked' = acked
        /\ cache.len = "expected"
        /\ cache.slots = [NoFile.slots EXCEPT ![0] = SlotFor(NoMeta)]
    BY <1>4 DEF CreateSync, StoreInv
  <2>2. cache.slots[0] = SlotFor(NoMeta) /\ cache.slots[1] = NoSlot
    BY <2>1 DEF NoFile
  <2>3. ValidSlots(cache) = {0} /\ cache.slots[0].gen = 0 /\ cache.slots[0].done = {}
    BY <2>2 DEF ValidSlots, NoSlot, SlotFor, NoMeta
  <2>4. disk' = cache /\ cache' = cache
    BY <2>1 DEF Sync
  <2>5. HoldsNewest'
    <3>1. meta'.gen = 0 /\ meta'.done = {} /\ meta'.gen % 2 = 0
      BY <2>1 DEF NoMeta
    <3>2. cache'.slots[meta'.gen % 2] = SlotFor(meta')
      BY <2>1, <2>2, <2>4, <3>1
    <3>3. ValidSlots(cache') = {0}
      BY <2>3, <2>4
    <3>4. cache'.len = "expected" /\ cache'.slots[0].gen = 0 /\ cache'.slots[0].done = {}
      BY <2>1, <2>3, <2>4
    <3>5. \A i \in ValidSlots(cache') : /\ cache'.slots[i].gen <= meta'.gen
                                        /\ cache'.slots[i].done \subseteq meta'.done
      BY <3>1, <3>3, <3>4
    <3>6. QED
      BY <3>2, <3>4, <3>5 DEF HoldsNewest
  <2>6. ValidSlots(disk') # {}
    BY <2>3, <2>4
  <2>7. QED
    BY <2>1, <2>4, <2>5, <2>6, StoreInvSync DEF StoreInv
<1>5. CASE OpenRefused
  BY <1>5, StoreInvFrame DEF OpenRefused
<1>6. CASE OpenIncompatible
  BY <1>6, StoreInvFrame DEF OpenIncompatible
<1>7. CASE OpenExisting
  <2>1. /\ UNCHANGED <<cache, disk, acked, created>> /\ pc' = "open"
        /\ meta' = BestMeta(cache) /\ ValidSlots(cache) # {} /\ cache.len = "expected"
    BY <1>7 DEF OpenExisting, OpenRefusal
  <2> DEFINE b == BestSlot(cache)
  <2>2. b \in ValidSlots(cache) /\ b \in {0, 1}
    BY <2>1, BestSlotValid DEF TypeOK, ValidSlots
  <2>3. /\ meta'.gen = cache.slots[b].gen /\ meta'.done = cache.slots[b].done
        /\ meta'.gen % 2 = b
    BY <2>1, <2>2 DEF BestMeta, StoreInv, SlotsInOrder
  <2>4. cache.slots[b] = SlotFor(meta')
    BY <2>2, <2>3 DEF SlotFor, ValidSlots, TypeOK, Image, Slot
  <2>5. \A j \in ValidSlots(cache) : cache.slots[j].gen <= meta'.gen
    BY <2>1, <2>3, BestSlotValid DEF TypeOK
  <2>6. \A j \in ValidSlots(cache) : cache.slots[j].done \subseteq meta'.done
    BY <2>2, <2>3, <2>5 DEF StoreInv, SlotsInOrder
  <2>7. HoldsNewest'
    BY <2>1, <2>3, <2>4, <2>5, <2>6 DEF HoldsNewest
  <2>8. OneChunkAhead' /\ OneSlotDirty'
    BY <2>1 DEF StoreInv, OneChunkAhead, OneSlotDirty
  <2>9. QED
    BY <2>1, <2>7, <2>8 DEF StoreInv
<1>8. QED
  BY <1>1, <1>2, <1>3, <1>4, <1>5, <1>6, <1>7 DEF OpenOrCreate

\* StoreInv is kept by commits, each to the slot of the other parity.
LEMMA StoreInvCommit ==
    ASSUME TypeOK, TypeOK', StoreInv, WriteAndCommit
    PROVE  StoreInv'
<1>1. ASSUME NEW c \in Chunks, WriteFragment(c) PROVE StoreInv'
  <2>1. /\ cache'.len = cache.len /\ cache'.slots = cache.slots
        /\ UNCHANGED <<disk, pc, meta, chunk, acked, created>> /\ pc = "open"
    BY <1>1 DEF WriteFragment, TypeOK, Image
  <2>2. QED
    BY <2>1, StoreInvFrame
<1>2. ASSUME NEW c \in Chunks, RestartChunk(c) PROVE StoreInv'
  BY <1>2, StoreInvFrame DEF RestartChunk
<1>3. ASSUME NEW c \in Chunks, CommitIgnored(c) PROVE StoreInv'
  BY <1>3, StoreInvFrame DEF CommitIgnored
<1>4. ASSUME NEW c \in Chunks, CommitSyncData(c) PROVE StoreInv'
  <2>1. /\ Sync /\ pc' = "synced" /\ chunk' = {c} /\ UNCHANGED <<meta, acked, created>>
        /\ disk' = cache /\ cache' = cache /\ HoldsNewest
    BY <1>4 DEF CommitSyncData, Sync, StoreInv
  <2>2. HoldsNewest'
    BY <2>1 DEF HoldsNewest
  <2>3. ValidSlots(disk') # {} /\ cache.len = "expected"
    BY <2>1, BelievesCache DEF HoldsNewest
  <2>4. QED
    BY <2>1, <2>2, <2>3, StoreInvSync DEF StoreInv
<1>5. CASE CommitWriteSlot
  <2> DEFINE next == [gen |-> meta.gen + 1, done |-> meta.done \cup chunk]
             s == next.gen % 2
             b == meta.gen % 2
  <2>0. meta.gen % 2 = b
    OBVIOUS
  <2>1. /\ s \in {0, 1} /\ b \in {0, 1} /\ s = 1 - b /\ b = 1 - s /\ s # b
        /\ next.gen = meta.gen + 1 /\ meta.gen \in Nat
        /\ next.done = meta.done \cup chunk /\ next.done \subseteq Chunks
    BY DEF TypeOK, Generations
  <2>2. /\ cache' = [cache EXCEPT !.slots[s] = SlotFor(next)] /\ meta' = next
        /\ UNCHANGED <<disk, chunk, acked, created>> /\ pc' = "marked" /\ pc = "synced"
        /\ meta'.gen = next.gen /\ meta'.gen % 2 = s /\ meta'.done = next.done
        /\ next \in [gen : Generations, done : SUBSET Chunks]
    BY <1>5 DEF CommitWriteSlot, TypeOK
  <2>3. disk = cache /\ HoldsNewest /\ \E c \in Chunks : chunk = {c}
    BY <2>2 DEF StoreInv
  <2> HIDE DEF next, s, b
  <2>4. /\ b \in ValidSlots(cache) /\ cache.slots[b].gen = meta.gen
        /\ cache.slots[b].done = meta.done /\ Held(cache) = meta.done
        /\ cache.len = "expected"
    BY <2>0, <2>3, BelievesCache DEF HoldsNewest
  <2>5. /\ cache'.len = "expected" /\ cache'.slots[b] = cache.slots[b]
        /\ cache'.slots[s] = SlotFor(next)
        /\ cache'.slots[s].gen = next.gen /\ cache'.slots[s].done = next.done
        /\ cache'.slots[s].valid
    BY <2>1, <2>2, <2>4 DEF TypeOK, Image, SlotFor
  <2>6. ValidSlots(cache') = {s, b}
    BY <2>1, <2>4, <2>5 DEF ValidSlots
  <2>7. SlotsInOrder(cache') /\ SlotsInOrder(disk')
    <3>1. cache'.slots[s].gen % 2 = s /\ cache'.slots[b].gen % 2 = b
      BY <2>0, <2>2, <2>4, <2>5
    <3>2. /\ ~(cache'.slots[s].gen <= cache'.slots[b].gen)
          /\ cache'.slots[b].done \subseteq cache'.slots[s].done
      BY <2>1, <2>4, <2>5
    <3>3. SlotsInOrder(cache')
      BY <2>5, <2>6, <3>1, <3>2 DEF SlotsInOrder
    <3>4. SlotsInOrder(disk')
      BY <2>2 DEF StoreInv
    <3>5. QED
      BY <3>3, <3>4
  <2>8. HoldsNewest'
    <3>1. cache'.slots[meta'.gen % 2] = SlotFor(meta')
      BY <2>2, <2>5
    <3>2. /\ cache'.slots[s].gen <= meta'.gen /\ cache'.slots[s].done \subseteq meta'.done
          /\ cache'.slots[b].gen <= meta'.gen /\ cache'.slots[b].done \subseteq meta'.done
      BY <2>1, <2>2, <2>4, <2>5
    <3>3. QED
      BY <2>5, <2>6, <3>1, <3>2 DEF HoldsNewest
  <2>9. Held(cache') = Held(disk') \cup chunk /\ meta'.done = Held(disk') \cup chunk
    <3>1. Held(cache') = meta'.done
      <4>1. cache' \in Image /\ meta' \in [gen : Generations, done : SUBSET Chunks]
        BY DEF TypeOK
      <4>2. /\ cache'.slots[meta'.gen % 2] = SlotFor(meta')
            /\ \A i \in ValidSlots(cache') : cache'.slots[i].done \subseteq meta'.done
        BY <2>8 DEF HoldsNewest
      <4>3. QED
        BY <2>5, <4>1, <4>2, NewestHolds
    <3>2. QED
      BY <3>1, <2>1, <2>2, <2>3, <2>4
  <2>10. OneChunkAhead'
    BY <2>3, <2>9, <2>2 DEF OneChunkAhead
  <2>11. OneSlotDirty'
    <3>1. disk'.slots[b] = cache'.slots[b] /\ b \in ValidSlots(disk')
      BY <2>2, <2>3, <2>4, <2>5
    <3>2. s \in ValidSlots(disk') => disk'.slots[s].done \subseteq disk'.slots[b].done
      BY <2>2, <2>3, <2>4 DEF HoldsNewest
    <3>3. QED
      BY <2>1, <3>1, <3>2 DEF OneSlotDirty
  <2>12. disk'.len = "expected"
    BY <2>2, <2>3, <2>4
  <2>13. QED
    BY <2>2, <2>3, <2>5, <2>7, <2>8, <2>9, <2>10, <2>11, <2>12 DEF StoreInv
<1>6. CASE CommitSyncAll
  <2>1. /\ Sync /\ pc' = "open" /\ UNCHANGED <<meta, created>>
        /\ acked' = acked \cup chunk
        /\ disk' = cache /\ cache' = cache /\ HoldsNewest
        /\ meta.done = Held(disk) \cup chunk
    BY <1>6 DEF CommitSyncAll, Sync, StoreInv
  <2>2. HoldsNewest'
    BY <2>1 DEF HoldsNewest
  <2>3. ValidSlots(disk') # {} /\ cache.len = "expected" /\ Held(cache) = meta.done
    BY <2>1, BelievesCache DEF HoldsNewest
  <2>4. acked' \subseteq Held(disk')
    BY <2>1, <2>3 DEF StoreInv
  <2>5. QED
    BY <2>1, <2>2, <2>3, <2>4, StoreInvSync DEF StoreInv
<1>7. QED
  BY <1>1, <1>2, <1>3, <1>4, <1>5, <1>6 DEF WriteAndCommit

\* StoreInv is kept by finalize, where every chunk is on disk.
LEMMA StoreInvFinalize ==
    ASSUME TypeOK, TypeOK', TargetInv, StoreInv, Finalize
    PROVE  StoreInv'
<1>1. CASE FinalizeIncomplete
  BY <1>1, StoreInvFrame DEF FinalizeIncomplete, Drop
<1>2. CASE FinalizeHashMismatch
  BY <1>2, StoreInvFrame DEF FinalizeHashMismatch, Drop
<1>3. CASE FinalizeVerify
  BY <1>3, StoreInvFrame DEF FinalizeVerify
<1>4. CASE FinalizeSetLen
  <2>1. /\ cache'.len = "content" /\ cache'.slots = NoFile.slots
        /\ UNCHANGED <<disk, acked, created>> /\ pc' = "cut" /\ pc = "verified"
    BY <1>4 DEF FinalizeSetLen, TypeOK, Image
  <2>2. ValidSlots(cache') = {}
    BY <2>1, NoFileHolds DEF TypeOK
  <2>3. SlotsInOrder(cache') /\ SlotsInOrder(disk')
    BY <2>1, <2>2 DEF SlotsInOrder, StoreInv
  <2>4. Held(cache') = Held(cache)
    <3>1. Held(cache) = meta.done /\ meta.done = Chunks
      BY <2>1, BelievesCache DEF StoreInv, TargetInv
    <3>2. QED
      BY <3>1, <2>1 DEF Held
  <2>5. OneChunkAhead'
    BY <2>1, <2>4 DEF StoreInv, OneChunkAhead
  <2>6. QED
    BY <2>1, <2>3, <2>5 DEF StoreInv
<1>5. CASE FinalizeSync
  <2>1. /\ Sync /\ pc' = "flushed" /\ UNCHANGED <<acked, created>>
        /\ disk' = cache /\ cache' = cache /\ cache.len = "content"
    BY <1>5 DEF FinalizeSync, Sync, TargetInv
  <2>2. QED
    BY <2>1, StoreInvSync DEF StoreInv
<1>6. CASE FinalizeRename
  <2>1. /\ cache'.len = cache.len /\ cache'.slots = cache.slots
        /\ UNCHANGED <<disk, acked, created>> /\ pc' = "renamed"
    BY <1>6 DEF FinalizeRename, TypeOK, Image
  <2>2. QED
    BY <2>1, StoreInvFrame
<1>7. CASE FinalizeSyncDir
  <2>1. /\ disk' \in {disk, cache} /\ UNCHANGED <<cache, acked, created>> /\ pc' = "closed"
        /\ cache.len = "content"
    BY <1>7 DEF FinalizeSyncDir, Drop, TargetInv
  <2>2. CASE disk' = disk
    BY <2>1, <2>2, StoreInvFrame
  <2>3. CASE disk' = cache
    <3>1. Sync
      BY <2>1, <2>3 DEF Sync
    <3>2. QED
      BY <2>1, <2>3, <3>1, StoreInvSync DEF StoreInv
  <2>4. QED
    BY <2>1, <2>2, <2>3
<1>8. QED
  BY <1>1, <1>2, <1>3, <1>4, <1>5, <1>6, <1>7 DEF Finalize

\* StoreInv is kept by writeback, of the one slot that may be dirty.
LEMMA StoreInvWriteback ==
    ASSUME TypeOK, TypeOK', StoreInv, Writeback
    PROVE  StoreInv'
<1>1. UNCHANGED <<cache, pc, meta, chunk, acked, created>>
  BY DEF Writeback
<1>2. pc # "synced"
  BY DEF StoreInv, Writeback, WritebackName, WritebackLen, WritebackData, WritebackSlot
<1>3. Held(disk) \subseteq Held(disk')
  BY WritebackHolds DEF StoreInv, OneChunkAhead
<1>4. OneChunkAhead'
  BY <1>1, WritebackHolds DEF StoreInv, OneChunkAhead
<1>5. disk.len # "zero" => disk'.len # "zero"
  BY WritebackHolds DEF StoreInv
<1>6. created /\ disk'.len = "expected" => ValidSlots(disk') # {}
  BY WritebackHolds, <1>1 DEF StoreInv, TypeOK, Image
<1>7. /\ disk'.len = "content" => cache.len = "content"
      /\ cache.len = "zero" => disk'.len = "zero"
  BY WritebackHolds DEF StoreInv
<1>8. pc \in {"created", "sized"} => disk'.slots = NoFile.slots
  <2> SUFFICES ASSUME pc \in {"created", "sized"} PROVE disk'.slots = NoFile.slots
    OBVIOUS
  <2>1. cache.slots = NoFile.slots /\ disk.slots = NoFile.slots
    BY DEF StoreInv
  <2>2. ~WritebackSlot
    BY <2>1 DEF WritebackSlot
  <2>3. QED
    BY <2>1, <2>2 DEF Writeback, WritebackName, WritebackLen, WritebackData, TypeOK, Image
<1>9. pc = "marked" => disk'.len = "expected" /\ meta.done = Held(disk') \cup chunk
  <2> SUFFICES ASSUME pc = "marked"
               PROVE  disk'.len = "expected" /\ meta.done = Held(disk') \cup chunk
    OBVIOUS
  <2>1. /\ HoldsNewest /\ disk.len = "expected" /\ meta.done = Held(disk) \cup chunk
    BY DEF StoreInv
  <2>2. Held(cache) = meta.done /\ cache.len = "expected"
    BY <2>1, BelievesCache DEF HoldsNewest
  <2>3. QED
    BY <2>1, <2>2, WritebackHolds
<1>10. HoldsNewest => HoldsNewest'
  BY <1>1 DEF HoldsNewest
<1>11. acked' \subseteq Held(disk')
  BY <1>1, <1>3 DEF StoreInv
<1>12. SlotsInOrder(cache')
  BY <1>1 DEF StoreInv
<1>13. QED
  BY <1>1, <1>2, <1>4, <1>5, <1>6, <1>7, <1>8, <1>9, <1>10, <1>11, <1>12, WritebackHolds
     DEF StoreInv

\* StoreInv is kept by kills and power losses.
LEMMA StoreInvFaults ==
    ASSUME TypeOK, TypeOK', StoreInv, Interrupt \/ PowerLoss
    PROVE  StoreInv'
<1>1. CASE Interrupt
  <2>1. /\ UNCHANGED <<disk, acked, created>> /\ cache' \in Unfinished /\ pc' = "closed"
    BY <1>1 DEF Interrupt, Drop
  <2>2. CASE cache' = cache
    BY <2>1, <2>2, StoreInvFrame
  <2>3. CASE pc = "sized" /\ cache' = [cache EXCEPT !.slots[0] = NoSlot]
    <3>1. cache'.len = cache.len /\ cache'.slots = cache.slots
      <4>1. cache.slots = NoFile.slots
        BY <2>3 DEF StoreInv
      <4>2. cache'.slots = [cache.slots EXCEPT ![0] = NoSlot] /\ cache'.len = cache.len
        BY <2>3 DEF TypeOK, Image
      <4>3. [NoFile.slots EXCEPT ![0] = NoSlot] = NoFile.slots
        BY DEF NoFile
      <4>4. QED
        BY <4>1, <4>2, <4>3
    <3>2. QED
      BY <2>1, <3>1, StoreInvFrame
  <2>4. CASE pc = "synced" /\ cache' = [cache EXCEPT !.slots[(meta.gen + 1) % 2] = NoSlot]
    <3> DEFINE s == (meta.gen + 1) % 2
               b == meta.gen % 2
    <3>1. s \in {0, 1} /\ b \in {0, 1} /\ s = 1 - b /\ b = 1 - s /\ s # b
      BY DEF TypeOK, Generations
    <3>2. disk = cache /\ HoldsNewest
      BY <2>4 DEF StoreInv
    <3>3. /\ b \in ValidSlots(cache) /\ cache.slots[b].gen = meta.gen
          /\ cache.slots[b].done = meta.done /\ Held(cache) = meta.done
          /\ cache.len = "expected"
      BY <3>2, BelievesCache DEF HoldsNewest
    <3>4. /\ cache'.len = "expected" /\ cache'.slots[b] = cache.slots[b]
          /\ cache'.slots[s] = NoSlot
      BY <2>4, <3>1, <3>3 DEF TypeOK, Image
    <3>5. ValidSlots(cache') = {b}
      BY <3>1, <3>3, <3>4 DEF ValidSlots, NoSlot
    <3>6. Done(cache') = meta.done
      BY <3>3, <3>4, <3>5 DEF Done, TypeOK
    <3>7. Held(cache') = Held(disk')
      BY <2>1, <3>2, <3>3, <3>4, <3>6 DEF Held
    <3>8. OneChunkAhead'
      BY <3>7 DEF OneChunkAhead
    <3>9. OneSlotDirty'
      <4>1. disk'.slots[b] = cache'.slots[b] /\ b \in ValidSlots(disk')
        BY <2>1, <3>2, <3>3, <3>4
      <4>2. s \in ValidSlots(disk') => disk'.slots[s].done \subseteq disk'.slots[b].done
        BY <2>1, <3>2, <3>3 DEF HoldsNewest
      <4>3. QED
        BY <3>1, <4>1, <4>2 DEF OneSlotDirty
    <3>10. SlotsInOrder(cache') /\ SlotsInOrder(disk')
      BY <2>1, <3>1, <3>3, <3>4, <3>5 DEF SlotsInOrder, StoreInv
    <3>11. QED
      BY <2>1, <3>2, <3>3, <3>4, <3>8, <3>9, <3>10 DEF StoreInv
  <2>5. QED
    BY <2>1, <2>2, <2>3, <2>4 DEF Unfinished, TornSlots
<1>2. CASE PowerLoss
  <2>1. UNCHANGED <<disk, acked, created>> /\ cache' = disk /\ pc' = "closed"
    BY <1>2 DEF PowerLoss, Drop
  <2>2. OneSlotDirty' /\ OneChunkAhead'
    BY <2>1 DEF OneSlotDirty, OneChunkAhead
  <2>3. QED
    BY <2>1, <2>2 DEF StoreInv
<1>3. QED
  BY <1>1, <1>2

\* The strengthening holds in every reachable state.
THEOREM StoreInvariant == Spec => []StoreInv
<1>1. Init => StoreInv
  BY StoreInvInit
<1>2. TypeOK /\ TypeOK' /\ CrashInv /\ TargetInv /\ StoreInv /\ [Next]_vars => StoreInv'
  <2> SUFFICES ASSUME TypeOK, TypeOK', CrashInv, TargetInv, StoreInv, [Next]_vars
               PROVE  StoreInv'
    OBVIOUS
  <2>1. CASE UNCHANGED vars
    BY <2>1, StoreInvFrame DEF vars
  <2>2. QED
    BY <2>1, StoreInvOpen, StoreInvCommit, StoreInvFinalize, StoreInvWriteback,
       StoreInvFaults DEF Next
<1>3. QED
  BY <1>1, <1>2, TypeCorrect, CrashInvariant, TargetInvariant, PTL DEF Spec

\* After a power loss before finalize there is a slot to resume from, and it marks
\* every chunk whose commit returned Ok.
THEOREM AckedAlwaysSurvive == Spec => []AckedSurvive
<1>1. TypeOK /\ StoreInv => AckedSurvive
  <2> SUFFICES ASSUME TypeOK, StoreInv, created, Unfinalized(disk)
               PROVE  ValidSlots(disk) # {} /\ acked \subseteq BestMeta(disk).done
    BY DEF AckedSurvive
  <2>1. disk.len = "expected" /\ ValidSlots(disk) # {}
    BY DEF Unfinalized, StoreInv
  <2>2. Held(disk) = BestMeta(disk).done
    BY <2>1, BestMarksAll DEF StoreInv, Held, TypeOK
  <2>3. QED
    BY <2>1, <2>2 DEF StoreInv
<1>2. QED
  BY <1>1, TypeCorrect, StoreInvariant, PTL

-----------------------------------------------------------------------------
(* The part file implements the abstract store.                            *)

\* What the refinement mapping calls stored, for an image.
Stored(image) == IF image.len = "content" THEN Chunks
                 ELSE IF ValidSlots(image) = {} THEN {} ELSE BestMeta(image).done

\* With its slots in order an image stores what the newest of them marks.
LEMMA StoredIsHeld ==
    ASSUME NEW image \in Image, SlotsInOrder(image)
    PROVE  Stored(image) = Held(image)
<1>1. CASE ValidSlots(image) = {}
  BY <1>1 DEF Stored, Held, Done
<1>2. CASE ValidSlots(image) # {}
  BY <1>2, BestMarksAll DEF Stored, Held
<1>3. QED
  BY <1>1, <1>2

\* A step leaves the disk's chunks alone or brings them up to the cache's.
LEMMA HeldStep ==
    ASSUME TypeOK, TypeOK', StoreInv, [Next]_vars
    PROVE  /\ Held(disk') = Held(disk) \/ Held(disk') = Held(cache)
           /\ disk'.name \in {disk.name, cache.name}
           /\ disk'.len \in {disk.len, cache.len}
           /\ CommitSyncAll \/ acked' = acked
<1>1. CASE Writeback
  BY <1>1, WritebackHolds DEF Writeback
<1>2. CASE ~Writeback
  <2>1. disk' = disk \/ disk' = cache
    BY <1>2 DEF Next, OpenOrCreate, Create, CreateSetLen, CreateWriteSlot, CreateSync,
                OpenRefused, OpenIncompatible, OpenExisting, WriteAndCommit, WriteFragment,
                RestartChunk, CommitIgnored, CommitSyncData, CommitWriteSlot, CommitSyncAll,
                Finalize, FinalizeIncomplete, FinalizeHashMismatch, FinalizeVerify,
                FinalizeSetLen, FinalizeSync, FinalizeRename, FinalizeSyncDir, Interrupt,
                PowerLoss, Sync, vars
  <2>2. CommitSyncAll \/ acked' = acked
    BY <1>2 DEF Next, OpenOrCreate, Create, CreateSetLen, CreateWriteSlot, CreateSync,
                OpenRefused, OpenIncompatible, OpenExisting, WriteAndCommit, WriteFragment,
                RestartChunk, CommitIgnored, CommitSyncData, CommitWriteSlot,
                Finalize, FinalizeIncomplete, FinalizeHashMismatch, FinalizeVerify,
                FinalizeSetLen, FinalizeSync, FinalizeRename, FinalizeSyncDir, Interrupt,
                PowerLoss, vars
  <2>3. QED
    BY <2>1, <2>2
<1>3. QED
  BY <1>1, <1>2

\* Every step is one of the abstract store, or a stutter.
LEMMA StoreStep ==
    ASSUME TypeOK, TypeOK', TargetInv, TargetInv', StoreInv, StoreInv', [Next]_vars
    PROVE  [Store!Next]_(Store!vars)
<1> DEFINE was == disk.name = "target"
           is == disk'.name = "target"
<1>1. Stored(disk) = Held(disk) /\ Stored(disk') = Held(disk')
  BY StoredIsHeld DEF StoreInv, TypeOK
<1>2. Held(disk') = Held(disk) \/ \E c \in Chunks : Held(disk') = Held(disk) \cup {c}
  BY HeldStep DEF StoreInv, OneChunkAhead
<1>3. CASE CommitSyncAll
  <2>1. PICK c \in Chunks : chunk = {c}
    BY <1>3 DEF CommitSyncAll, StoreInv
  <2>2. /\ Held(cache) = meta.done /\ meta.done = Held(disk) \cup chunk
        /\ disk' = cache /\ acked' = acked \cup chunk
    BY <1>3, BelievesCache DEF CommitSyncAll, StoreInv, Sync
  <2>3. ~was /\ ~is
    BY <1>3, <2>2 DEF CommitSyncAll, TargetInv
  <2>4. Store!Acknowledge(c)
    BY <1>1, <2>1, <2>2, <2>3 DEF Store!Acknowledge, Stored
  <2>5. QED
    BY <2>4 DEF Store!Next
<1>4. CASE acked' = acked /\ is = was
  <2>1. CASE Held(disk') = Held(disk)
    BY <1>1, <1>4, <2>1 DEF Store!vars, Stored
  <2>2. CASE \E c \in Chunks : Held(disk') = Held(disk) \cup {c}
    <3>1. PICK c \in Chunks : Held(disk') = Held(disk) \cup {c}
      BY <2>2
    <3>2. Store!Store(c)
      BY <1>1, <1>4, <3>1 DEF Store!Store, Stored
    <3>3. QED
      BY <3>2 DEF Store!Next
  <2>3. QED
    BY <1>2, <2>1, <2>2
<1>5. CASE acked' = acked /\ is # was
  <2>1. ~was /\ is
    BY <1>5, HeldStep DEF TargetInv
  <2>2. disk.len = "content" /\ cache.len = "content" /\ disk'.len = "content"
    BY <2>1, HeldStep DEF TargetInv, TargetIsContent
  <2>3. Stored(disk) = Chunks /\ Stored(disk') = Chunks
    BY <2>2 DEF Stored
  <2>4. Store!Promote
    BY <1>5, <2>1, <2>3 DEF Store!Promote, Stored
  <2>5. QED
    BY <2>4 DEF Store!Next
<1>6. QED
  BY <1>3, <1>4, <1>5, HeldStep

\* Chunks that survive any crash, acknowledged commits and the promotion behave
\* as ResumeStore says: no crash, writeback, retry or torn write of the part file
\* ever takes a chunk back or promotes an incomplete one.
THEOREM PartFileImplementsStore == Spec => ImplementsStore
<1>1. Init => Store!Init
  <2> SUFFICES ASSUME Init PROVE Store!Init
    OBVIOUS
  <2>1. disk = NoFile /\ acked = {} /\ ValidSlots(NoFile) = {}
    BY NoFileHolds, NoFileType DEF Init
  <2>2. QED
    BY <2>1 DEF Store!Init, NoFile
<1>2. TypeOK /\ TypeOK' /\ TargetInv /\ TargetInv' /\ StoreInv /\ StoreInv' /\ [Next]_vars
          => [Store!Next]_(Store!vars)
  BY StoreStep
<1>3. QED
  BY <1>1, <1>2, TypeCorrect, TargetInvariant, StoreInvariant, PTL
     DEF Spec, ImplementsStore, Store!Spec
=============================================================================
