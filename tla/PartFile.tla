------------------------------ MODULE PartFile ------------------------------
(***************************************************************************)
(* The resumable part file of takanawa-core (part_file.rs): one file that  *)
(* holds the content followed by two metadata slots, written so that a     *)
(* process that dies at any instant, with or without the machine, resumes  *)
(* from the chunks it had committed.                                       *)
(*                                                                         *)
(* A file image is what a reader would find: `cache` is the image the      *)
(* running system shows (the page cache and the directory), `disk` the one *)
(* a power loss leaves.  A sync makes `disk` equal to `cache`; the kernel  *)
(* may write any dirty page back earlier.  One operation of the code is    *)
(* one action per system call that changes an image, so a crash can fall   *)
(* between any two of them.                                                *)
(*                                                                         *)
(* Assumptions about what lies under the code: CRC32 tells a torn slot     *)
(* from a valid one; rename and set_len are atomic; a file sync also makes *)
(* the file's own directory entry durable; pages whose writeback failed    *)
(* stay dirty.                                                             *)
(***************************************************************************)
EXTENDS Naturals, FiniteSets

CONSTANTS
    Chunks,      \* the chunk indexes of the resource
    Fragments,   \* number of body fragments a chunk arrives in
    MaxFaults    \* bound on crashes, I/O errors and restarted chunk attempts

ASSUME ChunksAssumption == IsFiniteSet(Chunks)
ASSUME FragmentsAssumption == Fragments \in Nat \ {0}
ASSUME FaultsAssumption == MaxFaults \in Nat

VARIABLES
    matches,  \* the content served has the configured hash (or none is configured)
    cache,    \* the file image the running system shows
    disk,     \* the file image that survives a power loss
    pc,       \* where the one PartFile value of the process stands
    meta,     \* its in-memory PartMetadata: generation and bitmap
    chunk,    \* the chunks a commit in progress is about: {} or one chunk
    cursor,   \* per chunk, the fragments the current attempt has written
    acked,    \* history: chunks whose commit_chunk persisted them and returned Ok
    created,  \* history: open_or_create has once returned a new part file
    result,   \* how the last call of the API ended
    faults    \* crashes, errors and retries so far

vars == <<matches, cache, disk, pc, meta, chunk, cursor, acked, created, result, faults>>

-----------------------------------------------------------------------------
(* Slots, file images and what may have reached the disk                   *)

Generations == Nat
Slot == [valid : BOOLEAN, gen : Generations, done : SUBSET Chunks]

\* A slot whose CRC does not match: never written, torn, or cut away.
NoSlot == [valid |-> FALSE, gen |-> 0, done |-> {}]

SlotFor(m) == [valid |-> TRUE, gen |-> m.gen, done |-> m.done]

Pieces == Chunks \X (0 .. Fragments - 1)

\* `len` is 0, content_len plus two slots, or content_len; `name` is the path
\* the file is found under; `data` the fragments that hold the right bytes.
Image == [name : {"none", "part", "target"},
          len  : {"zero", "expected", "content"},
          data : SUBSET Pieces,
          slots : [{0, 1} -> Slot]]

NoFile == [name |-> "none", len |-> "zero", data |-> {},
           slots |-> [i \in {0, 1} |-> NoSlot]]

PiecesOf(S) == S \X (0 .. Fragments - 1)

\* The image holds every byte of every chunk of S.
Full(image, S) == PiecesOf(S) \subseteq image.data

\* read_best_metadata: the valid slot of the highest generation.
ValidSlots(image) == {i \in {0, 1} : image.slots[i].valid}
BestSlot(image) ==
    CHOOSE i \in ValidSlots(image) :
        \A j \in ValidSlots(image) : image.slots[j].gen <= image.slots[i].gen
BestMeta(image) == [gen  |-> image.slots[BestSlot(image)].gen,
                    done |-> image.slots[BestSlot(image)].done]

-----------------------------------------------------------------------------
TypeOK ==
    /\ matches \in BOOLEAN
    /\ cache \in Image
    /\ disk \in Image
    /\ pc \in {"closed", "created", "sized", "slotted", "open", "synced", "marked",
               "verified", "cut", "flushed", "renamed"}
    /\ meta \in [gen : Generations, done : SUBSET Chunks]
    /\ chunk \in SUBSET Chunks
    /\ cursor \in [Chunks -> 0 .. Fragments]
    /\ acked \in SUBSET Chunks
    /\ created \in BOOLEAN
    /\ result \in {"none", "Ok", "TargetExists", "PartSizeMismatch", "PartCorrupt",
                   "RemoteChanged", "InvalidConfig", "HashMismatch", "Io"}
    /\ faults \in 0 .. MaxFaults

NoMeta == [gen |-> 0, done |-> {}]
NoCursor == [c \in Chunks |-> 0]

Init ==
    /\ matches \in BOOLEAN
    /\ cache = NoFile
    /\ disk = NoFile
    /\ pc = "closed"
    /\ meta = NoMeta
    /\ chunk = {}
    /\ cursor = NoCursor
    /\ acked = {}
    /\ created = FALSE
    /\ result = "none"
    /\ faults = 0

\* The PartFile value goes out of scope: its file is closed, its memory gone.
Drop ==
    /\ pc' = "closed"
    /\ meta' = NoMeta
    /\ chunk' = {}
    /\ cursor' = NoCursor

\* A sync of the open file returns: everything cached is on disk.
Sync ==
    /\ disk' = cache
    /\ UNCHANGED cache

-----------------------------------------------------------------------------
(* open_or_create                                                          *)

\* create_new: the file appears under its name, empty.
Create ==
    /\ pc = "closed"
    /\ cache.name = "none"
    /\ cache' = [NoFile EXCEPT !.name = "part"]
    /\ pc' = "created"
    /\ result' = "none"
    /\ UNCHANGED <<matches, disk, meta, chunk, cursor, acked, created, faults>>

CreateSetLen ==
    /\ pc = "created"
    /\ cache' = [cache EXCEPT !.len = "expected"]
    /\ pc' = "sized"
    /\ UNCHANGED <<matches, disk, meta, chunk, cursor, acked, created, result, faults>>

CreateWriteSlot ==
    /\ pc = "sized"
    /\ cache' = [cache EXCEPT !.slots[0] = SlotFor(NoMeta)]
    /\ pc' = "slotted"
    /\ UNCHANGED <<matches, disk, meta, chunk, cursor, acked, created, result, faults>>

CreateSync ==
    /\ pc = "slotted"
    /\ Sync
    /\ pc' = "open"
    /\ meta' = NoMeta
    /\ created' = TRUE
    /\ result' = "Ok"
    /\ UNCHANGED <<matches, chunk, cursor, acked, faults>>

\* Mutant: one unreadable slot is taken for a corrupt file.
OpenRefusalBothSlots ==
    CASE cache.name = "target" -> "TargetExists"
      [] cache.len # "expected" -> "PartSizeMismatch"
      [] ValidSlots(cache) # {0, 1} -> "PartCorrupt"
      [] OTHER -> "Ok"

\* The refusals of an existing file, in the order the code looks for them.
OpenRefusal ==
    CASE cache.name = "target" -> "TargetExists"
      [] cache.len # "expected" -> "PartSizeMismatch"
      [] ValidSlots(cache) = {} -> "PartCorrupt"
      [] OTHER -> "Ok"

OpenRefused ==
    /\ pc = "closed"
    /\ cache.name # "none"
    /\ OpenRefusal # "Ok"
    /\ result' = OpenRefusal
    /\ UNCHANGED <<matches, cache, disk, pc, meta, chunk, cursor, acked, created, faults>>

\* ensure_compatible finds that the metadata is about another resource.
OpenIncompatible ==
    /\ pc = "closed"
    /\ cache.name # "none"
    /\ OpenRefusal = "Ok"
    /\ faults < MaxFaults
    /\ result' = "RemoteChanged"
    /\ faults' = faults + 1
    /\ UNCHANGED <<matches, cache, disk, pc, meta, chunk, cursor, acked, created>>

OpenExisting ==
    /\ pc = "closed"
    /\ cache.name # "none"
    /\ OpenRefusal = "Ok"
    /\ meta' = BestMeta(cache)
    /\ pc' = "open"
    /\ result' = "Ok"
    /\ UNCHANGED <<matches, cache, disk, chunk, cursor, acked, created, faults>>

-----------------------------------------------------------------------------
(* write_chunk_bytes and commit_chunk                                      *)

\* A fragment of the body reaches write_chunk_bytes; one of a chunk that is
\* already complete is ignored there.
WriteFragment(c) ==
    /\ pc = "open"
    /\ cursor[c] < Fragments
    /\ c \notin meta.done
    /\ cache' = [cache EXCEPT !.data = @ \cup {<<c, cursor[c]>>}]
    /\ cursor' = [cursor EXCEPT ![c] = @ + 1]
    /\ UNCHANGED <<matches, disk, pc, meta, chunk, acked, created, result, faults>>

\* The attempt that streamed the chunk failed; the next starts at offset 0.
RestartChunk(c) ==
    /\ pc = "open"
    /\ cursor[c] > 0
    /\ c \notin meta.done
    /\ faults < MaxFaults
    /\ cursor' = [cursor EXCEPT ![c] = 0]
    /\ faults' = faults + 1
    /\ UNCHANGED <<matches, cache, disk, pc, meta, chunk, acked, created, result>>

\* commit_chunk of a chunk the bitmap already has: ignored, nothing persisted.
CommitIgnored(c) ==
    /\ pc = "open"
    /\ c \in meta.done
    /\ result' = "Ok"
    /\ UNCHANGED <<matches, cache, disk, pc, meta, chunk, cursor, acked, created, faults>>

\* Mutant: the slot is written with no sync of the data before it.
CommitWithoutSyncData(c) ==
    /\ pc = "open"
    /\ c \notin meta.done
    /\ cursor[c] = Fragments
    /\ chunk' = {c}
    /\ pc' = "synced"
    /\ UNCHANGED <<matches, cache, disk, meta, cursor, acked, created, result, faults>>

\* commit_chunk, 1: sync_data.  The caller commits a fully written chunk only.
CommitSyncData(c) ==
    /\ pc = "open"
    /\ c \notin meta.done
    /\ cursor[c] = Fragments
    /\ Sync
    /\ chunk' = {c}
    /\ pc' = "synced"
    /\ UNCHANGED <<matches, meta, cursor, acked, created, result, faults>>

\* commit_chunk, 2: mark the bitmap, bump the generation and write the slot
\* its parity selects.
CommitWriteSlot ==
    /\ pc = "synced"
    /\ LET next == [gen |-> meta.gen + 1, done |-> meta.done \cup chunk]
       IN  /\ meta' = next
           /\ cache' = [cache EXCEPT !.slots[next.gen % 2] = SlotFor(next)]
    /\ pc' = "marked"
    /\ UNCHANGED <<matches, disk, chunk, cursor, acked, created, result, faults>>

\* Mutant: the caller is told before the slot is synced.
CommitWithoutSyncAll ==
    /\ pc = "marked"
    /\ acked' = acked \cup chunk
    /\ chunk' = {}
    /\ pc' = "open"
    /\ result' = "Ok"
    /\ UNCHANGED <<matches, cache, disk, meta, cursor, created, faults>>

\* commit_chunk, 3: sync_all, and the caller is told.
CommitSyncAll ==
    /\ pc = "marked"
    /\ Sync
    /\ acked' = acked \cup chunk
    /\ chunk' = {}
    /\ pc' = "open"
    /\ result' = "Ok"
    /\ UNCHANGED <<matches, meta, cursor, created, faults>>

-----------------------------------------------------------------------------
(* finalize, which consumes the PartFile                                   *)

FinalizeIncomplete ==
    /\ pc = "open"
    /\ meta.done # Chunks
    /\ faults < MaxFaults
    /\ Drop
    /\ result' = "InvalidConfig"
    /\ faults' = faults + 1
    /\ UNCHANGED <<matches, cache, disk, acked, created>>

FinalizeHashMismatch ==
    /\ pc = "open"
    /\ meta.done = Chunks
    /\ ~matches
    /\ Drop
    /\ result' = "HashMismatch"
    /\ UNCHANGED <<matches, cache, disk, acked, created, faults>>

\* Mutant: an incomplete part file is finalized.
FinalizeVerifyIncomplete ==
    /\ pc = "open"
    /\ matches
    /\ pc' = "verified"
    /\ UNCHANGED <<matches, cache, disk, meta, chunk, cursor, acked, created, result, faults>>

FinalizeVerify ==
    /\ pc = "open"
    /\ meta.done = Chunks
    /\ matches
    /\ pc' = "verified"
    /\ UNCHANGED <<matches, cache, disk, meta, chunk, cursor, acked, created, result, faults>>

FinalizeSetLen ==
    /\ pc = "verified"
    /\ cache' = [cache EXCEPT !.len = "content", !.slots = NoFile.slots]
    /\ pc' = "cut"
    /\ UNCHANGED <<matches, disk, meta, chunk, cursor, acked, created, result, faults>>

\* Mutant: the truncated file is renamed before it is synced.
FinalizeWithoutSync ==
    /\ pc = "cut"
    /\ pc' = "flushed"
    /\ UNCHANGED <<matches, cache, disk, meta, chunk, cursor, acked, created, result, faults>>

FinalizeSync ==
    /\ pc = "cut"
    /\ Sync
    /\ pc' = "flushed"
    /\ UNCHANGED <<matches, meta, chunk, cursor, acked, created, result, faults>>

FinalizeRename ==
    /\ pc = "flushed"
    /\ cache' = [cache EXCEPT !.name = "target"]
    /\ pc' = "renamed"
    /\ UNCHANGED <<matches, disk, meta, chunk, cursor, acked, created, result, faults>>

\* sync_parent_dir ignores its errors; then the lock is dropped and removed.
FinalizeSyncDir ==
    /\ pc = "renamed"
    /\ disk' \in {disk, cache}
    /\ Drop
    /\ result' = "Ok"
    /\ UNCHANGED <<matches, cache, acked, created, faults>>

-----------------------------------------------------------------------------
(* What happens to a process and a machine                                 *)

\* The kernel writes one dirty item back; a slot may get there in part.
WritebackName ==
    /\ disk.name # cache.name
    /\ disk' = [disk EXCEPT !.name = cache.name]

WritebackLen ==
    /\ disk.name # "none"
    /\ disk.len # cache.len
    /\ disk' = [disk EXCEPT !.len = cache.len, !.slots = NoFile.slots]

WritebackData ==
    /\ disk.name # "none"
    /\ \E piece \in cache.data \ disk.data :
           disk' = [disk EXCEPT !.data = @ \cup {piece}]

WritebackSlot ==
    /\ disk.len = "expected"
    /\ cache.len = "expected"
    /\ \E i \in {0, 1} :
          /\ disk.slots[i] # cache.slots[i]
          /\ \E s \in {cache.slots[i], NoSlot} : disk' = [disk EXCEPT !.slots[i] = s]

Writeback ==
    /\ WritebackName \/ WritebackLen \/ WritebackData \/ WritebackSlot
    /\ UNCHANGED <<matches, cache, pc, meta, chunk, cursor, acked, created, result, faults>>

\* The slot a write was about when the process stopped may be torn.
TornSlots == {i \in {0, 1} : \/ pc = "sized" /\ i = 0
                             \/ pc = "synced" /\ i = (meta.gen + 1) % 2}
Unfinished == {cache} \cup {[cache EXCEPT !.slots[i] = NoSlot] : i \in TornSlots}

\* A system call fails and `?` returns its error, the process is killed, or
\* the download is paused, cancelled or dropped: the PartFile is dropped.
Interrupt ==
    /\ pc # "closed"
    /\ faults < MaxFaults
    /\ cache' \in Unfinished
    /\ Drop
    /\ result' \in {"none", "Io"}
    /\ faults' = faults + 1
    /\ UNCHANGED <<matches, disk, acked, created>>

\* The machine stops; it comes back with what the disk holds.
PowerLoss ==
    /\ faults < MaxFaults
    /\ cache' = disk
    /\ Drop
    /\ result' = "none"
    /\ faults' = faults + 1
    /\ UNCHANGED <<matches, disk, acked, created>>

-----------------------------------------------------------------------------
OpenOrCreate ==
    \/ Create \/ CreateSetLen \/ CreateWriteSlot \/ CreateSync
    \/ OpenRefused \/ OpenIncompatible \/ OpenExisting

WriteAndCommit ==
    \/ \E c \in Chunks : WriteFragment(c) \/ RestartChunk(c) \/ CommitIgnored(c)
                         \/ CommitSyncData(c)
    \/ CommitWriteSlot \/ CommitSyncAll

Finalize ==
    \/ FinalizeIncomplete \/ FinalizeHashMismatch \/ FinalizeVerify \/ FinalizeSetLen
    \/ FinalizeSync \/ FinalizeRename \/ FinalizeSyncDir

Next == OpenOrCreate \/ WriteAndCommit \/ Finalize \/ Writeback \/ Interrupt \/ PowerLoss

Spec == Init /\ [][Next]_vars

\* The caller keeps going: a PartFile is opened again after every interruption,
\* its chunks are fetched, committed and finalized.
FairSpec ==
    /\ Spec
    /\ WF_vars(OpenOrCreate)
    /\ WF_vars(CommitWriteSlot \/ CommitSyncAll)
    /\ \A c \in Chunks : WF_vars(WriteFragment(c)) /\ WF_vars(CommitSyncData(c))
    /\ WF_vars(Finalize)

-----------------------------------------------------------------------------
(* Properties                                                              *)

\* What a power loss would leave is never ahead of the data: every chunk a
\* valid slot on disk marks complete has all its bytes on disk (commit_chunk
\* syncs the data before it writes the slot).
CrashSafe ==
    \A i \in ValidSlots(disk) : Full(disk, disk.slots[i].done)

\* The same for the image a restarted process reads after the kernel kept its
\* cache: resuming from it never skips a chunk whose bytes a later power loss
\* could still take.
ResumeSafe ==
    \A i \in ValidSlots(cache) : Full(disk, cache.slots[i].done)

\* Whether the machine stops or only the process, what the next run resumes from
\* claims no byte that is not, or may not stay, in the file.
SlotsSafe == CrashSafe /\ ResumeSafe

\* What makes the two inductive: an absent file is absent on disk too, the disk
\* holds no bytes the cache does not show, an attempt has written what its
\* cursor says, and the chunks the process believes complete, or is about to
\* mark, are on disk.
CrashInv ==
    /\ cache.name = "none" => cache = NoFile /\ disk.name = "none" /\ pc = "closed"
    /\ disk.name = "none" => disk = NoFile
    /\ disk.data \subseteq cache.data
    /\ \A c \in Chunks : \A k \in 0 .. cursor[c] - 1 : <<c, k>> \in cache.data
    /\ Full(disk, meta.done)
    /\ pc = "synced" => Full(disk, chunk)
    /\ CrashSafe
    /\ ResumeSafe

\* The file has not begun to be finalized.
Unfinalized(image) == image.name = "part" /\ image.len = "expected"

\* Once open_or_create has returned, a power loss at any point before finalize
\* truncates the file leaves a slot to resume from, and it marks every chunk
\* whose commit was acknowledged (the slots alternate, and sync_all comes
\* before Ok).
AckedSurvive ==
    created /\ Unfinalized(disk) => /\ ValidSlots(disk) # {}
                                    /\ acked \subseteq BestMeta(disk).done

\* The chunks an image's slots mark, and those a store in its state holds.
Done(image) == {c \in Chunks : \E i \in ValidSlots(image) : c \in image.slots[i].done}
Held(image) == IF image.len = "content" THEN Chunks ELSE Done(image)

\* A slot sits where its generation's parity says, a later one marks at least
\* what an earlier one does, and only a file of the full length has any.
SlotsInOrder(image) ==
    /\ image.len # "expected" => image.slots = NoFile.slots
    /\ \A i \in ValidSlots(image) : image.slots[i].gen % 2 = i
    /\ \A i, j \in ValidSlots(image) :
          image.slots[i].gen <= image.slots[j].gen => image.slots[i].done \subseteq image.slots[j].done

\* The process holds the metadata of the newest slot its cache shows.
HoldsNewest ==
    /\ cache.len = "expected"
    /\ cache.slots[meta.gen % 2] = SlotFor(meta)
    /\ \A i \in ValidSlots(cache) : /\ cache.slots[i].gen <= meta.gen
                                     /\ cache.slots[i].done \subseteq meta.done

\* Only one slot waits to be written back, and what it replaces is the older one.
OneSlotDirty ==
    \A i \in {0, 1} : disk.slots[i] # cache.slots[i] =>
        /\ disk.slots[1 - i] = cache.slots[1 - i]
        /\ i \in ValidSlots(disk) => /\ 1 - i \in ValidSlots(disk)
                                      /\ disk.slots[i].done \subseteq disk.slots[1 - i].done

\* The cache is at most one chunk ahead of the disk.
OneChunkAhead ==
    \/ Held(cache) = Held(disk)
    \/ \E c \in Chunks : Held(cache) = Held(disk) \cup {c}

\* What makes AckedSurvive inductive, and shows that the part file implements the
\* abstract store.
StoreInv ==
    /\ SlotsInOrder(cache) /\ SlotsInOrder(disk)
    /\ disk.len = "content" => cache.len = "content"
    /\ cache.len = "zero" => disk.len = "zero"
    /\ pc \in {"created", "sized"} => cache.slots = NoFile.slots /\ disk.slots = NoFile.slots
    /\ pc = "created" => cache.len = "zero"
    /\ pc \in {"sized", "slotted"} => cache.len = "expected"
    /\ pc = "slotted" => cache.slots = [NoFile.slots EXCEPT ![0] = SlotFor(NoMeta)]
    /\ pc \in {"open", "synced", "marked", "verified"} => HoldsNewest
    /\ pc \in {"synced", "marked"} => \E c \in Chunks : chunk = {c}
    /\ pc = "synced" => disk = cache
    /\ pc = "marked" => disk.len = "expected" /\ meta.done = Held(disk) \cup chunk
    /\ cache.len = "expected" => OneSlotDirty
    /\ OneChunkAhead
    /\ created => disk.len # "zero"
    /\ created /\ disk.len = "expected" => ValidSlots(disk) # {}
    /\ acked \subseteq Held(disk)

\* The target only ever appears with the whole content, every byte of it
\* durable, without metadata behind it, and with the configured hash.
TargetIsContent ==
    \A image \in {cache, disk} :
        image.name = "target" => /\ image.len = "content"
                                 /\ Full(disk, Chunks)
                                 /\ matches

\* What makes it inductive: finalize goes on with a complete bitmap and the right
\* hash only, and renames a file whose cut is already on disk.
TargetInv ==
    /\ TargetIsContent
    /\ disk.name = "target" => cache.name = "target"
    /\ cache.name = "target" => pc \in {"closed", "renamed"} /\ disk.len = "content"
    /\ pc \in {"verified", "cut", "flushed", "renamed"} => meta.done = Chunks /\ matches
    /\ pc \in {"cut", "flushed", "renamed"} => cache.len = "content"
    /\ pc \in {"flushed", "renamed"} => disk.len = "content"

\* A call of open_or_create on what earlier runs left is never refused for the
\* file's size or its slots: interrupted downloads resume.
NeverStranded == result \notin {"PartSizeMismatch", "PartCorrupt"}

\* The part file is one that open_or_create refuses for good.
Stranded ==
    /\ pc = "closed"
    /\ cache.name = "part"
    /\ cache.len # "expected" \/ ValidSlots(cache) = {}

\* However the bounded number of faults falls, a caller that keeps trying to get
\* content with the right hash ends with the target, unless a fault stranded the file at one of its two ends.
EventuallyPromoted == matches => <>(cache.name = "target" \/ Stranded)

Store == INSTANCE ResumeStore WITH
            stored <- IF disk.len = "content" THEN Chunks
                      ELSE IF ValidSlots(disk) = {} THEN {} ELSE BestMeta(disk).done,
            promoted <- disk.name = "target"

\* The part file implements the abstract store: no crash, writeback or retry
\* ever takes a chunk out of it again.
ImplementsStore == Store!Spec
=============================================================================
