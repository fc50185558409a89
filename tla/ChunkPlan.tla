----------------------------- MODULE ChunkPlan -----------------------------
(***************************************************************************)
(* How a resource is cut into chunks, how their completion is kept in a    *)
(* bitmap, and where the part file keeps what (takanawa-core chunk.rs,     *)
(* bitmap.rs, metadata.rs).  Lengths and offsets are u64 in the code and   *)
(* naturals here; where the code checks for overflow it is a set of the    *)
(* values that fit.                                                        *)
(***************************************************************************)
EXTENDS Integers, FiniteSets

CONSTANTS
    DefaultChunkSize, \* 64 MiB in the code
    MaxOffset,        \* i64::MAX
    MaxU64,           \* u64::MAX
    ByteBits,         \* bits of a byte of the bitmap, 8 in the code
    SlotHead,         \* bytes of a slot beside its bitmap: header and validators
    Alignment         \* of a slot's size

ASSUME SizesAssumption ==
    /\ {DefaultChunkSize, ByteBits, SlotHead, Alignment} \subseteq Nat \ {0}
    /\ MaxOffset \in Nat /\ MaxU64 \in Nat
    /\ DefaultChunkSize <= MaxOffset /\ MaxOffset <= MaxU64

DivCeil(a, b) == IF a % b > 0 THEN a \div b + 1 ELSE a \div b

-----------------------------------------------------------------------------
(* The plan                                                                *)

\* normalize_chunk_size: what it accepts, and what it makes of it.
AcceptedSizes == 0 .. MaxOffset
NormalizeChunkSize(size) == IF size = 0 THEN DefaultChunkSize ELSE size

ChunkCountFor(len, size) == IF len = 0 THEN 0 ELSE DivCeil(len, size)

Plan(len, size) ==
    [content_len |-> len, chunk_size |-> size, chunk_count |-> ChunkCountFor(len, size)]

Indexes(plan) == {i \in 0 .. plan.chunk_count : i < plan.chunk_count}

\* ChunkPlan::chunk, for an index of the plan.
Chunk(plan, i) ==
    LET start == i * plan.chunk_size
        remaining == plan.content_len - start
        len == IF remaining < plan.chunk_size THEN remaining ELSE plan.chunk_size
    IN  [index |-> i, start |-> start, end |-> start + len - 1, len |-> len]

BytesOf(chunk) == chunk.start .. chunk.end

-----------------------------------------------------------------------------
(* The bitmap: a byte is the set of its bits that are 1                    *)

BitmapLen(count) == DivCeil(count, ByteBits)

EmptyBitmap(count) == [b \in 0 .. BitmapLen(count) - 1 |-> {}]

BytePosition(i) == i \div ByteBits
BitPosition(i) == i % ByteBits

\* Mutant: the bit's place in its byte is off by one.
MarkCompleteNext(bytes, i) ==
    [bytes EXCEPT ![BytePosition(i)] = @ \cup {(i + 1) % ByteBits}]

MarkComplete(bytes, i) == [bytes EXCEPT ![BytePosition(i)] = @ \cup {BitPosition(i)}]

IsComplete(bytes, i) == BitPosition(i) \in bytes[BytePosition(i)]

Complete(bytes, count) == {i \in 0 .. count : i < count /\ IsComplete(bytes, i)}
CompleteCount(bytes, count) == Cardinality(Complete(bytes, count))
AllComplete(bytes, count) == CompleteCount(bytes, count) = count
IncompleteIndices(bytes, count) == {i \in 0 .. count : i < count /\ ~IsComplete(bytes, i)}

\* validate_unused_bits: no bit behind the last chunk's is set.
UnusedBitsClear(bytes, count) ==
    count % ByteBits = 0 \/ bytes[BitmapLen(count) - 1] \subseteq 0 .. (count % ByteBits) - 1

\* Mutant: the last chunk counts as a whole one.
CompletedBytesUncut(plan, bytes) == plan.chunk_size * CompleteCount(bytes, plan.chunk_count)

\* completed_bytes: whole chunks, and what the last one is short of a whole.
CompletedBytes(plan, bytes) ==
    LET last == plan.chunk_count - 1
        whole == Complete(bytes, plan.chunk_count) \ {last}
    IN  IF plan.chunk_count = 0 THEN 0
        ELSE plan.chunk_size * Cardinality(whole)
                + IF IsComplete(bytes, last) THEN plan.content_len - last * plan.chunk_size ELSE 0

-----------------------------------------------------------------------------
(* The part file: the content, then two slots                              *)

SlotSizeFor(len, size) ==
    DivCeil(SlotHead + BitmapLen(ChunkCountFor(len, NormalizeChunkSize(size))), Alignment) * Alignment

PartLen(len, size) == len + 2 * SlotSizeFor(len, size)

\* What open_or_create can give a part file to.
Fits(len, size) == PartLen(len, size) <= MaxU64
=============================================================================
