------------------------ MODULE RemoteContentProofs ------------------------
(***************************************************************************)
(* ChunksInPlace, SlotsUntouched, OneVersion, ProgressExact and the       *)
(* target's two properties, for all lengths, chunk sizes and versions.     *)
(*                                                                         *)
(* ContentInv adds to them what a run relies on: its plan is the part      *)
(* file's (PlanIsParts), and what an attempt has written so far is in its  *)
(* place, in a chunk that is not complete (AttemptInPlace).                *)
(*                                                                         *)
(* First the operators of ChunkPlan: the chunks of a plan tile its content *)
(* and marking one in the bitmap marks no other.                           *)
(***************************************************************************)
EXTENDS RemoteContent, FiniteSetTheorems, TLAPS

\* Quotient and remainder.
LEMMA Division ==
    ASSUME NEW a \in Nat, NEW b \in Nat \ {0}
    PROVE  /\ a \div b \in Nat /\ a % b \in 0 .. b - 1
           /\ a = b * (a \div b) + (a % b)
BY SMT

\* b * (q - c) >= b if q > c.
LEMMA ProductStep ==
    ASSUME NEW b \in Nat \ {0}, NEW c \in Int, NEW q \in Int, c < q
    PROVE  b * c + b <= b * q
<1>1. PICK d \in Nat : q = c + 1 + d
  BY SMT
<1>2. b * (c + 1 + d) = b * c + b + b * d
  BY SMT
<1>3. b * d >= 0
  BY SMT
<1> QED
  BY <1>1, <1>2, <1>3, SMT

\* The quotient rounded up, between its two neighbours.
LEMMA DivCeilBounds ==
    ASSUME NEW a \in Nat, NEW b \in Nat \ {0}
    PROVE  /\ DivCeil(a, b) \in Nat
           /\ a <= b * DivCeil(a, b)
           /\ b * DivCeil(a, b) < a + b
<1> DEFINE q == a \div b
           r == a % b
<1>1. q \in Nat /\ r \in 0 .. b - 1 /\ a = b * q + r
  BY Division
<1>2. b * (q + 1) = b * q + b
  BY <1>1, SMT
<1>3. CASE r > 0
  <2>1. DivCeil(a, b) = q + 1
    BY <1>3 DEF DivCeil
  <2> HIDE DEF q, r
  <2> QED
    BY <2>1, <1>1, <1>2, <1>3, SMT
<1>4. CASE ~(r > 0)
  <2>1. DivCeil(a, b) = q
    BY <1>4 DEF DivCeil
  <2> HIDE DEF q, r
  <2> QED
    BY <2>1, <1>1, <1>4, SMT
<1> QED
  BY <1>3, <1>4

\* As many chunks as cover the content, and no more.
LEMMA CountBounds ==
    ASSUME NEW len \in Nat, NEW size \in Nat \ {0}
    PROVE  /\ ChunkCountFor(len, size) \in Nat
           /\ len <= size * ChunkCountFor(len, size)
           /\ ChunkCountFor(len, size) > 0 => size * (ChunkCountFor(len, size) - 1) < len
<1>1. CASE len = 0
  BY <1>1, SMT DEF ChunkCountFor
<1>2. CASE len # 0
  <2> DEFINE c == DivCeil(len, size)
  <2>1. ChunkCountFor(len, size) = c
    BY <1>2 DEF ChunkCountFor
  <2>2. c \in Nat /\ len <= size * c /\ size * c < len + size
    BY DivCeilBounds
  <2> HIDE DEF c
  <2>3. size * (c - 1) = size * c - size
    BY <2>2, SMT
  <2> QED
    BY <2>1, <2>2, <2>3, SMT
<1> QED
  BY <1>1, <1>2

\* A chunk of the plan is not empty, not longer than the chunk size, and ends
\* within the content: the products and differences of ChunkPlan::chunk do not
\* leave the range of the length they start from.
THEOREM ChunkWithinContent ==
    ASSUME NEW len \in Nat, NEW size \in Nat \ {0}, NEW i \in Indexes(Plan(len, size))
    PROVE  LET c == Chunk(Plan(len, size), i)
           IN  /\ i \in Nat
               /\ c.start = i * size /\ c.start \in Nat
               /\ c.len \in 1 .. size
               /\ c.start + c.len <= len
               /\ c.end = c.start + c.len - 1
               /\ c.len = size \/ c.start + c.len = len
<1> DEFINE n == ChunkCountFor(len, size)
<1>1. i \in Nat /\ n \in Nat /\ i < n
  BY CountBounds, SMT DEF Indexes, Plan
<1>2. size * (n - 1) < len
  BY <1>1, CountBounds, SMT
<1> HIDE DEF n
<1>3. size * i <= size * (n - 1)
  <2>1. CASE i = n - 1
    BY <2>1
  <2>2. CASE i < n - 1
    <3>1. size * i + size <= size * (n - 1)
      BY <1>1, <2>2, ProductStep
    <3>2. size * i \in Int /\ size * (n - 1) \in Int
      BY <1>1, SMT
    <3> QED
      BY <3>1, <3>2, SMT
  <2> QED
    BY <1>1, <2>1, <2>2, SMT
<1>4. i * size = size * i /\ i * size \in Nat /\ size * (n - 1) \in Int
  BY <1>1, SMT
<1>5. i * size < len
  BY <1>2, <1>3, <1>4, SMT
<1>6. Plan(len, size).content_len = len /\ Plan(len, size).chunk_size = size
  BY DEF Plan
<1> DEFINE s == i * size
           l == IF len - s < size THEN len - s ELSE size
<1>7. Chunk(Plan(len, size), i) = [index |-> i, start |-> s, end |-> s + l - 1, len |-> l]
  BY <1>6 DEF Chunk
<1>8. s \in Nat /\ s < len
  BY <1>4, <1>5
<1> HIDE DEF s
<1>9. l \in 1 .. size /\ s + l <= len /\ (l = size \/ s + l = len)
  BY <1>8, SMT
<1> HIDE DEF l
<1> QED
  BY <1>1, <1>7, <1>8, <1>9 DEF s

\* No two chunks share a byte.
THEOREM ChunksDisjoint ==
    ASSUME NEW len \in Nat, NEW size \in Nat \ {0},
           NEW i \in Indexes(Plan(len, size)), NEW j \in Indexes(Plan(len, size)), i # j
    PROVE  BytesOf(Chunk(Plan(len, size), i)) \cap BytesOf(Chunk(Plan(len, size), j)) = {}
<1> DEFINE c(k) == Chunk(Plan(len, size), k)
<1>1. ASSUME NEW a \in Indexes(Plan(len, size)), NEW b \in Indexes(Plan(len, size)), a < b
      PROVE  c(a).end < c(b).start
  <2>1. /\ a \in Nat /\ b \in Nat
        /\ c(a).start = a * size /\ c(a).start \in Nat /\ c(a).len \in 1 .. size
        /\ c(a).end = c(a).start + c(a).len - 1
        /\ c(b).start = b * size /\ c(b).start \in Nat
    BY ChunkWithinContent
  <2>2. size * a + size <= size * b
    BY <1>1, <2>1, ProductStep
  <2>3. size * a = a * size /\ size * b = b * size
    BY <2>1, SMT
  <2> HIDE DEF c
  <2> QED
    BY <2>1, <2>2, <2>3, SMT
<1>2. ASSUME NEW k \in Indexes(Plan(len, size)) PROVE c(k).start \in Int /\ c(k).end \in Int /\ k \in Nat
  BY ChunkWithinContent, SMT
<1>3. BytesOf(c(i)) = c(i).start .. c(i).end /\ BytesOf(c(j)) = c(j).start .. c(j).end
  BY DEF BytesOf
<1>4. i < j \/ j < i
  BY <1>2, SMT
<1>5. c(i).end < c(j).start \/ c(j).end < c(i).start
  BY <1>1, <1>4
<1>6. /\ c(i).start \in Int /\ c(i).end \in Int
      /\ c(j).start \in Int /\ c(j).end \in Int
  BY <1>2
<1> HIDE DEF c
<1>7. BytesOf(c(i)) \cap BytesOf(c(j)) = {}
  BY <1>3, <1>5, <1>6, SMT
<1> QED
  BY <1>7 DEF c

\* Every byte of the content is in a chunk of the plan.
THEOREM ChunksCover ==
    ASSUME NEW len \in Nat, NEW size \in Nat \ {0}, NEW p \in Nat, p < len
    PROVE  \E i \in Indexes(Plan(len, size)) : p \in BytesOf(Chunk(Plan(len, size), i))
<1> DEFINE n == ChunkCountFor(len, size)
           i == p \div size
<1>1. i \in Nat /\ p % size \in 0 .. size - 1 /\ p = size * i + (p % size)
  BY Division
<1>2. n \in Nat /\ len <= size * n
  BY CountBounds
<1> HIDE DEF n, i
<1>3. i < n
  <2>1. SUFFICES ASSUME ~(i < n) PROVE FALSE
    OBVIOUS
  <2>2. size * n <= size * i
    <3>1. CASE n = i
      BY <3>1, <1>1, SMT
    <3>2. CASE n < i
      <4>1. size * n + size <= size * i
        BY <3>2, <1>1, <1>2, ProductStep
      <4>2. size * n \in Int /\ size * i \in Int
        BY <1>1, <1>2, SMT
      <4> QED
        BY <4>1, <4>2, SMT
    <3> QED
      BY <2>1, <1>1, <1>2, <3>1, <3>2, SMT
  <2>3. size * n \in Int /\ size * i \in Int
    BY <1>1, <1>2, SMT
  <2> QED
    BY <2>2, <2>3, <1>1, <1>2, SMT
<1>4. i \in Indexes(Plan(len, size))
  BY <1>1, <1>2, <1>3, SMT DEF Indexes, Plan, n
<1> DEFINE c == Chunk(Plan(len, size), i)
<1>5. /\ c.start = i * size /\ c.start \in Nat /\ c.len \in 1 .. size
      /\ c.end = c.start + c.len - 1
      /\ c.len = size \/ c.start + c.len = len
  BY <1>4, ChunkWithinContent
<1>6. i * size = size * i
  BY <1>1, SMT
<1> HIDE DEF c
<1>7. p \in c.start .. c.end
  BY <1>1, <1>5, <1>6, SMT
<1> QED
  BY <1>4, <1>7 DEF BytesOf, c

-----------------------------------------------------------------------------
(* The bitmap                                                              *)

Bitmaps(count) == [0 .. BitmapLen(count) - 1 -> SUBSET (0 .. ByteBits - 1)]

\* The bit of a chunk is in the bitmap.
LEMMA PositionsInBitmap ==
    ASSUME NEW count \in Nat, NEW i \in Nat, i < count
    PROVE  /\ BytePosition(i) \in 0 .. BitmapLen(count) - 1
           /\ BitPosition(i) \in 0 .. ByteBits - 1
<1> DEFINE q == i \div ByteBits
           l == DivCeil(count, ByteBits)
<1>1. ByteBits \in Nat \ {0}
  BY SizesAssumption
<1>2. q \in Nat /\ i % ByteBits \in 0 .. ByteBits - 1 /\ i = ByteBits * q + (i % ByteBits)
  BY <1>1, Division
<1>3. l \in Nat /\ count <= ByteBits * l
  BY <1>1, DivCeilBounds
<1> HIDE DEF q, l
<1>4. q < l
  <2>1. SUFFICES ASSUME l <= q PROVE FALSE
    BY <1>2, <1>3, SMT
  <2>2. CASE l = q
    BY <2>2, <1>1, <1>2, <1>3, SMT
  <2>3. CASE l < q
    <3>1. ByteBits * l + ByteBits <= ByteBits * q
      BY <2>3, <1>1, <1>2, <1>3, ProductStep
    <3>2. ByteBits * l \in Int /\ ByteBits * q \in Int
      BY <1>1, <1>2, <1>3, SMT
    <3> QED
      BY <3>1, <3>2, <1>1, <1>2, <1>3, SMT
  <2> QED
    BY <2>1, <2>2, <2>3, <1>2, <1>3, SMT
<1>5. q \in 0 .. l - 1
  BY <1>2, <1>3, <1>4, SMT
<1> QED
  BY <1>2, <1>5 DEF BytePosition, BitPosition, BitmapLen, q, l

\* Two chunks have two bits.
LEMMA PositionsDiffer ==
    ASSUME NEW i \in Nat, NEW j \in Nat, i # j
    PROVE  BytePosition(i) # BytePosition(j) \/ BitPosition(i) # BitPosition(j)
<1>1. ByteBits \in Nat \ {0}
  BY SizesAssumption
<1>2. i = ByteBits * (i \div ByteBits) + (i % ByteBits)
  BY <1>1, Division
<1>3. j = ByteBits * (j \div ByteBits) + (j % ByteBits)
  BY <1>1, Division
<1> QED
  BY <1>2, <1>3 DEF BytePosition, BitPosition

\* mark_complete marks the chunk it is given and no other, in every bitmap.
THEOREM MarkCompleteMarksOne ==
    ASSUME NEW count \in Nat, NEW bytes \in Bitmaps(count),
           NEW i \in Nat, i < count, NEW j \in Nat, j < count
    PROVE  /\ MarkComplete(bytes, i) \in Bitmaps(count)
           /\ IsComplete(MarkComplete(bytes, i), j) <=> j = i \/ IsComplete(bytes, j)
<1> DEFINE L == 0 .. BitmapLen(count) - 1
<1>1. bytes \in [L -> SUBSET (0 .. ByteBits - 1)]
  BY DEF Bitmaps
<1>2. BytePosition(i) \in L /\ BitPosition(i) \in 0 .. ByteBits - 1 /\ BytePosition(j) \in L
  BY PositionsInBitmap
<1> HIDE DEF L
<1>3. MarkComplete(bytes, i) \in [L -> SUBSET (0 .. ByteBits - 1)]
  BY <1>1, <1>2 DEF MarkComplete
<1>4. MarkComplete(bytes, i)[BytePosition(j)] =
         IF BytePosition(j) = BytePosition(i) THEN bytes[BytePosition(j)] \cup {BitPosition(i)}
         ELSE bytes[BytePosition(j)]
  BY <1>1, <1>2 DEF MarkComplete
<1>5. i # j => BytePosition(i) # BytePosition(j) \/ BitPosition(i) # BitPosition(j)
  BY PositionsDiffer
<1> QED
  BY <1>3, <1>4, <1>5 DEF IsComplete, Bitmaps, L

\* In a new bitmap no chunk is complete.
LEMMA NoneComplete ==
    ASSUME NEW count \in Nat
    PROVE  /\ EmptyBitmap(count) \in Bitmaps(count)
           /\ Complete(EmptyBitmap(count), count) = {}
<1>1. EmptyBitmap(count) \in Bitmaps(count)
  BY DEF EmptyBitmap, Bitmaps
<1>2. ASSUME NEW i \in Nat, i < count PROVE ~IsComplete(EmptyBitmap(count), i)
  BY <1>2, PositionsInBitmap DEF EmptyBitmap, IsComplete
<1>3. \A i \in 0 .. count : i \in Nat
  OBVIOUS
<1> QED
  BY <1>1, <1>2, <1>3 DEF Complete

\* all_complete: as many complete chunks as there are, hence all of them.
LEMMA AllCompleteIsEach ==
    ASSUME NEW count \in Nat, NEW bytes, AllComplete(bytes, count),
           NEW i \in Nat, i < count
    PROVE  i \in Complete(bytes, count)
<1> DEFINE S == Complete(bytes, count)
           T == 0 .. count - 1
<1>1. IsFiniteSet(T) /\ Cardinality(T) = count
  <2>1. 0 \in Int /\ count - 1 \in Int /\ (0 > count - 1 <=> count = 0) /\ (count - 1) - 0 + 1 = count
    BY SMT
  <2> QED
    BY <2>1, FS_Interval
<1>2. S \subseteq T
  BY SMT DEF Complete
<1>3. Cardinality(S) = count
  BY DEF AllComplete, CompleteCount
<1>4. S = T
  BY <1>1, <1>2, <1>3, FS_Subset
<1>5. i \in T
  BY SMT
<1> QED
  BY <1>4, <1>5

-----------------------------------------------------------------------------
(* What a run writes of the plan                                           *)


Types ==
    /\ lengths \in [Versions -> Lengths]
    /\ server \in Resource
    /\ remote \in [len : 0 .. Longest, etag : {0} \cup Versions]
    /\ area \in [Offsets -> Byte \cup {NoByte}]
    /\ body \in [version : {0} \cup Versions, start : Nat, written : Nat]

PartTypes ==
    part # NoPart =>
        \E len \in 0 .. Longest, size \in Nat \ {0}, tag \in {0} \cup Versions :
            \E bytes \in Bitmaps(ChunkCountFor(len, size)) :
                part = [content_len |-> len, chunk_size |-> size, etag |-> tag, bitmap |-> bytes]

PlanIsParts == pc \in {"open", "fetching"} => part # NoPart /\ plan = PartPlan

AttemptInPlace ==
    pc = "fetching" =>
        LET c == Chunk(PartPlan, chunk)
        IN  /\ chunk \in Indexes(PartPlan)
            /\ ~IsComplete(part.bitmap, chunk)
            /\ body.version \in Versions
            /\ body.start = c.start
            /\ body.written <= c.len
            /\ \A p \in c.start .. c.start + body.written - 1 : area[p] = <<body.version, p>>

ContentInv ==
    /\ Types
    /\ PartTypes
    /\ PlanIsParts
    /\ AttemptInPlace
    /\ ChunksInPlace
    /\ SlotsUntouched
    /\ TargetIsExpected
    /\ TargetInPlace

-----------------------------------------------------------------------------
\* The bounds, in the form the proofs use.
LEMMA Constants ==
    /\ Longest \in Nat /\ Lengths \subseteq 0 .. Longest
    /\ MaxVersions \in Nat \ {0}
    /\ \A size \in ChunkSizes : NormalizeChunkSize(size) \in Nat \ {0}
<1>1. DefaultChunkSize \in Nat \ {0}
  BY SizesAssumption
<1>2. \A size \in ChunkSizes : size \in Nat
  BY LengthsAssumption, SizesAssumption DEF AcceptedSizes
<1> QED
  BY <1>1, <1>2, LengthsAssumption, VersionsAssumption DEF NormalizeChunkSize

\* A part file that is there, field by field, with its plan.
LEMMA PartIs ==
    ASSUME PartTypes, part # NoPart
    PROVE  /\ part.content_len \in 0 .. Longest
           /\ part.chunk_size \in Nat \ {0}
           /\ part.etag \in {0} \cup Versions
           /\ PartPlan.chunk_count \in Nat
           /\ PartPlan.chunk_count = ChunkCountFor(part.content_len, part.chunk_size)
           /\ PartPlan.content_len = part.content_len /\ PartPlan.chunk_size = part.chunk_size
           /\ part.bitmap \in Bitmaps(PartPlan.chunk_count)
           /\ part = [content_len |-> part.content_len, chunk_size |-> part.chunk_size,
                      etag |-> part.etag, bitmap |-> part.bitmap]
<1>1. PICK len \in 0 .. Longest, size \in Nat \ {0}, tag \in {0} \cup Versions :
         \E bytes \in Bitmaps(ChunkCountFor(len, size)) :
             part = [content_len |-> len, chunk_size |-> size, etag |-> tag, bitmap |-> bytes]
  BY DEF PartTypes
<1>2. PICK bytes \in Bitmaps(ChunkCountFor(len, size)) :
         part = [content_len |-> len, chunk_size |-> size, etag |-> tag, bitmap |-> bytes]
  BY <1>1
<1>3. PartPlan = [content_len |-> len, chunk_size |-> size, chunk_count |-> ChunkCountFor(len, size)]
  BY <1>2 DEF PartPlan, Plan
<1>4. ChunkCountFor(len, size) \in Nat
  BY Constants, CountBounds
<1> QED
  BY <1>2, <1>3, <1>4

\* Where a chunk of the part file is.
LEMMA ChunkIs ==
    ASSUME PartTypes, part # NoPart, NEW i \in Indexes(PartPlan)
    PROVE  LET c == Chunk(PartPlan, i)
           IN  /\ i \in Nat /\ i < PartPlan.chunk_count
               /\ c.start \in Nat /\ c.len \in Nat \ {0}
               /\ c.end = c.start + c.len - 1
               /\ c.start + c.len <= part.content_len
               /\ BytesOf(c) = c.start .. c.start + c.len - 1
               /\ BytesOf(c) \subseteq Offsets
<1>1. part.content_len \in 0 .. Longest /\ part.chunk_size \in Nat \ {0}
  BY PartIs
<1>2. PartPlan = Plan(part.content_len, part.chunk_size)
  BY DEF PartPlan
<1> DEFINE c == Chunk(PartPlan, i)
<1>3. /\ i \in Nat /\ c.start \in Nat /\ c.len \in 1 .. part.chunk_size
      /\ c.end = c.start + c.len - 1 /\ c.start + c.len <= part.content_len
  BY <1>1, <1>2, Constants, ChunkWithinContent
<1>4. i < PartPlan.chunk_count
  BY DEF Indexes
<1>5. BytesOf(c) = c.start .. c.end
  BY DEF BytesOf
<1> HIDE DEF c
<1>6. BytesOf(c) = c.start .. c.start + c.len - 1
  BY <1>3, <1>5
<1>7. BytesOf(c) \subseteq Offsets
  BY <1>1, <1>3, <1>6, Constants, SMT DEF Offsets
<1>8. c.len \in Nat \ {0}
  BY <1>1, <1>3, SMT
<1> QED
  BY <1>3, <1>4, <1>6, <1>7, <1>8 DEF c

\* The complete chunks are those whose bit is set.
LEMMA CompleteAreIndexes ==
    CompleteChunks = {i \in Indexes(PartPlan) : IsComplete(part.bitmap, i)}
BY DEF CompleteChunks, Complete, Indexes

-----------------------------------------------------------------------------
\* Steps that change neither the part file nor the target keep what is said of
\* them.
LEMMA PartUnchanged ==
    ASSUME ContentInv, UNCHANGED <<lengths, expected, part, area, target>>
    PROVE  PartTypes' /\ ChunksInPlace' /\ SlotsUntouched' /\ TargetIsExpected' /\ TargetInPlace'
BY DEF ContentInv, PartTypes, ChunksInPlace, SlotsUntouched, TargetIsExpected, TargetInPlace,
       CompleteChunks, PartPlan

\* There is no part file at first.
LEMMA InvInit == Init => ContentInv
<1> SUFFICES ASSUME Init PROVE ContentInv
  OBVIOUS
<1>1. Types
  <2>1. area \in [Offsets -> Byte \cup {NoByte}]
    BY DEF Init, EmptyArea
  <2>2. remote \in [len : 0 .. Longest, etag : {0} \cup Versions]
    BY Constants DEF Init, NoRemote
  <2>3. body \in [version : {0} \cup Versions, start : Nat, written : Nat]
    BY DEF Init, NoBody
  <2> QED
    BY <2>1, <2>2, <2>3 DEF Init, Types
<1>2. part = NoPart /\ pc = "closed" /\ target.there = FALSE
  BY DEF Init, NoTarget
<1> QED
  BY <1>1, <1>2 DEF ContentInv, PartTypes, PlanIsParts, AttemptInPlace, ChunksInPlace, SlotsUntouched,
                    TargetIsExpected, TargetInPlace

\* The resource changes, a run probes it, or ends.
LEMMA InvQuiet ==
    ASSUME ContentInv,
           \/ Change \/ ToggleETag \/ Probe \/ AttemptFails \/ Stop
           \/ \E size \in ChunkSizes : OpenRefused(size)
    PROVE  ContentInv'
<1> USE DEF ContentInv
<1>1. CASE Change
  <2>1. Types'
    BY <1>1, Constants, SMT DEF Change, Types, Resource, Versions
  <2>2. PlanIsParts' /\ AttemptInPlace'
    BY <1>1 DEF Change, PlanIsParts, AttemptInPlace, PartPlan
  <2> QED
    BY <1>1, <2>1, <2>2, PartUnchanged DEF Change
<1>2. CASE ToggleETag
  <2>1. Types'
    BY <1>2 DEF ToggleETag, Types, Resource
  <2>2. PlanIsParts' /\ AttemptInPlace'
    BY <1>2 DEF ToggleETag, PlanIsParts, AttemptInPlace, PartPlan
  <2> QED
    BY <1>2, <2>1, <2>2, PartUnchanged DEF ToggleETag
<1>3. CASE Probe
  <2>1. Types'
    BY <1>3, Constants DEF Probe, Types, Resource
  <2>2. PlanIsParts' /\ AttemptInPlace'
    BY <1>3 DEF Probe, PlanIsParts, AttemptInPlace
  <2> QED
    BY <1>3, <2>1, <2>2, PartUnchanged DEF Probe
<1>4. CASE AttemptFails
  <2>1. Types'
    BY <1>4 DEF AttemptFails, EndAttempt, NoBody, Types
  <2>2. PlanIsParts' /\ AttemptInPlace'
    BY <1>4 DEF AttemptFails, EndAttempt, PlanIsParts, AttemptInPlace, PartPlan
  <2> QED
    BY <1>4, <2>1, <2>2, PartUnchanged DEF AttemptFails
<1>5. ASSUME \/ Stop \/ \E size \in ChunkSizes : OpenRefused(size)
      PROVE  ContentInv'
  <2>1. EndRun /\ UNCHANGED <<lengths, server, expected, part, area, target>>
    BY <1>5 DEF Stop, OpenRefused
  <2>2. Types'
    BY <2>1, Constants DEF EndRun, NoBody, NoRemote, Types
  <2>3. PlanIsParts' /\ AttemptInPlace'
    BY <2>1 DEF EndRun, PlanIsParts, AttemptInPlace
  <2> QED
    BY <2>1, <2>2, <2>3, PartUnchanged
<1> QED
  BY <1>1, <1>2, <1>3, <1>4, <1>5

\* A part file is made, or found to be of the same plan.
LEMMA InvOpen ==
    ASSUME ContentInv, NEW size \in ChunkSizes, OpenNew(size) \/ OpenExisting(size)
    PROVE  ContentInv'
<1> USE DEF ContentInv
<1> DEFINE n == NormalizeChunkSize(size)
           count == ChunkCountFor(remote.len, n)
<1>0. n \in Nat \ {0} /\ remote.len \in 0 .. Longest /\ remote.etag \in {0} \cup Versions
  BY Constants DEF Types
<1>1. CASE OpenExisting(size)
  <2>1. Types'
    BY <1>1 DEF OpenExisting, Types
  <2>2. PlanIsParts' /\ AttemptInPlace'
    BY <1>1 DEF OpenExisting, Compatible, PlanIsParts, AttemptInPlace, PartPlan
  <2> QED
    BY <1>1, <2>1, <2>2, PartUnchanged DEF OpenExisting
<1>2. CASE OpenNew(size)
  <2>1. /\ part' = [content_len |-> remote.len, chunk_size |-> n, etag |-> remote.etag,
                    bitmap |-> EmptyBitmap(count)]
        /\ plan' = Plan(remote.len, n)
        /\ area' = EmptyArea /\ pc' = "open"
        /\ UNCHANGED <<lengths, server, expected, remote, chunk, body, target>>
    BY <1>2 DEF OpenNew
  <2> HIDE DEF n
  <2>2. count \in Nat
    BY <1>0, Constants, CountBounds
  <2>3. EmptyBitmap(count) \in Bitmaps(count) /\ Complete(EmptyBitmap(count), count) = {}
    BY <2>2, NoneComplete
  <2>4. Types'
    <3>1. EmptyArea \in [Offsets -> Byte \cup {NoByte}]
      BY DEF EmptyArea
    <3> QED
      BY <2>1, <3>1 DEF Types
  <2>5. PartTypes'
    BY <2>1, <2>3, <1>0 DEF PartTypes
  <2>6. PartPlan' = Plan(remote.len, n)
    BY <2>1 DEF PartPlan
  <2>7. PlanIsParts' /\ AttemptInPlace'
    <3>1. part'.chunk_size # NoPart.chunk_size
      BY <2>1, <1>0 DEF NoPart
    <3>2. part' # NoPart
      BY <3>1
    <3> QED
      BY <2>1, <2>6, <3>2 DEF PlanIsParts, AttemptInPlace
  <2>8. CompleteChunks' = {}
    <3>1. (PartPlan').chunk_count = count
      BY <2>6 DEF Plan
    <3> QED
      BY <2>1, <2>3, <3>1 DEF CompleteChunks
  <2>9. ChunksInPlace'
    BY <2>8 DEF ChunksInPlace
  <2>10. SlotsUntouched'
    BY <2>1 DEF SlotsUntouched, EmptyArea
  <2>11. TargetIsExpected' /\ TargetInPlace'
    BY <2>1 DEF TargetIsExpected, TargetInPlace
  <2> QED
    BY <2>4, <2>5, <2>7, <2>9, <2>10, <2>11
<1> QED
  BY <1>1, <1>2

\* A request opens a body at the start of a chunk that is not complete.
LEMMA InvRequest ==
    ASSUME ContentInv, NEW i \in 0 .. Longest, Request(i)
    PROVE  ContentInv'
<1> USE DEF ContentInv
<1>1. part # NoPart /\ plan = PartPlan
  BY DEF Request, PlanIsParts
<1>2. PICK r \in Answers : Accepted(Chunk(plan, i), r)
                           /\ body' = [version |-> server.version, start |-> r.start, written |-> 0]
  BY DEF Request
<1>3. i \in Indexes(PartPlan) /\ ~IsComplete(part.bitmap, i)
  BY <1>1 DEF Request, IncompleteIndices
<1>4. Chunk(PartPlan, i).start \in Nat /\ Chunk(PartPlan, i).len \in Nat
  BY <1>1, <1>3, ChunkIs
<1>5. r.start = Chunk(PartPlan, i).start
  BY <1>1, <1>2 DEF Accepted
<1>6. server.version \in Versions
  BY DEF Types, Resource
<1>7. Types'
  BY <1>2, <1>4, <1>5, <1>6 DEF Request, Types
<1>8. PlanIsParts'
  BY <1>1 DEF Request, PlanIsParts, PartPlan
<1>9. PartPlan' = PartPlan
  BY DEF Request, PartPlan
<1>10. AttemptInPlace'
  <2> DEFINE c == Chunk(PartPlan, i)
  <2>1. body'.version \in Versions /\ body'.start = c.start /\ body'.written = 0
    BY <1>2, <1>5, <1>6
  <2>2. c.start .. c.start + body'.written - 1 = {} /\ body'.written <= c.len
    BY <2>1, <1>4, SMT
  <2>3. chunk' = i /\ part' = part
    BY DEF Request
  <2> HIDE DEF c
  <2> QED
    BY <1>3, <1>9, <2>1, <2>2, <2>3 DEF AttemptInPlace, c
<1> QED
  BY <1>7, <1>8, <1>10, PartUnchanged DEF Request

\* A fragment goes to its offset, within its chunk.
LEMMA InvFragment ==
    ASSUME ContentInv, NEW n \in 1 .. Longest, Fragment(n)
    PROVE  ContentInv'
<1> USE DEF ContentInv
<1> DEFINE c == Chunk(PartPlan, chunk)
           first == c.start + body.written
<1>1. part # NoPart /\ plan = PartPlan /\ pc = "fetching"
  BY DEF Fragment, PlanIsParts
<1>2. /\ chunk \in Indexes(PartPlan) /\ ~IsComplete(part.bitmap, chunk)
      /\ body.version \in Versions /\ body.start = c.start /\ body.written <= c.len
      /\ \A p \in c.start .. c.start + body.written - 1 : area[p] = <<body.version, p>>
  BY <1>1 DEF AttemptInPlace
<1>3. /\ c.start \in Nat /\ c.len \in Nat \ {0} /\ c.start + c.len <= part.content_len
      /\ BytesOf(c) = c.start .. c.start + c.len - 1 /\ BytesOf(c) \subseteq Offsets
      /\ chunk \in Nat
  BY <1>1, <1>2, ChunkIs
<1>4. body.written \in Nat /\ n \in Nat /\ part.content_len \in 0 .. Longest
  BY <1>1, Constants, PartIs DEF Types
<1>5. /\ area' = [p \in Offsets |->
                     IF p \in first .. first + n - 1
                     THEN <<body.version, body.start + body.written + (p - first)>>
                     ELSE area[p]]
      /\ body' = [body EXCEPT !.written = @ + n]
      /\ body.written + n <= c.len
      /\ UNCHANGED <<lengths, server, expected, pc, remote, plan, part, chunk, target>>
  BY <1>1 DEF Fragment
<1>6. /\ body'.written = body.written + n /\ body'.version = body.version
      /\ body'.start = body.start
      /\ body' \in [version : {0} \cup Versions, start : Nat, written : Nat]
  BY <1>4, <1>5 DEF Types
<1>7. PartPlan' = PartPlan
  BY <1>5 DEF PartPlan
<1>8. \A p \in first .. first + n - 1 : p \in BytesOf(c) /\ p \in Nat
                                        /\ body.start + body.written + (p - first) = p
  <2> HIDE DEF c
  <2> QED
    BY <1>2, <1>3, <1>4, <1>5, SMTT(30)
<1>9. \A p \in Offsets : area'[p] = IF p \in first .. first + n - 1 THEN <<body.version, p>> ELSE area[p]
  <2> HIDE DEF first
  <2> QED
    BY <1>5, <1>8
<1>10. Types'
  <2>1. \A p \in first .. first + n - 1 : p \in 0 .. Longest
    <3> HIDE DEF c, first
    <3>1. \A p \in BytesOf(c) : p \in Int /\ p < part.content_len
      BY <1>3, <1>4, SMT
    <3> QED
      BY <3>1, <1>4, <1>8, Constants, SMT
  <2>2. \A p \in Offsets : area'[p] \in Byte \cup {NoByte}
    <3> HIDE DEF first
    <3>1. \A p \in Offsets : area[p] \in Byte \cup {NoByte}
      BY DEF Types
    <3>2. \A p \in first .. first + n - 1 : <<body.version, p>> \in Byte
      BY <1>2, <2>1 DEF Byte
    <3> QED
      BY <1>9, <3>1, <3>2
  <2>3. area' \in [Offsets -> Byte \cup {NoByte}]
    <3>1. area' = [p \in Offsets |-> area'[p]]
      BY <1>5
    <3> QED
      BY <3>1, <2>2
  <2> QED
    BY <1>5, <1>6, <2>3 DEF Types
<1>11. PartTypes' /\ PlanIsParts'
  BY <1>1, <1>5, <1>7 DEF PartTypes, PlanIsParts
<1>12. AttemptInPlace'
  <2>1. \A p \in c.start .. c.start + (body.written + n) - 1 : area'[p] = <<body.version, p>>
    <3> SUFFICES ASSUME NEW p \in c.start .. c.start + (body.written + n) - 1
                 PROVE  area'[p] = <<body.version, p>>
      OBVIOUS
    <3> HIDE DEF c
    <3>1. p \in BytesOf(c) /\ p \in Offsets
      BY <1>3, <1>4, <1>5, SMTT(30)
    <3>2. p \in first .. first + n - 1 \/ p \in c.start .. c.start + body.written - 1
      BY <1>3, <1>4, SMTT(30)
    <3> HIDE DEF first
    <3> QED
      BY <3>1, <3>2, <1>2, <1>9
  <2>2. body'.written <= c.len
    BY <1>5, <1>6
  <2> QED
    BY <1>2, <1>5, <1>6, <1>7, <2>1, <2>2 DEF AttemptInPlace
<1>13. ChunksInPlace'
  <2>1. CompleteChunks' = CompleteChunks
    BY <1>5, <1>7 DEF CompleteChunks
  <2>2. SUFFICES ASSUME NEW i \in CompleteChunks
                 PROVE  \E v \in Versions : \A p \in BytesOf(Chunk(PartPlan, i)) : area'[p] = <<v, p>>
    BY <1>7, <2>1 DEF ChunksInPlace
  <2>3. i \in Indexes(PartPlan) /\ i # chunk
    BY <1>2, CompleteAreIndexes
  <2>4. PICK v \in Versions : \A p \in BytesOf(Chunk(PartPlan, i)) : area[p] = <<v, p>>
    BY <1>1 DEF ChunksInPlace
  <2>5. BytesOf(Chunk(PartPlan, i)) \subseteq Offsets
    BY <1>1, <2>3, ChunkIs
  <2>6. BytesOf(Chunk(PartPlan, i)) \cap BytesOf(c) = {}
    <3>1. part.content_len \in Nat /\ part.chunk_size \in Nat \ {0}
      BY <1>1, Constants, PartIs
    <3> QED
      BY <3>1, <1>2, <2>3, ChunksDisjoint DEF PartPlan
  <2>7. \A p \in BytesOf(Chunk(PartPlan, i)) : area'[p] = area[p]
    <3> HIDE DEF first, c
    <3> QED
      BY <1>8, <1>9, <2>5, <2>6
  <2> QED
    BY <2>4, <2>7
<1>14. SlotsUntouched'
  <2>1. \A p \in first .. first + n - 1 : ~(p >= part.content_len)
    <3> HIDE DEF c, first
    <3>1. \A p \in BytesOf(c) : ~(p >= part.content_len)
      BY <1>3, <1>4, SMT
    <3> QED
      BY <3>1, <1>8
  <2>2. \A p \in Offsets : p >= part.content_len => area'[p] = area[p]
    <3> HIDE DEF first
    <3> QED
      BY <1>9, <2>1
  <2> QED
    BY <1>1, <1>5, <2>2 DEF SlotsUntouched
<1>15. TargetIsExpected' /\ TargetInPlace'
  BY <1>5 DEF TargetIsExpected, TargetInPlace
<1> QED
  BY <1>10, <1>11, <1>12, <1>13, <1>14, <1>15

\* A chunk is marked when its body is all there.
LEMMA InvCommit ==
    ASSUME ContentInv, Commit
    PROVE  ContentInv'
<1> USE DEF ContentInv
<1> DEFINE c == Chunk(PartPlan, chunk)
           count == PartPlan.chunk_count
<1>1. part # NoPart /\ plan = PartPlan /\ pc = "fetching"
  BY DEF Commit, PlanIsParts
<1>2. /\ chunk \in Indexes(PartPlan) /\ body.version \in Versions
      /\ \A p \in c.start .. c.start + body.written - 1 : area[p] = <<body.version, p>>
  BY <1>1 DEF AttemptInPlace
<1>3. BytesOf(c) = c.start .. c.start + c.len - 1 /\ chunk \in Nat /\ chunk < count
  BY <1>1, <1>2, ChunkIs
<1>4. body.written = c.len
  BY <1>1 DEF Commit
<1>5. /\ part.content_len \in 0 .. Longest /\ part.chunk_size \in Nat \ {0}
      /\ part.etag \in {0} \cup Versions /\ part.bitmap \in Bitmaps(count) /\ count \in Nat
      /\ count = ChunkCountFor(part.content_len, part.chunk_size)
      /\ part = [content_len |-> part.content_len, chunk_size |-> part.chunk_size,
                 etag |-> part.etag, bitmap |-> part.bitmap]
  BY <1>1, PartIs
<1> DEFINE marked == MarkComplete(part.bitmap, chunk)
<1>6. part' = [content_len |-> part.content_len, chunk_size |-> part.chunk_size,
               etag |-> part.etag, bitmap |-> marked]
  <2>1. part' = [part EXCEPT !.bitmap = marked]
    BY DEF Commit
  <2> HIDE DEF marked
  <2> QED
    BY <1>5, <2>1
<1>7. marked \in Bitmaps(count)
  <2> HIDE DEF count
  <2> QED
    BY <1>3, <1>5, MarkCompleteMarksOne
<1>8. \A j \in Nat : j < count => (IsComplete(marked, j) <=> j = chunk \/ IsComplete(part.bitmap, j))
  <2> HIDE DEF count
  <2> QED
    BY <1>3, <1>5, MarkCompleteMarksOne
<1>9. PartPlan' = PartPlan
  BY <1>6 DEF PartPlan
<1>10. part' # NoPart
  <2>1. part'.chunk_size # NoPart.chunk_size
    BY <1>5, <1>6 DEF NoPart
  <2> QED
    BY <2>1
<1>11. /\ pc' = "open" /\ body' = NoBody
       /\ UNCHANGED <<lengths, server, expected, remote, plan, area, target>>
  BY DEF Commit, EndAttempt
<1>12. Types'
  BY <1>11 DEF Types, NoBody
<1>13. PartTypes'
  <2> HIDE DEF marked
  <2>1. \E bytes \in Bitmaps(ChunkCountFor(part.content_len, part.chunk_size)) :
           part' = [content_len |-> part.content_len, chunk_size |-> part.chunk_size,
                    etag |-> part.etag, bitmap |-> bytes]
    BY <1>5, <1>6, <1>7
  <2> QED
    BY <1>5, <2>1 DEF PartTypes
<1>14. PlanIsParts' /\ AttemptInPlace'
  BY <1>1, <1>9, <1>10, <1>11 DEF PlanIsParts, AttemptInPlace
<1>15. ChunksInPlace'
  <2>1. SUFFICES ASSUME NEW i \in CompleteChunks'
                 PROVE  \E v \in Versions : \A p \in BytesOf(Chunk(PartPlan, i)) : area[p] = <<v, p>>
    BY <1>9, <1>11 DEF ChunksInPlace
  <2>2. i \in Indexes(PartPlan) /\ IsComplete(marked, i)
    <3>1. CompleteChunks' = {j \in Indexes(PartPlan) : IsComplete(marked, j)}
      BY <1>6, <1>9 DEF CompleteChunks, Complete, Indexes
    <3> QED
      BY <3>1
  <2>3. i \in Nat /\ i < count
    BY <1>1, <2>2, ChunkIs
  <2>4. CASE i = chunk
    <3> HIDE DEF c
    <3>1. \A p \in BytesOf(c) : area[p] = <<body.version, p>>
      BY <1>2, <1>3, <1>4
    <3> QED
      BY <3>1, <1>2, <2>4 DEF c
  <2>5. CASE i # chunk
    <3>1. i \in CompleteChunks
      BY <1>8, <2>2, <2>3, <2>5, CompleteAreIndexes
    <3> QED
      BY <1>1, <3>1 DEF ChunksInPlace
  <2> QED
    BY <2>4, <2>5
<1>16. SlotsUntouched'
  <2>1. part'.content_len = part.content_len
    BY <1>6
  <2> QED
    BY <1>1, <1>11, <2>1 DEF SlotsUntouched
<1>17. TargetIsExpected' /\ TargetInPlace'
  BY <1>11 DEF TargetIsExpected, TargetInPlace
<1> QED
  BY <1>12, <1>13, <1>14, <1>15, <1>16, <1>17

\* A part file becomes the target when every chunk is marked.
LEMMA InvPromote ==
    ASSUME ContentInv, Promote
    PROVE  ContentInv'
<1> USE DEF ContentInv
<1>1. part # NoPart /\ pc = "open"
  BY DEF Promote, PlanIsParts
<1>2. /\ pc' = "closed" /\ remote' = NoRemote /\ body' = NoBody
      /\ target' = [there |-> TRUE, bytes |-> Content]
      /\ part' = NoPart /\ area' = EmptyArea
      /\ UNCHANGED <<lengths, server, expected>>
  BY DEF Promote, EndRun
<1>3. Types'
  <2>1. EmptyArea \in [Offsets -> Byte \cup {NoByte}]
    BY DEF EmptyArea
  <2> QED
    BY <1>2, <2>1, Constants DEF Types, NoRemote, NoBody
<1>4. PartTypes' /\ PlanIsParts' /\ AttemptInPlace' /\ ChunksInPlace' /\ SlotsUntouched'
  BY <1>2 DEF PartTypes, PlanIsParts, AttemptInPlace, ChunksInPlace, SlotsUntouched
<1>5. TargetIsExpected'
  <2>1. SUFFICES ASSUME expected # 0
                 PROVE  /\ DOMAIN Content = {p \in Offsets : p < lengths[expected]}
                        /\ \A p \in DOMAIN Content : Content[p] = <<expected, p>>
    BY <1>2 DEF TargetIsExpected
  <2>2. DOMAIN Content = {p \in Offsets : p < part.content_len}
    BY DEF Content
  <2> QED
    BY <2>1, <2>2 DEF Promote, VerifyHash
<1>6. TargetInPlace'
  <2>1. SUFFICES ASSUME NEW p \in DOMAIN Content
                 PROVE  Content[p][1] # 0 /\ Content[p][2] = p
    BY <1>2 DEF TargetInPlace
  <2>2. p \in Nat /\ p < part.content_len /\ Content[p] = area[p]
    BY Constants, SMT DEF Content, Offsets
  <2>3. part.content_len \in Nat /\ part.chunk_size \in Nat \ {0}
        /\ PartPlan.chunk_count \in Nat
    BY <1>1, Constants, PartIs
  <2>4. PICK i \in Indexes(PartPlan) : p \in BytesOf(Chunk(PartPlan, i))
    BY <2>2, <2>3, ChunksCover DEF PartPlan
  <2>5. i \in Nat /\ i < PartPlan.chunk_count
    BY <1>1, <2>4, ChunkIs
  <2>6. i \in CompleteChunks
    BY <2>3, <2>5, AllCompleteIsEach DEF Promote, CompleteChunks
  <2>7. PICK v \in Versions : \A q \in BytesOf(Chunk(PartPlan, i)) : area[q] = <<v, q>>
    BY <1>1, <2>6 DEF ChunksInPlace
  <2>8. v # 0
    BY SMT DEF Versions
  <2> QED
    BY <2>2, <2>4, <2>7, <2>8
<1> QED
  BY <1>3, <1>4, <1>5, <1>6

\* All of it is kept by every step.
LEMMA InvStep == ContentInv /\ [Next]_vars => ContentInv'
<1> SUFFICES ASSUME ContentInv, [Next]_vars PROVE ContentInv'
  OBVIOUS
<1>1. CASE UNCHANGED vars
  <2>1. Types' /\ PlanIsParts' /\ AttemptInPlace'
    BY <1>1 DEF vars, ContentInv, Types, PlanIsParts, AttemptInPlace, PartPlan
  <2> QED
    BY <1>1, <2>1, PartUnchanged DEF vars, ContentInv
<1>2. CASE Next
  BY <1>2, InvQuiet, InvOpen, InvRequest, InvFragment, InvCommit, InvPromote DEF Next
<1> QED
  BY <1>1, <1>2

\* ContentInv holds in every reachable state.
LEMMA Invariance == Spec => []ContentInv
BY InvInit, InvStep, PTL DEF Spec

-----------------------------------------------------------------------------
\* A chunk of the bitmap is on disk, byte by byte where it belongs and of one
\* version of the resource, for all lengths and chunk sizes and whatever ranges
\* servers answer with (stream_body_to_writer, write_chunk_bytes, commit_chunk).
THEOREM ChunksAlwaysInPlace == Spec => []ChunksInPlace
BY Invariance, PTL DEF ContentInv

\* Writing chunks never reaches the slots behind the content.
THEOREM SlotsNeverTouched == Spec => []SlotsUntouched
BY Invariance, PTL DEF ContentInv

\* With a hash configured, only that content is ever promoted.
THEOREM TargetAlwaysExpected == Spec => []TargetIsExpected
BY Invariance, PTL DEF ContentInv

\* Without one, every byte of a promoted file was received, for its own offset.
THEOREM TargetAlwaysInPlace == Spec => []TargetInPlace
BY Invariance, PTL DEF ContentInv

-----------------------------------------------------------------------------
(* A part file that says its version holds that version.                   *)

\* A fragment leaves the bytes of complete chunks alone.
LEMMA FragmentSparesComplete ==
    ASSUME ContentInv, NEW n \in 1 .. Longest, Fragment(n), NEW i \in CompleteChunks
    PROVE  \A p \in BytesOf(Chunk(PartPlan, i)) : area'[p] = area[p]
<1> USE DEF ContentInv
<1> DEFINE c == Chunk(PartPlan, chunk)
           first == c.start + body.written
<1>1. part # NoPart /\ plan = PartPlan /\ pc = "fetching"
  BY DEF Fragment, PlanIsParts
<1>2. /\ chunk \in Indexes(PartPlan) /\ ~IsComplete(part.bitmap, chunk)
      /\ body.written \in Nat /\ body.written <= c.len
  BY <1>1 DEF AttemptInPlace, Types
<1>3. /\ c.start \in Nat /\ c.len \in Nat \ {0}
      /\ BytesOf(c) = c.start .. c.start + c.len - 1
  BY <1>1, <1>2, ChunkIs
<1>4. /\ body.written + n <= c.len
      /\ \A p \in Offsets : p \notin first .. first + n - 1 => area'[p] = area[p]
  BY <1>1 DEF Fragment
<1>5. first .. first + n - 1 \subseteq BytesOf(c)
  <2> HIDE DEF c
  <2> QED
    BY <1>2, <1>3, <1>4, Constants, SMT
<1>6. i \in Indexes(PartPlan) /\ i # chunk
  BY <1>2, CompleteAreIndexes
<1>7. BytesOf(Chunk(PartPlan, i)) \subseteq Offsets
  BY <1>1, <1>6, ChunkIs
<1>8. BytesOf(Chunk(PartPlan, i)) \cap BytesOf(c) = {}
  <2>1. part.content_len \in Nat /\ part.chunk_size \in Nat \ {0}
    BY <1>1, Constants, PartIs
  <2> QED
    BY <2>1, <1>2, <1>6, ChunksDisjoint DEF PartPlan
<1> HIDE DEF first, c
<1> QED
  BY <1>4, <1>5, <1>7, <1>8

\* A part file that is opened names the version it was begun with.
LEMMA VersionInvOpen ==
    ASSUME ContentInv, VersionInv, NEW size \in ChunkSizes,
           OpenNew(size) \/ OpenExisting(size)
    PROVE  VersionInv'
<1> DEFINE n == NormalizeChunkSize(size)
           count == ChunkCountFor(remote.len, n)
<1>1. CASE OpenExisting(size)
  <2>1. /\ UNCHANGED <<remote, part, area, drift>> /\ pc' = "open"
        /\ ~blind' => ~blind /\ part.etag = remote.etag
    BY <1>1 DEF OpenExisting, Compatible
  <2> QED
    BY <2>1 DEF VersionInv, OneVersion, CompleteChunks, PartPlan
<1>2. CASE OpenNew(size)
  <2>1. n \in Nat \ {0} /\ remote.len \in Nat
    BY Constants DEF ContentInv, Types
  <2>2. /\ pc' = "open" /\ remote' = remote
        /\ part' = [content_len |-> remote.len, chunk_size |-> n, etag |-> remote.etag,
                    bitmap |-> EmptyBitmap(count)]
    BY <1>2 DEF OpenNew
  <2>3. CompleteChunks' = {}
    <3>1. count \in Nat
      BY <2>1, CountBounds
    <3>2. PartPlan'.chunk_count = count
      BY <2>2 DEF PartPlan, Plan
    <3> HIDE DEF count
    <3> QED
      BY <2>2, <3>1, <3>2, NoneComplete DEF CompleteChunks
  <2>4. part'.etag = remote'.etag
    BY <2>2
  <2> QED
    BY <2>2, <2>3, <2>4 DEF VersionInv, OneVersion
<1> QED
  BY <1>1, <1>2

\* A chunk that is committed is of the version of its request.
LEMMA VersionInvCommit ==
    ASSUME ContentInv, VersionInv, Commit
    PROVE  VersionInv'
<1> USE DEF ContentInv
<1> DEFINE c == Chunk(PartPlan, chunk)
           marked == MarkComplete(part.bitmap, chunk)
           count == PartPlan.chunk_count
<1>1. part # NoPart /\ plan = PartPlan /\ pc = "fetching"
  BY DEF Commit, PlanIsParts
<1>2. /\ chunk \in Indexes(PartPlan) /\ body.written = c.len
      /\ \A p \in c.start .. c.start + body.written - 1 : area[p] = <<body.version, p>>
  BY <1>1 DEF AttemptInPlace, Commit
<1>3. BytesOf(c) = c.start .. c.start + c.len - 1 /\ chunk \in Nat /\ chunk < count
  BY <1>1, <1>2, ChunkIs
<1>4. \A p \in BytesOf(c) : area[p][1] = body.version
  <2> HIDE DEF c
  <2> QED
    BY <1>2, <1>3
<1>5. /\ count \in Nat /\ part.bitmap \in Bitmaps(count)
      /\ part = [content_len |-> part.content_len, chunk_size |-> part.chunk_size,
                 etag |-> part.etag, bitmap |-> part.bitmap]
  BY <1>1, PartIs
<1>6. /\ part'.content_len = part.content_len /\ part'.chunk_size = part.chunk_size
      /\ part'.etag = part.etag /\ part'.bitmap = marked
      /\ UNCHANGED <<remote, area, drift, blind>> /\ pc' = "open"
  <2>1. /\ part' = [part EXCEPT !.bitmap = marked]
        /\ UNCHANGED <<remote, area, drift, blind>> /\ pc' = "open"
    BY DEF Commit, EndAttempt
  <2> HIDE DEF marked
  <2> QED
    BY <1>5, <2>1
<1>7. PartPlan' = PartPlan
  BY <1>6 DEF PartPlan
<1>8. \A j \in Nat : j < count => (IsComplete(marked, j) <=> j = chunk \/ IsComplete(part.bitmap, j))
  <2> HIDE DEF count
  <2> QED
    BY <1>3, <1>5, MarkCompleteMarksOne
<1>9. ASSUME NEW i \in CompleteChunks' PROVE i = chunk \/ i \in CompleteChunks
  <2>1. i \in Indexes(PartPlan) /\ IsComplete(marked, i)
    <3>1. CompleteChunks' = {j \in Indexes(PartPlan) : IsComplete(marked, j)}
      BY <1>6, <1>7 DEF CompleteChunks, Complete, Indexes
    <3> QED
      BY <3>1
  <2>2. i \in Nat /\ i < count
    BY <1>1, <2>1, ChunkIs
  <2> QED
    BY <1>8, <2>1, <2>2, CompleteAreIndexes
<1>10. OneVersion'
  <2> SUFFICES ASSUME part'.etag # 0, ~drift', ~blind', NEW i \in CompleteChunks',
                      NEW p \in BytesOf(Chunk(PartPlan, i))
               PROVE  area[p][1] = part.etag
    BY <1>6, <1>7 DEF OneVersion
  <2>1. body.version = part.etag
    BY <1>1, <1>6 DEF VersionInv
  <2>2. CASE i = chunk
    BY <1>4, <2>1, <2>2
  <2>3. CASE i \in CompleteChunks
    BY <1>1, <1>6, <2>3 DEF VersionInv, OneVersion
  <2> QED
    BY <1>9, <2>2, <2>3
<1> QED
  BY <1>1, <1>6, <1>10 DEF VersionInv

\* VersionInv is kept by every step.
LEMMA VersionInvStep == ContentInv /\ VersionInv /\ [Next]_vars => VersionInv'
<1> SUFFICES ASSUME ContentInv, VersionInv, [Next]_vars PROVE VersionInv'
  OBVIOUS
<1>1. ASSUME UNCHANGED <<part, area, drift, blind>>,
             \/ UNCHANGED <<pc, remote, body>>
             \/ pc' \in {"closed", "probed"}
             \/ pc' = "open" /\ remote' = remote /\ pc = "fetching"
      PROVE  VersionInv'
  BY <1>1 DEF VersionInv, OneVersion, CompleteChunks, PartPlan
<1>2. CASE UNCHANGED vars \/ Change \/ ToggleETag \/ Probe \/ AttemptFails \/ Stop
  BY <1>1, <1>2 DEF vars, Change, ToggleETag, Probe, AttemptFails, EndAttempt, Stop, EndRun
<1>3. ASSUME NEW size \in ChunkSizes, OpenRefused(size) PROVE VersionInv'
  BY <1>1, <1>3 DEF OpenRefused, EndRun
<1>4. ASSUME NEW i \in 0 .. Longest, Request(i) PROVE VersionInv'
  <2>1. /\ UNCHANGED <<remote, part, area, blind>> /\ pc' = "fetching" /\ pc = "open"
        /\ drift' = (drift \/ remote.etag \notin {0, server.version})
    BY <1>4 DEF Request
  <2>2. body'.version = server.version
    <3>1. PICK r \in Answers :
              body' = [version |-> server.version, start |-> r.start, written |-> 0]
      BY <1>4 DEF Request
    <3> QED
      BY <3>1
  <2>3. ~drift' => ~drift /\ remote.etag \in {0, server.version}
    BY <2>1
  <2> QED
    BY <2>1, <2>2, <2>3 DEF VersionInv, OneVersion, CompleteChunks, PartPlan
<1>5. ASSUME NEW n \in 1 .. Longest, Fragment(n) PROVE VersionInv'
  <2>1. /\ UNCHANGED <<pc, remote, part, drift, blind>> /\ body'.version = body.version
    BY <1>5 DEF Fragment, ContentInv, Types
  <2>2. CompleteChunks' = CompleteChunks /\ PartPlan' = PartPlan
    BY <2>1 DEF CompleteChunks, PartPlan
  <2>3. \A i \in CompleteChunks : \A p \in BytesOf(Chunk(PartPlan, i)) : area'[p] = area[p]
    BY <1>5, FragmentSparesComplete
  <2> QED
    BY <2>1, <2>2, <2>3 DEF VersionInv, OneVersion
<1>6. CASE Promote
  BY <1>6 DEF Promote, EndRun, VersionInv, OneVersion
<1> QED
  BY <1>2, <1>3, <1>4, <1>5, <1>6, VersionInvOpen, VersionInvCommit DEF Next

\* A part file never resumed blindly, and whose resource never changed between a
\* run's probe and its requests, holds the version its ETag names, however often
\* the resource changed between runs (ensure_compatible).
THEOREM AlwaysOneVersion == Spec => []OneVersion
<1>1. Init => VersionInv
  BY DEF Init, VersionInv, OneVersion
<1>2. VersionInv => OneVersion
  BY DEF VersionInv
<1> QED
  BY <1>1, <1>2, Invariance, VersionInvStep, PTL DEF Spec

-----------------------------------------------------------------------------
(* The progress                                                            *)

\* A chunk of the plan but the last is whole; the last is what is left.
LEMMA LengthOfChunk ==
    ASSUME NEW len \in Nat, NEW size \in Nat \ {0}, NEW i \in Indexes(Plan(len, size))
    PROVE  LET last == ChunkCountFor(len, size) - 1
           IN  Chunk(Plan(len, size), i).len = IF i = last THEN len - last * size ELSE size
<1> DEFINE count == ChunkCountFor(len, size)
           c == Chunk(Plan(len, size), i)
           last == count - 1
<1>1. /\ i \in Nat /\ c.start = i * size /\ c.start \in Nat /\ c.len \in 1 .. size
      /\ c.start + c.len <= len
      /\ c.len = size \/ c.start + c.len = len
  BY ChunkWithinContent
<1>2. i < count /\ count \in Nat
  BY CountBounds DEF Indexes, Plan
<1>3. len <= size * count /\ size * (count - 1) < len
  BY <1>1, <1>2, CountBounds
<1> HIDE DEF count, c
<1>4. size * count = last * size + size /\ size * (count - 1) = last * size /\ last * size \in Int
  BY <1>2, SMT
<1>5. CASE i = last
  <2>1. c.start = last * size
    BY <1>1, <1>5
  <2> HIDE DEF last
  <2>2. c.len = len - last * size
    BY <2>1, <1>1, <1>3, <1>4, SMT
  <2> QED
    BY <2>2, <1>5 DEF c, count, last
<1>6. CASE i # last
  <2>1. size * i + size <= size * last
    BY <1>1, <1>2, <1>6, ProductStep, SMT
  <2>2. size * i = i * size /\ size * last = last * size
    BY <1>1, <1>2, SMT
  <2> HIDE DEF last
  <2>3. c.len = size
    BY <2>1, <2>2, <1>1, <1>3, <1>4, SMT
  <2> QED
    BY <2>3, <1>6 DEF c, count, last
<1> QED
  BY <1>5, <1>6

\* A bit behind the last chunk's is never set: chunks in the last byte come before it.
LEMMA MarkKeepsUnused ==
    ASSUME NEW count \in Nat, NEW bytes \in Bitmaps(count), NEW i \in Nat, i < count,
           UnusedBitsClear(bytes, count)
    PROVE  UnusedBitsClear(MarkComplete(bytes, i), count)
<1> DEFINE q == count \div ByteBits
           r == count % ByteBits
           b == BitmapLen(count) - 1
           ip == i \div ByteBits
           ib == i % ByteBits
<1>1. ByteBits \in Nat \ {0}
  BY SizesAssumption
<1>2. SUFFICES ASSUME r # 0 PROVE MarkComplete(bytes, i)[b] \subseteq 0 .. r - 1
  BY DEF UnusedBitsClear
<1>3. q \in Nat /\ r \in 0 .. ByteBits - 1 /\ count = ByteBits * q + r
  BY <1>1, Division
<1>4. ip \in Nat /\ ib \in 0 .. ByteBits - 1 /\ i = ByteBits * ip + ib
  BY <1>1, Division
<1>5. b = q
  BY <1>1, <1>2, <1>3 DEF BitmapLen, DivCeil
<1>6. ip \in 0 .. BitmapLen(count) - 1
  BY PositionsInBitmap DEF BytePosition
<1>7. bytes[b] \subseteq 0 .. r - 1
  BY <1>2 DEF UnusedBitsClear
<1>8. bytes \in [0 .. b -> SUBSET (0 .. ByteBits - 1)]
  BY DEF Bitmaps
<1>9. MarkComplete(bytes, i) = [bytes EXCEPT ![ip] = @ \cup {ib}]
  BY DEF MarkComplete, BytePosition, BitPosition
<1> HIDE DEF q, r, ip, ib, b
<1>10. ip = q => ib \in 0 .. r - 1
  BY <1>1, <1>3, <1>4, SMT
<1>11. b \in 0 .. b
  BY <1>3, <1>5
<1>12. MarkComplete(bytes, i)[b] = IF ip = b THEN bytes[b] \cup {ib} ELSE bytes[b]
  BY <1>8, <1>9, <1>11
<1> QED
  BY <1>5, <1>7, <1>10, <1>12

\* An empty bitmap has no bit set, and no progress.
LEMMA ProgressOpen ==
    ASSUME ContentInv, NEW size \in ChunkSizes, OpenNew(size)
    PROVE  ProgressExact'
<1> DEFINE n == NormalizeChunkSize(size)
           count == ChunkCountFor(remote.len, n)
           bitmap == EmptyBitmap(count)
<1>1. n \in Nat \ {0} /\ remote.len \in 0 .. Longest
  BY Constants DEF ContentInv, Types
<1>2. part' = [content_len |-> remote.len, chunk_size |-> n, etag |-> remote.etag, bitmap |-> bitmap]
  BY DEF OpenNew
<1>3. count \in Nat
  BY <1>1, Constants, CountBounds
<1>4. Complete(bitmap, count) = {}
  BY <1>3, NoneComplete
<1>5. PartPlan' = [content_len |-> remote.len, chunk_size |-> n, chunk_count |-> count]
  BY <1>2 DEF PartPlan, Plan
<1> HIDE DEF n, count
<1>6. UnusedBitsClear(bitmap, count)
  <2>1. SUFFICES ASSUME count % ByteBits # 0 PROVE bitmap[BitmapLen(count) - 1] = {}
    BY DEF UnusedBitsClear
  <2>2. ByteBits \in Nat \ {0}
    BY SizesAssumption
  <2>3. count \div ByteBits \in Nat /\ count % ByteBits \in Nat
    BY <2>2, <1>3, Division
  <2>4. BitmapLen(count) - 1 \in 0 .. BitmapLen(count) - 1
    BY <2>1, <2>3, SMT DEF BitmapLen, DivCeil
  <2> QED
    BY <2>4 DEF EmptyBitmap
<1>7. CompletedBytes(PartPlan', bitmap) = 0
  <2>1. count # 0 => ~IsComplete(bitmap, count - 1)
    BY <1>3, <1>4, SMT DEF Complete
  <2>2. Cardinality(Complete(bitmap, count) \ {count - 1}) = 0
    BY <1>4, FS_EmptySet
  <2> HIDE DEF bitmap
  <2> QED
    BY <2>1, <2>2, <1>1, <1>3, <1>5, SMT DEF CompletedBytes
<1>8. Cardinality(UNION {BytesOf(Chunk(PartPlan, i)) : i \in CompleteChunks})' = 0
  <2>1. CompleteChunks' = {}
    BY <1>2, <1>4, <1>5 DEF CompleteChunks
  <2>2. UNION {BytesOf(Chunk(PartPlan, i)) : i \in CompleteChunks}' = {}
    BY <2>1
  <2> QED
    BY <2>1, FS_EmptySet
<1> QED
  BY <1>2, <1>5, <1>6, <1>7, <1>8 DEF ProgressExact

\* A commit adds its chunk's length to the progress, and its bytes, which no other chunk
\* has, to those of complete chunks.
LEMMA ProgressCommit ==
    ASSUME ContentInv, ProgressExact, Commit
    PROVE  ProgressExact'
<1> DEFINE count == PartPlan.chunk_count
           size == part.chunk_size
           last == count - 1
           c == Chunk(PartPlan, chunk)
           bytesOf(i) == BytesOf(Chunk(PartPlan, i))
           marked == MarkComplete(part.bitmap, chunk)
           S == CompleteChunks
           bytes == UNION {bytesOf(i) : i \in S}
<1>1. /\ part # NoPart /\ PartTypes /\ chunk \in Indexes(PartPlan)
      /\ ~IsComplete(part.bitmap, chunk)
  BY DEF Commit, ContentInv, PlanIsParts, AttemptInPlace
<1>2. /\ part.content_len \in Nat /\ size \in Nat \ {0}
      /\ part.bitmap \in Bitmaps(count) /\ count \in Nat
      /\ count = ChunkCountFor(part.content_len, size)
      /\ PartPlan = Plan(part.content_len, size)
      /\ PartPlan.content_len = part.content_len /\ PartPlan.chunk_size = size
      /\ part = [content_len |-> part.content_len, chunk_size |-> size,
                 etag |-> part.etag, bitmap |-> part.bitmap]
  BY <1>1, PartIs, Constants, SMT DEF PartPlan
<1>3. /\ chunk \in Nat /\ chunk < count /\ c.start \in Nat /\ c.len \in Nat \ {0}
      /\ bytesOf(chunk) = c.start .. c.start + c.len - 1
  BY <1>1, ChunkIs
<1>4. part' = [content_len |-> part.content_len, chunk_size |-> size,
               etag |-> part.etag, bitmap |-> marked]
  <2>1. part' = [part EXCEPT !.bitmap = marked]
    BY DEF Commit
  <2> HIDE DEF marked
  <2> QED
    BY <1>2, <2>1
<1>5. PartPlan' = PartPlan
  BY <1>4 DEF PartPlan
<1>6. \A j \in Nat : j < count => (IsComplete(marked, j) <=> j = chunk \/ IsComplete(part.bitmap, j))
  <2> HIDE DEF count
  <2> QED
    BY <1>2, <1>3, MarkCompleteMarksOne
<1>7. \A i \in Indexes(PartPlan) : i \in Nat /\ i < count
  BY <1>1, ChunkIs
<1>8. S = {i \in Indexes(PartPlan) : IsComplete(part.bitmap, i)}
      /\ S' = {i \in Indexes(PartPlan) : IsComplete(marked, i)}
      /\ Complete(part.bitmap, count) = S /\ Complete(marked, count) = S'
  BY <1>4, <1>5 DEF CompleteChunks, Complete, Indexes
<1>9. S' = S \cup {chunk} /\ chunk \notin S
  <2> HIDE DEF marked, count
  <2> QED
    BY <1>1, <1>6, <1>7, <1>8
<1>10. UnusedBitsClear(marked, count)
  <2> HIDE DEF count
  <2> QED
    BY <1>1, <1>2, <1>3, MarkKeepsUnused DEF ProgressExact, count
<1>11. IsFiniteSet(S)
  <2>1. S \subseteq 0 .. count
    BY <1>2, <1>7, <1>8
  <2>2. IsFiniteSet(0 .. count)
    <3> HIDE DEF count
    <3>1. 0 \in Int /\ count \in Int
      BY <1>2
    <3> QED
      BY <3>1, FS_Interval
  <2> QED
    BY <2>1, <2>2, FS_Subset
<1>12. CompletedBytes(PartPlan, marked) = CompletedBytes(PartPlan, part.bitmap) + c.len
       /\ CompletedBytes(PartPlan, part.bitmap) \in Int
  <2> DEFINE whole == Cardinality(S \ {last})
             rest == part.content_len - last * size
  <2>1. IsFiniteSet(S \ {last}) /\ whole \in Nat
    BY <1>11, FS_Subset, FS_CardinalityType
  <2>2. count # 0
    BY <1>3
  <2>3. CompletedBytes(PartPlan, part.bitmap)
          = size * whole + IF IsComplete(part.bitmap, last) THEN rest ELSE 0
    BY <1>2, <1>8, <2>2 DEF CompletedBytes
  <2>4. CompletedBytes(PartPlan, marked)
          = size * Cardinality(S' \ {last}) + IF IsComplete(marked, last) THEN rest ELSE 0
    BY <1>2, <1>8, <2>2 DEF CompletedBytes
  <2>5. last \in Nat /\ last < count
    BY <1>2, <2>2
  <2>6. c.len = IF chunk = last THEN rest ELSE size
    BY <1>1, <1>2, LengthOfChunk
  <2>7. size * whole \in Int /\ rest \in Int /\ size * (whole + 1) = size * whole + size
    BY <1>2, <2>1, <2>5, SMT
  <2>8. CASE chunk = last
    <3>1. S' \ {last} = S \ {last}
      BY <1>9, <2>8
    <3>2. IsComplete(marked, last) /\ ~IsComplete(part.bitmap, last)
      BY <1>1, <1>6, <2>5, <2>8
    <3>3. Cardinality(S' \ {last}) = whole
      BY <3>1
    <3>4. c.len = rest
      BY <2>6, <2>8
    <3>5. CompletedBytes(PartPlan, marked) = size * whole + rest
      BY <3>2, <3>3, <2>4
    <3>6. CompletedBytes(PartPlan, part.bitmap) = size * whole + 0
      BY <3>2, <2>3
    <3> HIDE DEF c, marked, whole, rest, last, count, size
    <3> QED
      BY <3>4, <3>5, <3>6, <2>7, SMT
  <2>9. CASE chunk # last
    <3>1. S' \ {last} = (S \ {last}) \cup {chunk} /\ chunk \notin S \ {last}
      BY <1>9, <2>9
    <3>2. Cardinality(S' \ {last}) = whole + 1
      BY <3>1, <2>1, FS_AddElement
    <3>3. IsComplete(marked, last) <=> IsComplete(part.bitmap, last)
      BY <1>6, <2>5, <2>9
    <3>4. c.len = size
      BY <2>6, <2>9
    <3> DEFINE more == IF IsComplete(part.bitmap, last) THEN rest ELSE 0
    <3>5. more \in Int
      BY <2>7
    <3>6. CompletedBytes(PartPlan, marked) = size * (whole + 1) + more
      BY <3>2, <3>3, <2>4
    <3>7. CompletedBytes(PartPlan, part.bitmap) = size * whole + more
      BY <2>3
    <3> HIDE DEF c, marked, whole, rest, last, count, size, more
    <3> QED
      BY <1>2, <3>4, <3>5, <3>6, <3>7, <2>7, SMT
  <2> QED
    BY <2>8, <2>9
<1>13. Cardinality(UNION {bytesOf(i) : i \in S'}) = Cardinality(bytes) + c.len
  <2>1. UNION {bytesOf(i) : i \in S'} = bytes \cup bytesOf(chunk)
    BY <1>9
  <2>2. bytes \cap bytesOf(chunk) = {}
    <3>1. \A i \in S : bytesOf(i) \cap bytesOf(chunk) = {}
      BY <1>1, <1>2, <1>8, <1>9, ChunksDisjoint
    <3> QED
      BY <3>1
  <2>3. bytes \subseteq Offsets /\ bytesOf(chunk) \subseteq Offsets
    BY <1>1, <1>8, ChunkIs
  <2>4. IsFiniteSet(Offsets)
    BY Constants, FS_Interval DEF Offsets
  <2>5. IsFiniteSet(bytes) /\ IsFiniteSet(bytesOf(chunk))
    BY <2>3, <2>4, FS_Subset
  <2>6. Cardinality(bytesOf(chunk)) = c.len
    <3> HIDE DEF c, bytesOf
    <3>1. c.start \in Int /\ c.start + c.len - 1 \in Int /\ ~(c.start > c.start + c.len - 1)
          /\ (c.start + c.len - 1) - c.start + 1 = c.len
      BY <1>3, SMT
    <3>2. Cardinality(c.start .. c.start + c.len - 1) = c.len
      BY <3>1, FS_Interval
    <3> QED
      BY <3>2, <1>3
  <2>7. Cardinality(bytes \cup bytesOf(chunk)) = Cardinality(bytes) + Cardinality(bytesOf(chunk))
    <3> HIDE DEF bytes, bytesOf
    <3>1. Cardinality(bytes \cap bytesOf(chunk)) = 0
      BY <2>2, FS_EmptySet
    <3>2. Cardinality(bytes) \in Nat /\ Cardinality(bytesOf(chunk)) \in Nat
      BY <2>5, FS_CardinalityType
    <3>3. Cardinality(bytes \cup bytesOf(chunk))
            = Cardinality(bytes) + Cardinality(bytesOf(chunk)) - Cardinality(bytes \cap bytesOf(chunk))
      BY <2>5, FS_Union
    <3> QED
      BY <3>1, <3>2, <3>3
  <2> QED
    BY <2>1, <2>6, <2>7
<1>14. CompletedBytes(PartPlan, part.bitmap) = Cardinality(bytes)
  BY <1>1 DEF ProgressExact
<1>15. part'.bitmap = marked
  BY <1>4
<1> QED
  BY <1>5, <1>10, <1>12, <1>13, <1>14, <1>15 DEF ProgressExact

\* decode_slot accepts every bitmap that is written, and completed_bytes is the number of
\* bytes in the complete chunks, for all lengths and chunk sizes.
THEOREM ProgressAlwaysExact == Spec => []ProgressExact
<1>1. Init => ProgressExact
  BY DEF Init, ProgressExact
<1>2. ContentInv /\ ProgressExact /\ [Next]_vars => ProgressExact'
  <2>1. ASSUME ProgressExact, part' = part \/ part' = NoPart PROVE ProgressExact'
    BY <2>1 DEF ProgressExact, CompleteChunks, PartPlan
  <2> QED
    BY <2>1, ProgressOpen, ProgressCommit DEF Next, vars, Change, ToggleETag, Probe, OpenExisting,
       OpenRefused, Request, Fragment, AttemptFails, Stop, Promote
<1> QED
  BY <1>1, <1>2, Invariance, PTL DEF Spec
=============================================================================
