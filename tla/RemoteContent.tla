--------------------------- MODULE RemoteContent ---------------------------
(***************************************************************************)
(* Which bytes of which version of a resource end up where in the part     *)
(* file.  A run probes the resource, opens the part file or refuses it,    *)
(* fetches chunks by range and commits them (takanawa-http downloader.rs,  *)
(* content_range.rs; takanawa-core metadata.rs, part_file.rs), while the   *)
(* resource may change and the server answer with other ranges than it was *)
(* asked for.  Runs end anywhere and are followed by others, perhaps with  *)
(* another chunk size.                                                     *)
(*                                                                         *)
(* One request is under way at a time: chunks are fetched independently of *)
(* each other, and how their tasks interleave is DownloadEngine's subject. *)
(* What a crash does to the part file is PartFile's.                       *)
(***************************************************************************)
EXTENDS ChunkPlan

CONSTANTS
    Lengths,     \* content lengths the resource may have
    Longest,     \* bound on them
    ChunkSizes,  \* chunk sizes callers configure, 0 for the default
    MaxVersions  \* bound on the versions of the resource

ASSUME LengthsAssumption ==
    /\ Longest \in Nat /\ Lengths \subseteq 0 .. Longest
    /\ ChunkSizes \subseteq AcceptedSizes
ASSUME VersionsAssumption == MaxVersions \in Nat \ {0}

VARIABLES
    lengths,  \* the content length of each version of the resource
    server,   \* the version that is served, and the ETag it is served with
    expected, \* HashConfig: the version whose hash is configured, or 0 for none
    pc,       \* where run_download stands
    remote,   \* RemoteInfo of this run's probe
    plan,     \* run_download's ChunkPlan: the probe's length, the configured size
    part,     \* the part file's metadata, or NoPart
    area,     \* the part file's content area: per offset, the byte that is there
    chunk,    \* the chunk being fetched
    body,     \* its response: the version it is of, where it starts, what is written
    target,   \* whether the target is there, and its bytes
    drift,    \* history: a request was answered from another version than the probe
    blind     \* history: a part was resumed though an ETag to compare was missing

vars == <<lengths, server, expected, pc, remote, plan, part, area, chunk, body, target, drift, blind>>

Versions == 1 .. MaxVersions
Offsets == 0 .. Longest + 1

\* A byte of the content area: the version and offset it was read from.
NoByte == <<0, 0>>
Byte == Versions \X (0 .. Longest)
EmptyArea == [p \in Offsets |-> NoByte]
NoPart == [content_len |-> 0, chunk_size |-> 0, etag |-> 0, bitmap |-> EmptyBitmap(0)]
NoTarget == [there |-> FALSE, bytes |-> EmptyArea]

Resource == [version : Versions, etag : {0} \cup Versions]
NoRemote == [len |-> 0, etag |-> 0]
NoBody == [version |-> 0, start |-> 0, written |-> 0]
NoPlan == Plan(0, DefaultChunkSize)

PartPlan == Plan(part.content_len, part.chunk_size)

Init ==
    /\ lengths \in [Versions -> Lengths]
    /\ server \in {r \in Resource : r.version = 1 /\ r.etag \in {0, 1}}
    /\ expected \in {0} \cup Versions
    /\ pc = "closed" /\ remote = NoRemote /\ plan = NoPlan
    /\ part = NoPart /\ area = EmptyArea
    /\ chunk = 0 /\ body = NoBody
    /\ target = NoTarget
    /\ drift = FALSE /\ blind = FALSE

\* A run's variables go with it, an attempt's with the attempt.
EndRun ==
    /\ pc' = "closed"
    /\ remote' = NoRemote /\ plan' = NoPlan
    /\ chunk' = 0 /\ body' = NoBody

EndAttempt ==
    /\ pc' = "open"
    /\ chunk' = 0 /\ body' = NoBody

-----------------------------------------------------------------------------
(* The resource                                                            *)

Change ==
    /\ server.version < MaxVersions
    /\ server' = [version |-> server.version + 1,
                  etag    |-> IF server.etag = 0 THEN 0 ELSE server.version + 1]
    /\ UNCHANGED <<lengths, expected, pc, remote, plan, part, area, chunk, body, target, drift, blind>>

\* Another host of the same resource sends an ETag, or none.
ToggleETag ==
    /\ server' = [server EXCEPT !.etag = IF @ = 0 THEN server.version ELSE 0]
    /\ UNCHANGED <<lengths, expected, pc, remote, plan, part, area, chunk, body, target, drift, blind>>

-----------------------------------------------------------------------------
(* A run                                                                   *)

\* probe_once: one byte is asked for; its Content-Range tells the length, and
\* so does the refusal of a range of an empty resource.
Probe ==
    /\ pc = "closed"
    /\ remote' = [len |-> lengths[server.version], etag |-> server.etag]
    /\ pc' = "probed"
    /\ UNCHANGED <<lengths, server, expected, plan, part, area, chunk, body, target, drift, blind>>

\* Mutant: the ETag is not compared.
CompatibleAnyETag(size) ==
    /\ part.content_len = remote.len
    /\ part.chunk_size = size

\* ensure_compatible.  Validators are compared only if both sides have one; the
\* ETag stands for Last-Modified too, which is compared in the same way.  The URL
\* and the hash configuration are the handle's own.
Compatible(size) ==
    /\ part.content_len = remote.len
    /\ (part.etag # 0 /\ remote.etag # 0 => part.etag = remote.etag)
    /\ part.chunk_size = size

OpenNew(size) ==
    /\ pc = "probed"
    /\ ~target.there
    /\ part = NoPart
    /\ LET n == NormalizeChunkSize(size)
       IN  /\ Fits(remote.len, n)
           /\ plan' = Plan(remote.len, n)
           /\ part' = [content_len |-> remote.len, chunk_size |-> n, etag |-> remote.etag,
                       bitmap |-> EmptyBitmap(ChunkCountFor(remote.len, n))]
    /\ area' = EmptyArea
    /\ drift' = FALSE /\ blind' = FALSE
    /\ pc' = "open"
    /\ UNCHANGED <<lengths, server, expected, remote, chunk, body, target>>

OpenExisting(size) ==
    /\ pc = "probed"
    /\ ~target.there
    /\ part # NoPart
    /\ LET n == NormalizeChunkSize(size)
       IN  /\ PartLen(part.content_len, part.chunk_size) = PartLen(remote.len, n)
           /\ Compatible(n)
           /\ plan' = Plan(remote.len, n)
    /\ blind' = (blind \/ part.etag = 0 \/ remote.etag = 0)
    /\ pc' = "open"
    /\ UNCHANGED <<lengths, server, expected, remote, part, area, chunk, body, target, drift>>

\* TargetExists, PartSizeMismatch, RemoteChanged, or a length that does not fit.
OpenRefused(size) ==
    /\ pc = "probed"
    /\ LET n == NormalizeChunkSize(size)
       IN  \/ target.there
           \/ part = NoPart /\ ~Fits(remote.len, n)
           \/ part # NoPart /\ ~(/\ PartLen(part.content_len, part.chunk_size) = PartLen(remote.len, n)
                                 /\ Compatible(n))
    /\ EndRun
    /\ UNCHANGED <<lengths, server, expected, part, area, target, drift, blind>>

-----------------------------------------------------------------------------
(* A chunk                                                                 *)

\* What a server may answer: some range of its resource, under that range.
Answers == {r \in [start : 0 .. Longest, end : 0 .. Longest, total : {lengths[server.version]}] :
               r.start <= r.end /\ r.end < r.total}

\* Mutant: a range is taken for the one asked for if it has its length.
AcceptedByLength(c, r) == r.end - r.start + 1 = c.len

\* validate_status, parse_content_range, response_content_range and the
\* comparison of Content-Length: an answer of exactly the range asked for.
Accepted(c, r) ==
    /\ r.start <= r.end /\ r.end < r.total
    /\ r.start = c.start /\ r.end = c.end
    /\ r.end - r.start + 1 = c.len

\* fetch_chunk_once of an incomplete chunk, with its headers accepted.
Request(i) ==
    /\ pc = "open"
    /\ i \in IncompleteIndices(part.bitmap, PartPlan.chunk_count) \cap Indexes(plan)
    /\ \E r \in Answers :
          /\ Accepted(Chunk(plan, i), r)
          /\ body' = [version |-> server.version, start |-> r.start, written |-> 0]
    /\ chunk' = i
    /\ pc' = "fetching"
    /\ drift' = (drift \/ remote.etag \notin {0, server.version})
    /\ UNCHANGED <<lengths, server, expected, remote, plan, part, area, target, blind>>

\* Mutant: a body is taken for as long as it goes on.
FragmentUnbounded(n) ==
    /\ pc = "fetching"
    /\ LET first == Chunk(PartPlan, chunk).start + body.written
       IN  area' = [p \in Offsets |->
                       IF p \in first .. first + n - 1
                       THEN <<body.version, body.start + body.written + (p - first)>>
                       ELSE area[p]]
    /\ body' = [body EXCEPT !.written = @ + n]
    /\ UNCHANGED <<lengths, server, expected, pc, remote, plan, part, chunk, target, drift, blind>>

\* stream_body_to_writer and write_chunk_bytes: a fragment of the body goes to
\* its place in the chunk, as the part file's own metadata places chunks.
Fragment(n) ==
    /\ pc = "fetching"
    /\ body.written + n <= Chunk(plan, chunk).len
    /\ body.written + n <= Chunk(PartPlan, chunk).len
    /\ LET first == Chunk(PartPlan, chunk).start + body.written
       IN  area' = [p \in Offsets |->
                       IF p \in first .. first + n - 1
                       THEN <<body.version, body.start + body.written + (p - first)>>
                       ELSE area[p]]
    /\ body' = [body EXCEPT !.written = @ + n]
    /\ UNCHANGED <<lengths, server, expected, pc, remote, plan, part, chunk, target, drift, blind>>

\* The body has ended, whole, and its chunk is committed.
Commit ==
    /\ pc = "fetching"
    /\ body.written = Chunk(plan, chunk).len
    /\ part' = [part EXCEPT !.bitmap = MarkComplete(@, chunk)]
    /\ EndAttempt
    /\ UNCHANGED <<lengths, server, expected, remote, plan, area, target, drift, blind>>

\* The connection breaks or the body is too short: the attempt is made again.
AttemptFails ==
    /\ pc = "fetching"
    /\ EndAttempt
    /\ UNCHANGED <<lengths, server, expected, remote, plan, part, area, target, drift, blind>>

\* The run ends: the hash did not match, a response was not acceptable,
\* attempts are used up, or it was paused, cancelled or killed.
Stop ==
    /\ pc # "closed"
    /\ EndRun
    /\ UNCHANGED <<lengths, server, expected, part, area, target, drift, blind>>

-----------------------------------------------------------------------------
(* The end                                                                 *)

Content == [p \in {q \in Offsets : q < part.content_len} |-> area[p]]

\* Mutant: only the first read of the file is hashed.
VerifyHashOnce == expected # 0 /\ part.content_len > 0 => Content[0] = <<expected, 0>>

\* The content has the configured hash: it is that version of the resource.
VerifyHash ==
    expected # 0 =>
       /\ part.content_len = lengths[expected]
       /\ \A p \in DOMAIN Content : Content[p] = <<expected, p>>

Promote ==
    /\ pc = "open"
    /\ AllComplete(part.bitmap, PartPlan.chunk_count)
    /\ VerifyHash
    /\ EndRun
    /\ target' = [there |-> TRUE, bytes |-> Content]
    /\ part' = NoPart /\ area' = EmptyArea
    /\ UNCHANGED <<lengths, server, expected, drift, blind>>

-----------------------------------------------------------------------------
Next ==
    \/ Change \/ ToggleETag
    \/ Probe
    \/ \E size \in ChunkSizes : OpenNew(size) \/ OpenExisting(size) \/ OpenRefused(size)
    \/ \E i \in 0 .. Longest : Request(i)
    \/ \E n \in 1 .. Longest : Fragment(n)
    \/ Commit \/ AttemptFails \/ Stop \/ Promote

Spec == Init /\ [][Next]_vars

-----------------------------------------------------------------------------
(* Properties                                                              *)

CompleteChunks == Complete(part.bitmap, PartPlan.chunk_count)

\* Every byte of a complete chunk is a byte of the resource at that very offset,
\* and all bytes of the chunk are of one version: whatever ranges servers answer
\* with, attempts that broke off wrote, and chunk sizes callers ask for.
ChunksInPlace ==
    part # NoPart =>
        \A i \in CompleteChunks :
            LET bytes == BytesOf(Chunk(PartPlan, i))
            IN  \E v \in Versions : \A p \in bytes : area[p] = <<v, p>>

\* No byte is written where the part file keeps its slots.
SlotsUntouched == part # NoPart => \A p \in Offsets : p >= part.content_len => area[p] = NoByte

\* The bitmap is one that decode_slot accepts, and the progress counts exactly the
\* bytes of the complete chunks.
ProgressExact ==
    part # NoPart =>
        /\ UnusedBitsClear(part.bitmap, PartPlan.chunk_count)
        /\ CompletedBytes(PartPlan, part.bitmap)
            = Cardinality(UNION {BytesOf(Chunk(PartPlan, i)) : i \in CompleteChunks})

\* A part file that was never resumed without an ETag to compare, and whose
\* resource never changed between a run's probe and its requests, holds the one
\* version its metadata names: changes between runs are noticed.
OneVersion ==
    part # NoPart /\ part.etag # 0 /\ ~drift /\ ~blind =>
        \A i \in CompleteChunks : \A p \in BytesOf(Chunk(PartPlan, i)) : area[p][1] = part.etag

\* What makes it inductive: such a part file's run probed the version its metadata
\* names, and so did the response it reads.
VersionInv ==
    /\ part # NoPart /\ part.etag # 0 /\ ~drift /\ ~blind =>
          /\ pc \in {"open", "fetching"} => remote.etag = part.etag
          /\ pc = "fetching" => body.version = part.etag
    /\ OneVersion

\* With a hash configured, a target is the whole of the version it belongs to,
\* however the resource changed under the download.
TargetIsExpected ==
    target.there /\ expected # 0 =>
        /\ DOMAIN target.bytes = {p \in Offsets : p < lengths[expected]}
        /\ \A p \in DOMAIN target.bytes : target.bytes[p] = <<expected, p>>

\* Without one, a target still has no byte missing or in the wrong place.
TargetInPlace ==
    target.there => \A p \in DOMAIN target.bytes :
                        target.bytes[p][1] # 0 /\ target.bytes[p][2] = p
=============================================================================
