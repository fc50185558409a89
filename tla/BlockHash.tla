------------------------------ MODULE BlockHash ------------------------------
(***************************************************************************)
(* The SHA-1 and MD5 hashers of takanawa-core hash.rs up to their          *)
(* compression functions: how a stream of slices becomes blocks, and how   *)
(* the last ones are padded.  A digest depends on nothing but the blocks   *)
(* compressed, in their order.  verify_hash feeds the content of the part  *)
(* file a buffer at a time.                                                *)
(***************************************************************************)
EXTENDS Integers, SequencesExt

CONSTANTS
    Block,       \* bytes of a block, 64 in the code
    LengthBytes, \* bytes of the length at the end, 8 in the code
    ReadSizes,   \* sizes of the read buffer, 1 MiB in the code
    MaxLen       \* bound on the content's length

ASSUME BlockAssumption ==
    /\ {Block, LengthBytes} \subseteq Nat \ {0} /\ LengthBytes < Block
    /\ ReadSizes \subseteq Nat \ {0}
    /\ MaxLen \in Nat

VARIABLES
    contentLen, \* content_len
    readSize,   \* the buffer verify_hash reads into
    bigEndian,  \* SHA-1 ends with the length big-endian, MD5 little-endian
    fed,        \* content bytes given to the hasher so far
    hasher,     \* [len, buffer, buffer_len, compressed], the last a history
    finalized

blockVars == <<contentLen, readSize, bigEndian, fed, hasher, finalized>>

\* The i-th byte is like no other but the 0x80 of the padding, which is 128.
Content(n) == [i \in 1 .. n |-> i]
Zeros(n) == [i \in 1 .. n |-> 0]

BlockInit ==
    /\ contentLen \in 0 .. MaxLen
    /\ readSize \in ReadSizes
    /\ bigEndian \in BOOLEAN
    /\ fed = 0
    /\ hasher = [len |-> 0, buffer |-> Zeros(Block), buffer_len |-> 0, compressed |-> <<>>]
    /\ finalized = FALSE

-----------------------------------------------------------------------------

Least(a, b) == IF a < b THEN a ELSE b

\* bytes over the buffer, behind its first at bytes; what was there stays behind them.
CopyTo(buffer, at, bytes) ==
    [i \in 1 .. Block |-> IF i - at \in DOMAIN bytes THEN bytes[i - at] ELSE buffer[i]]

\* update: what is buffered is completed to a block first, whole blocks are taken
\* from the slice, and the rest is buffered.
Update(h, bytes) ==
    LET take == IF h.buffer_len > 0 THEN Least(Block - h.buffer_len, Len(bytes)) ELSE 0
        topped == CopyTo(h.buffer, h.buffer_len, SubSeq(bytes, 1, take))
        full == h.buffer_len + take = Block
        rest == SubSeq(bytes, take + 1, Len(bytes))
        whole == Block * (Len(rest) \div Block)
        remainder == SubSeq(rest, whole + 1, Len(rest))
    IN  [len |-> h.len + Len(bytes),
         buffer |-> CopyTo(topped, 0, remainder),
         buffer_len |-> IF remainder # <<>> THEN Len(remainder)
                        ELSE IF full THEN 0 ELSE h.buffer_len + take,
         compressed |-> h.compressed \o (IF full THEN topped ELSE <<>>) \o SubSeq(rest, 1, whole)]

\* to_be_bytes or to_le_bytes of the length in bits.
LengthField(bits) ==
    LET byte(i) == (bits \div 256 ^ i) % 256
    IN  [i \in 1 .. LengthBytes |-> IF bigEndian THEN byte(LengthBytes - i) ELSE byte(i - 1)]

\* Mutant: a length that just has no room is put behind its mark all the same.
PadLenShort(h) ==
    IF h.buffer_len <= Block - LengthBytes THEN Block - LengthBytes - h.buffer_len
                                           ELSE 2 * Block - LengthBytes - h.buffer_len

\* How much padding, its mark included, leaves room for the length only.
PadLen(h) ==
    IF h.buffer_len < Block - LengthBytes THEN Block - LengthBytes - h.buffer_len
                                          ELSE 2 * Block - LengthBytes - h.buffer_len

\* update_padding_be: the length is the one before the padding.
Padded(h) ==
    Update(Update(h, SubSeq(<<128>> \o Zeros(2 * Block), 1, PadLen(h))), LengthField(8 * h.len))

\* verify_hash reads and feeds one buffer.
Feed ==
    /\ ~finalized /\ fed < contentLen
    /\ fed' = Least(fed + readSize, contentLen)
    /\ hasher' = Update(hasher, SubSeq(Content(contentLen), fed + 1, fed'))
    /\ UNCHANGED <<contentLen, readSize, bigEndian, finalized>>

FinalizeDigest ==
    /\ ~finalized /\ fed = contentLen
    /\ hasher' = Padded(hasher)
    /\ finalized' = TRUE
    /\ UNCHANGED <<contentLen, readSize, bigEndian, fed>>

BlockNext == Feed \/ FinalizeDigest

BlockSpec == BlockInit /\ [][BlockNext]_blockVars

-----------------------------------------------------------------------------
(* Properties                                                              *)

\* The padded message of the standards: the content, 0x80, as few zeros as fill the
\* last block, and the content's length in bits.
Message(n) ==
    LET zeros == CHOOSE z \in 0 .. Block - 1 : (n + 1 + z + LengthBytes) % Block = 0
    IN  Content(n) \o <<128>> \o Zeros(zeros) \o LengthField(8 * n)

\* Whatever slices the content comes in, and however its length lies to the blocks,
\* the blocks compressed are those of the padded message, and before that the blocks
\* and the buffer are the content fed so far, without loss or repetition.
BlocksOfMessage ==
    IF finalized
    THEN hasher.compressed = Message(contentLen) /\ hasher.buffer_len = 0
    ELSE hasher.compressed \o SubSeq(hasher.buffer, 1, hasher.buffer_len) = Content(fed)

\* What makes it inductive: the hasher's length is what was fed, and the blocks compressed
\* are whole.
BlockInv ==
    /\ contentLen \in Nat /\ readSize \in Nat \ {0} /\ fed \in 0 .. contentLen
    /\ ~finalized =>
           /\ hasher \in [len : {fed}, buffer : [1 .. Block -> Nat], buffer_len : 0 .. Block - 1,
                         compressed : Seq(Nat)]
           /\ Len(hasher.compressed) % Block = 0
    /\ BlocksOfMessage
=============================================================================
