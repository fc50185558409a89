------------------------------ MODULE HashOption ------------------------------
(***************************************************************************)
(* The digest a caller asks for, from the options of the binding it uses   *)
(* to the verification that honours them.  Every binding makes a           *)
(* HashConfig of its own form of the option, or refuses it; the first      *)
(* caller's is encoded in the part file; a later caller's is compared with *)
(* what is decoded, since verify_hash uses what is stored.  What else the  *)
(* metadata holds is in RemoteContent; that one caller at a time has the   *)
(* part file open is in PartLock.                                          *)
(*                                                                         *)
(* A text is the hexadecimal of a digest, perhaps behind the name of an    *)
(* algorithm and a colon; a digest stands for the content it is of.        *)
(***************************************************************************)
EXTENDS Integers, FiniteSets

CONSTANTS
    Askers,   \* callers, in any process, of one target
    Kinds,    \* the algorithms they ask for
    Contents, \* what the resource may be, from run to run
    Garbage,  \* in place of a digest: not hexadecimal
    Nothing

ASSUME OptionAssumption ==
    /\ Kinds \subseteq {"sha1", "sha256", "sha512", "md5", "crc32"}
    /\ Garbage \notin Contents

VARIABLES
    caller, \* per caller: where it is, its configuration, the requirements it
            \* stated (a history), and the content it was told is complete
    slot,   \* the hash fields of the part file's slot, or NoSlot
    promoted \* the content of the target, or Nothing

optionVars == <<caller, slot, promoted>>

NoSlot == [code |-> -1, len |-> 0, value |-> Nothing]

\* HashConfig.
NoHash == [kind |-> "none", value |-> Nothing]
Hash(k, value) == [kind |-> k, value |-> value]
Refused == Hash("refused", Nothing)

\* HashKind::expected_len.
ExpectedLen(k) ==
    CASE k = "none" -> 0 [] k = "sha1" -> 20 [] k = "sha256" -> 32
      [] k = "sha512" -> 64 [] k = "md5" -> 16 [] k = "crc32" -> 4

\* HashKind as the number in a slot and in the C ABI.
Code(k) ==
    CASE k = "none" -> 0 [] k = "sha256" -> 1 [] k = "sha1" -> 2
      [] k = "sha512" -> 3 [] k = "md5" -> 4 [] k = "crc32" -> 5

\* from_u32.
FromCode(code) ==
    CASE code = 0 -> "none" [] code = 1 -> "sha256" [] code = 2 -> "sha1"
      [] code = 3 -> "sha512" [] code = 4 -> "md5" [] code = 5 -> "crc32"
      [] OTHER -> "refused"

\* from_expected_bytes, for len bytes with that value.
FromExpectedBytes(k, len, value) ==
    IF k = "refused" \/ len # ExpectedLen(k) THEN Refused
    ELSE IF k = "none" THEN NoHash ELSE Hash(k, value)

-----------------------------------------------------------------------------
(* The options                                                             *)

Texts == [prefix : Kinds \cup {"none"}, of : Kinds, value : Contents \cup {Garbage}]
Names == Kinds \cup {"unknown"}

\* The options hash and sha256 of Node, Tauri and Godot; either may be missing.
StringOptions ==
    [hash : [kind : Names, expected : Texts] \cup {Nothing}, sha256 : Texts \cup {Nothing}]

\* A prefix is stripped when it names the algorithm asked for.
Stripped(k, text) == IF text.prefix = k THEN [text EXCEPT !.prefix = "none"] ELSE text

\* hash_config_from_parts: as many hexadecimal digits as the digest has.
HashConfigFromParts(k, text) ==
    LET normalized == Stripped(k, text)
    IN  IF normalized.prefix # "none" \/ text.value = Garbage THEN Refused
        ELSE FromExpectedBytes(k, ExpectedLen(text.of), text.value)

\* hash_config: one of the two options at most.
HashConfig(o) ==
    CASE o.hash = Nothing /\ o.sha256 = Nothing -> NoHash
      [] o.hash = Nothing /\ o.sha256 # Nothing -> HashConfigFromParts("sha256", o.sha256)
      [] o.hash # Nothing /\ o.sha256 = Nothing ->
             IF o.hash.kind \in Kinds THEN HashConfigFromParts(o.hash.kind, o.hash.expected)
                                      ELSE Refused
      [] OTHER -> Refused

\* What the options say to a reader.
Wanted(o) ==
    (IF o.hash = Nothing THEN {} ELSE {Hash(o.hash.kind, o.hash.expected.value)})
        \cup (IF o.sha256 = Nothing THEN {} ELSE {Hash("sha256", o.sha256.value)})

OptionInit ==
    /\ caller = [c \in Askers |-> [at |-> "idle", config |-> NoHash, wanted |-> {}, got |-> Nothing]]
    /\ slot = NoSlot
    /\ promoted = Nothing

\* What a binding makes of options: a configuration, or no handle.
Configured(c, outcome) ==
    /\ caller[c].at # "open"
    /\ caller' = [caller EXCEPT ![c] =
            IF outcome.config = Refused
            THEN [at |-> "idle", config |-> NoHash, wanted |-> {}, got |-> Nothing]
            ELSE [at |-> "configured", config |-> outcome.config, wanted |-> outcome.wanted,
                  got |-> Nothing]]
    /\ UNCHANGED <<slot, promoted>>

Outcome(config, wanted) == [config |-> config, wanted |-> IF config = Refused THEN {} ELSE wanted]
StringOutcomes == {Outcome(HashConfig(o), Wanted(o)) : o \in StringOptions}

\* Options whose other fields do not parse are refused with the right hash, too.
NodeConfigure(c) ==
    \E outcome \in StringOutcomes \cup {Outcome(Refused, {})} : Configured(c, outcome)

TauriConfigure(c) ==
    \E outcome \in StringOutcomes \cup {Outcome(Refused, {})} : Configured(c, outcome)

\* The options of Godot are a Dictionary of any values: url, target path and the
\* two fields of a hash are required, and a hash of another type is refused.
GodotConfigure(c) ==
    \E outcome \in StringOutcomes \cup {Outcome(Refused, {})} : Configured(c, outcome)

\* [hash-kind] [hash-hex], or [sha256-hex]: no prefix is hexadecimal.
CliOutcomes ==
    {Outcome(NoHash, {})} \cup
    {Outcome(IF text.prefix = "none" /\ text.value # Garbage /\ name \in Kinds
             THEN FromExpectedBytes(name, ExpectedLen(text.of), text.value) ELSE Refused,
             {Hash(name, text.value)}) : text \in Texts, name \in Names}
CliConfigure(c) == \E outcome \in CliOutcomes : Configured(c, outcome)

\* read_hash_config: a number, a pointer and a length.  The JNI function passes a
\* null array on as a null pointer of length 0.
COutcome(k, pointer, of, value) ==
    Outcome(IF k # "none" /\ ~pointer THEN Refused
            ELSE FromExpectedBytes(k, ExpectedLen(of), value),
            IF k = "none" THEN {} ELSE {Hash(k, value)})
COutcomes ==
    {COutcome(FromCode(code), pointer, of, value) :
        code \in {Code(k) : k \in Kinds} \cup {0, 6}, pointer \in BOOLEAN,
        of \in Kinds \cup {"none"}, value \in Contents}
CConfigure(c) == \E outcome \in COutcomes : Configured(c, outcome)

-----------------------------------------------------------------------------
(* The part file                                                           *)

\* encode_slot, its hash fields.
Encoded(config) ==
    [code |-> Code(config.kind), len |-> ExpectedLen(config.kind), value |-> config.value]

\* decode_hash; a kind that is not one makes the file corrupt.
Decoded(s) == FromExpectedBytes(FromCode(s.code), s.len, s.value)

\* Mutant: another hash than the stored one is no obstacle.
CompatibleAnyHash(s, config) == Decoded(s) # Refused

\* ensure_compatible, as far as the hash goes.
Compatible(s, config) == Decoded(s) = config

\* open_or_create: the first to come stores its hash, the others must agree.
Open(c) ==
    /\ caller[c].at = "configured"
    /\ \A other \in Askers : caller[other].at # "open"
    /\ promoted = Nothing
    /\ \/ slot = NoSlot /\ slot' = Encoded(caller[c].config)
       \/ slot # NoSlot /\ Compatible(slot, caller[c].config) /\ UNCHANGED slot
    /\ caller' = [caller EXCEPT ![c].at = "open"]
    /\ UNCHANGED promoted

\* The run ends before the content is whole, and may be started again.
LeaveRun(c) ==
    /\ caller[c].at = "open"
    /\ caller' = [caller EXCEPT ![c].at = "configured"]
    /\ UNCHANGED <<slot, promoted>>

\* finalize: verify_hash, then the promotion.
FinalizeRun(c) ==
    /\ caller[c].at = "open"
    /\ \E content \in Contents :
          IF Decoded(slot) = NoHash \/ Decoded(slot).value = content
          THEN /\ promoted' = content
               /\ slot' = NoSlot
               /\ caller' = [caller EXCEPT ![c].at = "done", ![c].got = content]
          ELSE caller' = [caller EXCEPT ![c].at = "configured"] /\ UNCHANGED <<slot, promoted>>

\* Its owner moves the target, or removes a part file.
Clear ==
    /\ \A c \in Askers : caller[c].at # "open"
    /\ promoted' = Nothing /\ slot' = NoSlot
    /\ UNCHANGED caller

OptionNext ==
    \/ \E c \in Askers :
          \/ NodeConfigure(c) \/ TauriConfigure(c) \/ GodotConfigure(c)
          \/ CliConfigure(c) \/ CConfigure(c)
          \/ Open(c) \/ LeaveRun(c) \/ FinalizeRun(c)
    \/ Clear

OptionSpec == OptionInit /\ [][OptionNext]_optionVars

-----------------------------------------------------------------------------
(* Properties                                                              *)

\* A caller that is told its download is complete has a file of the content it asked
\* for, in every respect its options did, whoever began the part file, through
\* whichever binding.
AskedIsVerified ==
    \A c \in Askers : caller[c].at = "done" =>
        \A w \in caller[c].wanted : w.value = caller[c].got

\* What makes it inductive: whoever has a handle wants what its configuration says and
\* nothing else, and whoever has the part file open, alone, has its own hash stored.
Digests == {NoHash} \cup {Hash(k, value) : k \in Kinds \cup {"sha256"}, value \in Contents}

OptionInv ==
    /\ caller \in [Askers -> [at : {"idle", "configured", "open", "done"}, config : Digests,
                              wanted : SUBSET Digests, got : Contents \cup {Nothing}]]
    /\ slot = NoSlot \/ \E config \in Digests : slot = Encoded(config)
    /\ \A c \in Askers :
          /\ caller[c].wanted \subseteq {caller[c].config} \ {NoHash}
          /\ caller[c].at = "open" => slot = Encoded(caller[c].config)
          /\ \A other \in Askers : caller[c].at = "open" /\ caller[other].at = "open" => c = other
    /\ AskedIsVerified
=============================================================================
