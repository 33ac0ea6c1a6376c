----------------------------- MODULE FileFormat -----------------------------
(***************************************************************************)
(* fileformat.py byte by byte: the layout of a vault file, serialize, and  *)
(* parse with its bounds checks, for a file that is written once and then  *)
(* damaged.  Every size, offset and limit is the program's own.            *)
(*                                                                         *)
(* TLC's integers have 32 bits, so the uint64 counter is a sequence of     *)
(* four 16-bit limbs, and one number stands for every uint32 from 2^31 on: *)
(* all of them are out of every range that parse accepts.                  *)
(***************************************************************************)
EXTENDS Naturals, Sequences, FiniteSets

CONSTANTS
  FileParts,     \* what serialize may be given
  DamageBytes,   \* what a damaged byte may become
  MaxDamage      \* bound on the places at which a file is damaged

MAGIC == <<83, 86, 76, 84>>   \* "SVLT"
FORMAT_VERSION == 1
KDF_ARGON2ID == 1
AEAD_AES256GCM == 1

TAG_LENGTH == 16
KDF_HEADER_LENGTH == 36
FULL_HEADER_LENGTH == KDF_HEADER_LENGTH + 8
DEK_NONCE_OFFSET == FULL_HEADER_LENGTH
DEK_BLOB_OFFSET == DEK_NONCE_OFFSET + 12
BODY_NONCE_OFFSET == DEK_BLOB_OFFSET + 48
BODY_LEN_OFFSET == BODY_NONCE_OFFSET + 12
BODY_OFFSET == BODY_LEN_OFFSET + 4
MIN_FILE_LENGTH == BODY_OFFSET + TAG_LENGTH

Huge == 2147483647

-----------------------------------------------------------------------------
\* What serialize takes

Byte == 0 .. 255
Bytes(n) == [1 .. n -> Byte]
Limb == 0 .. 65535

\* Argon2Parameters.validate
MIN_MEMORY_KIB == 19456
MAX_MEMORY_KIB == 1048576
MemoryCosts == MIN_MEMORY_KIB .. MAX_MEMORY_KIB
TimeCosts == 1 .. 16
Lanes == 1 .. 8

\* With any other length, counter or cost there is a ValueError or the vault
\* is not created; a body may be of any length the model can tell from Huge,
\* and two bytes less for what Extend adds.
Files ==
  [memory_kib : MemoryCosts, time_cost : TimeCosts, parallelism : Lanes, salt : Bytes(16),
   counter : [1 .. 4 -> Limb], dek_nonce : Bytes(12), dek_blob : Bytes(48),
   body_nonce : Bytes(12), body_blob : Seq(Byte)]

ASSUME FilesAssumption ==
  /\ FileParts \subseteq Files
  /\ \A p \in FileParts : Len(p.body_blob) \in TAG_LENGTH .. Huge - 3
  /\ DamageBytes \subseteq Byte
  /\ MaxDamage \in Nat

-----------------------------------------------------------------------------
\* struct.pack and unpack, little-endian

pack16(n) == <<n % 256, n \div 256>>
pack32(n) == pack16(n % 65536) \o pack16(n \div 65536)
pack64(limbs) == pack16(limbs[1]) \o pack16(limbs[2]) \o pack16(limbs[3]) \o pack16(limbs[4])

unpack16(b) == b[1] + 256 * b[2]
unpack32(b) ==
  IF b[4] > 127 THEN Huge
  ELSE unpack16(SubSeq(b, 1, 2)) + 65536 * unpack16(SubSeq(b, 3, 4))
unpack64(b) == [i \in 1 .. 4 |-> unpack16(SubSeq(b, 2 * i - 1, 2 * i))]

\* The Python slice d[from:to].
Slice(d, from, to) == SubSeq(d, from + 1, to)

-----------------------------------------------------------------------------
\* serialize and parse

\* Mutant: the salt is written before the costs.
kdfHeaderSaltFirst(parts) ==
  MAGIC \o pack16(FORMAT_VERSION) \o <<KDF_ARGON2ID, AEAD_AES256GCM>> \o parts.salt
  \o pack32(parts.memory_kib) \o pack32(parts.time_cost) \o pack32(parts.parallelism)

build_kdf_header(parts) ==
  MAGIC \o pack16(FORMAT_VERSION) \o <<KDF_ARGON2ID, AEAD_AES256GCM>>
  \o pack32(parts.memory_kib) \o pack32(parts.time_cost) \o pack32(parts.parallelism)
  \o parts.salt

serialize(parts) ==
  build_kdf_header(parts) \o pack64(parts.counter)
  \o parts.dek_nonce \o parts.dek_blob
  \o parts.body_nonce \o pack32(Len(parts.body_blob)) \o parts.body_blob

\* Mutant: the ids of the algorithms are read and ignored.
fixedFieldsUnchecked(d) ==
  Slice(d, 0, 4) = MAGIC /\ unpack16(Slice(d, 4, 6)) = FORMAT_VERSION

\* The fields that have one legal value.
FixedFieldsMatch(d) ==
  /\ Slice(d, 0, 4) = MAGIC
  /\ unpack16(Slice(d, 4, 6)) = FORMAT_VERSION
  /\ d[7] = KDF_ARGON2ID
  /\ d[8] = AEAD_AES256GCM

\* Argon2Parameters.validate on the three costs of the header.
CostsInRange(d) ==
  /\ unpack32(Slice(d, 8, 12)) \in MemoryCosts
  /\ unpack32(Slice(d, 12, 16)) \in TimeCosts
  /\ unpack32(Slice(d, 16, 20)) \in Lanes

\* Mutant: a body that is longer than declared is accepted.
bodyFits(d) ==
  LET body_len == unpack32(Slice(d, BODY_LEN_OFFSET, BODY_OFFSET))
  IN  body_len >= TAG_LENGTH /\ BODY_OFFSET + body_len <= Len(d)

\* The declared length accounts for exactly the rest of the file.
BodyLengthMatches(d) ==
  LET body_len == unpack32(Slice(d, BODY_LEN_OFFSET, BODY_OFFSET))
  IN  body_len >= TAG_LENGTH /\ body_len = Len(d) - BODY_OFFSET

\* Does parse return?  It raises VaultFormatError otherwise.  The length is
\* tested first: nothing else is read from a file that is too short.
parses(d) ==
  /\ Len(d) >= MIN_FILE_LENGTH
  /\ FixedFieldsMatch(d)
  /\ CostsInRange(d)
  /\ BodyLengthMatches(d)

\* ParsedVaultFile; the two headers it also keeps are prefixes of d.
parse(d) ==
  [memory_kib |-> unpack32(Slice(d, 8, 12)),
   time_cost |-> unpack32(Slice(d, 12, 16)),
   parallelism |-> unpack32(Slice(d, 16, 20)),
   salt |-> Slice(d, 20, KDF_HEADER_LENGTH),
   counter |-> unpack64(Slice(d, KDF_HEADER_LENGTH, FULL_HEADER_LENGTH)),
   dek_nonce |-> Slice(d, DEK_NONCE_OFFSET, DEK_BLOB_OFFSET),
   dek_blob |-> Slice(d, DEK_BLOB_OFFSET, BODY_NONCE_OFFSET),
   body_nonce |-> Slice(d, BODY_NONCE_OFFSET, BODY_LEN_OFFSET),
   body_blob |-> Slice(d, BODY_OFFSET, Len(d))]

-----------------------------------------------------------------------------
\* A file and what becomes of it

VARIABLES
  data,      \* the bytes of the file
  parts,     \* what serialize was given
  damaged    \* the places that were damaged: the bytes changed, and Resized

vars == <<data, parts, damaged>>

Resized == 0

Init ==
  /\ parts \in FileParts
  /\ data = serialize(parts)
  /\ damaged = {}

RoomForDamage == Cardinality(damaged) < MaxDamage

\* Once, the file is cut short (to nothing at the worst) or bytes follow it.
Resize(d) ==
  /\ RoomForDamage /\ Resized \notin damaged
  /\ data' = d
  /\ damaged' = damaged \cup {Resized}
  /\ UNCHANGED parts

Truncate == \E n \in 0 .. Len(data) - 1 : Resize(SubSeq(data, 1, n))
Extend == \E b, c \in DamageBytes : Resize(data \o <<b>>) \/ Resize(data \o <<b, c>>)

Overwrite(i, b) ==
  /\ RoomForDamage
  /\ data' = [data EXCEPT ![i] = b]
  /\ damaged' = damaged \cup {i}
  /\ UNCHANGED parts

Next == Truncate \/ Extend \/ \E i \in DOMAIN data, b \in DamageBytes : Overwrite(i, b)

Spec == Init /\ [][Next]_vars

-----------------------------------------------------------------------------
\* Properties

(***************************************************************************)
(* What is written is read back: parse accepts an undamaged file and hands *)
(* back the parts serialize was given, for bodies from the shortest legal  *)
(* one on and costs at both ends of their ranges.                          *)
(***************************************************************************)
RoundTrip == damaged = {} => parses(data) /\ parse(data) = parts

(***************************************************************************)
(* No byte of a file escapes parse: a file it accepts is exactly the one   *)
(* serialize makes from what it hands back.  So every byte is checked      *)
(* against its one legal value or is part of the fields and headers that   *)
(* open_vault authenticates; there is no slack.  Behaviour: "Every header  *)
(* byte is therefore covered by at least one authentication tag"           *)
(* (fileformat.py).                                                        *)
(***************************************************************************)
Canonical == parses(data) => serialize(parse(data)) = data

(***************************************************************************)
(* A file that is cut short or extended is refused, unless the bytes of    *)
(* its length field were changed as well.  Behaviour: "Reject truncation   *)
(* and any trailing bytes" (parse).                                        *)
(***************************************************************************)
ResizeRejected ==
  /\ Len(data) # Len(serialize(parts))
  /\ damaged \cap (BODY_LEN_OFFSET + 1 .. BODY_OFFSET) = {}
  => ~parses(data)
=============================================================================
