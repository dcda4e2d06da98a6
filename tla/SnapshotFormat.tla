---------------------------- MODULE SnapshotFormat ----------------------------
(***************************************************************************)
(* The on-disk snapshot format of the kv-store crate: the 4 KB header page *)
(* (header.rs), the fixed-size record (record.rs) and the byte offsets at  *)
(* which a builder writes and a store reads them.                          *)
(*                                                                         *)
(* Keys and values are opaque; the all-zero key and the all-zero value,    *)
(* which is what a byte range that was never written reads as, are named.  *)
(* u64/usize arithmetic wraps modulo U64, as the release profile (no       *)
(* overflow checks) does.                                                  *)
(***************************************************************************)
EXTENDS Integers

CONSTANTS
  Keys,         \* the 64-byte keys
  Values,       \* the 256-byte values
  ZeroKey,      \* [0u8; 64]
  ZeroValue,    \* [0u8; 256]
  MAGIC_NUMBER, \* "KVSS1000" read as a u64
  MAX_RECORDS,  \* the 10_000_000_000 of Header::validate
  U64           \* 2^64

ASSUME FormatAssumption ==
  /\ ZeroKey \in Keys
  /\ ZeroValue \in Values
  /\ MAGIC_NUMBER \in Nat \ {0}
  /\ MAX_RECORDS \in Nat
  /\ U64 \in Nat
  /\ U64 > 8192
  /\ U64 % 4096 = 0

FORMAT_VERSION == 1
HEADER_SIZE == 4096
KEY_SIZE == 64
VALUE_SIZE == 256
RECORD_SIZE == KEY_SIZE + VALUE_SIZE

-------------------------------------------------------------------------------
(* Record: the key in bytes 0..63, the value in bytes 64..319. *)

Record == [key : Keys, value : Values]

ZeroRecord == [key |-> ZeroKey, value |-> ZeroValue]

\* Seeded fault: any record at the slot is taken for the key's.
key_always_equal(record, key) == TRUE

key_equals(record, key) == record.key = key

\* Seeded fault: the slot is counted from the start of the file.
record_offset_relative(data_offset, slot) == (slot * RECORD_SIZE) % U64

\* Byte offset of a slot's record, as get_record and the builder compute it.
record_offset(data_offset, slot) == (data_offset + slot * RECORD_SIZE) % U64

-------------------------------------------------------------------------------
(* Header *)

\* Seeded fault: truncate to the page below instead of the one above.
align_down(value) == value - (value % 4096)

\* (value + 4095) & !4095
align_to_4k(value) ==
  LET sum == (value + 4095) % U64 IN sum - (sum % 4096)

\* SHA-256 of the bytes from one offset to the end of the file, taken to be
\* collision free: it tells apart byte ranges of different lengths and byte
\* ranges that hold different records.
compute_checksum(len, data) == [len |-> len, data |-> data]

\* [0u8; 32]: the digest of no byte range.
ZeroSum == [len |-> -1, data |-> <<>>]

new_header(record_count, mphf_size, build_timestamp) ==
  [ magic           |-> MAGIC_NUMBER,
    version         |-> FORMAT_VERSION,
    record_count    |-> record_count,
    mphf_size       |-> mphf_size,
    data_offset     |-> align_to_4k((HEADER_SIZE + mphf_size) % U64),
    build_timestamp |-> build_timestamp,
    checksum        |-> ZeroSum ]

\* The header page by the offsets of its fields; every other byte is reserved.
FieldOffsets == {0, 8, 16, 24, 32, 40, 64}

\* The last of them, the checksum, is 32 bytes long.
FIELDS_SIZE == 96

\* Seeded fault: data_offset and mphf_size are written in each other's place.
to_bytes_swapped(h) ==
  [ o \in FieldOffsets |->
      CASE o = 0  -> h.magic
        [] o = 8  -> h.version
        [] o = 16 -> h.record_count
        [] o = 24 -> h.data_offset
        [] o = 32 -> h.mphf_size
        [] o = 40 -> h.build_timestamp
        [] o = 64 -> h.checksum ]

to_bytes(h) ==
  [ o \in FieldOffsets |->
      CASE o = 0  -> h.magic
        [] o = 8  -> h.version
        [] o = 16 -> h.record_count
        [] o = 24 -> h.mphf_size
        [] o = 32 -> h.data_offset
        [] o = 40 -> h.build_timestamp
        [] o = 64 -> h.checksum ]

\* A header page nobody has written yet.
ZeroPage == [ o \in FieldOffsets |-> IF o = 64 THEN ZeroSum ELSE 0 ]

parse(page) ==
  [ magic           |-> page[0],
    version         |-> page[8],
    record_count    |-> page[16],
    mphf_size       |-> page[24],
    data_offset     |-> page[32],
    build_timestamp |-> page[40],
    checksum        |-> page[64] ]

\* "Ok" or the first error Header::validate finds.
validate(h) ==
  IF h.magic # MAGIC_NUMBER THEN "InvalidMagic"
  ELSE IF h.version # FORMAT_VERSION THEN "UnsupportedVersion"
  ELSE IF h.record_count > MAX_RECORDS THEN "TooManyRecords"
  ELSE "Ok"

\* Header::from_bytes on a mapping of len bytes: "Ok" or the error it returns.
from_bytes(len, page) ==
  IF len < HEADER_SIZE THEN "FileTooSmall" ELSE validate(parse(page))

===============================================================================
