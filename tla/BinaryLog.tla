------------------------------ MODULE BinaryLog ------------------------------
(***************************************************************************)
(* The receivers' binary log: BinaryLogger of src/common/csv_writer.hpp,   *)
(* which buffers entries and writes them to a file, and load_binary_file() *)
(* of analysis/latency_utils.py, which reads the file for the analysis.    *)
(*                                                                         *)
(* Files and buffers are sequences of 32-bit words, the largest unit in    *)
(* which all sizes of both formats are whole numbers: a word is the k-th   *)
(* word of an entry or of the header. What is left out of a word is its    *)
(* encoding, which is explicit and the same on both sides.                 *)
(***************************************************************************)
EXTENDS Integers, Sequences

CONSTANTS
  HeaderWords,  \* BINARY_LOG_HEADER_SIZE (16 bytes: 4 words)
  MagicWords,   \* the magic number at its beginning (8 bytes: 2 words)
  EntryWords,   \* BINARY_LOG_ENTRY_SIZE (36 bytes: 9 words)
  LegacyWords,  \* LEGACY_SIZE (28 bytes: 7 words)
  BufferWords   \* BUFFER_CAPACITY (64 KiB: 16384 words)

ASSUME BinaryLogAssumption ==
  /\ HeaderWords \in Nat /\ MagicWords \in 1 .. HeaderWords
  /\ EntryWords \in Nat \ {0} /\ LegacyWords \in Nat /\ MagicWords <= LegacyWords
  /\ BufferWords \in Nat /\ BufferWords >= EntryWords

Header == -1
Words(what, size) == [k \in 1 .. size |-> <<what, k>>]

encode_log_header == Words(Header, HeaderWords)
encode_log_entry(entry) == Words(entry, EntryWords)

(* The constructor's fwrite() leaves the header in stdio's buffer, from    *)
(* where the first flush takes it; file is what the kernel has been given. *)
NewLogger == [buffer |-> <<>>, stdio |-> encode_log_header, file |-> <<>>]

(* What the next flush writes.                                             *)
Pending(l) == l.stdio \o l.buffer

-----------------------------------------------------------------------------
(* Faulty variants of the definitions that follow.                         *)

(* An entry that does not fit makes room and is dropped. *)
logUnlessFull(l, entry, written) ==
  IF Len(l.buffer) + EntryWords > BufferWords
    THEN [buffer |-> <<>>, stdio |-> <<>>,
          file |-> l.file \o SubSeq(Pending(l), 1, written)]
    ELSE [l EXCEPT !.buffer = @ \o encode_log_entry(entry)]

(* The reader takes the whole records and ignores what follows them. *)
WholeUnchecked(words, size) == Len(words) >= 0

-----------------------------------------------------------------------------
(* The writer. *)

(* flush() when fwrite() and fflush() get so many words to the kernel. The *)
(* others are gone: stdio forgets what it could not write, the header, too,*)
(* and the buffer is cleared.                                              *)
flush(l, written) ==
  [buffer |-> <<>>, stdio |-> <<>>, file |-> l.file \o SubSeq(Pending(l), 1, written)]

LogFlushes(l) == Len(l.buffer) + EntryWords > BufferWords

log(l, entry, written) ==
  [(IF LogFlushes(l) THEN flush(l, written) ELSE l) EXCEPT
     !.buffer = @ \o encode_log_entry(entry)]

(* What the kernel has of the log when the process is killed: also a part  *)
(* of what is just being written.                                          *)
Remains(l, flushing) ==
  {l.file \o SubSeq(Pending(l), 1, n) : n \in 0 .. (IF flushing THEN Len(Pending(l)) ELSE 0)}

-----------------------------------------------------------------------------
(* The reader. *)

StartsWithMagic(raw) ==
  Len(raw) >= MagicWords /\ SubSeq(raw, 1, MagicWords) = SubSeq(encode_log_header, 1, MagicWords)

(* Version and sizes are checked one by one. A word of an entry in their   *)
(* place is taken for wrong.                                               *)
HeaderIsValid(raw) ==
  Len(raw) >= HeaderWords /\ SubSeq(raw, 1, HeaderWords) = encode_log_header

Payload(raw) == SubSeq(raw, HeaderWords + 1, Len(raw))

Whole(words, size) == Len(words) % size = 0

(* load_binary_file() raises no ValueError. *)
Loads(raw) ==
  \/ raw = <<>>
  \/ StartsWithMagic(raw) /\ HeaderIsValid(raw) /\ Whole(Payload(raw), EntryWords)
  \/ ~StartsWithMagic(raw) /\ Whole(raw, LegacyWords)

(* struct.iter_unpack() *)
Records(words, size) ==
  [r \in 1 .. Len(words) \div size |-> SubSeq(words, (r - 1) * size + 1, r * size)]

load_binary_file(raw) ==
  IF StartsWithMagic(raw)
    THEN Records(Payload(raw), EntryWords)
    ELSE Records(raw, LegacyWords)

=============================================================================
