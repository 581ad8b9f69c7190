----------------------------- MODULE BytesCodec -----------------------------
(***************************************************************************)
(* The head that precedes every message on a stream                        *)
(* (src/libs/hbb_common/src/bytes_codec.rs): the length of the message,    *)
(* shifted by two bits, in one to four bytes, lowest first; the two bits   *)
(* that are free say how many bytes there are.  Byte is the number of      *)
(* values of a byte; a smaller one than 256 gives long heads to messages   *)
(* short enough for TLC.                                                   *)
(***************************************************************************)
EXTENDS Integers, Sequences

CONSTANT Byte

ASSUME ByteAssumption == Byte \in Nat /\ Byte >= 4 /\ Byte % 4 = 0

(* What the bytes of a head are worth. *)
Place == <<1, Byte, Byte * Byte, Byte * Byte * Byte>>

(* The longest message with a head of k bytes: 0x3F, 0x3FFF, ... *)
Longest(k) == (Place[k] * Byte) \div 4 - 1

(* Deviation: the limit of the shortest form is one too high. *)
head_size_off_by_one(n) ==
    IF n <= Longest(1) + 1 THEN 1 ELSE IF n <= Longest(2) THEN 2
    ELSE IF n <= Longest(3) THEN 3 ELSE 4

(* Messages longer than Longest(4) are refused with "Overflow". *)
head_size(n) ==
    IF n <= Longest(1) THEN 1 ELSE IF n <= Longest(2) THEN 2
    ELSE IF n <= Longest(3) THEN 3 ELSE 4

(* The head of a message of n bytes. *)
encode_head(n) ==
    LET h == 4 * n + (head_size(n) - 1)
    IN  [i \in 1..head_size(n) |-> (h \div Place[i]) % Byte]

(* What the first byte says of the length of the head. *)
head_len(b) == (b % 4) + 1

(* The length of the message that a complete head stands for. *)
decode_head(h) ==
    (h[1] + (IF Len(h) > 1 THEN Place[2] * h[2] ELSE 0)
          + (IF Len(h) > 2 THEN Place[3] * h[3] ELSE 0)
          + (IF Len(h) > 3 THEN Place[4] * h[4] ELSE 0)) \div 4
=============================================================================
