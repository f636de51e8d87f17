------------------------------- MODULE Varint -------------------------------
(***************************************************************************)
(* Variable-length integers (varint.rs): a byte carries Bits bits of the   *)
(* word and a bit that says whether more bytes follow.  In the code Bits   *)
(* is 7, MaxLen is 10 and a word has 64 bits: of the last byte only the    *)
(* lowest bit is used.                                                     *)
(***************************************************************************)
EXTENDS Integers, Sequences, FiniteSetsExt

CONSTANTS Bits, MaxLen

ASSUME VarintAssumption == Bits \in Nat \ {0} /\ MaxLen \in Nat \ {0, 1}

Radix == 2 ^ Bits
Byte == 0 .. (2 * Radix - 1)
Word == 0 .. (2 * Radix ^ (MaxLen - 1) - 1)

More(byte) == byte >= Radix
Low(byte) == byte % Radix

\* encode_u64: the low bits first.
encode_u64[v \in Word] ==
    IF v < Radix THEN <<v>>
    ELSE <<(v % Radix) + Radix>> \o encode_u64[v \div Radix]

\* Mutant: one byte too few when the highest bit fills its byte.
length_varint_floor(v) ==
    IF v = 0 THEN 1
    ELSE 1 + (CHOOSE n \in 0 .. (Bits * MaxLen) : 2 ^ n <= v /\ v < 2 ^ (n + 1)) \div (Bits + 1)

\* length_varint_u64: the bits needed, in bytes of Bits bits.
length_varint_u64(v) ==
    LET bits_needed == CHOOSE n \in 1 .. (Bits * MaxLen) : 2 ^ (n - 1) <= v /\ v < 2 ^ n
    IN  IF v = 0 THEN 1 ELSE (bits_needed + Bits - 1) \div Bits

(***************************************************************************)
(* decode_u64: the value and the number of bytes consumed.  The loop stops *)
(* at a byte that is too large or too late, or that is the last one.       *)
(***************************************************************************)
decode_u64(buf) ==
    LET TooLong(i) == i > MaxLen \/ (i = MaxLen /\ Low(buf[i]) > 1)
        Stops == {i \in DOMAIN buf : TooLong(i) \/ ~More(buf[i])}
        n == Min(Stops)
    IN  IF Stops = {} \/ TooLong(n) THEN [ok |-> FALSE, value |-> 0, consumed |-> 0]
        ELSE [ok |-> TRUE, consumed |-> n,
              value |-> MapThenSumSet(LAMBDA i : Low(buf[i]) * Radix ^ (i - 1), 1 .. n)]
=============================================================================
