------------------------------- MODULE Codecs -------------------------------
(***************************************************************************)
(* The conversions of util.c: seven-bit characters packed into bytes and   *)
(* back, UCS2 written as UTF-8, and the choice between them.  A text or a  *)
(* buffer is a sequence of numbers; what the code indexes from 0 is At     *)
(* here.  Bits that the code puts together with | are disjoint unless it   *)
(* is said otherwise, so that they are added.                              *)
(*                                                                         *)
(* The second part defines the same formats by their bits, as the network  *)
(* reads and writes them, independently of how the code goes about it.     *)
(***************************************************************************)
EXTENDS Integers, Sequences, SequencesExt, FiniteSetsExt

At(s, i) == s[i + 1]
Indices(s) == 0 .. Len(s) - 1
Buffer(n, Elem(_)) == [j \in 1 .. n |-> Elem(j - 1)]

Byte(x) == x % 256

(* x >> k and x << k *)
Right(x, k) == x \div 2^k
Left(x, k) == x * 2^k

(* x | 0x30: two bits set, whatever they were.                             *)
Or30(x) == (x - (Right(x, 4) % 4) * 16) + 48

(* How many bytes n packed characters take.                                *)
PackedLength(n) == (n * 7 + 7) \div 8

(* Each character is split between the byte at its place and the one       *)
(* before; the buffer gets a byte more, 0x02, and two bits of the byte     *)
(* before that are set.                                                    *)
ascii2gsm7(data) ==
  LET n == PackedLength(Len(data))
      pos(i) == PackedLength(i)
      byte(j) ==
        MapThenSumSet(LAMBDA i : Right(At(data, i), i % 8), {i \in Indices(data) : pos(i) = j})
        + MapThenSumSet(LAMBDA i : Byte(Left(At(data, i), 8 - (i % 8))),
                        {i \in Indices(data) : pos(i) - 1 = j})
  IN  Buffer(n + 1, LAMBDA j : CASE j = n     -> 2
                                 [] j = n - 1 -> Or30(byte(j))
                                 [] OTHER     -> byte(j))

(* Mutant of gsm72ascii: every eighth byte moves on by one.                *)
Gsm72AsciiEighth(data) ==
  LET place(i) == i + i \div 8
      low(i)   == At(data, i) % 2^(7 - (i % 7))
      high(i)  == Right(At(data, i), 7 - (i % 7))
      char(k)  == MapThenSumSet(LAMBDA i : Left(low(i), k % 8), {i \in Indices(data) : place(i) = k})
                  + MapThenSumSet(high, {i \in Indices(data) : place(i) + 1 = k})
  IN  Buffer((Len(data) * 8) \div 7, char)

(* The low bits of a byte end a character, its high bits begin the next;   *)
(* every seventh byte ends one more.                                       *)
gsm72ascii(data) ==
  LET place(i) == i + i \div 7
      low(i)   == At(data, i) % 2^(7 - (i % 7))
      high(i)  == Right(At(data, i), 7 - (i % 7))
      char(k)  == MapThenSumSet(LAMBDA i : Left(low(i), k % 8), {i \in Indices(data) : place(i) = k})
                  + MapThenSumSet(high, {i \in Indices(data) : place(i) + 1 = k})
  IN  Buffer((Len(data) * 8) \div 7, char)

(* The bytes of one character.                                             *)
utf8_write(v) ==
  LET cont(k) == 128 + (Right(v, k) % 64)
  IN  CASE v < 128              -> <<v>>
        [] v \in 128 .. 2047    -> <<192 + Right(v, 6), cont(0)>>
        [] v \in 2048 .. 65535  -> <<224 + Right(v, 12), cont(6), cont(0)>>
        [] OTHER -> <<240 + (Right(v, 18) % 8), cont(12), cont(6), cont(0)>>

sms_get_coding_scheme(dcs) ==
  LET group == Right(dcs, 4)
      alphabet == Right(dcs, 2) % 4
      gsm7 == \/ group \in {0, 2, 3}
              \/ dcs = 16
              \/ group \in {4, 5} /\ alphabet = 0
              \/ group = 15 /\ alphabet \in {0, 2}
      ucs2 == dcs = 17 \/ (group \in {4, 5} /\ alphabet = 2)
  IN  CASE gsm7 -> "GSM7" [] ucs2 -> "UCS2" [] OTHER -> "UNKNOWN"

(* A C string ends at its first 0.                                         *)
Terminated(s) ==
  IF 0 \notin ToSet(s) THEN s ELSE SubSeq(s, 1, SelectInSeq(s, LAMBDA c : c = 0) - 1)

-----------------------------------------------------------------------------
(* The formats, by their bits.                                             *)

Bit(x, b) == Right(x, b) % 2
Number(bits, n) == MapThenSumSet(LAMBDA b : bits[b] * 2^b, 0 .. n - 1)

(* n packed characters: the bits of one follow those of the one before.    *)
Packed(text) ==
  LET stream(p) == IF p \div 7 \in Indices(text) THEN Bit(At(text, p \div 7), p % 7) ELSE 0
  IN  Buffer(PackedLength(Len(text)), LAMBDA j : Number([b \in 0 .. 7 |-> stream(8 * j + b)], 8))

Unpacked(bytes, n) ==
  Buffer(n, LAMBDA k : Number([b \in 0 .. 6 |-> LET p == 7 * k + b
                                              IN  Bit(At(bytes, p \div 8), p % 8)], 7))

Ucs2(text) == FlattenSeq([i \in DOMAIN text |-> <<text[i] \div 256, text[i] % 256>>])

(* What UTF-8 says of the characters below 2^16: how many bytes each has   *)
(* its first byte tells, and the others bring six bits each.               *)
Utf8Size(first) == CASE first < 128 -> 1 [] first \in 192 .. 223 -> 2 [] OTHER -> 3
Utf8Bytes(bytes) ==
  {i \in DOMAIN bytes : bytes[i] \notin 128 .. 191}
Utf8Char(bytes, i) ==
  LET b(k) == bytes[i + k] % 64
  IN  CASE Utf8Size(bytes[i]) = 1 -> bytes[i]
        [] Utf8Size(bytes[i]) = 2 -> (bytes[i] % 32) * 64 + b(1)
        [] OTHER -> (bytes[i] % 16) * 4096 + b(1) * 64 + b(2)
Utf8Read(bytes) ==
  LET starts == SetToSortSeq(Utf8Bytes(bytes), LAMBDA x, y : x < y)
  IN  [k \in DOMAIN starts |-> Utf8Char(bytes, starts[k])]
=============================================================================
