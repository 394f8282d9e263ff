----------------------------- MODULE SolDecode -----------------------------
(***************************************************************************)
(* The numbers and names in bytecode (runtime.c:157-178, 227-312), and the *)
(* writer that a compiler of Sol needs for each of them.                   *)
(*                                                                         *)
(* X_Y is X with the mistake Y: no specification uses it, and a property   *)
(* must fail when it stands for X.                                         *)
(***************************************************************************)
EXTENDS Integers, Sequences

CONSTANTS
  Spelling,  \* the characters of each name
  Garbage    \* any number that is no integer, or is not known

\* It is told from the integers.
ASSUME GarbageAssumption == Garbage \notin Int

Byte == 0 .. 255
Forms == 1 .. 4  \* the encodings of a length

LengthSize == <<1, 2, 4, 8>>
LengthRange_Wide == <<16, 4096, 1048576, 16777216>>
LengthRange == <<16, 4096, 1048576, 268435456>>

\* The form of the length that bytes begin with; the code exits for others.
LengthType(bytes) == bytes[1] \div 16

\* The number in network order (ntohs, ntohl, ntohll), and its last bits.
LowBits(bytes, range) ==
  LET low[i \in 0 .. Len(bytes)] ==
        IF i = 0 THEN 0 ELSE (low[i - 1] % (range \div 256)) * 256 + bytes[i] IN
  low[Len(bytes)]

Length(bytes) ==
  LET form == LengthType(bytes) IN
  IF form = 1 THEN bytes[1] % 16
  ELSE LowBits(SubSeq(bytes, 1, LengthSize[form]), LengthRange[form])

AfterLength(bytes) == SubSeq(bytes, LengthSize[LengthType(bytes)] + 1, Len(bytes))

\* The bytes end before the length does.
Short(bytes) ==
  bytes # <<>> => LengthType(bytes) \in Forms /\ Len(bytes) < LengthSize[LengthType(bytes)]

Power2 ==
  <<2, 4, 8, 16, 32, 64, 128, 256, 512, 1024, 2048, 4096, 8192, 16384, 32768, 65536, 131072, 262144,
    524288, 1048576>>

Signed(bytes) ==
  LowBits(<<0>> \o Tail(bytes), 16777216) + (IF bytes[1] < 128 THEN bytes[1] ELSE bytes[1] - 256) * 16777216

\* significand / 2^52 * 2^exponent, where the significand has 32 bits and as many zeros.
NumberSize == 12
NumberIn(bytes) ==
  LET significand == Signed(SubSeq(bytes, 1, 4))
      exponent == Signed(SubSeq(bytes, 9, 12)) IN
  IF SubSeq(bytes, 5, 8) = <<0, 0, 0, 0>> /\ exponent \in 0 .. 19 /\ significand % Power2[20 - exponent] = 0
  THEN significand \div Power2[20 - exponent]
  ELSE Garbage

\* A name ends at the first zero byte.
Cut(bytes) ==
  LET zeros == {i \in DOMAIN bytes : bytes[i] = 0} IN
  IF zeros = {} THEN bytes ELSE SubSeq(bytes, 1, (CHOOSE i \in zeros : \A j \in zeros : i <= j) - 1)
Names == DOMAIN Spelling \cup Seq(Byte)
Spelled(bytes) ==
  IF \E n \in DOMAIN Spelling : Spelling[n] = Cut(bytes)
  THEN CHOOSE n \in DOMAIN Spelling : Spelling[n] = Cut(bytes) ELSE Cut(bytes)

-----------------------------------------------------------------------------
(* The writer. *)

Weight == <<1, 256, 65536, 16777216>>
InBytes(n, size) == [i \in 1 .. size |-> (n \div Weight[size - i + 1]) % 256]

WriteLength(n, form) ==
  CASE form = 1 -> <<16 + n>>
    [] form = 2 -> <<32 + n \div 256, n % 256>>
    [] form = 3 -> <<48>> \o InBytes(n, 3)
    [] form = 4 -> <<64, 0, 0, 0>> \o InBytes(n, 4)

\* A fraction of 20 bits times a power of 2, as frexp gives it.
Exponent(n) ==
  IF -1 <= n /\ n <= 1 THEN 0
  ELSE CHOOSE e \in 1 .. 19 : \A d \in 1 .. 19 : d >= e <=> -Power2[d] <= n /\ n <= Power2[d]
WriteNumber(n) ==
  LET e == Exponent(n)
      hi == n * Power2[20 - e] IN
  <<(hi \div 16777216) % 256>> \o InBytes(hi % 16777216, 3) \o <<0, 0, 0, 0>> \o InBytes(e, 4)

-----------------------------------------------------------------------------
\* What fits in each form, and lengths where something changes.
Capacity == <<16, 4096, 1048576, 268435456>>
Edges == {268435455} \cup UNION {{0, c - 1, c} : c \in {16, 256, 4096, 65536, 1048576, 16777216}}
=============================================================================
