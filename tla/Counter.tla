------------------------------ MODULE Counter -------------------------------
(***************************************************************************)
(* The text of counters, from commands.c: try_parse_signed_integer reads   *)
(* it, try_modify_counter writes it.  An integer is one of Modulus values, *)
(* and arithmetic wraps around, as the machine's does where C leaves an    *)
(* overflow undefined.                                                     *)
(***************************************************************************)
EXTENDS Integers, Sequences
LOCAL INSTANCE SequencesExt

CONSTANT Modulus   \* 2^64

ASSUME ModulusAssumption == Modulus \in Nat /\ Modulus > 0 /\ Modulus % 2 = 0

Half == Modulus \div 2
Integer == -Half .. Half - 1

Wrap(n) == ((n + Half) % Modulus) - Half

Minus == 45
Plus == 43
Digit(b) == b \in 48 .. 57

(* the decimal digits of a natural number *)
Decimal[n \in Nat] ==
  IF n < 10 THEN <<48 + n>> ELSE Append(Decimal[n \div 10], 48 + (n % 10))

(* sprintf("%ld") *)
TextOf(n) == IF n < 0 THEN <<Minus>> \o Decimal[-n] ELSE Decimal[n]

(* try_parse_signed_integer: a sign, which may be all there is, and digits *)
(* to the end.  Of an empty text it reads the byte behind it.              *)
ParseSigned(text, behind) ==
  LET first == IF text = << >> THEN behind ELSE text[1]
      start == IF first \in {Minus, Plus} THEN 2 ELSE 1
      digits == SubSeq(text, start, Len(text))
      value == FoldLeft(LAMBDA n, b : Wrap(10 * n + b - 48), 0, digits)
  IN [ok |-> start <= Len(text) + 1 /\ \A i \in DOMAIN digits : Digit(digits[i]),
      value |-> IF first = Minus THEN Wrap(-value) ELSE value]
=============================================================================
