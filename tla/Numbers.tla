------------------------------ MODULE Numbers -------------------------------
(***************************************************************************)
(* Numbers as text (libwebtester/flexval.c, util.c): limits, points and    *)
(* settings are texts on their way between the web, the configuration and  *)
(* the server.  A text is a sequence of characters.                        *)
(*                                                                         *)
(* A real number counts units of 10^-Places, up to an error below anything *)
(* that is printed: the code divides a double by ten for each decimal,     *)
(* which makes 0.06999999999999999 of 0.07.  No text of the model has more *)
(* decimals than Places.                                                   *)
(***************************************************************************)
EXTENDS Integers, Sequences, SequencesExt

CONSTANTS Places, \* 12 in "%.12lf"
          Kept    \* 6, the decimals of "%lf"; at most Places

Digits == <<"0", "1", "2", "3", "4", "5", "6", "7", "8", "9">>
HexDigits == Digits \o <<"a", "b", "c", "d", "e", "f">>

DigitValue(c) == (CHOOSE n \in DOMAIN HexDigits : HexDigits[n] = c) - 1

\* Digits of n in the base, at least `width` of them.
RECURSIVE Digitized(_, _, _)
Digitized(n, base, width) ==
  IF n < base /\ width <= 1 THEN <<HexDigits[n + 1]>>
  ELSE Append(Digitized(n \div base, base, width - 1), HexDigits[(n % base) + 1])

Minus(n) == IF n < 0 THEN <<"-">> ELSE <<>>
Absolute(n) == IF n < 0 THEN -n ELSE n

\* "%ld"
flexval_eval_from_int(n) == Minus(n) \o Digitized(Absolute(n), 10, 1)

RECURSIVE WithoutZeroes(_)
WithoutZeroes(s) == IF Last(s) = "0" THEN WithoutZeroes(Front(s)) ELSE s

drop_triling_zeroes(s) ==
  LET t == WithoutZeroes(s) IN IF Last(t) \in {".", ","} THEN Front(t) ELSE t

\* "%.<places>lf".  The error of a double decides which way a half goes: up,
\* or not.
Printed(n, places, up) ==
  LET unit == 10^(Places - places)
      rest == Absolute(n) % unit
      more == 2 * rest > unit \/ (2 * rest = unit /\ up)
      digits == Digitized((Absolute(n) \div unit) + IF more THEN 1 ELSE 0, 10, places + 1)
      whole == Len(digits) - places
  IN Minus(n) \o SubSeq(digits, 1, whole) \o <<".">>
       \o SubSeq(digits, whole + 1, Len(digits))

\* "%.12lf"
flexval_eval_from_float(n) == drop_triling_zeroes(Printed(n, Places, FALSE))
-----------------------------------------------------------------------------
\* Digits of s from i on, in the base.
RECURSIVE Accumulated(_, _, _, _)
Accumulated(s, i, base, val) ==
  IF i > Len(s) \/ s[i] \notin {HexDigits[n] : n \in 1..base} THEN val
  ELSE Accumulated(s, i + 1, base, val * base + DigitValue(s[i]))

IsHex(s, i) == i < Len(s) /\ s[i] = "0" /\ s[i + 1] \in {"x", "X"}

SignOf(s) == IF s # <<>> /\ Head(s) = "-" THEN -1 ELSE 1
FirstDigit(s) == IF SignOf(s) = -1 THEN 2 ELSE 1

\* Character constants are left out.
flexval_atol(s) ==
  LET i == FirstDigit(s) IN
  SignOf(s) * (IF IsHex(s, i) THEN Accumulated(s, i + 2, 16, 0)
                              ELSE Accumulated(s, i, 10, 0))

\* The loop of flexval_atolf: the digits, and how often their value is divided
\* by ten.
RECURSIVE RealFrom(_, _, _, _, _)
RealFrom(s, i, val, decimal, total) ==
  IF i <= Len(s) /\ s[i] = "." THEN RealFrom(s, i + 1, val, total, total)
  ELSE IF i > Len(s) \/ s[i] \notin Range(Digits)
  THEN [num |-> val, divided |-> IF decimal = -1 THEN 0 ELSE total - decimal]
  ELSE RealFrom(s, i + 1, val * 10 + DigitValue(s[i]), decimal, total + 1)

\* "*str += 2" makes the 0 of a hexadecimal number a 2 and goes nowhere: the
\* value is 2.
flexval_atolf(s) ==
  LET i == FirstDigit(s)
      r == RealFrom(s, i, 0, -1, 0)
  IN SignOf(s) * (IF IsHex(s, i) THEN 2 * 10^Places ELSE r.num * 10^(Places - r.divided))

\* "" and "-" are numbers for is_number_entry, and a comma is a point, which
\* flexval_atolf does not know.
Points(s) == {n \in DOMAIN s : s[n] \in {".", ","}}
is_number_entry(s, float) ==
  /\ \A n \in DOMAIN s \ Points(s) : s[n] \in Range(Digits) \/ (n = 1 /\ s[n] = "-")
  /\ Points(s) # {} => float /\ \A n, k \in Points(s) : n = k

is_integer(s) == is_number_entry(s, FALSE)
is_number(s) == is_number_entry(s, TRUE)

\* Index of the first character of s from i on that is in stop; Len(s) + 1 for
\* the terminator.
RECURSIVE UpTo(_, _, _)
UpTo(s, i, stop) ==
  IF i > Len(s) \/ s[i] \in stop THEN i ELSE UpTo(s, i + 1, stop)

\* parse_range of util.c: <<from, to>>, or <<>> for an error.  Without a dash
\* the caller's variable for the lower bound keeps what it had.
parse_range(s, from) ==
  LET dash == UpTo(s, 1, {"-"})
      to == SubSeq(s, dash + 1, Len(s))
      Number(t) == t # <<>> /\ \A n \in DOMAIN t : t[n] \in Range(Digits)
  IN IF dash > Len(s)
     THEN IF Number(s) THEN <<from, Accumulated(s, 1, 10, 0)>> ELSE <<>>
     ELSE IF Number(SubSeq(s, 1, dash - 1)) /\ Number(to)
          THEN <<Accumulated(s, 1, 10, 0), Accumulated(to, 1, 10, 0)>>
     ELSE <<>>
=============================================================================
