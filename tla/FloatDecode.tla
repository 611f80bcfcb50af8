----------------------------- MODULE FloatDecode -----------------------------
(***************************************************************************)
(* ModbusMeter::dataformatter makes a float of the four bytes of a value,  *)
(* bit by bit. It always puts a 1 before the mantissa and knows neither    *)
(* zero nor denormal numbers nor NaN. The widths of the fields are         *)
(* parameters (8 and 23 in the code); a magnitude is counted in units of   *)
(* half the smallest denormal number, 2^-(Bias + FracBits).                *)
(***************************************************************************)
EXTENDS Integers

CONSTANTS ExpBits, FracBits

ASSUME WidthsAssumption == ExpBits \in Nat \ {0} /\ FracBits \in Nat \ {0}

\* pow(2, n)
Pow2[n \in Nat] == IF n = 0 THEN 1 ELSE 2 * Pow2[n - 1]

Registers == 0 .. Pow2[1 + ExpBits + FracBits] - 1

\* binaryvalue[i] of the code: bit 0 is the sign.
Bit(register, i) == (register \div Pow2[ExpBits + FracBits - i]) % 2

\* The field of the exponent, from which the code subtracts 127.
Exponential(register) ==
  LET exponential[n \in 0..ExpBits] ==
        IF n = 0 THEN 0
        ELSE exponential[n - 1] + Pow2[n - 1] * Bit(register, ExpBits + 1 - n)
  IN exponential[ExpBits]

MaxExponential == Pow2[ExpBits] - 1

Infinity == Pow2[MaxExponential + FracBits]

\* A double assigned to a float: what is too small for a denormal number is rounded to
\* even. No other sum of dataformatter has more bits than a float.
ToFloat(v) ==
  CASE v >= Infinity -> Infinity
    [] v < Infinity /\ v % 4 = 1 -> v - 1
    [] v < Infinity /\ v % 4 = 3 -> v + 1
    [] OTHER -> v

Mantisa(register, i) == IF i = 0 THEN 1 ELSE Bit(register, ExpBits + i)

\* value after each round of the loop that adds up the mantissa.
Value(register) ==
  LET value[i \in 0..FracBits] ==
        LET term == Pow2[Exponential(register) + FracBits - i] * Mantisa(register, i) IN
        IF i = 0 THEN ToFloat(term) ELSE ToFloat(value[i - 1] + term)
  IN value

\* Mutant: the loop ends one bit early.
MagnitudeShort(register) == Value(register)[FracBits - 1]

Magnitude(register) == Value(register)[FracBits]

Dataformatter(register) ==
  IF Bit(register, 0) = 0 THEN Magnitude(register) ELSE -Magnitude(register)

-----------------------------------------------------------------------------
\* What the bits mean in IEEE 754, NaN taken for infinite.
IEEE(register) ==
  LET exp == (register \div Pow2[FracBits]) % Pow2[ExpBits]
      frac == register % Pow2[FracBits]
      size == CASE exp = MaxExponential -> Infinity
                [] exp = 0 -> 2 * frac
                [] OTHER -> (Pow2[FracBits] + frac) * Pow2[exp]
  IN IF register >= Pow2[ExpBits + FracBits] THEN -size ELSE size

\* A value keeps its sign and is off by no more than the smallest normal number, 2^-126,
\* and exact if it is not smaller than that (ModbusMeter::dataformatter): a reading,
\* which shows two decimals, shows what the meter measured, zero included.
DecodesRegisters ==
  \A r \in Registers :
    LET error == Dataformatter(r) - IEEE(r)
        least == Pow2[FracBits + 1]
    IN IF IEEE(r) \in -(least - 1) .. least - 1
       THEN error \in -least .. least
       ELSE error = 0
=============================================================================
