------------------------------ MODULE Amounts ------------------------------
(***************************************************************************)
(* The contribution a user types (packages/client/src/amount.ts): the      *)
(* conversion to stroops, the check in front of create_circle and the form *)
(* in which an amount is written back.  The digits, their base, the        *)
(* number of decimals of a stroop and the JavaScript numbers are           *)
(* parameters.                                                             *)
(***************************************************************************)
EXTENDS Integers, Sequences, FiniteSets, SequencesExt, Digits

CONSTANTS
  Base,        \* 10 in the code
  Decimals,    \* 7: digits of a stroop after the point
  FixedDigits, \* 20: what expandNumberToDecimalString passes to toFixed
  Doubles,     \* the JavaScript numbers from 0 up to 10^21, past which toFixed writes an
               \* exponent and the amount is refused, in units of
  DoubleUnit,  \* one part in DoubleUnit: 2^1074
  MaxWhole,    \* bound: digits typed before the point
  MAX_I128,    \* the largest i128
  CircleSizes, \* sizes of circles
  maxAffordableXlm, ABSURD_XLM

ASSUME AmountsAssumption ==
  /\ Base \in Nat \ {0, 1} /\ Decimals \in Nat \ {0} /\ MaxWhole \in Nat /\ MAX_I128 \in Nat
  /\ FixedDigits \in Nat /\ FixedDigits >= Decimals
  /\ Doubles \subseteq Nat /\ Doubles # {} /\ DoubleUnit \in Nat \ {0}
  /\ CircleSizes \subseteq Int /\ maxAffordableXlm \in Nat /\ ABSURD_XLM \in Nat

Digit == 0 .. Base - 1

\* What is entered: no number at all, or a sign, digits and digits after a point, in a text
\* that may be written with an exponent; or a JavaScript number.
Text == [ form : {"garbage", "decimal", "exponent"}, negative : BOOLEAN,
          whole : SeqOf(Digit, MaxWhole) \ {<<>>}, frac : SeqOf(Digit, Decimals + 1) ]
JsNumber == [ form : {"number"}, negative : BOOLEAN, double : Doubles ]

VARIABLES
  raw, size,  \* what the user typed, and the size of the circle
  stroops     \* the accepted contribution: empty, or one number

amountVars == <<raw, size, stroops>>

AmountsInit == raw \in Text \cup JsNumber /\ size \in CircleSizes /\ stroops = {}

STROOPS_PER_XLM == Power(Base, Decimals)
BigInt(digits) == NumberOf(Base, digits)

\* Number(text): the nearest; of two that are as near, one.
Distance(text, double) ==
  LET digits == BigInt(text.whole \o text.frac) * DoubleUnit
      d      == double * Power(Base, Len(text.frac))
  IN  IF d < digits THEN digits - d ELSE d - digits
Nearest(text) ==
  CHOOSE d \in Doubles : \A e \in Doubles : Distance(text, d) <= Distance(text, e)

\* toFixed: the number of last digits, a half of one rounded up.
toFixed(double) ==
  (2 * double * Power(Base, FixedDigits) + DoubleUnit) \div (2 * DoubleUnit)

\* Zeros at the end, which it trims, count for nothing.
expandNumberToDecimalString(negative, double) ==
  [ form |-> "decimal", negative |-> negative,
    whole |-> <<toFixed(double) \div Power(Base, FixedDigits)>>,
    frac |-> DigitsOf(Base, toFixed(double) % Power(Base, FixedDigits), FixedDigits) ]

\* The number that stands for what is not a plain decimal.
Double(input) == IF input.form = "number" THEN input.double ELSE Nearest(input)
Expanded(input) ==
  IF input.form \in {"number", "exponent"}
  THEN expandNumberToDecimalString(input.negative, Double(input)) ELSE input

\* padEnd and slice: digits past the last decimal of a stroop are cut off.
Adjusted(frac) == [ i \in 1 .. Decimals |-> IF i <= Len(frac) THEN frac[i] ELSE 0 ]

Stroops(text) ==
  LET result == BigInt(text.whole) * STROOPS_PER_XLM + BigInt(Adjusted(text.frac))
  IN  IF text.negative THEN - result ELSE result
xlmToStroops(input) == Stroops(Expanded(input))

\* Seven decimals at most; those of a number or of a text with an exponent are not counted.
FaultyTooManyDecimals(text) == text.form = "decimal" /\ Len(text.frac) > Decimals + 1
TooManyDecimals(input) == input.form = "decimal" /\ Len(input.frac) > Decimals

PotOverflows(s, n) == s * n > MAX_I128

\* validateContributionAmount.
Accept ==
  LET s == xlmToStroops(raw) IN
  /\ raw.form # "garbage" /\ ~ TooManyDecimals(raw)
  /\ s > 0 /\ size > 0 /\ ~ PotOverflows(s, size)
  /\ s <= maxAffordableXlm * STROOPS_PER_XLM /\ s <= ABSURD_XLM * STROOPS_PER_XLM
  /\ stroops' = {s}
  /\ UNCHANGED <<raw, size>>

AmountsNext == Accept

AmountsSpec == AmountsInit /\ [][AmountsNext]_amountVars

\* formatXlm: the number of whole units, and the rest as Decimals digits.
Formatted(s) ==
  [ form |-> "decimal", negative |-> FALSE, whole |-> <<s \div STROOPS_PER_XLM>>,
    frac |-> DigitsOf(Base, s % STROOPS_PER_XLM, Decimals) ]

----------------------------------------------------------------------------
(* Properties.                                                             *)

\* A decimal that is accepted is taken to the last digit: nothing is cut off, rounded or
\* shifted.  A JavaScript number, or a text with an exponent, is taken for the double that
\* stands for it, which loses less than a stroop (0.3 is taken for 2999999 stroops) and
\* adds none but by half of toFixed's last digit.  What is accepted passes create_circle:
\* it is positive, the circle has members, and neither the pot nor a fund on the way to it
\* leaves i128.  And it is written so that reading it back gives the same amount.
AcceptedIsWithinAStroop ==
  \A s \in stroops :
    /\ raw.form = "decimal" =>
         s * Power(Base, Len(raw.frac)) = BigInt(raw.whole \o raw.frac) * STROOPS_PER_XLM
    /\ raw.form # "decimal" =>
         /\ Double(raw) * STROOPS_PER_XLM < (s + 1) * DoubleUnit
         /\ s * Power(Base, FixedDigits - Decimals) * (2 * DoubleUnit)
              <= 2 * Double(raw) * Power(Base, FixedDigits) + DoubleUnit
    /\ s > 0 /\ size > 0 /\ \A n \in 1 .. size : n * s <= MAX_I128
    /\ xlmToStroops(Formatted(s)) = s
=============================================================================
