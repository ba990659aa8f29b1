------------------------------- MODULE Combat -------------------------------
(***************************************************************************)
(* The resistance arithmetic of core/combat.py.                            *)
(*                                                                         *)
(* The program computes with Decimal.  Here every amount is a natural      *)
(* number of health points and every fraction a natural number of          *)
(* hundredths; a product with a fraction rounds down.  No property depends *)
(* on the digits that rounding drops.                                      *)
(***************************************************************************)
EXTENDS Integers

Percent == 100

Smaller(a, b) == IF a <= b THEN a ELSE b

Larger(a, b) == IF a >= b THEN a ELSE b

\* amount * fraction, the fraction given in hundredths.
Share(amount, fraction) == (amount * fraction) \div Percent

DamageTypes == {"PHYSICAL", "MAGIC", "TRUE"}

(***************************************************************************)
(* apply_resistance_pipeline, with the two stages the timeline uses:       *)
(* percentage penetration, then flat penetration, each skipped once the    *)
(* resistance is not positive and neither taking it below zero.            *)
(***************************************************************************)
Penetrated(resistance, percentPenetration, flatPenetration) ==
  LET left == IF resistance > 0
                THEN Share(resistance, Percent - percentPenetration)
                ELSE resistance
  IN  IF left > 0 THEN Larger(0, left - flatPenetration) ELSE left

\* 1 - (1 - p) * (1 - q): two percentage penetrations, one after the other.
Combined(p, q) == Percent - Share(Percent - p, Percent - q)

\* raw * resistance_multiplier(resistance)
Resisted(raw, resistance) ==
  IF resistance >= 0
    THEN (raw * 100) \div (100 + resistance)
    ELSE 2 * raw - (raw * 100) \div (100 - resistance)

=============================================================================
