----------------------------- MODULE Commission -----------------------------
(***************************************************************************)
(* The money arithmetic of the program: integer commission in basis points *)
(* and the saturating / capped subtractions the payout handlers rely on.   *)
(* Amounts are u64 in the code; the operators here are exact on Nat and    *)
(* the handlers state the u64 overflow checks themselves.                  *)
(***************************************************************************)
EXTENDS Naturals

\* Hard cap on a commission rate: 10%.
MaxCommissionRateBps == 1000

BpsDenominator == 10000

\* Floor of amount * rate / 10000.  The code widens to u128 for the product,
\* so nothing wraps; CommissionBounded (ArithmeticProofs) shows the result
\* fits back into a u64.
CalculateCommission(amount, rate_bps) ==
    (amount * rate_bps) \div BpsDenominator

SaturatingSub(a, b) == IF a > b THEN a - b ELSE 0

Least(a, b) == IF a < b THEN a ELSE b
=============================================================================
