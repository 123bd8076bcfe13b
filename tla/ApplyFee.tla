------------------------------ MODULE ApplyFee ------------------------------
(***************************************************************************)
(* The fee split of a payout (apply_fee): the fee is fee_bps ten-thousandths *)
(* of the pot, rounded down, computed from the quotient and the remainder  *)
(* of the amount by 10 000 so that no intermediate product overflows.      *)
(***************************************************************************)
EXTENDS Integers

MAX_FEE_BASIS_POINTS == 10000

\* A plausible mistake: the payout is the gross amount, on top of the fee.
FaultyApplyFeeSplit(fee_bps, amount) ==
  [fee |-> (fee_bps * amount) \div 10000, net |-> amount]

ApplyFeeSplit(fee_bps, amount) ==
  LET q   == amount \div 10000
      r   == amount % 10000
      fee == fee_bps * q + (fee_bps * r) \div 10000
  IN  [fee |-> fee, net |-> amount - fee]

=============================================================================
