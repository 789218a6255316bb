----------------------------- MODULE MCDecimal -----------------------------
(* A small instance of Decimal for TLC: base three, up to five digits.      *)
EXTENDS Decimal
=============================================================================
