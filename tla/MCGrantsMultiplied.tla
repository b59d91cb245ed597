--------------------------- MODULE MCGrantsMultiplied ---------------------------
(***************************************************************************)
(* A subscriber who has money and no service counter, so that every grant  *)
(* is out of bundle, at a tariff with a multiplier of 5/2.  A unit costs   *)
(* 46 with tax before the multiplier and 115 with it.                      *)
(***************************************************************************)
EXTENDS QuotaGrants

MCInitial == <<100>>

MCExpiryAt == <<9>>

MCLoanTerms == <<[given |-> FALSE, fee |-> 0, minimum |-> 0, percent |-> 0]>>

MCTariff ==
  <<[money |-> FALSE, matches |-> {1}, num |-> 5, den |-> 2,
     price |-> 40, taxed |-> 46, oob |-> TRUE]>>

==============================================================================
