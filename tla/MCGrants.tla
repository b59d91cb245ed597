------------------------------ MODULE MCGrants ------------------------------
(***************************************************************************)
(* Two service counters, the preferred one expiring while reserved, and a  *)
(* monetary one that pays what they lack.  The first grant id is used for  *)
(* a plain tariff, the second for one with a multiplier of 5/2.  The price *)
(* with tax carries the manager's rate of 0.15.                            *)
(***************************************************************************)
EXTENDS QuotaGrants

MCInitial == <<2, 2, 100>>

MCExpiryAt == <<1, 9, 9>>

MCLoanTerms ==
  [c \in 1..3 |-> [given |-> FALSE, fee |-> 0, minimum |-> 0, percent |-> 0]]

MCTariff ==
  <<[money |-> FALSE, matches |-> {1, 2, 3}, num |-> 1, den |-> 1,
     price |-> 20, taxed |-> 23, oob |-> TRUE],
    [money |-> FALSE, matches |-> {1, 2, 3}, num |-> 5, den |-> 2,
     price |-> 40, taxed |-> 46, oob |-> TRUE]>>

==============================================================================
