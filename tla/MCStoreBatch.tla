---------------------------- MODULE MCStoreBatch ----------------------------
(***************************************************************************)
(* Requests with more than one call: one that reserves for two rating      *)
(* groups and the update that debits both, beside a second top-up.         *)
(***************************************************************************)
EXTENDS QuotaStore

MCInitial == <<3, 1>>

MCExpiryAt == <<9, 9>>

MCLoanTerms ==
  [c \in 1..2 |-> [given |-> FALSE, fee |-> 0, minimum |-> 0, percent |-> 0]]

MCTariff ==
  [r \in 1..2 |-> [money |-> FALSE, matches |-> {1}, num |-> 1, den |-> 1,
                   price |-> 1, taxed |-> 1, oob |-> FALSE]]

MCProgram ==
  <<<<[kind |-> "provision", counter |-> 1]>>,
    <<[kind |-> "reserve", ref |-> 1, units |-> 1],
      [kind |-> "reserve", ref |-> 2, units |-> 1]>>,
    <<[kind |-> "debit", ref |-> 1, units |-> 1, reclaim |-> TRUE],
      [kind |-> "debit", ref |-> 2, units |-> 1, reclaim |-> TRUE]>>,
    <<[kind |-> "provision", counter |-> 2]>>>>

MCFollows == <<{}, {1}, {2}, {1}>>

==============================================================================
