------------------------------ MODULE MCSession ------------------------------
(***************************************************************************)
(* One session that is opened, updated and released, its update sent again *)
(* under the retransmission flag and its first request without it, beside  *)
(* a one-time charge of the same subscriber.  Rating group 2 is free of    *)
(* charge.                                                                 *)
(***************************************************************************)
EXTENDS ChargingSession

MCInitial == <<4>>

MCExpiryAt == <<9>>

MCLoanTerms == <<[given |-> FALSE, fee |-> 0, minimum |-> 0, percent |-> 0]>>

MCTariff ==
  [r \in 1..4 |-> [money |-> FALSE, matches |-> {1}, num |-> 1, den |-> 1,
                   price |-> 1, taxed |-> 1, oob |-> FALSE]]

MCMinimum == <<1, 1>>

MCIncrement == <<1, 2>>

Report(group, units, reclaim, wanted) ==
  [group |-> group, used |-> <<[units |-> units, reclaim |-> reclaim]>>, wanted |-> wanted]

MCRequests ==
  <<[kind |-> "create", session |-> "a", seq |-> 0, resent |-> FALSE,
     usage |-> <<[group |-> 1, used |-> <<>>, wanted |-> 2]>>],
    [kind |-> "update", session |-> "a", seq |-> 1, resent |-> FALSE,
     usage |-> <<Report(1, 1, FALSE, 1)>>],
    [kind |-> "release", session |-> "a", seq |-> 2, resent |-> FALSE,
     usage |-> <<Report(1, 1, TRUE, 0)>>],
    [kind |-> "update", session |-> "a", seq |-> 1, resent |-> TRUE,
     usage |-> <<Report(1, 1, FALSE, 1)>>],
    [kind |-> "event", session |-> "b", seq |-> 0, resent |-> FALSE,
     usage |-> <<Report(1, 1, FALSE, 2), Report(2, 1, TRUE, 1)>>],
    [kind |-> "create", session |-> "a", seq |-> 0, resent |-> FALSE,
     usage |-> <<[group |-> 1, used |-> <<>>, wanted |-> 1]>>]>>

MCFollows == <<{}, {1}, {4}, {2, 5}, {1}, {4}>>

==============================================================================
