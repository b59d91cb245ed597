--------------------------- MODULE MCSessionFaults ---------------------------
(***************************************************************************)
(* One session whose update fails and is sent again, under its number but  *)
(* without the retransmission flag, and which is then released.            *)
(***************************************************************************)
EXTENDS ChargingSession

MCInitial == <<6>>

MCExpiryAt == <<9>>

MCLoanTerms == <<[given |-> FALSE, fee |-> 0, minimum |-> 0, percent |-> 0]>>

MCTariff ==
  [r \in 1..3 |-> [money |-> FALSE, matches |-> {1}, num |-> 1, den |-> 1,
                   price |-> 1, taxed |-> 1, oob |-> FALSE]]

MCMinimum == <<1>>

MCIncrement == <<1>>

Usage1(used, wanted) ==
  <<[group |-> 1, wanted |-> wanted,
     used  |-> IF used = 0 THEN <<>> ELSE <<[units |-> used, reclaim |-> FALSE]>>]>>

Sent(kind, seq, usage) ==
  [kind |-> kind, session |-> "a", seq |-> seq, resent |-> FALSE, usage |-> usage]

MCRequests ==
  <<Sent("create", 0, Usage1(0, 2)), Sent("update", 1, Usage1(1, 2)),
    Sent("update", 1, Usage1(1, 2)), Sent("release", 2, Usage1(1, 0))>>

MCFollows == <<{}, {1}, {2}, {3}>>

==============================================================================
