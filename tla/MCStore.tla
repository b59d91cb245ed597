------------------------------ MODULE MCStore ------------------------------
(***************************************************************************)
(* Five requests on one subscriber, one call each: a top-up and its        *)
(* redelivery, a reservation, its debit, and the housekeeping job.         *)
(***************************************************************************)
EXTENDS QuotaStore

MCInitial == <<3>>

MCExpiryAt == <<5>>

MCLoanTerms == <<[given |-> FALSE, fee |-> 0, minimum |-> 0, percent |-> 0]>>

MCTariff ==
  [r \in 1..2 |-> [money |-> FALSE, matches |-> {1}, num |-> 1, den |-> 1,
                   price |-> 1, taxed |-> 1, oob |-> FALSE]]

MCProgram ==
  <<<<[kind |-> "provision", counter |-> 1]>>,
    <<[kind |-> "reserve", ref |-> 1, units |-> 2]>>,
    <<[kind |-> "debit", ref |-> 1, units |-> 2, reclaim |-> TRUE]>>,
    <<[kind |-> "provision", counter |-> 1]>>,
    <<[kind |-> "expire"]>>>>

MCFollows == <<{}, {1}, {1}, {1}, {1}>>

\* What the refinement asks for, and the proof of it assumes.
ASSUME HypothesesAssumption == SingleCalls /\ GrantsDrawnOnce

==============================================================================
