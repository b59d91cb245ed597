--------------------------- MODULE MCLedgerLoans ---------------------------
(***************************************************************************)
(* Two counters given on loan and one top-up that repays them.  The first  *)
(* loan expires early and takes half of a top-up, then what it still owes; *)
(* the second takes its minimum, which is all of a top-up, so that the     *)
(* order decides who is paid.  The halves are whole numbers.               *)
(***************************************************************************)
EXTENDS QuotaLedger

MCInitial == <<4, 8, 4>>

MCExpiryAt == <<1, 9, 2>>

MCLoanTerms ==
  <<[given |-> TRUE, fee |-> 1, minimum |-> 3, percent |-> 50],
    [given |-> TRUE, fee |-> 3, minimum |-> 4, percent |-> 0],
    [given |-> FALSE, fee |-> 0, minimum |-> 0, percent |-> 0]>>

MCTariff ==
  <<[money |-> FALSE, matches |-> {1, 2, 3}, num |-> 1, den |-> 1,
     price |-> 1, taxed |-> 1, oob |-> FALSE]>>

\* The hypotheses of the theorems about loans, on this instance.
ASSUME LoansAssumption == LoansLend /\ LoansTake

==============================================================================
