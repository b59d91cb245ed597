---------------------------- MODULE MCGrantsToPeer ----------------------------
(***************************************************************************)
(* A grant on its way from the quota to the peer.  QuotaGrants has the     *)
(* quota and what the engine grants of it, CreditControl what the engine   *)
(* grants and what a Diameter peer makes of it.  The two meet in what a    *)
(* reservation answers, which CreditControl takes any value for, so one of *)
(* them moves at a time: the states are the sum of theirs, not the product.*)
(* The peer has a service without a rating group, counted in units, and    *)
(* one counted in time, whose grant CC-Time cannot tell.                   *)
(***************************************************************************)
EXTENDS MCGrants, CreditControl, TLC

VARIABLE half

MCGroup == {0, 7}

MCTimed == {7}

MCWanted == {2}

MCGrantable == (0 :> {1}) @@ (7 :> {5})

GrantsToPeerInit == half \in {"quota", "peer"} /\ GrantsInit /\ CreditControlInit

GrantsToPeerNext ==
  \/ half = "quota" /\ GrantsNext /\ UNCHANGED <<half, creditVars>>
  \/ half = "peer" /\ CreditControlNext /\ UNCHANGED <<half, grantVars>>

GrantsToPeerSpec ==
  GrantsToPeerInit /\ [][GrantsToPeerNext]_<<half, grantVars, creditVars>>
==============================================================================
