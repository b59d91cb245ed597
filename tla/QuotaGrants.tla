----------------------------- MODULE QuotaGrants -----------------------------
(***************************************************************************)
(* The quota manager as the charging engine uses it.  What a reservation   *)
(* answers becomes the grant the network element may use (rateUnit); a use *)
(* is debited when it fits a grant that is still valid (Accounting), and   *)
(* the grant shrinks by it or is given up.  Grants and reservations are    *)
(* two books of the same units, kept in different documents; the question  *)
(* is whether they agree.                                                  *)
(***************************************************************************)
EXTENDS QuotaLedger

VARIABLE
  granted   \* [Ref -> the grant of the session: units and end of validity]

grantVars == <<vars, granted>>

Grant == [units : Nat, until : Nat]

NoGrant == [units |-> 0, until |-> 0]

GrantsTypeOK == granted \in [Ref -> Grant]

GrantsInit == Init /\ granted = [r \in Ref |-> NoGrant]

Valid(r, t) == granted[r].until > t

\* Rating: the answer is what was granted.
ReserveGrant(r, units, t) ==
  /\ Reserve(r, units, t)
  /\ granted' = [granted EXCEPT
                   ![r] = [units |-> ReserveCall(quota, r, units, t).answer,
                           until |-> t + Validity]]

\* Mutant: use of more than was granted is debited.
UseGrantUnchecked(r, used, reclaim, t) ==
  /\ Valid(r, t)
  /\ granted' = [granted EXCEPT
                   ![r] = IF reclaim \/ used = @.units
                            THEN NoGrant
                            ELSE [units |-> @.units - used, until |-> @.until]]
  /\ DebitUnits(r, used, reclaim, t)

\* Accounting: use of more than was granted is an error, no debit.
UseGrant(r, used, reclaim, t) ==
  /\ Valid(r, t)
  /\ used <= granted[r].units
  /\ granted' = [granted EXCEPT
                   ![r] = IF reclaim \/ used = @.units
                            THEN NoGrant
                            ELSE [units |-> @.units - used, until |-> @.until]]
  /\ DebitUnits(r, used, reclaim, t)

\* A one-time charge that failed gives back what it reserved.
GiveBack(r, t) ==
  /\ granted' = [granted EXCEPT ![r] = NoGrant]
  /\ ReleaseUnits(r, t)

ManagerStep ==
  /\ UNCHANGED granted
  /\ \/ Tick
     \/ \E c \in Counter, t \in Recent : Provision(c, t)
     \/ \E t \in Recent : ProcessExpired(t)

GrantsNext ==
  \/ \E r \in Ref, units \in 0..MaxUnits, t \in Recent : ReserveGrant(r, units, t)
  \/ \E r \in Ref, used \in 1..MaxUnits, reclaim \in BOOLEAN, t \in Recent :
       UseGrant(r, used, reclaim, t)
  \/ \E r \in Ref, t \in Recent : GiveBack(r, t)
  \/ ManagerStep

GrantsSpec == GrantsInit /\ [][GrantsNext]_grantVars

-----------------------------------------------------------------------------
\* The uses the engine would accept for grant r now.
Usable(r) == IF Valid(r, now) THEN 1..granted[r].units ELSE {}

\* Nothing that was used within a valid grant goes unpaid.  It ties the grant
\* in the charging data to the reservations in the quota document across
\* partial debits, other reservations, the expiry of the counter (which must
\* be kept while reserved) and the pruning of reservations.
UseWithinGrantIsPaid ==
  \A r \in Ref : Plain(r) =>
    \A used \in Usable(r) :
      DebitCall(quota, r, used, FALSE, now).answer = 0

\* "UnitsGranted ... the quantity of the reserved units that have been
\* successfully allocated or granted for use" (ReserveResponse): the same for
\* every tariff the engine passes.
GrantedUnitsAreReserved ==
  \A r \in Ref : \A used \in Usable(r) :
    DebitCall(quota, r, used, FALSE, now).answer = 0

==============================================================================
