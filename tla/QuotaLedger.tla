----------------------------- MODULE QuotaLedger -----------------------------
(***************************************************************************)
(* What the quota manager promises: every call on a subscriber's quota -   *)
(* reserve, debit, release, provision, expire - happens at one point in    *)
(* time and publishes exactly the journal entries of the change it made.   *)
(* QuotaStore models how the code carries the calls out and where it keeps *)
(* this promise.                                                           *)
(***************************************************************************)
EXTENDS QuotaDocument

CONSTANTS
  MaxTime,        \* bound on the clock
  Lag,            \* how long before its effect a call can have read the clock
  MaxUnits,       \* bound on the units asked for or used in one call
  MaxDeliveries   \* bound on the deliveries of one provisioning event

ASSUME BoundAssumption ==
  /\ MaxTime \in Nat
  /\ Lag \in Nat
  /\ MaxUnits \in Nat
  /\ MaxDeliveries \in Nat

VARIABLES
  quota,        \* the subscriber's document
  now,          \* the clock
  journal,      \* [Counter -> amounts published to quota-journal so far]
  drawn,        \* grant ids drawn so far; each call to reserve draws a new one
  deliveries    \* [Counter -> deliveries of its provisioning event so far]

vars == <<quota, now, journal, drawn, deliveries>>

TypeOK ==
  /\ quota \in Document
  /\ now \in 0..MaxTime
  /\ journal \in [Counter -> Totals]
  /\ drawn \in SUBSET Ref
  /\ deliveries \in [Counter -> 0..MaxDeliveries]

Init ==
  /\ quota = EmptyDocument
  /\ now = 0
  /\ journal = EmptyJournal
  /\ drawn = {}
  /\ deliveries = [c \in Counter |-> 0]

\* The clock readings a call taking effect now can carry.
Recent == {t \in 0..now : now <= t + Lag}

\* Save the document of a call and publish its entries.
Apply(call) ==
  /\ quota' = call.doc
  /\ journal' = PostLate(PostEarly(journal, call.early), call.late)

Reserve(r, units, t) ==
  /\ r \notin drawn
  /\ drawn' = drawn \union {r}
  /\ Apply(ReserveCall(quota, r, units, t))
  /\ UNCHANGED <<now, deliveries>>

DebitUnits(r, units, reclaim, t) ==
  /\ r \in drawn
  /\ Apply(DebitCall(quota, r, units, reclaim, t))
  /\ UNCHANGED <<now, drawn, deliveries>>

ReleaseUnits(r, t) ==
  /\ r \in drawn
  /\ Apply(ReleaseCall(quota, r, t))
  /\ UNCHANGED <<now, drawn, deliveries>>

\* A provisioning event is delivered at least once.
Provision(c, t) ==
  /\ deliveries[c] < MaxDeliveries
  /\ deliveries' = [deliveries EXCEPT ![c] = @ + 1]
  /\ Apply(ProvisionCall(quota, c, t))
  /\ UNCHANGED <<now, drawn>>

\* The housekeeping job visits the subscriber.
ProcessExpired(t) ==
  /\ Apply(ExpireCall(quota, t))
  /\ UNCHANGED <<now, drawn, deliveries>>

Tick ==
  /\ now < MaxTime
  /\ now' = now + 1
  /\ UNCHANGED <<quota, journal, drawn, deliveries>>

Next ==
  \/ \E r \in Ref, units \in 0..MaxUnits, t \in Recent : Reserve(r, units, t)
  \/ \E r \in Ref, units \in 1..MaxUnits, reclaim \in BOOLEAN, t \in Recent :
       DebitUnits(r, units, reclaim, t)
  \/ \E r \in Ref, t \in Recent : ReleaseUnits(r, t)
  \/ \E c \in Counter, t \in Recent : Provision(c, t)
  \/ \E t \in Recent : ProcessExpired(t)
  \/ Tick

Spec == Init /\ [][Next]_vars

-----------------------------------------------------------------------------
\* No counter ever has more reserved than it holds, whatever the order of
\* reservations, partial debits, expiries and loan repayments: this is what
\* lets DebitBalance clamp at zero without losing a debit.
NoOverReservation ==
  \A c \in Counter : Reserved(quota[c]) <= quota[c].balance

\* The quota journal accounts for every unit: what was provisioned on a
\* counter is what was debited, repaid to loans or written off at expiry,
\* plus the balance that is left.  A counter removed with a balance, a debit
\* clamped at zero or a write-off journaled twice would break it.
JournalBalances == Balanced(quota, journal)

\* The fee of a loan is paid before any of the loan itself (the Loan struct's
\* comment on TransactFee): a loan that was paid down owes no fee.
FeeBeforeLoan ==
  \A c \in Counter :
    Live(quota[c]) /\ LoanTerms[c].given /\ quota[c].loan < Initial[c]
      => quota[c].fee = 0

\* Everything lent, and the fee on top of it, is either still owed by a counter
\* of the quota or was repaid: a loan survives the expiry and the exhaustion of
\* its counter, and a redelivered event lends nothing twice.  The fee is a debt of
\* its own here, as it is in ProvisionCounter, in Clawback and in their tests; the
\* comment on Loan.TransactFee says that it "is included in the loanBalance", by
\* which a subscriber would pay back no more than was lent.
LoansAccountedFor ==
  LET lent(c) == IF LoanTerms[c].given
                   THEN journal[c].provisioned
                          + (journal[c].provisioned \div Initial[c]) * LoanTerms[c].fee
                   ELSE 0
  IN  Total([c \in Counter |-> lent(c)], NumCounters)
        = Total([c \in Counter |-> quota[c].loan + quota[c].fee + journal[c].repaid],
                NumCounters)

\* A loan that lends something.  A counter that holds and owes nothing leaves
\* the quota at once, and the fee of such a loan with it.
LoansLend == \A c \in Counter : LoanTerms[c].given => Initial[c] > 0

\* Terms under which a loan takes something of every value: without a minimum
\* and without a percentage it is passed over for ever.
LoansTake ==
  \A c \in Counter : LoanTerms[c].given =>
    LoanTerms[c].minimum > 0 \/ LoanTerms[c].percent > 0

Owed(c) == quota[c].loan + quota[c].fee

\* Loans are paid oldest first (FindCountersWithLoans): a step that pays some
\* loan pays something to every older one.
OldestLoanFirst ==
  [][\A c, d \in Counter :
       /\ quota[c].loan > 0 /\ quota[d].loan > 0
       /\ quota[c].position < quota[d].position
       /\ Owed(d)' < Owed(d)
       => Owed(c)' < Owed(c)]_vars

==============================================================================
