---------------------------- MODULE DiameterProxy ----------------------------
(***************************************************************************)
(* The proxy between the Diameter peers and the charging engine: it finds  *)
(* the subscriber's wholesaler, takes a token of the wholesaler's limiter, *)
(* posts the request and answers.  Requests are handled side by side.  A   *)
(* post that takes longer than thirty seconds is given up, which the       *)
(* engine does not notice.                                                 *)
(***************************************************************************)
EXTENDS Integers, FiniteSets

CONSTANTS
  Ccr,           \* credit control requests
  Reseller,      \* wholesalers
  Rate,          \* rate limits a wholesaler may have, tokens per second
  Burst,         \* tokens a limiter holds at most; the code has 50
  NoLimiter,     \* a wholesaler without a limiter, a request without one
  MaxSeconds     \* bound on the clock

ASSUME DiameterProxyAssumption ==
  /\ Rate \subseteq Nat /\ Burst \in Nat /\ MaxSeconds \in Nat
  /\ Rate # {} /\ IsFiniteSet(Ccr)
  /\ NoLimiter \notin Nat \union [rate : Nat, tokens : Nat, counted : Nat]

VARIABLES
  ccr,           \* [Ccr -> where its handler is]
  reseller,      \* [Ccr -> the wholesaler found for it]
  engine,        \* [Ccr -> what the engine made of it]
  answered,      \* [Ccr -> the answers sent to the peer]
  rateLimit,     \* the wholesaler table: [Reseller -> rate limit]
  limiter,       \* [Reseller -> rate, tokens and the second they were counted]
  seconds,       \* the clock
  made           \* history: [Reseller -> when its first limiter was made]

proxyVars == <<ccr, reseller, engine, answered, rateLimit, limiter, seconds, made>>

DiameterProxyInit ==
  /\ ccr = [r \in Ccr |-> "awaited"]
  /\ reseller = [r \in Ccr |-> NoLimiter]
  /\ engine = [r \in Ccr |-> "idle"]
  /\ answered = [r \in Ccr |-> {}]
  /\ rateLimit \in [Reseller -> Rate]
  /\ limiter = [w \in Reseller |-> NoLimiter]
  /\ seconds = 0
  /\ made = [w \in Reseller |-> NoLimiter]

\* The end of a handler.  No answer goes out when the request has no type, when a
\* part it lacks makes the handler panic, or when the connection is gone.
Reply(r, result) ==
  /\ ccr' = [ccr EXCEPT ![r] = "done"]
  /\ answered' \in {answered, [answered EXCEPT ![r] = @ \union {result}]}

\* A message that cannot be read, or nobody's number, is answered at once.
FindWholesaler(r) ==
  /\ ccr[r] = "awaited"
  /\ \/ \E w \in Reseller :
          /\ reseller' = [reseller EXCEPT ![r] = w]
          /\ ccr' = [ccr EXCEPT ![r] = "found"]
          /\ UNCHANGED answered
     \/ Reply(r, "UnableToComply") /\ UNCHANGED reseller
  /\ UNCHANGED <<engine, rateLimit, limiter, seconds, made>>

Full(rate) == [rate |-> rate, tokens |-> Burst, counted |-> seconds]

\* Mutant: a limiter with another rate than the table's is replaced.
GetReplacing(r) ==
  /\ ccr[r] = "found"
  /\ LET w == reseller[r]
         stale == IF limiter[w] = NoLimiter THEN TRUE
                  ELSE limiter[w].rate # rateLimit[w] IN
     /\ limiter' = [limiter EXCEPT ![w] = IF stale THEN Full(rateLimit[w]) ELSE @]
     /\ made' = [made EXCEPT ![w] = IF @ = NoLimiter THEN seconds ELSE @]
  /\ ccr' = [ccr EXCEPT ![r] = "limited"]
  /\ UNCHANGED <<reseller, engine, answered, rateLimit, seconds>>

\* WholesalerLimiterStore.Get: the limiter that is there keeps its rate.
Get(r) ==
  /\ ccr[r] = "found"
  /\ LET w == reseller[r] IN
     /\ limiter' = [limiter EXCEPT ![w] = IF @ = NoLimiter THEN Full(rateLimit[w]) ELSE @]
     /\ made' = [made EXCEPT ![w] = IF @ = NoLimiter THEN seconds ELSE @]
  /\ ccr' = [ccr EXCEPT ![r] = "limited"]
  /\ UNCHANGED <<reseller, engine, answered, rateLimit, seconds>>

\* The tokens there are by now (golang.org/x/time/rate).
Tokens(w) ==
  LET earned == limiter[w].tokens + limiter[w].rate * (seconds - limiter[w].counted)
  IN IF earned > Burst THEN Burst ELSE earned

\* Mutant: a request waits for its answer whatever the limiter says.
AllowLate(r) ==
  /\ ccr[r] = "limited"
  /\ engine' = [engine EXCEPT ![r] = "posted"]
  /\ LET w == reseller[r] IN
     IF Tokens(w) >= 1
     THEN /\ limiter' = [limiter EXCEPT ![w].tokens = Tokens(w) - 1, ![w].counted = seconds]
          /\ ccr' = [ccr EXCEPT ![r] = "posting"]
          /\ UNCHANGED answered
     ELSE Reply(r, "TooBusy") /\ UNCHANGED limiter
  /\ UNCHANGED <<reseller, rateLimit, seconds, made>>

\* Allow, and the post, which is not made for a type the engine has no path for,
\* or the answer that there are too many.
Allow(r) ==
  /\ ccr[r] = "limited"
  /\ LET w == reseller[r] IN
     IF Tokens(w) >= 1
     THEN /\ limiter' = [limiter EXCEPT ![w].tokens = Tokens(w) - 1, ![w].counted = seconds]
          /\ \/ /\ ccr' = [ccr EXCEPT ![r] = "posting"]
                /\ engine' = [engine EXCEPT ![r] = "posted"]
                /\ UNCHANGED answered
             \/ Reply(r, "UnableToComply") /\ UNCHANGED engine
     ELSE Reply(r, "TooBusy") /\ UNCHANGED <<limiter, engine>>
  /\ UNCHANGED <<reseller, rateLimit, seconds, made>>

\* The engine charges a request that has reached it, also when nobody waits.
Charge(r) ==
  /\ engine[r] = "posted"
  /\ engine' \in {[engine EXCEPT ![r] = x] : x \in {"charged", "refused"}}
  /\ UNCHANGED <<ccr, reseller, answered, rateLimit, limiter, seconds, made>>

\* What the engine answered is sent on, a refusal under its own result code.
SendAnswer(r) ==
  /\ ccr[r] = "posting"
  /\ engine[r] \in {"charged", "refused"}
  /\ Reply(r, IF engine[r] = "charged" THEN "Success" ELSE "Refused")
  /\ UNCHANGED <<reseller, engine, rateLimit, limiter, seconds, made>>

\* The time is up, the connection breaks, or the answer cannot be mapped.
GiveUp(r) ==
  /\ ccr[r] = "posting"
  /\ Reply(r, "UnableToComply")
  /\ UNCHANGED <<reseller, engine, rateLimit, limiter, seconds, made>>

\* A contract event changes the row.
ChangeRate(w) ==
  /\ \E rate \in Rate \ {rateLimit[w]} : rateLimit' = [rateLimit EXCEPT ![w] = rate]
  /\ UNCHANGED <<ccr, reseller, engine, answered, limiter, seconds, made>>

Second ==
  /\ seconds < MaxSeconds
  /\ seconds' = seconds + 1
  /\ UNCHANGED <<ccr, reseller, engine, answered, rateLimit, limiter, made>>

HandleCCR(r) == FindWholesaler(r) \/ Get(r) \/ Allow(r) \/ SendAnswer(r) \/ GiveUp(r)

DiameterProxyNext ==
  \/ \E r \in Ccr : HandleCCR(r) \/ Charge(r)
  \/ \E w \in Reseller : ChangeRate(w)
  \/ Second

DiameterProxySpec == DiameterProxyInit /\ [][DiameterProxyNext]_proxyVars

(***************************************************************************)
(* Properties.                                                             *)
(***************************************************************************)
\* A peer that was told to come back later was not charged, one that was told
\* of success was, one that was refused was not, and nobody is told twice (handleCCR).
AnswersTellCharging ==
  \A r \in Ccr :
    /\ Cardinality(answered[r]) <= 1
    /\ "TooBusy" \in answered[r] => engine[r] = "idle"
    /\ "Success" \in answered[r] => engine[r] = "charged"
    /\ "Refused" \in answered[r] => engine[r] = "refused"

\* However requests of a wholesaler come together and its rate changes, the
\* engine gets no more of them than the burst and what the rate of its first
\* limiter allows since then (Get, Allow).
WithinRate ==
  \A w \in Reseller : limiter[w] # NoLimiter =>
    Cardinality({r \in Ccr : reseller[r] = w /\ engine[r] # "idle"})
      <= Burst + limiter[w].rate * (seconds - made[w])
==============================================================================
