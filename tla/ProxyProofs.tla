---------------------------- MODULE ProxyProofs ----------------------------
(***************************************************************************)
(* The invariants of DiameterProxy, for any number of requests and         *)
(* wholesalers, every rate and every burst; and those of CreditControl, for*)
(* any groups, grants, number of requests and repetitions.                 *)
(***************************************************************************)
EXTENDS DiameterProxy, CreditControl, LoopsProofs, FiniteSetTheorems, TLAPS

Result == {"UnableToComply", "TooBusy", "Success", "Refused"}

ProxyTypeOK ==
  /\ ccr \in [Ccr -> {"awaited", "found", "limited", "posting", "done"}]
  /\ reseller \in [Ccr -> Reseller \union {NoLimiter}]
  /\ engine \in [Ccr -> {"idle", "posted", "charged", "refused"}]
  /\ answered \in [Ccr -> SUBSET Result]
  /\ rateLimit \in [Reseller -> Rate]
  /\ limiter \in [Reseller -> [rate : Nat, tokens : Nat, counted : Nat] \union {NoLimiter}]
  /\ seconds \in Nat
  /\ made \in [Reseller -> Nat \union {NoLimiter}]

\* Where the handler of a request is tells what the engine and the peer have.
Course(r) ==
  /\ ccr[r] \in {"awaited", "found", "limited"} => engine[r] = "idle"
  /\ ccr[r] \in {"found", "limited", "posting"} \/ engine[r] # "idle" => reseller[r] \in Reseller
  /\ ccr[r] # "done" => answered[r] = {}
  /\ ccr[r] = "done" /\ answered[r] # {} => \E x \in Result :
       /\ answered[r] = {x}
       /\ x = "TooBusy" => engine[r] = "idle"
       /\ x = "Success" => engine[r] = "charged"
       /\ x = "Refused" => engine[r] = "refused"

PostedFor(w) == {r \in Ccr : reseller[r] = w /\ engine[r] # "idle"}

(***************************************************************************)
(* The account of a limiter: what was posted and the tokens left come to no*)
(* more than the burst and what was earned until the tokens were counted.  *)
(***************************************************************************)
Allowance(w) ==
  /\ limiter[w] = NoLimiter <=> made[w] = NoLimiter
  /\ limiter[w] = NoLimiter => PostedFor(w) = {} /\ \A r \in Ccr :
       reseller[r] = w => ccr[r] \notin {"limited", "posting"}
  /\ limiter[w] # NoLimiter =>
       /\ made[w] <= limiter[w].counted /\ limiter[w].counted <= seconds
       /\ limiter[w].tokens <= Burst
       /\ Cardinality(PostedFor(w)) + limiter[w].tokens
            <= Burst + limiter[w].rate * (limiter[w].counted - made[w])

ProxyInv ==
  /\ ProxyTypeOK
  /\ \A r \in Ccr : Course(r)
  /\ \A w \in Reseller : Allowance(w)

LEMMA Nats == Rate \subseteq Nat /\ Burst \in Nat /\ MaxSeconds \in Nat
              /\ NoLimiter \notin Nat
              /\ NoLimiter \notin [rate : Nat, tokens : Nat, counted : Nat]
  BY DiameterProxyAssumption

LEMMA PostedFinite ==
  ASSUME NEW w
  PROVE  IsFiniteSet(PostedFor(w)) /\ Cardinality(PostedFor(w)) \in Nat
  <1>1. PostedFor(w) \subseteq Ccr
    BY DEF PostedFor
  <1> QED
    BY <1>1, FS_Subset, FS_CardinalityType, DiameterProxyAssumption

LEMMA Telescope == \A k, x, y, z \in Int : k * (x - y) + k * (y - z) = k * (x - z)
  OBVIOUS

LEMMA Earning == \A k, x \in Nat : k * x \in Nat
  OBVIOUS

LEMMA ProxyInitially == DiameterProxyInit => ProxyInv
  <1> SUFFICES ASSUME DiameterProxyInit PROVE ProxyInv
    OBVIOUS
  <1>1. ProxyTypeOK
    BY DEF DiameterProxyInit, ProxyTypeOK
  <1>2. \A r \in Ccr : Course(r)
    BY DEF DiameterProxyInit, Course
  <1>3. \A w \in Reseller : Allowance(w)
    BY DEF DiameterProxyInit, Allowance, PostedFor
  <1> QED
    BY <1>1, <1>2, <1>3 DEF ProxyInv

\* The accounts hardly notice a step that posts nothing and takes no token.
LEMMA AllowanceKept ==
  ASSUME ProxyInv, UNCHANGED <<limiter, made>>,
         seconds' \in Nat, seconds <= seconds',
         \A w \in Reseller : PostedFor(w)' = PostedFor(w),
         \A w \in Reseller : limiter[w] = NoLimiter => \A r \in Ccr :
           reseller'[r] = w => ccr'[r] \notin {"limited", "posting"}
  PROVE  \A w \in Reseller : Allowance(w)'
  <1> SUFFICES ASSUME NEW w \in Reseller PROVE Allowance(w)'
    OBVIOUS
  <1>1. Allowance(w) /\ PostedFor(w)' = PostedFor(w) /\ seconds \in Nat
    BY DEF ProxyInv, ProxyTypeOK
  <1>2. limiter[w] # NoLimiter => limiter[w].counted \in Nat
    BY DEF ProxyInv, ProxyTypeOK
  <1> QED
    BY <1>1, <1>2 DEF Allowance

LEMMA FindPreserves ==
  ASSUME ProxyInv, NEW r \in Ccr, FindWholesaler(r)
  PROVE  ProxyInv'
  <1>1. /\ ccr[r] = "awaited" /\ engine[r] = "idle" /\ answered[r] = {}
        /\ UNCHANGED <<engine, rateLimit, limiter, seconds, made>>
    BY DEF FindWholesaler, ProxyInv, Course
  <1>2. ProxyTypeOK
    BY DEF ProxyInv
  <1>3. \/ \E w \in Reseller : /\ reseller' = [reseller EXCEPT ![r] = w]
                               /\ ccr' = [ccr EXCEPT ![r] = "found"]
                               /\ UNCHANGED answered
        \/ /\ ccr' = [ccr EXCEPT ![r] = "done"]
           /\ answered' \in {answered, [answered EXCEPT ![r] = @ \union {"UnableToComply"}]}
           /\ UNCHANGED reseller
    BY DEF FindWholesaler, Reply
  <1>4. ProxyTypeOK'
    BY <1>1, <1>2, <1>3 DEF ProxyTypeOK, Result
  <1>5. \A q \in Ccr : Course(q)'
    <2> SUFFICES ASSUME NEW q \in Ccr PROVE Course(q)'
      OBVIOUS
    <2>1. CASE q = r
      BY <1>1, <1>2, <1>3, <2>1 DEF ProxyTypeOK, Course, Result
    <2>2. CASE q # r
      <3>1. /\ ccr'[q] = ccr[q] /\ reseller'[q] = reseller[q] /\ answered'[q] = answered[q]
            /\ engine'[q] = engine[q]
        BY <1>1, <1>2, <1>3, <2>2 DEF ProxyTypeOK
      <3> QED
        BY <3>1 DEF ProxyInv, Course
    <2> QED
      BY <2>1, <2>2
  <1>6. \A w \in Reseller : PostedFor(w)' = PostedFor(w)
    BY <1>1, <1>2, <1>3 DEF PostedFor, ProxyTypeOK
  <1>7. \A w \in Reseller : limiter[w] = NoLimiter => \A q \in Ccr :
          reseller'[q] = w => ccr'[q] \notin {"limited", "posting"}
    <2> SUFFICES ASSUME NEW w \in Reseller, limiter[w] = NoLimiter, NEW q \in Ccr,
                        reseller'[q] = w
                 PROVE  ccr'[q] \notin {"limited", "posting"}
      OBVIOUS
    <2>1. CASE q = r
      BY <1>2, <1>3, <2>1 DEF ProxyTypeOK
    <2>2. CASE q # r
      <3>1. ccr'[q] = ccr[q] /\ reseller'[q] = reseller[q]
        BY <1>2, <1>3, <2>2 DEF ProxyTypeOK
      <3> QED
        BY <3>1 DEF ProxyInv, Allowance
    <2> QED
      BY <2>1, <2>2
  <1>8. \A w \in Reseller : Allowance(w)'
    BY <1>1, <1>2, <1>6, <1>7, AllowanceKept DEF ProxyTypeOK
  <1> QED
    BY <1>4, <1>5, <1>8 DEF ProxyInv

LEMMA GetPreserves ==
  ASSUME ProxyInv, NEW r \in Ccr, Get(r)
  PROVE  ProxyInv'
  <1> DEFINE w == reseller[r]
  <1>1. /\ ccr[r] = "found" /\ engine[r] = "idle" /\ w \in Reseller
        /\ ccr' = [ccr EXCEPT ![r] = "limited"]
        /\ UNCHANGED <<reseller, engine, answered, rateLimit, seconds>>
        /\ limiter' = [limiter EXCEPT ![w] = IF @ = NoLimiter THEN Full(rateLimit[w]) ELSE @]
        /\ made' = [made EXCEPT ![w] = IF @ = NoLimiter THEN seconds ELSE @]
    BY DEF Get, ProxyInv, Course
  <1> HIDE DEF w
  <1>2. ProxyTypeOK /\ seconds \in Nat /\ rateLimit[w] \in Nat
    BY <1>1, Nats DEF ProxyInv, ProxyTypeOK
  <1>3. /\ Full(rateLimit[w]) \in [rate : Nat, tokens : Nat, counted : Nat]
        /\ Full(rateLimit[w]) # NoLimiter
    BY <1>2, Nats DEF Full
  <1>4. ProxyTypeOK'
    BY <1>1, <1>2, <1>3 DEF ProxyTypeOK
  <1>5. \A q \in Ccr : Course(q)'
    <2> SUFFICES ASSUME NEW q \in Ccr PROVE Course(q)'
      OBVIOUS
    <2>1. ccr'[q] = IF q = r THEN "limited" ELSE ccr[q]
      BY <1>1, <1>2 DEF ProxyTypeOK
    <2> QED
      BY <1>1, <2>1 DEF ProxyInv, Course
  <1>6. \A v \in Reseller : PostedFor(v)' = PostedFor(v)
    BY <1>1 DEF PostedFor
  <1>7. \A v \in Reseller : Allowance(v)'
    <2> SUFFICES ASSUME NEW v \in Reseller PROVE Allowance(v)'
      OBVIOUS
    <2>1. Allowance(v)
      BY DEF ProxyInv
    <2>2. CASE limiter[v] # NoLimiter
      <3>1. limiter'[v] = limiter[v] /\ made'[v] = made[v]
        BY <1>1, <1>2, <2>1, <2>2 DEF ProxyTypeOK, Allowance
      <3> QED
        BY <1>1, <1>6, <2>1, <2>2, <3>1 DEF Allowance
    <2>3. CASE limiter[v] = NoLimiter /\ v = w
      <3>1. limiter'[v] = Full(rateLimit[w]) /\ made'[v] = seconds
        BY <1>1, <1>2, <2>1, <2>3 DEF ProxyTypeOK, Allowance
      <3>2. Cardinality(PostedFor(v)') = 0
        BY <1>6, <2>1, <2>3, FS_EmptySet DEF Allowance
      <3>3. limiter'[v] # NoLimiter /\ made'[v] # NoLimiter
        BY <1>2, <1>3, <3>1, Nats
      <3>4. /\ limiter'[v].tokens = Burst /\ limiter'[v].counted = seconds
            /\ limiter'[v].rate = rateLimit[w]
        BY <3>1 DEF Full
      <3>5. 0 + Burst <= Burst + rateLimit[w] * (seconds - seconds)
        BY <1>2, Nats
      <3> QED
        BY <1>1, <1>2, <3>1, <3>2, <3>3, <3>4, <3>5, Nats DEF Allowance
    <2>4. CASE limiter[v] = NoLimiter /\ v # w
      <3>1. limiter'[v] = limiter[v] /\ made'[v] = made[v]
        BY <1>1, <1>2, <2>4 DEF ProxyTypeOK
      <3>2. \A q \in Ccr : reseller'[q] = v => ccr'[q] = ccr[q]
        BY <1>1, <1>2, <2>4 DEF ProxyTypeOK, w
      <3> QED
        BY <1>1, <1>6, <2>1, <2>4, <3>1, <3>2 DEF Allowance
    <2> QED
      BY <2>2, <2>3, <2>4
  <1> QED
    BY <1>4, <1>5, <1>7 DEF ProxyInv

\* The one step that posts pays for it with a token.
LEMMA AllowPreserves ==
  ASSUME ProxyInv, NEW r \in Ccr, Allow(r)
  PROVE  ProxyInv'
  <1> DEFINE w == reseller[r]
             paid == [limiter EXCEPT ![w].tokens = Tokens(w) - 1, ![w].counted = seconds]
  <1>1. /\ ccr[r] = "limited" /\ engine[r] = "idle" /\ answered[r] = {} /\ w \in Reseller
        /\ UNCHANGED <<reseller, rateLimit, seconds, made>>
    BY DEF Allow, ProxyInv, Course
  <1>2. \/ /\ Tokens(w) >= 1 /\ limiter' = paid
           /\ ccr' = [ccr EXCEPT ![r] = "posting"]
           /\ engine' = [engine EXCEPT ![r] = "posted"]
           /\ UNCHANGED answered
        \/ /\ Tokens(w) >= 1 /\ limiter' = paid
           /\ ccr' = [ccr EXCEPT ![r] = "done"]
           /\ answered' \in {answered, [answered EXCEPT ![r] = @ \union {"UnableToComply"}]}
           /\ UNCHANGED engine
        \/ /\ ccr' = [ccr EXCEPT ![r] = "done"]
           /\ answered' \in {answered, [answered EXCEPT ![r] = @ \union {"TooBusy"}]}
           /\ UNCHANGED <<limiter, engine>>
    BY DEF Allow, Reply
  <1>3. ProxyTypeOK /\ seconds \in Nat /\ Burst \in Nat
    BY Nats DEF ProxyInv, ProxyTypeOK
  <1>4. Allowance(w) /\ limiter[w] # NoLimiter
    BY <1>1 DEF ProxyInv, Allowance
  <1> HIDE DEF w
  <1>5. /\ limiter[w] \in [rate : Nat, tokens : Nat, counted : Nat]
        /\ made[w] \in Nat
    BY <1>1, <1>3, <1>4 DEF ProxyTypeOK, Allowance
  <1>6. limiter[w].counted <= seconds /\ limiter[w].tokens <= Burst
    BY <1>4 DEF Allowance
  <1> DEFINE earned == limiter[w].rate * (seconds - limiter[w].counted)
  <1>7. earned \in Nat
    BY <1>3, <1>5, <1>6, Earning
  <1>8. /\ Tokens(w) \in Nat /\ Tokens(w) <= Burst
        /\ Tokens(w) <= limiter[w].tokens + earned
    BY <1>3, <1>5, <1>7 DEF Tokens
  <1> HIDE DEF earned
  <1>9. \A q \in Ccr : Course(q)'
    <2> SUFFICES ASSUME NEW q \in Ccr PROVE Course(q)'
      OBVIOUS
    <2>1. CASE q = r
      BY <1>1, <1>2, <1>3, <2>1 DEF ProxyTypeOK, Course, Result, w
    <2>2. CASE q # r
      <3>1. /\ ccr'[q] = ccr[q] /\ reseller'[q] = reseller[q] /\ answered'[q] = answered[q]
            /\ engine'[q] = engine[q]
        BY <1>1, <1>2, <1>3, <2>2 DEF ProxyTypeOK
      <3> QED
        BY <3>1 DEF ProxyInv, Course
    <2> QED
      BY <2>1, <2>2
  <1>10. CASE /\ Tokens(w) >= 1 /\ limiter' = paid
              /\ \/ /\ ccr' = [ccr EXCEPT ![r] = "posting"]
                    /\ engine' = [engine EXCEPT ![r] = "posted"]
                    /\ UNCHANGED answered
                 \/ /\ ccr' = [ccr EXCEPT ![r] = "done"]
                    /\ answered' \in
                         {answered, [answered EXCEPT ![r] = @ \union {"UnableToComply"}]}
                    /\ UNCHANGED engine
    <2>1. /\ limiter'[w] = [rate |-> limiter[w].rate, tokens |-> Tokens(w) - 1,
                            counted |-> seconds]
          /\ \A v \in Reseller : v # w => limiter'[v] = limiter[v]
          /\ limiter' \in
               [Reseller -> [rate : Nat, tokens : Nat, counted : Nat] \union {NoLimiter}]
      <3>1. limiter'[w] = [limiter[w] EXCEPT !.tokens = Tokens(w) - 1, !.counted = seconds]
        BY <1>1, <1>3, <1>10 DEF ProxyTypeOK
      <3>2. limiter'[w] = [rate |-> limiter[w].rate, tokens |-> Tokens(w) - 1,
                           counted |-> seconds]
        BY <1>5, <3>1
      <3>3. limiter'[w] \in [rate : Nat, tokens : Nat, counted : Nat]
        BY <1>3, <1>5, <1>8, <1>10, <3>2
      <3>4. \A v \in Reseller : v # w => limiter'[v] = limiter[v]
        BY <1>3, <1>10 DEF ProxyTypeOK
      <3>5. DOMAIN limiter' = Reseller /\ limiter' = [v \in Reseller |-> limiter'[v]]
        BY <1>3, <1>10 DEF ProxyTypeOK
      <3> QED
        BY <1>3, <3>2, <3>3, <3>4, <3>5 DEF ProxyTypeOK
    <2>2. ProxyTypeOK'
      BY <1>1, <1>3, <1>10, <2>1 DEF ProxyTypeOK, Result
    <2>3. /\ \A v \in Reseller : v # w => PostedFor(v)' = PostedFor(v)
          /\ PostedFor(w)' \in {PostedFor(w), PostedFor(w) \union {r}}
          /\ r \notin PostedFor(w)
      BY <1>1, <1>3, <1>10 DEF PostedFor, ProxyTypeOK, w
    <2>4. /\ Cardinality(PostedFor(w)') \in Nat
          /\ Cardinality(PostedFor(w)') <= Cardinality(PostedFor(w)) + 1
      <3>1. Cardinality(PostedFor(w)) \in Nat /\ IsFiniteSet(PostedFor(w))
        BY PostedFinite
      <3>2. Cardinality(PostedFor(w) \union {r}) = Cardinality(PostedFor(w)) + 1
        BY <2>3, <3>1, FS_AddElement
      <3> QED
        BY <2>3, <3>1, <3>2
    <2>5. \A v \in Reseller : Allowance(v)'
      <3> SUFFICES ASSUME NEW v \in Reseller PROVE Allowance(v)'
        OBVIOUS
      <3>1. CASE v = w
        <4>1. /\ Cardinality(PostedFor(w)) \in Nat
              /\ Cardinality(PostedFor(w)) + limiter[w].tokens
                   <= Burst + limiter[w].rate * (limiter[w].counted - made[w])
              /\ made[w] <= limiter[w].counted
          BY <1>4, PostedFinite DEF Allowance
        <4>2. limiter[w].rate * (limiter[w].counted - made[w]) + earned
                = limiter[w].rate * (seconds - made[w])
          <5>1. /\ limiter[w].rate \in Int /\ limiter[w].counted \in Int
                /\ seconds \in Int /\ made[w] \in Int
            BY <1>3, <1>5
          <5>2. limiter[w].rate * (seconds - limiter[w].counted)
                  + limiter[w].rate * (limiter[w].counted - made[w])
                  = limiter[w].rate * (seconds - made[w])
            BY <5>1, Telescope
          <5>3. limiter[w].rate * (limiter[w].counted - made[w]) \in Int
            BY <5>1
          <5> QED
            BY <1>7, <5>2, <5>3 DEF earned
        <4> DEFINE before == limiter[w].rate * (limiter[w].counted - made[w])
                   now == limiter[w].rate * (seconds - made[w])
        <4>3. before \in Int /\ now \in Int /\ limiter[w].tokens \in Int
          BY <1>3, <1>5
        <4>4. /\ Cardinality(PostedFor(w)) + limiter[w].tokens <= Burst + before
              /\ before + earned = now
          BY <4>1, <4>2
        <4> HIDE DEF before, now
        <4>5. Cardinality(PostedFor(w)) + 1 + (Tokens(w) - 1) <= Burst + now
          BY <1>3, <1>7, <1>8, <4>1, <4>3, <4>4
        <4>6. Cardinality(PostedFor(w)') + limiter'[w].tokens
                <= Burst + limiter'[w].rate * (limiter'[w].counted - made'[w])
          <5>1. now \in Int
            BY <4>3
          <5>2. Cardinality(PostedFor(w)') + (Tokens(w) - 1) <= Burst + now
            BY <1>3, <1>8, <2>4, <4>1, <4>5, <5>1
          <5> QED
            BY <1>1, <2>1, <5>2 DEF now
        <4>7. /\ made'[w] <= limiter'[w].counted /\ limiter'[w].counted <= seconds'
              /\ limiter'[w].tokens <= Burst
          BY <1>1, <1>3, <1>5, <1>6, <1>8, <2>1, <4>1
        <4>8. limiter'[w] # NoLimiter /\ made'[w] # NoLimiter
          BY <1>1, <1>3, <1>5, <1>8, <1>10, <2>1, Nats
        <4>9. PostedFor(v)' = PostedFor(w)'
          BY <1>1, <3>1 DEF PostedFor, w
        <4> QED
          BY <3>1, <4>6, <4>7, <4>8, <4>9 DEF Allowance
      <3>2. CASE v # w
        <4>1. /\ limiter'[v] = limiter[v] /\ made'[v] = made[v] /\ PostedFor(v)' = PostedFor(v)
              /\ \A q \in Ccr : reseller'[q] = v => ccr'[q] = ccr[q]
          BY <1>1, <1>3, <1>10, <2>1, <2>3, <3>2 DEF ProxyTypeOK, w
        <4> QED
          BY <1>1, <4>1 DEF ProxyInv, Allowance
      <3> QED
        BY <3>1, <3>2
    <2> QED
      BY <1>9, <2>2, <2>5 DEF ProxyInv
  <1>11. CASE /\ ccr' = [ccr EXCEPT ![r] = "done"]
              /\ answered' \in {answered, [answered EXCEPT ![r] = @ \union {"TooBusy"}]}
              /\ UNCHANGED <<limiter, engine>>
    <2>1. ProxyTypeOK'
      BY <1>1, <1>3, <1>11 DEF ProxyTypeOK, Result
    <2>2. \A v \in Reseller : PostedFor(v)' = PostedFor(v)
      BY <1>1, <1>11 DEF PostedFor
    <2>3. \A q \in Ccr : ccr'[q] = IF q = r THEN "done" ELSE ccr[q]
      BY <1>3, <1>11 DEF ProxyTypeOK
    <2>4. \A v \in Reseller : limiter[v] = NoLimiter => \A q \in Ccr :
            reseller'[q] = v => ccr'[q] \notin {"limited", "posting"}
      BY <1>1, <2>3 DEF ProxyInv, Allowance
    <2>5. \A v \in Reseller : Allowance(v)'
      BY <1>1, <1>3, <1>11, <2>2, <2>4, AllowanceKept
    <2> QED
      BY <1>9, <2>1, <2>5 DEF ProxyInv
  <1> QED
    BY <1>2, <1>10, <1>11

\* An answer, whatever it is, must be backed by what the engine did.
LEMMA ReplyPreserves ==
  ASSUME ProxyInv, NEW r \in Ccr, ccr[r] = "posting", NEW x \in Result, Reply(r, x),
         x # "TooBusy",
         x = "Success" => engine[r] = "charged",
         x = "Refused" => engine[r] = "refused",
         UNCHANGED <<reseller, engine, rateLimit, limiter, seconds, made>>
  PROVE  ProxyInv'
  <1>1. /\ ccr' = [ccr EXCEPT ![r] = "done"]
        /\ answered' \in {answered, [answered EXCEPT ![r] = @ \union {x}]}
        /\ answered[r] = {} /\ reseller[r] \in Reseller
    BY DEF Reply, ProxyInv, Course
  <1>2. ProxyTypeOK /\ seconds \in Nat
    BY DEF ProxyInv, ProxyTypeOK
  <1>3. ProxyTypeOK'
    BY <1>1, <1>2 DEF ProxyTypeOK
  <1>4. \A q \in Ccr : Course(q)'
    <2> SUFFICES ASSUME NEW q \in Ccr PROVE Course(q)'
      OBVIOUS
    <2>1. CASE q = r
      <3>1. ccr'[r] = "done" /\ answered'[r] \in {{}, {x}}
        BY <1>1, <1>2 DEF ProxyTypeOK
      <3> QED
        BY <1>1, <2>1, <3>1 DEF Course
    <2>2. CASE q # r
      <3>1. ccr'[q] = ccr[q] /\ answered'[q] = answered[q]
        BY <1>1, <1>2, <2>2 DEF ProxyTypeOK
      <3> QED
        BY <3>1 DEF ProxyInv, Course
    <2> QED
      BY <2>1, <2>2
  <1>5. \A v \in Reseller : PostedFor(v)' = PostedFor(v)
    BY DEF PostedFor
  <1>6. \A q \in Ccr : ccr'[q] = IF q = r THEN "done" ELSE ccr[q]
    BY <1>1, <1>2 DEF ProxyTypeOK
  <1>7. \A v \in Reseller : limiter[v] = NoLimiter => \A q \in Ccr :
          reseller'[q] = v => ccr'[q] \notin {"limited", "posting"}
    BY <1>6 DEF ProxyInv, Allowance
  <1>8. \A v \in Reseller : Allowance(v)'
    BY <1>2, <1>5, <1>7, AllowanceKept
  <1> QED
    BY <1>3, <1>4, <1>8 DEF ProxyInv

LEMMA ChargePreserves ==
  ASSUME ProxyInv, NEW r \in Ccr, Charge(r)
  PROVE  ProxyInv'
  <1> PICK x \in {"charged", "refused"} : engine' = [engine EXCEPT ![r] = x]
    BY DEF Charge
  <1>1. /\ engine[r] = "posted"
        /\ UNCHANGED <<ccr, reseller, answered, rateLimit, limiter, seconds, made>>
    BY DEF Charge
  <1>2. ProxyTypeOK /\ seconds \in Nat
    BY DEF ProxyInv, ProxyTypeOK
  <1>3. \A q \in Ccr : engine'[q] = IF q = r THEN x ELSE engine[q]
    BY <1>2 DEF ProxyTypeOK
  <1>4. ProxyTypeOK'
    BY <1>1, <1>2 DEF ProxyTypeOK
  <1>5. \A q \in Ccr : Course(q)'
    BY <1>1, <1>3 DEF ProxyInv, Course
  <1>6. \A w \in Reseller : PostedFor(w)' = PostedFor(w)
    BY <1>1, <1>3 DEF PostedFor
  <1>7. \A w \in Reseller : Allowance(w)'
    BY <1>1, <1>2, <1>6, AllowanceKept DEF ProxyInv, Allowance
  <1> QED
    BY <1>4, <1>5, <1>7 DEF ProxyInv

LEMMA ProxyPreserved == ProxyInv /\ [DiameterProxyNext]_proxyVars => ProxyInv'
  <1> SUFFICES ASSUME ProxyInv, [DiameterProxyNext]_proxyVars PROVE ProxyInv'
    OBVIOUS
  <1>1. ASSUME NEW r \in Ccr, HandleCCR(r) PROVE ProxyInv'
    <2>1. CASE SendAnswer(r)
      <3>1. /\ ccr[r] = "posting" /\ engine[r] \in {"charged", "refused"}
            /\ UNCHANGED <<reseller, engine, rateLimit, limiter, seconds, made>>
            /\ Reply(r, IF engine[r] = "charged" THEN "Success" ELSE "Refused")
        BY <2>1 DEF SendAnswer
      <3>2. CASE engine[r] = "charged"
        <4>1. Reply(r, "Success")
          BY <3>1, <3>2
        <4> QED
          BY <3>1, <3>2, <4>1, ReplyPreserves DEF Result
      <3>3. CASE engine[r] = "refused"
        <4>1. Reply(r, "Refused")
          BY <3>1, <3>3
        <4> QED
          BY <3>1, <3>3, <4>1, ReplyPreserves DEF Result
      <3> QED
        BY <3>1, <3>2, <3>3
    <2>2. CASE GiveUp(r)
      BY <2>2, ReplyPreserves DEF GiveUp, Result
    <2> QED
      BY <1>1, <2>1, <2>2, FindPreserves, GetPreserves, AllowPreserves DEF HandleCCR
  <1>2. ASSUME NEW w \in Reseller, ChangeRate(w) PROVE ProxyInv'
    <2>1. UNCHANGED <<ccr, reseller, engine, answered, limiter, seconds, made>>
          /\ rateLimit' \in [Reseller -> Rate]
      BY <1>2 DEF ChangeRate, ProxyInv, ProxyTypeOK
    <2> QED
      BY <2>1 DEF ProxyInv, ProxyTypeOK, Course, Allowance, PostedFor
  <1>3. CASE Second
    <2>1. /\ UNCHANGED <<ccr, reseller, engine, answered, rateLimit, limiter, made>>
          /\ seconds \in Nat /\ seconds' \in Nat /\ seconds <= seconds'
      BY <1>3 DEF Second, ProxyInv, ProxyTypeOK
    <2>2. ProxyTypeOK' /\ \A r \in Ccr : Course(r)'
      BY <2>1 DEF ProxyInv, ProxyTypeOK, Course
    <2>3. \A w \in Reseller : Allowance(w)'
      BY <2>1, AllowanceKept DEF PostedFor, ProxyInv, Allowance
    <2> QED
      BY <2>2, <2>3 DEF ProxyInv
  <1>4. CASE UNCHANGED proxyVars
    BY <1>4 DEF proxyVars, ProxyInv, ProxyTypeOK, Course, Allowance, PostedFor
  <1> QED
    BY <1>1, <1>2, <1>3, <1>4, ChargePreserves DEF DiameterProxyNext

LEMMA ProxyInvariant == DiameterProxySpec => []ProxyInv
  BY ProxyInitially, ProxyPreserved, PTL DEF DiameterProxySpec

\* Nobody is told twice, and what a peer is told is what the engine did, however
\* many requests are handled side by side.
THEOREM AnswersTrue == DiameterProxySpec => []AnswersTellCharging
  <1>1. ProxyInv => AnswersTellCharging
    <2> SUFFICES ASSUME ProxyInv, NEW r \in Ccr
                 PROVE  /\ Cardinality(answered[r]) <= 1
                        /\ "TooBusy" \in answered[r] => engine[r] = "idle"
                        /\ "Success" \in answered[r] => engine[r] = "charged"
                        /\ "Refused" \in answered[r] => engine[r] = "refused"
      BY DEF AnswersTellCharging
    <2>1. CASE answered[r] = {}
      BY <2>1, FS_EmptySet
    <2>2. CASE answered[r] # {}
      <3>1. PICK x \in Result :
              /\ answered[r] = {x}
              /\ x = "TooBusy" => engine[r] = "idle"
              /\ x = "Success" => engine[r] = "charged"
              /\ x = "Refused" => engine[r] = "refused"
        BY <2>2 DEF ProxyInv, Course
      <3>2. Cardinality(answered[r]) = 1
        BY <3>1, FS_Singleton
      <3> QED
        BY <3>1, <3>2
    <2> QED
      BY <2>1, <2>2
  <1> QED
    BY <1>1, ProxyInvariant, PTL

\* The engine gets no more requests of a wholesaler than its burst and what its
\* limiter has earned.
THEOREM RateKept == DiameterProxySpec => []WithinRate
  <1>1. ProxyInv => WithinRate
    <2> SUFFICES ASSUME ProxyInv, NEW w \in Reseller, limiter[w] # NoLimiter
                 PROVE  Cardinality(PostedFor(w)) <= Burst + limiter[w].rate * (seconds - made[w])
      BY DEF WithinRate, PostedFor
    <2>1. /\ limiter[w] \in [rate : Nat, tokens : Nat, counted : Nat]
          /\ made[w] \in Nat /\ seconds \in Nat /\ Burst \in Nat
          /\ Cardinality(PostedFor(w)) \in Nat
      BY PostedFinite, Nats DEF ProxyInv, ProxyTypeOK, Allowance
    <2> DEFINE before == limiter[w].rate * (limiter[w].counted - made[w])
               since == limiter[w].rate * (seconds - limiter[w].counted)
               now == limiter[w].rate * (seconds - made[w])
    <2>2. /\ limiter[w].counted <= seconds
          /\ Cardinality(PostedFor(w)) + limiter[w].tokens <= Burst + before
      BY DEF ProxyInv, Allowance
    <2>3. since \in Nat /\ before \in Int /\ now \in Int /\ limiter[w].tokens \in Nat
      BY <2>1, <2>2, Earning
    <2>4. since + before = now
      <3>1. /\ limiter[w].rate \in Int /\ limiter[w].counted \in Int
            /\ seconds \in Int /\ made[w] \in Int
        BY <2>1
      <3> QED
        BY <3>1, Telescope
    <2> HIDE DEF before, since, now
    <2>5. Cardinality(PostedFor(w)) <= Burst + now
      BY <2>1, <2>2, <2>3, <2>4
    <2> QED
      BY <2>5 DEF now
  <1> QED
    BY <1>1, ProxyInvariant, PTL

-----------------------------------------------------------------------------
\* Units told of some groups.
Units == UNION {[D -> Nat] : D \in SUBSET Group}

\* A request as the peer builds it, and one that was not sent yet.
Request ==
  [type : 0..4, mscc : {<<>>} \union [Group -> [used : Seq(Nat), wanted : Nat]]]

CreditTypes ==
  /\ peer \in [number : 0..MaxNumber + 1, stage : {"ready", "waiting", "over"},
               have : [Group -> Nat]]
  /\ sent \in [Number -> Request]
  /\ tries \in [Number -> 0..MaxTries]
  /\ post \in [Exchange -> [result : {"none", "served", "refused", "broken"}, units : Units]]
  /\ record \in [there : BOOLEAN, seq : Nat, granted : Units, spent : SUBSET Group]
  /\ record.spent \subseteq DOMAIN record.granted
  /\ opened \in Nat
  /\ reported \in [Group -> Nat]
  /\ debited \in [Group -> Nat]

\* The units of group g that the engine reads from request n.
Use(n, g) ==
  LET mscc == sent[n].mscc
  IN  IF g \in DOMAIN mscc
        THEN IF mscc[g].used # <<>> THEN Head(mscc[g].used) ELSE 0
        ELSE 0

\* Nothing is posted, answered or used of a request before it is sent.
Sending ==
  /\ peer.stage = "waiting" => peer.number \in Number
  /\ \A n \in Number :
       tries[n] > 0 => n <= peer.number /\ (n = peer.number => peer.stage = "waiting")
  /\ \A e \in Exchange : post[e] # NoAnswer => tries[e[1]] > 0
  /\ \A n \in Number, g \in Group : Use(n, g) > 0 => tries[n] > 0

\* A record that answered the request the peer waits for, or that the peer has
\* units of, has the number of that request: nothing that was sent before loads it.
Holding ==
  /\ record.there => opened > 0
  /\ \A e \in Exchange :
       /\ peer.stage = "waiting" /\ e[1] = peer.number
       /\ post[e].result = "served" /\ DOMAIN post[e].units # {}
       => record.there /\ record.seq = peer.number /\ record.granted = post[e].units
  /\ \A g \in Group :
       peer.have[g] > 0 =>
         /\ peer.stage # "waiting"
         /\ record.there /\ record.seq + 1 = peer.number
         /\ g \in DOMAIN record.granted /\ peer.have[g] <= record.granted[g]

\* What of group g can still be debited of the request that comes next to the
\* record.
Open(g) ==
  IF record.there /\ g \notin record.spent /\ record.seq + 1 \in Number
    THEN Use(record.seq + 1, g)
    ELSE 0

\* Units are used only of what a record granted, so every use follows the record
\* by one; and what was debited and can be is no more than was reported.
Debiting ==
  /\ \A n \in Number, g \in Group :
       Use(n, g) > 0 =>
         opened > 0 /\ (record.there /\ opened <= 1 => n <= record.seq + 1)
  /\ opened <= 1 => \A g \in Group : debited[g] + Open(g) <= reported[g]

CreditInv == CreditTypes /\ Sending /\ Holding /\ Debiting

-----------------------------------------------------------------------------
\* The numbers of the configuration, and the empty message.
LEMMA CreditFacts ==
  /\ MaxNumber \in Nat /\ MaxTries \in Nat /\ MaxTries > 0 /\ Word \in Nat /\ Word > 0
  /\ Number \subseteq Nat /\ Wanted \subseteq Nat
  /\ \A g \in Group : Grantable[g] \subseteq Nat
  /\ DOMAIN <<>> = {} /\ <<>> \in Units
  /\ \A e \in Exchange : e[1] \in Number /\ e[2] \in 1..MaxTries
<1>1. /\ MaxNumber \in Nat /\ MaxTries \in Nat /\ MaxTries > 0 /\ Word \in Nat /\ Word > 0 /\ Wanted \subseteq Nat
      /\ \A g \in Group : Grantable[g] \subseteq Nat
  BY CreditControlAssumption
<1>2. Number \subseteq Nat
  BY <1>1 DEF Number
<1>3. DOMAIN <<>> = {}
  OBVIOUS
<1>4. <<>> \in [{} -> Nat] /\ {} \in SUBSET Group
  BY <1>3
<1>5. <<>> \in Units
  BY <1>4 DEF Units
<1>6. \A e \in Exchange : e[1] \in Number /\ e[2] \in 1..MaxTries
  BY DEF Exchange
<1> QED BY <1>1, <1>2, <1>3, <1>5, <1>6

\* Units are a function on some groups.
LEMMA UnitsFact ==
  /\ \A u \in Units : DOMAIN u \subseteq Group /\ (\A g \in DOMAIN u : u[g] \in Nat)
                      /\ u = [g \in DOMAIN u |-> u[g]]
  /\ \A D \in SUBSET Group : [D -> Nat] \subseteq Units
BY DEF Units

\* What is reported is at least what the engine reads of it, and nothing is used
\* of a group the peer has no units of.
LEMMA MsccFact ==
  ASSUME NEW have \in Nat, NEW m \in Mscc(have)
  PROVE  /\ m \in [used : Seq(Nat), wanted : Nat]
         /\ UsedUnits(m) \in Nat
         /\ m.used # <<>> => /\ Head(m.used) \in Nat /\ Head(m.used) <= UsedUnits(m)
                             /\ Head(m.used) > 0 => have > 0
<1>1. m.used \in {<<>>, <<have>>} \union (IF have > 1 THEN {<<1, have - 1>>} ELSE {})
      /\ m.wanted \in Nat /\ m = [used |-> m.used, wanted |-> m.wanted]
  BY CreditFacts DEF Mscc
<1>2. m.used = <<>> \/ m.used = <<have>> \/ (have > 1 /\ m.used = <<1, have - 1>>)
  BY <1>1
<1>3. m.used \in Seq(Nat)
  <2>1. CASE m.used = <<>>
    BY <2>1
  <2>2. CASE m.used = <<have>>
    BY <2>2
  <2>3. CASE have > 1 /\ m.used = <<1, have - 1>>
    <3>1. have - 1 \in Nat
      BY <2>3
    <3>2. <<1, have - 1>> \in Seq(Nat)
      BY <3>1
    <3> QED BY <2>3, <3>2
  <2> QED BY <1>2, <2>1, <2>2, <2>3
<1> DEFINE f == m.used
           n == Len(f)
<1>4. n \in Nat /\ f \in [1..n -> Nat] /\ (f # <<>> => n > 0 /\ Head(f) = f[1])
  BY <1>3
<1>5. Total(f, n) \in Nat /\ \A k \in 1..n : f[k] <= Total(f, n)
  <2> HIDE DEF f, n
  <2> QED BY <1>4, TotalNat
<1>6. f # <<>> => Head(f) \in Nat /\ Head(f) <= Total(f, n)
  <2> HIDE DEF f
  <2> QED BY <1>4, <1>5
<1>7. f # <<>> => (Head(f) > 0 => have > 0)
  BY <1>2
<1> QED BY <1>1, <1>3, <1>5, <1>6, <1>7 DEF UsedUnits

\* The usages the proxy makes of a request.
LEMMA UsageFact ==
  ASSUME CreditTypes
  PROVE  /\ \A n \in Number, g \in Group : Use(n, g) \in Nat
         /\ \A e \in Exchange :
              /\ DOMAIN MultipleUnitUsage(e) \subseteq Group
              /\ \A g \in DOMAIN MultipleUnitUsage(e) :
                   MultipleUnitUsage(e)[g].used = Use(e[1], g)
<1>1. ASSUME NEW n \in Number
      PROVE  \/ sent[n].mscc = <<>>
             \/ sent[n].mscc \in [Group -> [used : Seq(Nat), wanted : Nat]]
  BY DEF CreditTypes, Request
<1>2. ASSUME NEW n \in Number PROVE DOMAIN sent[n].mscc \subseteq Group
  BY <1>1, CreditFacts
<1>3. ASSUME NEW n \in Number, NEW g \in Group PROVE Use(n, g) \in Nat
  <2>1. CASE sent[n].mscc = <<>>
    BY <2>1, CreditFacts DEF Use
  <2>2. CASE sent[n].mscc \in [Group -> [used : Seq(Nat), wanted : Nat]]
    <3>1. sent[n].mscc[g].used \in Seq(Nat)
      BY <2>2
    <3>2. \A s \in Seq(Nat) : s # <<>> => Head(s) \in Nat
      OBVIOUS
    <3>3. sent[n].mscc[g].used # <<>> => Head(sent[n].mscc[g].used) \in Nat
      BY <3>1, <3>2
    <3> QED BY <3>3 DEF Use
  <2> QED BY <1>1, <2>1, <2>2
<1>4. ASSUME NEW e \in Exchange
      PROVE  /\ DOMAIN MultipleUnitUsage(e) \subseteq Group
             /\ \A g \in DOMAIN MultipleUnitUsage(e) :
                  MultipleUnitUsage(e)[g].used = Use(e[1], g)
  <2>1. e[1] \in Number
    BY CreditFacts
  <2>2. DOMAIN MultipleUnitUsage(e) \subseteq DOMAIN sent[e[1]].mscc
    BY DEF MultipleUnitUsage
  <2>3. \A g \in DOMAIN MultipleUnitUsage(e) : MultipleUnitUsage(e)[g].used = Use(e[1], g)
    BY DEF MultipleUnitUsage, UsedUnitContainer, Use
  <2> QED BY <1>2, <2>1, <2>2, <2>3
<1> QED BY <1>3, <1>4

LEMMA InitCreditInv == CreditControlInit => CreditInv
<1> SUFFICES ASSUME CreditControlInit PROVE CreditInv
  OBVIOUS
<1>1. NoRequest \in Request /\ NoRequest.mscc = <<>>
  BY DEF NoRequest, Request
<1>2. /\ NoAnswer \in [result : {"none", "served", "refused", "broken"}, units : Units]
      /\ NoAnswer.result = "none"
  BY CreditFacts DEF NoAnswer
<1>3. /\ NoRecord \in [there : BOOLEAN, seq : Nat, granted : Units, spent : SUBSET Group]
      /\ NoRecord.there = FALSE /\ NoRecord.spent = {}
  BY CreditFacts DEF NoRecord
<1>4. CreditTypes
  BY <1>1, <1>2, <1>3, CreditFacts DEF CreditControlInit, CreditTypes
<1>5. \A n \in Number, g \in Group : Use(n, g) = 0
  BY <1>1, CreditFacts DEF CreditControlInit, Use
<1>6. Sending
  BY <1>5, CreditFacts DEF CreditControlInit, Sending
<1>7. Holding
  BY <1>2, <1>3 DEF CreditControlInit, Holding
<1>8. Debiting
  <2>1. \A g \in Group : Open(g) = 0
    BY <1>3 DEF Open, CreditControlInit
  <2> QED BY <1>5, <2>1 DEF Debiting, CreditControlInit
<1> QED BY <1>4, <1>6, <1>7, <1>8 DEF CreditInv

\* The peer sends a request: of every group it uses no more than it had, which is
\* of the record before.
LEMMA SendCcrCredit == CreditInv /\ SendCcr => CreditInv'
<1> SUFFICES ASSUME CreditInv, SendCcr PROVE CreditInv'
  OBVIOUS
<1>0. PICK n \in Number : n = peer.number
  BY DEF SendCcr
<1>1. PICK type \in {InitialRequest, EventRequest, UpdateRequest, TerminationRequest},
           mscc \in [Group -> UNION {Mscc(peer.have[g]) : g \in Group}] :
        /\ \A g \in Group : mscc[g] \in Mscc(peer.have[g])
        /\ sent' = [sent EXCEPT ![n] = [type |-> type, mscc |-> mscc]]
        /\ reported' = [g \in Group |-> reported[g] + UsedUnits(mscc[g])]
  BY <1>0 DEF SendCcr
<1>2. /\ peer.stage = "ready" /\ n \in Number /\ n = peer.number
      /\ peer' = [peer EXCEPT !.stage = "waiting", !.have = [g \in Group |-> 0]]
      /\ tries' = [tries EXCEPT ![n] = 1]
      /\ post' = post /\ record' = record /\ opened' = opened /\ debited' = debited
  BY <1>0 DEF SendCcr
<1>3. CreditTypes /\ Sending /\ Holding /\ Debiting
  BY DEF CreditInv
<1>4. ASSUME NEW g \in Group
      PROVE  /\ peer.have[g] \in Nat
             /\ mscc[g] \in [used : Seq(Nat), wanted : Nat] /\ UsedUnits(mscc[g]) \in Nat
             /\ mscc[g].used # <<>> =>
                  /\ Head(mscc[g].used) \in Nat /\ Head(mscc[g].used) <= UsedUnits(mscc[g])
                  /\ Head(mscc[g].used) > 0 => peer.have[g] > 0
  <2>1. peer.have[g] \in Nat
    BY <1>3 DEF CreditTypes
  <2> QED BY <1>1, <2>1, MsccFact
<1>5. mscc \in [Group -> [used : Seq(Nat), wanted : Nat]]
  BY <1>1, <1>4
<1>6. peer' \in [number : 0..MaxNumber + 1, stage : {"ready", "waiting", "over"},
                 have : [Group -> Nat]]
      /\ peer'.number = n /\ peer'.stage = "waiting" /\ peer'.have = [g \in Group |-> 0]
  BY <1>2, <1>3 DEF CreditTypes
<1>7. [type |-> type, mscc |-> mscc] \in Request
  BY <1>5 DEF Request, InitialRequest, EventRequest, UpdateRequest, TerminationRequest
<1>8. tries' \in [Number -> 0..MaxTries] /\ tries'[n] = 1
      /\ \A m \in Number : m # n => tries'[m] = tries[m]
  <2>1. 1 \in 0..MaxTries
    BY CreditFacts
  <2> QED BY <1>2, <1>3, <2>1 DEF CreditTypes
<1>9. CreditTypes'
  <2>1. reported' \in [Group -> Nat]
    <3>1. ASSUME NEW g \in Group PROVE reported[g] + UsedUnits(mscc[g]) \in Nat
      <4>1. reported[g] \in Nat /\ UsedUnits(mscc[g]) \in Nat
        BY <1>3, <1>4 DEF CreditTypes
      <4> QED BY <4>1
    <3> QED BY <1>1, <3>1
  <2>2. sent' \in [Number -> Request]
    BY <1>1, <1>2, <1>3, <1>7 DEF CreditTypes
  <2> QED BY <1>2, <1>3, <1>6, <1>8, <2>1, <2>2 DEF CreditTypes
<1>10. ASSUME NEW g \in Group
       PROVE  /\ Use(n, g)' <= UsedUnits(mscc[g]) /\ Use(n, g)' \in Nat
              /\ Use(n, g)' > 0 => peer.have[g] > 0
              /\ \A m \in Number : m # n => Use(m, g)' = Use(m, g)
  <2>1. sent'[n].mscc = mscc /\ \A m \in Number : m # n => sent'[m] = sent[m]
    BY <1>1, <1>2, <1>3 DEF CreditTypes
  <2>2. DOMAIN mscc = Group
    BY <1>5
  <2>3. Use(n, g)' = IF mscc[g].used # <<>> THEN Head(mscc[g].used) ELSE 0
    BY <2>1, <2>2 DEF Use
  <2>4. \A m \in Number : m # n => Use(m, g)' = Use(m, g)
    BY <2>1 DEF Use
  <2>5. CASE mscc[g].used # <<>>
    BY <1>4, <2>3, <2>4, <2>5
  <2>6. CASE mscc[g].used = <<>>
    <3>1. PICK u \in Nat : u = UsedUnits(mscc[g])
      BY <1>4
    <3> QED BY <2>3, <2>4, <2>6, <3>1
  <2> QED BY <2>5, <2>6
<1>11. \A m \in Number : tries[m] > 0 => m < n
  <2>1. \A m \in Number : tries[m] > 0 => m <= n /\ m # n
    BY <1>2, <1>3 DEF Sending
  <2> QED BY <1>2, <2>1, CreditFacts
<1>12. Sending'
  <2>1. \A m \in Number : tries'[m] > 0 => m <= n
    BY <1>2, <1>8, <1>11, CreditFacts
  <2>2. \A e \in Exchange : post'[e] # NoAnswer => tries'[e[1]] > 0
    BY <1>2, <1>3, <1>8, CreditFacts DEF Sending
  <2>3. \A m \in Number, g \in Group : Use(m, g)' > 0 => tries'[m] > 0
    BY <1>3, <1>8, <1>10 DEF Sending
  <2> QED BY <1>2, <1>6, <2>1, <2>2, <2>3 DEF Sending
<1>13. Holding'
  <2>1. \A e \in Exchange : e[1] = n => post[e] = NoAnswer
    <3> SUFFICES ASSUME NEW e \in Exchange, e[1] = n, post[e] # NoAnswer PROVE FALSE
      OBVIOUS
    <3>1. tries[n] > 0
      BY <1>3 DEF Sending
    <3> QED BY <1>2, <1>11, <3>1, CreditFacts
  <2>2. NoAnswer.result # "served"
    BY DEF NoAnswer
  <2> QED BY <1>2, <1>3, <1>6, <2>1, <2>2 DEF Holding
<1>14. Debiting'
  <2>1. ASSUME NEW m \in Number, NEW g \in Group, Use(m, g)' > 0
        PROVE  opened' > 0 /\ (record'.there /\ opened' <= 1 => m <= record'.seq + 1)
    <3>1. CASE m # n
      <4>1. Use(m, g) > 0
        BY <1>10, <2>1, <3>1
      <4> QED BY <1>2, <1>3, <4>1 DEF Debiting
    <3>2. CASE m = n
      <4>1. peer.have[g] > 0
        <5>1. Use(n, g)' > 0
          BY <2>1, <3>2
        <5> QED BY <1>10, <5>1
      <4>2. record.there /\ record.seq + 1 = n
        BY <1>2, <1>3, <4>1 DEF Holding
      <4> QED BY <1>2, <1>3, <3>2, <4>2, CreditFacts DEF Holding
    <3> QED BY <3>1, <3>2
  <2>2. ASSUME opened' <= 1, NEW g \in Group
        PROVE  debited'[g] + Open(g)' <= reported'[g]
    <3>1. debited[g] + Open(g) <= reported[g]
      BY <1>2, <1>3, <2>2 DEF Debiting
    <3>2. PICK d \in Nat, r \in Nat, u \in Nat :
            d = debited[g] /\ r = reported[g] /\ u = UsedUnits(mscc[g]) /\ reported'[g] = r + u
      BY <1>1, <1>3, <1>4 DEF CreditTypes
    <3> PICK k : k = record.seq + 1
      OBVIOUS
    <3>3. /\ Open(g) = IF record.there /\ g \notin record.spent /\ k \in Number
                         THEN Use(k, g) ELSE 0
          /\ Open(g)' = IF record.there /\ g \notin record.spent /\ k \in Number
                          THEN Use(k, g)' ELSE 0
      BY <1>2 DEF Open
    <3>4. CASE record.there /\ g \notin record.spent /\ k = n
      <4>1. Open(g) = Use(n, g)
        BY <1>2, <3>3, <3>4
      <4>2. ~(Use(n, g) > 0)
        BY <1>2, <1>3, <1>11, CreditFacts DEF Sending
      <4>3. Use(n, g) \in Nat
        BY <1>2, <1>3, UsageFact
      <4>4. Open(g) = 0
        BY <4>1, <4>2, <4>3
      <4>5. Open(g)' = Use(n, g)'
        BY <1>2, <3>3, <3>4
      <4> QED BY <1>2, <1>10, <3>1, <3>2, <4>4, <4>5
    <3>5. CASE ~(record.there /\ g \notin record.spent /\ k = n)
      <4>1. Open(g)' = Open(g)
        BY <1>10, <3>3, <3>5
      <4>2. Open(g) \in Nat
        BY <1>3, UsageFact DEF Open
      <4> QED BY <1>2, <3>1, <3>2, <4>1, <4>2
    <3> QED BY <3>4, <3>5
  <2> QED BY <2>1, <2>2 DEF Debiting
<1> QED BY <1>9, <1>12, <1>13, <1>14 DEF CreditInv

\* A request is repeated under its number.
LEMMA RepeatCredit == CreditInv /\ Repeat => CreditInv'
<1> SUFFICES ASSUME CreditInv, Repeat PROVE CreditInv'
  OBVIOUS
<1> PICK n : n = peer.number
  OBVIOUS
<1>1. /\ peer.stage = "waiting" /\ tries[n] < MaxTries
      /\ tries' = [tries EXCEPT ![n] = @ + 1]
      /\ peer' = peer /\ sent' = sent /\ post' = post /\ record' = record
      /\ opened' = opened /\ reported' = reported /\ debited' = debited
  BY DEF Repeat
<1>2. CreditTypes /\ Sending /\ Holding /\ Debiting
  BY DEF CreditInv
<1>3. n \in Number
  BY <1>1, <1>2 DEF Sending
<1>4. tries[n] + 1 \in 0..MaxTries
  BY <1>1, <1>2, <1>3, CreditFacts DEF CreditTypes
<1>5. tries' \in [Number -> 0..MaxTries]
      /\ \A m \in Number : tries'[m] > 0 <=> (tries[m] > 0 \/ m = n)
  <2>1. tries \in [Number -> 0..MaxTries]
    BY <1>2 DEF CreditTypes
  <2>2. tries' \in [Number -> 0..MaxTries]
    BY <1>1, <1>3, <1>4, <2>1
  <2>3. ASSUME NEW m \in Number PROVE tries'[m] > 0 <=> (tries[m] > 0 \/ m = n)
    <3>1. CASE m = n
      <4>1. tries'[m] = tries[n] + 1 /\ tries[n] \in Nat
        BY <1>1, <1>3, <2>1, <3>1
      <4> QED BY <3>1, <4>1
    <3>2. CASE m # n
      BY <1>1, <2>1, <3>2
    <3> QED BY <3>1, <3>2
  <2> QED BY <2>2, <2>3
<1>6. CreditTypes'
  BY <1>1, <1>2, <1>5 DEF CreditTypes
<1>7. \A m \in Number, g \in Group : Use(m, g)' = Use(m, g)
  BY <1>1 DEF Use
<1>8. Sending'
  <2>1. \A m \in Number :
          tries'[m] > 0 => m <= peer.number /\ (m = peer.number => peer.stage = "waiting")
    <3>1. n <= n
      BY <1>3, CreditFacts
    <3>2. \A m \in Number : tries[m] > 0 => m <= n
      BY <1>2 DEF Sending
    <3> QED BY <1>1, <1>5, <3>1, <3>2
  <2>2. \A e \in Exchange : post[e] # NoAnswer => tries'[e[1]] > 0
    BY <1>2, <1>5, CreditFacts DEF Sending
  <2>3. \A m \in Number, g \in Group : Use(m, g)' > 0 => tries'[m] > 0
    BY <1>2, <1>5, <1>7 DEF Sending
  <2> QED BY <1>1, <1>3, <1>5, <2>1, <2>2, <2>3 DEF Sending
<1>9. Holding'
  BY <1>1, <1>2 DEF Holding
<1>10. Debiting'
  <2>1. \A g \in Group : Open(g)' = Open(g)
    BY <1>1 DEF Open, Use
  <2> QED BY <1>1, <1>2, <1>7, <2>1 DEF Debiting
<1> QED BY <1>6, <1>8, <1>9, <1>10 DEF CreditInv

\* The peer goes on with units the record grants, or with none.
LEMMA OnwardCredit ==
  ASSUME CreditInv, peer.stage = "waiting", NEW have \in [Group -> Nat], Onward(have),
         \A g \in Group : have[g] > 0 =>
           /\ record.there /\ record.seq = peer.number
           /\ g \in DOMAIN record.granted /\ have[g] <= record.granted[g]
  PROVE  CreditInv'
<1> PICK n : n = peer.number
  OBVIOUS
<1>1. PICK stage \in {"over", "ready"} :
        /\ n = peer.number
        /\ peer' = [number |-> n + 1, stage |-> stage, have |-> have]
        /\ tries' = tries /\ sent' = sent /\ post' = post /\ record' = record
        /\ opened' = opened /\ reported' = reported /\ debited' = debited
  BY DEF Onward
<1>2. CreditTypes /\ Sending /\ Holding /\ Debiting
  BY DEF CreditInv
<1>3. n \in Number /\ n + 1 \in 0..MaxNumber + 1
  <2>1. n \in Number
    BY <1>1, <1>2 DEF Sending
  <2> QED BY <2>1, CreditFacts DEF Number
<1>4. CreditTypes'
  <2>1. peer' \in [number : 0..MaxNumber + 1, stage : {"ready", "waiting", "over"},
                   have : [Group -> Nat]]
    BY <1>1, <1>3
  <2> QED BY <1>1, <1>2, <2>1 DEF CreditTypes
<1>5. Sending'
  <2>1. \A m \in Number : tries[m] > 0 => m <= n + 1 /\ m # n + 1
    <3>1. \A m \in Number : tries[m] > 0 => m <= n
      BY <1>1, <1>2 DEF Sending
    <3> QED BY <1>3, <3>1, CreditFacts
  <2>2. \A m \in Number, g \in Group : Use(m, g)' = Use(m, g)
    BY <1>1 DEF Use
  <2> QED BY <1>1, <1>2, <2>1, <2>2 DEF Sending
<1>6. Holding'
  BY <1>1, <1>2 DEF Holding
<1>7. Debiting'
  BY <1>1, <1>2 DEF Debiting, Open, Use
<1> QED BY <1>4, <1>5, <1>6, <1>7 DEF CreditInv

\* An answer tells units of the groups the engine granted, and no more than granted.
LEMMA ToldFact ==
  ASSUME CreditTypes, NEW e \in Exchange
  PROVE  /\ Cca(e).units \in Units
         /\ \A g \in DOMAIN Cca(e).units :
              /\ post[e].result = "served" /\ g \in DOMAIN post[e].units
              /\ Cca(e).units[g] <= post[e].units[g]
              /\ g \in Timed => Cca(e).units[g] < Word
<1>1. post[e].units \in Units
  BY DEF CreditTypes
<1>2. CASE post[e].result = "served"
  <2> DEFINE u == post[e].units
             told == MultipleUnitInformation(u)
  <2>1. Cca(e).units = told
    BY <1>2 DEF Cca
  <2>2. DOMAIN u \subseteq Group /\ \A g \in DOMAIN u : u[g] \in Nat
    BY <1>1, UnitsFact
  <2>3. DOMAIN told = DOMAIN u
    BY DEF MultipleUnitInformation
  <2>4. ASSUME NEW g \in DOMAIN u
        PROVE  told[g] \in Nat /\ told[g] <= u[g] /\ (g \in Timed => told[g] < Word)
    <3>1. told[g] = IF g \in Timed THEN u[g] % Word ELSE u[g]
      BY DEF MultipleUnitInformation, GrantedServiceUnit
    <3>2. PICK x \in Nat : x = u[g]
      BY <2>2
    <3>3. x % Word \in Nat /\ x % Word < Word /\ x % Word <= x
      <4>1. PICK w \in Nat : w = Word /\ w > 0
        BY CreditFacts
      <4>2. x % w \in 0..w - 1 /\ x = (w * (x \div w)) + (x % w) /\ x \div w \in Nat
        BY <4>1
      <4>3. w * (x \div w) \in Nat
        BY <4>2
      <4>4. PICK r \in Nat, q \in Nat : r = x % w /\ q = w * (x \div w)
        BY <4>1, <4>2, <4>3
      <4> QED BY <4>1, <4>2, <4>4
    <3> QED BY <3>1, <3>2, <3>3
  <2> HIDE DEF u
  <2>5. told \in [DOMAIN u -> Nat]
    BY <2>3, <2>4 DEF MultipleUnitInformation
  <2>6. told \in Units
    BY <2>2, <2>5, UnitsFact
  <2> HIDE DEF told
  <2> QED BY <1>2, <2>1, <2>3, <2>4, <2>6 DEF u
<1>3. CASE post[e].result # "served"
  BY <1>3, CreditFacts DEF Cca, NoAnswer
<1> QED BY <1>2, <1>3

LEMMA ReceiveCcaCredit ==
  ASSUME CreditInv, NEW e \in Exchange, ReceiveCca(e) PROVE CreditInv'
<1> DEFINE units == Cca(e).units
           have == [g \in Group |-> IF g \in DOMAIN units THEN units[g] ELSE 0]
<1>1. peer.stage = "waiting" /\ e[1] = peer.number /\ Onward(have)
  BY DEF ReceiveCca
<1>2. CreditTypes /\ Holding
  BY DEF CreditInv
<1>3. units \in Units
      /\ \A g \in DOMAIN units :
           /\ post[e].result = "served" /\ g \in DOMAIN post[e].units
           /\ units[g] <= post[e].units[g]
  BY <1>2, ToldFact
<1> HIDE DEF units
<1>4. have \in [Group -> Nat]
  BY <1>3, UnitsFact
<1>5. ASSUME NEW g \in Group, have[g] > 0
      PROVE  /\ record.there /\ record.seq = peer.number
             /\ g \in DOMAIN record.granted /\ have[g] <= record.granted[g]
  <2>1. g \in DOMAIN units /\ have[g] = units[g]
    BY <1>5
  <2>2. record.there /\ record.seq = peer.number /\ record.granted = post[e].units
    BY <1>1, <1>2, <1>3, <2>1 DEF Holding
  <2> QED BY <1>3, <2>1, <2>2
<1> HIDE DEF have
<1> QED BY <1>1, <1>4, <1>5, OnwardCredit

LEMMA GiveUpCcrCredit == ASSUME CreditInv, GiveUpCcr PROVE CreditInv'
<1> DEFINE have == [g \in Group |-> 0]
<1>1. peer.stage = "waiting" /\ Onward(have)
  BY DEF GiveUpCcr
<1>2. have \in [Group -> Nat] /\ \A g \in Group : ~(have[g] > 0)
  OBVIOUS
<1> HIDE DEF have
<1> QED BY <1>1, <1>2, OnwardCredit

\* What the engine has is a request that was sent.
LEMMA PostedFact ==
  ASSUME CreditInv, NEW e \in Exchange, Posted(e)
  PROVE  /\ e[1] \in Number /\ tries[e[1]] > 0
         /\ e[1] <= peer.number /\ (e[1] = peer.number => peer.stage = "waiting")
         /\ post[e] = NoAnswer
<1>1. e[1] \in Number /\ e[2] \in Nat /\ e[2] > 0 /\ e[2] <= tries[e[1]] /\ post[e] = NoAnswer
  BY CreditFacts DEF Posted
<1>2. tries[e[1]] \in Nat
  BY <1>1 DEF CreditInv, CreditTypes
<1>3. tries[e[1]] > 0
  BY <1>1, <1>2
<1> QED BY <1>1, <1>3 DEF CreditInv, Sending

\* As long as the peer has units, or an answer with units is on its way to it, no
\* request finds a record it can load, and none opens another.
LEMMA NothingLoads ==
  ASSUME CreditInv, NEW e \in Exchange, Posted(e), Loads(e) \/ ~record.there
  PROVE  /\ \A g \in Group : ~(peer.have[g] > 0)
         /\ \A x \in Exchange :
              ~(/\ peer.stage = "waiting" /\ x[1] = peer.number
                /\ post[x].result = "served" /\ DOMAIN post[x].units # {})
<1>1. PICK n \in Number : n = e[1] /\ n <= peer.number /\ (n = peer.number => peer.stage = "waiting")
  BY PostedFact
<1>2. PICK p \in Nat, q \in Nat : p = peer.number /\ q = record.seq
  BY CreditFacts DEF CreditInv, CreditTypes
<1>3. record.there => q < n
  BY <1>1, <1>2 DEF Loads, InvocationSequenceNumber
<1>4. n \in Nat
  BY CreditFacts
<1>5. ASSUME NEW g \in Group, peer.have[g] > 0 PROVE FALSE
  <2>1. peer.stage # "waiting" /\ record.there /\ q + 1 = p
    BY <1>2, <1>5 DEF CreditInv, Holding
  <2> QED BY <1>1, <1>2, <1>3, <1>4, <2>1
<1>6. ASSUME NEW x \in Exchange, peer.stage = "waiting", x[1] = peer.number,
             post[x].result = "served", DOMAIN post[x].units # {}
      PROVE  FALSE
  <2>1. record.there /\ q = p
    BY <1>2, <1>6 DEF CreditInv, Holding
  <2> QED BY <1>1, <1>2, <1>3, <1>4, <2>1
<1> QED BY <1>5, <1>6

\* An answer of the engine is to a request that was sent.
LEMMA AnswerSends ==
  ASSUME CreditInv, NEW e \in Exchange, Posted(e), NEW a,
         post' = [post EXCEPT ![e] = a], UNCHANGED <<peer, sent, tries>>
  PROVE  /\ Sending'
         /\ post'[e] = a /\ \A x \in Exchange : x # e => post'[x] = post[x]
         /\ \A n \in Number, g \in Group : Use(n, g)' = Use(n, g)
<1>1. tries[e[1]] > 0
  BY PostedFact
<1>2. post'[e] = a /\ \A x \in Exchange : x # e => post'[x] = post[x]
  BY DEF CreditInv, CreditTypes
<1>3. \A n \in Number, g \in Group : Use(n, g)' = Use(n, g)
  BY DEF Use
<1>4. \A x \in Exchange : post'[x] # NoAnswer => tries'[x[1]] > 0
  BY <1>1, <1>2 DEF CreditInv, Sending
<1>5. Sending'
  BY <1>3, <1>4 DEF CreditInv, Sending
<1> QED BY <1>2, <1>3, <1>5

\* A handler that saves the record it answers with.
LEMMA SavedHolds ==
  ASSUME CreditInv, NEW e \in Exchange, Posted(e), Loads(e) \/ ~record.there,
         NEW granted \in Units, NEW traced \in BOOLEAN, Answer(e, granted, traced),
         record'.there => opened' > 0,
         granted # <<>> => record'.there /\ record'.seq = e[1] /\ record'.granted = granted
  PROVE  /\ Holding' /\ Sending'
         /\ post' \in [Exchange -> [result : {"none", "served", "refused", "broken"},
                                    units : Units]]
<1> PICK a : a = IF traced THEN [result |-> "served", units |-> granted]
                           ELSE [result |-> "refused", units |-> <<>>]
  OBVIOUS
<1>1. post' = [post EXCEPT ![e] = a] /\ UNCHANGED <<peer, sent, tries>>
  BY DEF Answer
<1>2. a \in [result : {"none", "served", "refused", "broken"}, units : Units]
      /\ (a.result = "served" => a.units = granted)
  <2>1. CASE traced
    BY <2>1
  <2>2. CASE ~traced
    BY <2>2, CreditFacts
  <2> QED BY <2>1, <2>2
<1>3. /\ Sending' /\ post'[e] = a
      /\ \A x \in Exchange : x # e => post'[x] = post[x]
  BY <1>1, AnswerSends
<1>4. ASSUME NEW x \in Exchange, peer'.stage = "waiting", x[1] = peer'.number,
             post'[x].result = "served", DOMAIN post'[x].units # {}
      PROVE  record'.there /\ record'.seq = peer'.number /\ record'.granted = post'[x].units
  <2>1. x = e
    BY <1>1, <1>3, <1>4, NothingLoads
  <2>2. post'[x].units = granted /\ granted # <<>>
    BY <1>2, <1>3, <1>4, <2>1, CreditFacts
  <2> QED BY <1>4, <2>1, <2>2
<1>5. \A g \in Group : ~(peer'.have[g] > 0)
  BY <1>1, NothingLoads
<1>6. post' \in [Exchange -> [result : {"none", "served", "refused", "broken"}, units : Units]]
  BY <1>1, <1>2 DEF CreditInv, CreditTypes
<1> QED BY <1>3, <1>4, <1>5, <1>6 DEF Holding

\* A debit is of the request that follows the record, and of nothing that was
\* debited of it before.
LEMMA AccountFact ==
  ASSUME CreditInv, NEW e \in Exchange, Posted(e), NEW groups,
         groups \subseteq DOMAIN MultipleUnitUsage(e),
         groups # {} => Loads(e), Account(e, groups)
  PROVE  /\ debited' \in [Group -> Nat]
         /\ opened <= 1 =>
              \A g \in Group :
                debited'[g] + (IF g \in groups \union record.spent THEN 0 ELSE Open(g))
                  <= reported[g]
<1>1. CreditTypes /\ Debiting
  BY DEF CreditInv
<1> PICK n \in Number : n = e[1]
  BY CreditFacts
<1>2. groups \subseteq Group /\ \A g \in groups : MultipleUnitUsage(e)[g].used = Use(n, g)
  BY <1>1, UsageFact
<1>3. \A g \in Group : Use(n, g) \in Nat /\ debited[g] \in Nat /\ reported[g] \in Nat
                       /\ Open(g) \in Nat
  BY <1>1, UsageFact DEF Open, CreditTypes
<1>4. \A g \in Group :
        debited'[g] = debited[g] + IF g \in groups \ record.spent THEN Use(n, g) ELSE 0
  BY <1>2 DEF Account
<1>5. debited' \in [Group -> Nat]
  <2>1. \A g \in Group :
          debited[g] + (IF g \in groups \ record.spent
                          THEN MultipleUnitUsage(e)[g].used ELSE 0) \in Nat
    BY <1>2, <1>3
  <2> QED BY <2>1 DEF Account
<1>6. ASSUME opened <= 1, NEW g \in Group
      PROVE  debited'[g] + (IF g \in groups \union record.spent THEN 0 ELSE Open(g))
               <= reported[g]
  <2>1. PICK d \in Nat, r \in Nat, o \in Nat, u \in Nat :
          d = debited[g] /\ r = reported[g] /\ o = Open(g) /\ u = Use(n, g) /\ d + o <= r
    BY <1>1, <1>3, <1>6 DEF Debiting
  <2>2. CASE g \in groups \ record.spent
    <3>1. debited'[g] = d + u
      BY <1>4, <2>1, <2>2
    <3>2. u > 0 => u = o
      <4>1. ASSUME u > 0 PROVE u = o
        <5>1. Loads(e)
          BY <2>2
        <5>2. PICK q \in Nat : q = record.seq
          BY <1>1 DEF CreditTypes
        <5>3. record.there /\ q < n
          BY <5>1, <5>2 DEF Loads, InvocationSequenceNumber
        <5>4. n <= q + 1
          BY <1>1, <1>6, <2>1, <4>1, <5>2, <5>3 DEF Debiting
        <5>5. n = record.seq + 1
          BY <5>2, <5>3, <5>4, CreditFacts
        <5> QED BY <2>1, <2>2, <5>3, <5>5 DEF Open
      <4> QED BY <4>1
    <3> QED BY <2>1, <2>2, <3>1, <3>2
  <2>3. CASE g \notin groups \ record.spent
    <3>1. debited'[g] = d
      BY <1>4, <2>1, <2>3
    <3> QED BY <2>1, <3>1
  <2> QED BY <2>2, <2>3
<1> QED BY <1>5, <1>6

\* Grants are rated for the groups of a request.
LEMMA RatedFact ==
  ASSUME CreditTypes, NEW e \in Exchange, NEW granted \in Rated(e)
  PROVE  granted \in Units
<1>1. DOMAIN granted = DOMAIN MultipleUnitUsage(e)
      /\ granted = [g \in DOMAIN granted |-> granted[g]]
      /\ \A g \in DOMAIN granted : granted[g] \in Grantable[g]
  BY DEF Rated
<1>2. DOMAIN granted \subseteq Group
  BY <1>1, UsageFact
<1>3. granted \in [DOMAIN granted -> Nat]
  BY <1>1, <1>2, CreditFacts
<1> QED BY <1>2, <1>3, UnitsFact

LEMMA ChargingCredit ==
  ASSUME CreditInv, NEW e \in Exchange, Charging(e) PROVE CreditInv'
<1>1. PICK granted \in Rated(e), traced \in BOOLEAN :
        Answer(e, granted, traced) /\ record' = Saved(e, granted, {})
  BY DEF Charging
<1>2. Posted(e) /\ ~record.there /\ opened' = opened + 1 /\ debited' = debited
  BY DEF Charging
<1>3. CreditTypes /\ Debiting
  BY DEF CreditInv
<1>4. PICK n \in Nat : n = e[1]
  BY CreditFacts
<1>5. granted \in Units /\ opened \in Nat /\ opened' \in Nat /\ opened' > 0
  BY <1>2, <1>3, RatedFact DEF CreditTypes
<1>6. record' = [there |-> TRUE, seq |-> n, granted |-> granted, spent |-> {}]
  BY <1>1, <1>4 DEF Saved, InvocationSequenceNumber
<1>7. /\ peer' = peer /\ sent' = sent /\ tries' = tries /\ reported' = reported
  BY <1>1 DEF Answer
<1>8. /\ Holding' /\ Sending'
      /\ post' \in [Exchange -> [result : {"none", "served", "refused", "broken"},
                                 units : Units]]
  BY <1>1, <1>2, <1>4, <1>5, <1>6, SavedHolds
<1>9. CreditTypes'
  <2>1. record' \in [there : BOOLEAN, seq : Nat, granted : Units, spent : SUBSET Group]
    BY <1>5, <1>6
  <2> QED BY <1>2, <1>3, <1>5, <1>6, <1>7, <1>8, <2>1 DEF CreditTypes
<1>10. Debiting'
  <2>1. \A m \in Number, g \in Group : Use(m, g)' = Use(m, g)
    BY <1>7 DEF Use
  <2>2. ASSUME opened' <= 1, NEW m \in Number, NEW g \in Group PROVE ~(Use(m, g) > 0)
    BY <1>2, <1>3, <1>5, <2>2 DEF Debiting
  <2>3. ASSUME opened' <= 1, NEW g \in Group PROVE debited'[g] + Open(g)' <= reported'[g]
    <3>1. PICK d \in Nat, r \in Nat, o \in Nat :
            d = debited[g] /\ r = reported[g] /\ o = Open(g) /\ d + o <= r
      <4>1. Open(g) \in Nat /\ debited[g] \in Nat /\ reported[g] \in Nat
        BY <1>3, UsageFact DEF Open, CreditTypes
      <4>2. opened <= 1
        BY <1>2, <1>5, <2>3
      <4> QED BY <1>3, <4>1, <4>2 DEF Debiting
    <3>2. Open(g)' = 0
      <4>1. Open(g)' = IF n + 1 \in Number THEN Use(n + 1, g)' ELSE 0
        BY <1>6 DEF Open
      <4>2. n + 1 \in Number => Use(n + 1, g)' = Use(n + 1, g)
        BY <2>1
      <4>3. n + 1 \in Number => Use(n + 1, g) \in Nat /\ ~(Use(n + 1, g) > 0)
        BY <1>3, <2>2, <2>3, UsageFact
      <4> QED BY <4>1, <4>2, <4>3
    <3> QED BY <1>2, <1>7, <3>1, <3>2
  <2>4. ASSUME NEW m \in Number, NEW g \in Group, Use(m, g)' > 0
        PROVE  opened' > 0 /\ (record'.there /\ opened' <= 1 => m <= record'.seq + 1)
    BY <1>5, <2>1, <2>2, <2>4
  <2> QED BY <2>3, <2>4 DEF Debiting
<1> QED BY <1>8, <1>9, <1>10 DEF CreditInv

LEMMA UpdateCredit ==
  ASSUME CreditInv, NEW e \in Exchange, UpdateCharging(e) PROVE CreditInv'
<1>0. PICK granted \in Rated(e), traced \in BOOLEAN :
        /\ Answer(e, granted, traced)
        /\ record' = Saved(e, granted, IF traced THEN {} ELSE DOMAIN granted)
  BY DEF UpdateCharging
<1>1. PICK spent \in SUBSET DOMAIN granted :
        Answer(e, granted, traced) /\ record' = Saved(e, granted, spent)
  BY <1>0
<1> DEFINE groups == DOMAIN MultipleUnitUsage(e)
<1>2. Posted(e) /\ Loads(e) /\ Account(e, groups) /\ opened' = opened
  BY DEF UpdateCharging, Accounts
<1>3. CreditTypes /\ Debiting /\ Holding
  BY DEF CreditInv
<1>4. PICK n \in Nat : n = e[1]
  BY CreditFacts
<1>5. granted \in Units /\ opened \in Nat /\ DOMAIN granted \subseteq Group
  BY <1>3, RatedFact, UnitsFact DEF CreditTypes
<1>6. record' = [there |-> TRUE, seq |-> n, granted |-> granted, spent |-> spent]
  BY <1>1, <1>4 DEF Saved, InvocationSequenceNumber
<1>7. /\ peer' = peer /\ sent' = sent /\ tries' = tries /\ reported' = reported
  BY <1>1 DEF Answer
<1>8. PICK q \in Nat : q = record.seq /\ q < n /\ record.there
  BY <1>2, <1>3, <1>4 DEF CreditTypes, Loads, InvocationSequenceNumber
<1>9. /\ Holding' /\ Sending'
      /\ post' \in [Exchange -> [result : {"none", "served", "refused", "broken"},
                                 units : Units]]
  <2>1. opened' > 0
    BY <1>2, <1>3, <1>8 DEF Holding
  <2> QED BY <1>1, <1>2, <1>4, <1>5, <1>6, <2>1, SavedHolds
<1>10. /\ debited' \in [Group -> Nat]
       /\ opened <= 1 =>
            \A g \in Group :
              debited'[g] + (IF g \in groups \union record.spent THEN 0 ELSE Open(g))
                <= reported[g]
  <2> HIDE DEF groups
  <2> QED BY <1>2, AccountFact DEF groups
<1>11. CreditTypes'
  <2>1. record' \in [there : BOOLEAN, seq : Nat, granted : Units, spent : SUBSET Group]
    BY <1>5, <1>6
  <2> QED BY <1>2, <1>3, <1>6, <1>7, <1>9, <1>10, <2>1 DEF CreditTypes
<1>12. Debiting'
  <2>1. \A m \in Number, g \in Group : Use(m, g)' = Use(m, g)
    BY <1>7 DEF Use
  <2>2. ASSUME opened <= 1, NEW m \in Number, NEW g \in Group, Use(m, g) > 0
        PROVE  m <= q + 1 /\ m <= n
    <3>1. m <= q + 1 /\ m \in Nat
      BY <1>3, <1>8, <2>2, CreditFacts DEF Debiting
    <3> QED BY <1>8, <3>1
  <2>3. ASSUME opened' <= 1, NEW g \in Group PROVE debited'[g] + Open(g)' <= reported'[g]
    <3>1. PICK d \in Nat, r \in Nat, o \in Nat :
            d = debited'[g] /\ r = reported[g] /\ d + o <= r
      <4>1. debited'[g] \in Nat /\ reported[g] \in Nat /\ Open(g) \in Nat
        BY <1>3, <1>10, UsageFact DEF CreditTypes, Open
      <4> QED BY <1>2, <1>10, <2>3, <4>1
    <3>2. Open(g)' = 0
      <4>1. \/ Open(g)' = 0
            \/ n + 1 \in Number /\ Open(g)' = Use(n + 1, g)'
        BY <1>6 DEF Open
      <4>2. n + 1 \in Number => Use(n + 1, g)' = Use(n + 1, g)
        BY <2>1
      <4>3. n + 1 \in Number => Use(n + 1, g) \in Nat /\ ~(Use(n + 1, g) > 0)
        BY <1>2, <1>3, <1>4, <2>2, <2>3, UsageFact
      <4> QED BY <4>1, <4>2, <4>3
    <3> QED BY <1>7, <3>1, <3>2
  <2>4. ASSUME NEW m \in Number, NEW g \in Group, Use(m, g)' > 0
        PROVE  opened' > 0 /\ (record'.there /\ opened' <= 1 => m <= record'.seq + 1)
    <3>1. Use(m, g) > 0 /\ m \in Nat
      BY <2>1, <2>4, CreditFacts
    <3>2. opened > 0
      BY <1>3, <3>1 DEF Debiting
    <3>3. opened <= 1 => m <= n
      BY <2>2, <3>1
    <3> QED BY <1>2, <1>6, <3>1, <3>2, <3>3
  <2> QED BY <2>3, <2>4 DEF Debiting
<1> QED BY <1>9, <1>11, <1>12 DEF CreditInv

LEMMA ReleaseCredit ==
  ASSUME CreditInv, NEW e \in Exchange, ReleaseCharging(e) PROVE CreditInv'
<1>1. PICK traced \in BOOLEAN : Answer(e, <<>>, traced)
  BY DEF ReleaseCharging
<1> DEFINE groups == DOMAIN MultipleUnitUsage(e)
<1>2. Posted(e) /\ Loads(e) /\ Account(e, groups) /\ opened' = opened /\ record' = NoRecord
  BY DEF ReleaseCharging, Accounts
<1>3. CreditTypes /\ Debiting
  BY DEF CreditInv
<1>4. /\ NoRecord \in [there : BOOLEAN, seq : Nat, granted : Units, spent : SUBSET Group]
      /\ NoRecord.there = FALSE /\ NoRecord.spent = {}
  BY CreditFacts DEF NoRecord
<1>5. /\ peer' = peer /\ sent' = sent /\ tries' = tries /\ reported' = reported
  BY <1>1 DEF Answer
<1>6. /\ Holding' /\ Sending'
      /\ post' \in [Exchange -> [result : {"none", "served", "refused", "broken"},
                                 units : Units]]
  <2>1. record'.there = FALSE
    BY <1>2, <1>4
  <2> QED BY <1>1, <1>2, <2>1, CreditFacts, SavedHolds
<1>7. /\ debited' \in [Group -> Nat]
      /\ opened <= 1 =>
           \A g \in Group :
             debited'[g] + (IF g \in groups \union record.spent THEN 0 ELSE Open(g))
               <= reported[g]
  <2> HIDE DEF groups
  <2> QED BY <1>2, AccountFact DEF groups
<1>8. CreditTypes'
  BY <1>2, <1>3, <1>4, <1>5, <1>6, <1>7 DEF CreditTypes
<1>9. Debiting'
  <2>1. \A m \in Number, g \in Group : Use(m, g)' = Use(m, g)
    BY <1>5 DEF Use
  <2>2. ASSUME opened' <= 1, NEW g \in Group PROVE debited'[g] + Open(g)' <= reported'[g]
    <3>1. PICK d \in Nat, r \in Nat, o \in Nat :
            d = debited'[g] /\ r = reported[g] /\ d + o <= r
      <4>1. debited'[g] \in Nat /\ reported[g] \in Nat /\ Open(g) \in Nat
        BY <1>3, <1>7, UsageFact DEF CreditTypes, Open
      <4> QED BY <1>2, <1>7, <2>2, <4>1
    <3>2. Open(g)' = 0
      BY <1>2, <1>4 DEF Open
    <3> QED BY <1>5, <3>1, <3>2
  <2>3. ASSUME NEW m \in Number, NEW g \in Group, Use(m, g)' > 0
        PROVE  opened' > 0 /\ ~record'.there
    BY <1>2, <1>3, <1>4, <2>1, <2>3 DEF Debiting
  <2> QED BY <2>2, <2>3 DEF Debiting
<1> QED BY <1>6, <1>8, <1>9 DEF CreditInv

\* A handler that stops saves nothing; what it debited it will not debit again.
LEMMA FailCredit ==
  ASSUME CreditInv, NEW e \in Exchange, Fail(e) PROVE CreditInv'
<1> DEFINE usage == MultipleUnitUsage(e)
           used == {g \in DOMAIN usage : usage[g].used > 0}
           counts == sent[e[1]].type # InitialRequest /\ Loads(e)
<1>1. PICK groups \in SUBSET used :
        /\ groups # {} => counts /\ \A g \in groups : Fits(e, g)
        /\ Account(e, groups)
        /\ record' = [record EXCEPT !.spent = @ \union groups]
  BY DEF Fail
<1>2. PICK result \in {"refused", "broken"} : post' = [post EXCEPT ![e].result = result]
  BY DEF Fail
<1>3. Posted(e) /\ UNCHANGED <<peer, sent, tries, opened, reported>>
  BY DEF Fail
<1>4. CreditTypes /\ Debiting /\ Holding
  BY DEF CreditInv
<1>5. groups \subseteq DOMAIN MultipleUnitUsage(e) /\ (groups # {} => Loads(e))
      /\ groups \subseteq DOMAIN record.granted /\ groups \subseteq Group
  <2>1. groups \subseteq DOMAIN MultipleUnitUsage(e) /\ (groups # {} => Loads(e))
        /\ groups \subseteq DOMAIN record.granted
    BY <1>1 DEF Fits
  <2>2. DOMAIN MultipleUnitUsage(e) \subseteq Group
    BY <1>4, UsageFact
  <2> QED BY <2>1, <2>2
<1> HIDE DEF usage, used, counts
<1>6. PICK spent : /\ spent = record.spent \union groups
                   /\ record' = [record EXCEPT !.spent = spent]
  BY <1>1
<1>7. /\ record'.there = record.there /\ record'.seq = record.seq
      /\ record'.granted = record.granted /\ record'.spent = record.spent \union groups
      /\ record' \in [there : BOOLEAN, seq : Nat, granted : Units, spent : SUBSET Group]
      /\ record'.spent \subseteq DOMAIN record'.granted
  BY <1>4, <1>5, <1>6 DEF CreditTypes
<1> PICK a : a = [post[e] EXCEPT !.result = result]
  OBVIOUS
<1>8. post' = [post EXCEPT ![e] = a] /\ a.result = result
      /\ a \in [result : {"none", "served", "refused", "broken"}, units : Units]
  <2>1. post[e] \in [result : {"none", "served", "refused", "broken"}, units : Units]
    BY <1>4 DEF CreditTypes
  <2>2. post' = [post EXCEPT ![e] = a]
    BY <1>2
  <2> QED BY <2>1, <2>2
<1>9. /\ Sending' /\ post'[e] = a /\ \A x \in Exchange : x # e => post'[x] = post[x]
      /\ \A n \in Number, g \in Group : Use(n, g)' = Use(n, g)
  BY <1>3, <1>8, AnswerSends
<1>10. /\ debited' \in [Group -> Nat]
       /\ opened <= 1 =>
            \A g \in Group :
              debited'[g] + (IF g \in groups \union record.spent THEN 0 ELSE Open(g))
                <= reported[g]
  BY <1>1, <1>3, <1>5, AccountFact
<1>11. CreditTypes'
  <2>1. post' \in [Exchange -> [result : {"none", "served", "refused", "broken"},
                                units : Units]]
    BY <1>4, <1>8 DEF CreditTypes
  <2> QED BY <1>3, <1>4, <1>7, <1>10, <2>1 DEF CreditTypes
<1>12. Holding'
  <2>1. ASSUME NEW x \in Exchange, peer'.stage = "waiting", x[1] = peer'.number,
               post'[x].result = "served", DOMAIN post'[x].units # {}
        PROVE  record'.there /\ record'.seq = peer'.number
               /\ record'.granted = post'[x].units
    <3>1. x # e
      BY <1>8, <1>9, <2>1
    <3> QED BY <1>3, <1>4, <1>7, <1>9, <2>1, <3>1 DEF Holding
  <2> QED BY <1>3, <1>4, <1>7, <2>1 DEF Holding
<1>13. Debiting'
  <2>1. ASSUME opened' <= 1, NEW g \in Group PROVE debited'[g] + Open(g)' <= reported'[g]
    <3> PICK k : k = record.seq + 1
      OBVIOUS
    <3>1. /\ Open(g) = IF record.there /\ g \notin record.spent /\ k \in Number
                         THEN Use(k, g) ELSE 0
          /\ Open(g)' = IF record.there /\ g \notin record.spent \union groups /\ k \in Number
                          THEN Use(k, g)' ELSE 0
      BY <1>7 DEF Open
    <3>2. Open(g)' = IF g \in groups \union record.spent THEN 0 ELSE Open(g)
      BY <1>9, <3>1
    <3> QED BY <1>3, <1>10, <2>1, <3>2
  <2> QED BY <1>3, <1>4, <1>7, <1>9, <2>1 DEF Debiting
<1> QED BY <1>9, <1>11, <1>12, <1>13 DEF CreditInv

LEMMA NextCreditInv == CreditInv /\ [CreditControlNext]_creditVars => CreditInv'
<1> SUFFICES ASSUME CreditInv, [CreditControlNext]_creditVars PROVE CreditInv'
  OBVIOUS
<1>1. CASE SendCcr
  BY <1>1, SendCcrCredit
<1>2. CASE Repeat
  BY <1>2, RepeatCredit
<1>3. CASE GiveUpCcr
  BY <1>3, GiveUpCcrCredit
<1>4. ASSUME NEW e \in Exchange, ReceiveCca(e) PROVE CreditInv'
  BY <1>4, ReceiveCcaCredit
<1>5. ASSUME NEW e \in Exchange, Engine(e) PROVE CreditInv'
  <2>1. CASE Charging(e)
    BY <2>1, ChargingCredit
  <2>2. CASE UpdateCharging(e)
    BY <2>2, UpdateCredit
  <2>3. CASE ReleaseCharging(e)
    BY <2>3, ReleaseCredit
  <2>4. CASE Fail(e)
    BY <2>4, FailCredit
  <2> QED BY <1>5, <2>1, <2>2, <2>3, <2>4 DEF Engine
<1>6. CASE UNCHANGED creditVars
  BY <1>6 DEF creditVars, CreditInv, CreditTypes, Sending, Holding, Debiting, Open, Use
<1> QED BY <1>1, <1>2, <1>3, <1>4, <1>5, <1>6 DEF CreditControlNext

\* The types of a session between a peer and the engine, and the width of the units
\* an answer tells (buildGrantedServiceUnit).
THEOREM CreditTypeCorrect == CreditControlSpec => []CreditControlTypeOK
<1>1. CreditInv => CreditControlTypeOK
  <2> SUFFICES ASSUME CreditInv PROVE CreditControlTypeOK
    OBVIOUS
  <2>1. CreditTypes
    BY DEF CreditInv
  <2>2. ASSUME NEW u \in Units PROVE Grants(u)
    BY UnitsFact DEF Grants
  <2>3. ASSUME NEW e \in Exchange
        PROVE  /\ post[e].result \in {"none", "served", "refused", "broken"}
               /\ Grants(post[e].units) /\ Grants(Cca(e).units)
               /\ \A g \in Timed \intersect DOMAIN Cca(e).units : Cca(e).units[g] < Word
    <3>1. post[e].result \in {"none", "served", "refused", "broken"} /\ post[e].units \in Units
      BY <2>1 DEF CreditTypes
    <3> QED BY <2>1, <2>2, <3>1, ToldFact
  <2>4. Grants(record.granted) /\ record.there \in BOOLEAN /\ record.seq \in Nat
        /\ record.spent \subseteq DOMAIN record.granted
    BY <2>1, <2>2 DEF CreditTypes
  <2> QED BY <2>1, <2>3, <2>4 DEF CreditControlTypeOK, CreditTypes
<1> QED BY <1>1, InitCreditInv, NextCreditInv, PTL DEF CreditControlSpec

\* A peer never holds more units of a group than the record of the engine grants it,
\* whatever is lost, late or repeated (LoadChargeDataStep, Rate).
THEOREM PeerKeptWithinGrants == CreditControlSpec => []PeerWithinGrants
<1>1. CreditInv => PeerWithinGrants
  BY DEF CreditInv, Holding, PeerWithinGrants
<1> QED BY <1>1, InitCreditInv, NextCreditInv, PTL DEF CreditControlSpec

\* The quota is debited no more than the peer reported, however often a request is
\* repeated, while the session is opened once (LoadChargeDataStep, Accounting).
THEOREM UseDebited == CreditControlSpec => []UseDebitedOnce
<1>1. CreditInv => UseDebitedOnce
  <2> SUFFICES ASSUME CreditInv, opened <= 1, NEW g \in Group
               PROVE  debited[g] <= reported[g]
    BY DEF UseDebitedOnce
  <2>1. /\ debited[g] \in Nat /\ reported[g] \in Nat /\ Open(g) \in Nat
        /\ debited[g] + Open(g) <= reported[g]
    BY UsageFact DEF CreditInv, CreditTypes, Debiting, Open
  <2> QED BY <2>1
<1> QED BY <1>1, InitCreditInv, NextCreditInv, PTL DEF CreditControlSpec
=============================================================================
