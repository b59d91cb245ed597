----------------------------- MODULE LoopsProofs -----------------------------
(***************************************************************************)
(* What a loop computes, by induction on the number of elements.  UpTo is  *)
(* the induction: it is stated for a set and not for a predicate, because  *)
(* the provers cannot instantiate an operator parameter, and it rests on   *)
(* the well-foundedness of the naturals.  LoopRule says that a loop runs   *)
(* its body once per element; the lemmas on Total are what the proofs      *)
(* about the quota document need of sums.                                  *)
(***************************************************************************)
EXTENDS Loops, WellFoundedInduction, TLAPS

\* Induction from 0 to n: a set that holds 0 and, with k - 1, also k.
LEMMA UpTo ==
  ASSUME NEW n \in Nat, NEW S, 0 \in S,
         \A k \in 1..n : k - 1 \in S => k \in S
  PROVE  \A k \in 0..n : k \in S
<1> DEFINE T == {k \in 0..n : k \notin S}
<1>1. SUFFICES ASSUME T # {} PROVE FALSE
  OBVIOUS
<1>a. T \subseteq Nat
  OBVIOUS
<1>2. PICK m \in T : \A y \in T : ~ (<<y, m>> \in OpToRel(<, Nat))
  <2> HIDE DEF T
  <2> QED BY <1>1, <1>a, WFMin, NatLessThanWellFounded
<1>3. m \in 0..n /\ m \notin S
  BY <1>2
<1>4. m \in 1..n
  BY <1>3
<1>5. m - 1 \in 0..n /\ m-1 \in Nat /\ m \in Nat
  BY <1>4
<1>6. <<m - 1, m>> \in OpToRel(<, Nat)
  BY <1>5 DEF OpToRel
<1>7. m - 1 \notin T
  BY <1>6, <1>2
<1>8. m - 1 \in S
  BY <1>7, <1>5
<1>9. QED
  BY <1>8, <1>3, <1>4

\* A set of numbers that is not empty has a least one.
LEMMA LeastOf ==
  ASSUME NEW S, S \subseteq Nat, S # {}
  PROVE  \E m \in S : \A y \in S : m <= y
<1>1. S \subseteq Nat
  OBVIOUS
<1>2. PICK m \in S : \A y \in S : ~ (<<y, m>> \in OpToRel(<, Nat))
  BY <1>1, WFMin, NatLessThanWellFounded
<1>3. ASSUME NEW y \in S PROVE m <= y
  <2>1. y \in Nat /\ m \in Nat
    BY <1>1
  <2>2. ~(y < m)
    BY <1>2, <2>1 DEF OpToRel
  <2> QED BY <2>1, <2>2
<1> QED BY <1>3

\* The values of a loop: the first one, and each next one made by the body.
LEMMA LoopRule ==
  ASSUME NEW n \in Nat, NEW X, NEW first \in X,
         NEW body \in [1..n -> [X -> X]]
  PROVE  /\ Loop(n, first, body) \in [0..n -> X]
         /\ Loop(n, first, body)[0] = first
         /\ \A k \in 1..n : Loop(n, first, body)[k] = body[k][Loop(n, first, body)[k - 1]]
<1> DEFINE IsRun(m, g) == g[0] = first /\ \A k \in 1..m : g[k] = body[k][g[k - 1]]
           S == {m \in 0..n : \E g \in [0..m -> X] : IsRun(m, g)}
<1>1. 0 \in S
  <2>1. [k \in 0..0 |-> first] \in [0..0 -> X]
    OBVIOUS
  <2>2. IsRun(0, [k \in 0..0 |-> first])
    OBVIOUS
  <2> HIDE DEF IsRun
  <2> QED BY <2>1, <2>2
<1>2. ASSUME NEW k \in 1..n, k - 1 \in S PROVE k \in S
  <2>1. PICK g \in [0..(k-1) -> X] : IsRun(k - 1, g)
    BY <1>2
  <2> DEFINE h == [j \in 0..k |-> IF j = k THEN body[k][g[k - 1]] ELSE g[j]]
  <2>2. g[0] = first /\ \A j \in 1..(k-1) : g[j] = body[j][g[j - 1]]
    BY <2>1
  <2>3. body[k][g[k-1]] \in X
    BY <2>1
  <2>4. h \in [0..k -> X]
    BY <2>1, <2>3
  <2>5. h[0] = first
    BY <2>2
  <2>6. ASSUME NEW j \in 1..k PROVE h[j] = body[j][h[j - 1]]
    <3>1. CASE j = k
      BY <3>1
    <3>2. CASE j # k
      <4>1. j \in 1..(k-1) /\ j - 1 \in 0..k /\ j - 1 # k /\ j \in 0..k
        BY <3>2
      <4> QED BY <4>1, <2>2, <3>2
    <3> QED BY <3>1, <3>2
  <2>7. IsRun(k, h)
    BY <2>5, <2>6
  <2> QED 
    <3> HIDE DEF IsRun, h
    <3> QED BY <2>4, <2>7
<1>3. n \in S
  <2>1. \A k \in 1..n : k - 1 \in S => k \in S
    BY <1>2
  <2> HIDE DEF S
  <2>2. \A k \in 0..n : k \in S
    BY <1>1, <2>1, UpTo
  <2> QED BY <2>2
<1>4. PICK g \in [0..n -> X] : IsRun(n, g)
  BY <1>3
<1> DEFINE step(a) == [k \in 0..n |-> IF k = 0 THEN first ELSE body[k][a[k - 1]]]
<1>5. g = step(g)
  BY <1>4
<1>6. Loop(n, first, body) = CHOOSE a : a = step(a)
  BY DEF Loop
<1>7. Loop(n, first, body) = step(Loop(n, first, body))
  <2> HIDE DEF step
  <2> QED BY <1>5, <1>6
<1>8. SUFFICES ASSUME NEW a, a = step(a)
               PROVE  a \in [0..n -> X] /\ a[0] = first /\ \A k \in 1..n : a[k] = body[k][a[k - 1]]
  <2> HIDE DEF step
  <2> QED BY <1>7
<1>9. a[0] = first
  BY <1>8
<1>10. ASSUME NEW k \in 1..n PROVE a[k] = body[k][a[k - 1]]
  <2>1. k \in 0..n /\ k # 0
    OBVIOUS
  <2> QED BY <1>8, <2>1
<1> DEFINE G == {k \in 0..n : a[k] \in X}
<1>11. 0 \in G
  BY <1>9
<1>12. \A k \in 1..n : k - 1 \in G => k \in G
  BY <1>10
<1>13. \A k \in 0..n : k \in G
  <2> HIDE DEF G
  <2> QED BY <1>11, <1>12, UpTo
<1>14. \A k \in 0..n : a[k] \in X
  BY <1>13
<1>15. a \in [0..n -> X]
  <2>1. a = [k \in 0..n |-> a[k]]
    BY <1>8
  <2> HIDE DEF G
  <2> QED BY <2>1, <1>14
<1> QED BY <1>9, <1>10, <1>15

-----------------------------------------------------------------------------
\* The partial sums of f lead to its total.
LEMMA PartialSums ==
  ASSUME NEW n \in Nat, NEW f \in [1..n -> Int]
  PROVE  \E p \in [0..n -> Int] :
           /\ p[0] = 0
           /\ \A k \in 1..n : p[k] = p[k - 1] + f[k]
           /\ Total(f, n) = p[n]
<1> DEFINE body == [k \in 1..n |-> [sum \in Int |-> sum + f[k]]]
           p == Loop(n, 0, body)
<1>1. body \in [1..n -> [Int -> Int]]
  OBVIOUS
<1>2. /\ p \in [0..n -> Int]
      /\ p[0] = 0
      /\ \A k \in 1..n : p[k] = body[k][p[k - 1]]
  <2> DEFINE X == Int
  <2>1. 0 \in X /\ body \in [1..n -> [X -> X]]
    BY <1>1
  <2> HIDE DEF body, X
  <2>2. /\ Loop(n, 0, body) \in [0..n -> X]
        /\ Loop(n, 0, body)[0] = 0
        /\ \A k \in 1..n : Loop(n, 0, body)[k] = body[k][Loop(n, 0, body)[k - 1]]
    BY <2>1, LoopRule
  <2> QED BY <2>2 DEF X
<1>3. ASSUME NEW k \in 1..n PROVE p[k] = p[k - 1] + f[k]
  <2> HIDE DEF p
  <2>1. p[k - 1] \in Int
    BY <1>2
  <2>2. p[k] = body[k][p[k - 1]]
    BY <1>2
  <2> QED BY <2>1, <2>2
<1>4. Total(f, n) = p[n]
  BY DEF Total
<1> HIDE DEF p
<1> QED BY <1>2, <1>3, <1>4

\* A sum of naturals is a natural, and none of them exceeds it.
LEMMA TotalNat ==
  ASSUME NEW n \in Nat, NEW f \in [1..n -> Nat]
  PROVE  Total(f, n) \in Nat /\ \A r \in 1..n : f[r] <= Total(f, n)
<1>1. PICK p \in [0..n -> Int] :
        /\ p[0] = 0
        /\ \A k \in 1..n : p[k] = p[k - 1] + f[k]
        /\ Total(f, n) = p[n]
  <2>1. f \in [1..n -> Int]
    OBVIOUS
  <2> QED BY <2>1, PartialSums
<1> DEFINE S == {k \in 0..n : p[k] \in Nat /\ \A r \in 1..k : f[r] <= p[k]}
<1>2. 0 \in S
  BY <1>1
<1>3. ASSUME NEW k \in 1..n, k - 1 \in S PROVE k \in S
  <2>1. p[k] = p[k - 1] + f[k] /\ p[k - 1] \in Nat /\ f[k] \in Nat
    BY <1>1, <1>3
  <2>2. ASSUME NEW r \in 1..k PROVE f[r] <= p[k]
    <3>1. CASE r = k
      BY <2>1, <3>1
    <3>2. CASE r # k
      <4>1. r \in 1..(k - 1) /\ f[r] \in Nat
        BY <3>2
      <4>2. f[r] <= p[k - 1]
        BY <4>1, <1>3
      <4> QED BY <4>1, <4>2, <2>1
    <3> QED BY <3>1, <3>2
  <2> QED BY <2>1, <2>2
<1>4. \A k \in 0..n : k \in S
  <2>1. \A k \in 1..n : k - 1 \in S => k \in S
    BY <1>3
  <2> HIDE DEF S
  <2> QED BY <1>2, <2>1, UpTo
<1>5. n \in S
  BY <1>4
<1> QED BY <1>1, <1>5

\* A sum of zeros is zero.
LEMMA TotalZero ==
  ASSUME NEW n \in Nat, NEW f \in [1..n -> Int], \A k \in 1..n : f[k] = 0
  PROVE  Total(f, n) = 0
<1>1. PICK p \in [0..n -> Int] :
        /\ p[0] = 0
        /\ \A k \in 1..n : p[k] = p[k - 1] + f[k]
        /\ Total(f, n) = p[n]
  BY PartialSums
<1> DEFINE S == {k \in 0..n : p[k] = 0}
<1>2. 0 \in S
  BY <1>1
<1>3. \A k \in 1..n : k - 1 \in S => k \in S
  BY <1>1
<1>4. \A k \in 0..n : k \in S
  <2> HIDE DEF S
  <2> QED BY <1>2, <1>3, UpTo
<1> QED BY <1>1, <1>4

\* Smaller terms, smaller sum.
LEMMA TotalMono ==
  ASSUME NEW n \in Nat, NEW f \in [1..n -> Int], NEW g \in [1..n -> Int],
         \A k \in 1..n : f[k] <= g[k]
  PROVE  Total(f, n) <= Total(g, n)
<1>1. PICK p \in [0..n -> Int] :
        /\ p[0] = 0
        /\ \A k \in 1..n : p[k] = p[k - 1] + f[k]
        /\ Total(f, n) = p[n]
  BY PartialSums
<1>2. PICK q \in [0..n -> Int] :
        /\ q[0] = 0
        /\ \A k \in 1..n : q[k] = q[k - 1] + g[k]
        /\ Total(g, n) = q[n]
  BY PartialSums
<1> DEFINE S == {k \in 0..n : p[k] <= q[k]}
<1>3. 0 \in S
  BY <1>1, <1>2
<1>4. ASSUME NEW k \in 1..n, k - 1 \in S PROVE k \in S
  <2>1. /\ p[k] = p[k - 1] + f[k] /\ q[k] = q[k - 1] + g[k]
        /\ p[k - 1] <= q[k - 1] /\ f[k] <= g[k]
    BY <1>1, <1>2, <1>4
  <2>2. /\ p[k - 1] \in Int /\ q[k - 1] \in Int
        /\ f[k] \in Int /\ g[k] \in Int
    OBVIOUS
  <2> QED BY <2>1, <2>2
<1>5. \A k \in 0..n : k \in S
  <2>1. \A k \in 1..n : k - 1 \in S => k \in S
    BY <1>4
  <2> HIDE DEF S
  <2> QED BY <1>3, <2>1, UpTo
<1> QED BY <1>1, <1>2, <1>5

\* Changing one term changes the sum by as much.
LEMMA TotalUpdate ==
  ASSUME NEW n \in Nat, NEW f \in [1..n -> Int], NEW g \in [1..n -> Int],
         NEW r \in 1..n, \A k \in 1..n : k # r => g[k] = f[k]
  PROVE  Total(g, n) = Total(f, n) - f[r] + g[r]
<1>1. PICK p \in [0..n -> Int] :
        /\ p[0] = 0
        /\ \A k \in 1..n : p[k] = p[k - 1] + f[k]
        /\ Total(f, n) = p[n]
  BY PartialSums
<1>2. PICK q \in [0..n -> Int] :
        /\ q[0] = 0
        /\ \A k \in 1..n : q[k] = q[k - 1] + g[k]
        /\ Total(g, n) = q[n]
  BY PartialSums
<1> DEFINE change(k) == IF k < r THEN 0 ELSE g[r] - f[r]
           S == {k \in 0..n : q[k] = p[k] + change(k)}
<1>3. 0 \in S
  BY <1>1, <1>2
<1>4. ASSUME NEW k \in 1..n, k - 1 \in S PROVE k \in S
  <2>1. q[k - 1] = p[k - 1] + change(k - 1)
    BY <1>4
  <2>2. p[k] = p[k - 1] + f[k] /\ q[k] = q[k - 1] + g[k]
    BY <1>1, <1>2
  <2>3. p[k - 1] \in Int /\ f[k] \in Int /\ g[k] \in Int /\ f[r] \in Int /\ g[r] \in Int
    OBVIOUS
  <2>4. change(k - 1) \in Int
    BY <2>3
  <2>5. g[k] + change(k - 1) = f[k] + change(k)
    <3>1. CASE k < r
      <4>1. k - 1 < r /\ k # r
        BY <3>1
      <4> QED BY <4>1, <3>1
    <3>2. CASE k = r
      BY <3>2, <2>3
    <3>3. CASE k > r
      <4>1. ~(k - 1 < r) /\ ~(k < r) /\ k # r
        BY <3>3
      <4> QED BY <4>1
    <3> QED BY <3>1, <3>2, <3>3
  <2>6. change(k) \in Int
    BY <2>3
  <2>7. q[k] = p[k] + change(k)
    <3> HIDE DEF S, change
    <3>1. PICK a \in Int : a = p[k - 1]
      BY <2>3
    <3>2. PICK b \in Int, d \in Int : b = g[k] /\ d = f[k]
      BY <2>3
    <3>3. PICK c \in Int, e \in Int : c = change(k - 1) /\ e = change(k)
      BY <2>4, <2>6
    <3>4. b + c = d + e
      BY <2>5, <3>2, <3>3
    <3>5. q[k] = (a + c) + b /\ p[k] = a + d
      BY <2>1, <2>2, <3>1, <3>2, <3>3
    <3>6. (a + c) + b = (a + d) + e
      BY <3>4
    <3>7. q[k] = p[k] + e
      BY <3>5, <3>6
    <3> QED BY <3>7, <3>3
  <2> QED BY <2>7
<1>5. \A k \in 0..n : k \in S
  <2>1. \A k \in 1..n : k - 1 \in S => k \in S
    BY <1>4
  <2> HIDE DEF S
  <2> QED BY <1>3, <2>1, UpTo
<1>6. q[n] = p[n] + (g[r] - f[r])
  BY <1>5
<1>7. p[n] \in Int /\ f[r] \in Int /\ g[r] \in Int
  OBVIOUS
<1> QED BY <1>1, <1>2, <1>6, <1>7

\* The sum of the differences is the difference of the sums.
LEMMA TotalMinus ==
  ASSUME NEW n \in Nat, NEW f \in [1..n -> Int], NEW g \in [1..n -> Int],
         NEW h \in [1..n -> Int], \A k \in 1..n : h[k] = f[k] - g[k]
  PROVE  Total(h, n) = Total(f, n) - Total(g, n)
<1>1. PICK p \in [0..n -> Int] :
        p[0] = 0 /\ (\A k \in 1..n : p[k] = p[k - 1] + f[k]) /\ Total(f, n) = p[n]
  BY PartialSums
<1>2. PICK q \in [0..n -> Int] :
        q[0] = 0 /\ (\A k \in 1..n : q[k] = q[k - 1] + g[k]) /\ Total(g, n) = q[n]
  BY PartialSums
<1>3. PICK s \in [0..n -> Int] :
        s[0] = 0 /\ (\A k \in 1..n : s[k] = s[k - 1] + h[k]) /\ Total(h, n) = s[n]
  BY PartialSums
<1> DEFINE S == {k \in 0..n : s[k] = p[k] - q[k]}
<1>4. 0 \in S
  BY <1>1, <1>2, <1>3
<1>5. ASSUME NEW k \in 1..n, k - 1 \in S PROVE k \in S
  <2>1. k \in 0..n /\ k - 1 \in 0..n
    OBVIOUS
  <2>2. PICK a \in Int, b \in Int, c \in Int, x \in Int, y \in Int :
          /\ a = p[k - 1] /\ b = q[k - 1] /\ c = s[k - 1] /\ x = f[k] /\ y = g[k]
          /\ c = a - b
    BY <1>5, <2>1
  <2>3. p[k] = a + x /\ q[k] = b + y /\ s[k] = c + (x - y)
    BY <1>1, <1>2, <1>3, <2>2
  <2> QED BY <2>1, <2>2, <2>3
<1>6. \A k \in 0..n : k \in S
  <2> HIDE DEF S
  <2> QED BY <1>4, <1>5, UpTo
<1> QED BY <1>1, <1>2, <1>3, <1>6

=============================================================================
