-------------------------------- MODULE Loops --------------------------------
(***************************************************************************)
(* The shape of the code's "for _, c := range counters" loops: a value is  *)
(* carried from one element to the next and each element sees the value    *)
(* its predecessors left.  Loop keeps the value before and after every     *)
(* element, because what a loop does to element k depends on what was left *)
(* when it reached k.  The folds of the community modules return the last  *)
(* value only, and their operator parameter is out of the provers' reach;  *)
(* body is therefore a function: body[k][x] is what element k makes of x.  *)
(***************************************************************************)
EXTENDS Integers

\* The carried value after 0, 1, ..., n elements.
Loop(n, first, body) ==
  LET at[k \in 0..n] == IF k = 0 THEN first ELSE body[k][at[k - 1]]
  IN  at

\* The sum f[1] + ... + f[n].
Total(f, n) == Loop(n, 0, [k \in 1..n |-> [sum \in Int |-> sum + f[k]]])[n]

\* f itself.  TLC tabulates a function when it compares it, and evaluates the
\* body of one it has not tabulated at every application.
Tabulated(f) == CHOOSE g \in {f} : g = f

Least(a, b) == IF a <= b THEN a ELSE b

Greatest(a, b) == IF a >= b THEN a ELSE b

==============================================================================
