-------------------------------- MODULE Rules --------------------------------
(***************************************************************************)
(* RuleEvaluator: the expressions of a classification plan are read token  *)
(* by token onto a stack of values and a stack of operators.  There is no  *)
(* precedence: parentheses alone say what belongs together, every operand  *)
(* is evaluated, and nothing is converted.  A token is what tokenize and   *)
(* resolveValue make of the text; the text itself is left out.             *)
(*                                                                         *)
(* An expression is given as a tree; Written writes it down with every     *)
(* operand in parentheses that needs them, and Meaning is what it is meant *)
(* to say.                                                                 *)
(***************************************************************************)
EXTENDS Integers, Sequences

CONSTANTS
  Expressions,     \* the trees to write down and evaluate
  Call(_)          \* what the registered function makes of its arguments

\* Values carry the Go type they have; the marker stands for the function.
Bool(b) == [type |-> "bool", val |-> IF b THEN 1 ELSE 0]
Number(n) == [type |-> "int64", val |-> n]
Nil == [type |-> "nil", val |-> 0]
Marker == [type |-> "funcMarker", val |-> 0]
Error == [type |-> "error", val |-> 0]

Comparison == {"==", "!=", "<", "<=", ">", ">="}

Operator == Comparison \union {"&&", "||", "!", ":"}

VARIABLES
  expression,   \* the tree
  tokens,       \* what is left to read of it
  machine,      \* the two stacks, and whether an error ended the evaluation
  answer        \* the answer, or Marker while there is none

ruleVars == <<expression, tokens, machine, answer>>

(***************************************************************************)
(* Operators.                                                              *)
(***************************************************************************)
Arity(op) == IF op = "!" THEN 1 ELSE IF op = ":" THEN 3 ELSE 2

Holds(op, a, b) ==
  CASE op = "==" -> a = b [] op = "!=" -> a # b [] op = "<" -> a < b
    [] op = "<=" -> a <= b [] op = ">" -> a > b [] op = ">=" -> a >= b

\* compare: nil is only equal or not, other values compare within one type, and
\* functions not at all.
Compared(op, l, r) ==
  IF Nil \in {l, r}
  THEN IF op \in {"==", "!="} THEN Bool(Holds(op, l, r)) ELSE Error
  ELSE IF l.type # r.type \/ l = Marker THEN Error ELSE Bool(Holds(op, l.val, r.val))

AreBool(args) == \A i \in DOMAIN args : args[i].type = "bool"

\* What an operator makes of its operands.
Result(op, args) ==
  IF \E i \in DOMAIN args : args[i] = Error THEN Error
  ELSE CASE op \in Comparison -> Compared(op, args[1], args[2])
         [] op = "!" -> IF AreBool(args) THEN Bool(args[1].val = 0) ELSE Error
         [] op = "&&" -> IF AreBool(args)
                         THEN Bool(args[1].val = 1 /\ args[2].val = 1) ELSE Error
         [] op = "||" -> IF AreBool(args)
                         THEN Bool(args[1].val = 1 \/ args[2].val = 1) ELSE Error
         [] op = ":" -> IF args[1].type # "bool" THEN Error
                        ELSE IF args[1].val = 1 THEN args[2] ELSE args[3]

(***************************************************************************)
(* The stacks.                                                             *)
(***************************************************************************)
Prefix(s, n) == SubSeq(s, 1, Len(s) - n)

Suffix(s, n) == SubSeq(s, Len(s) - n + 1, Len(s))

Top(s) == s[Len(s)]

\* The last n values give way to the result.
Reduced(m, n, result) ==
  IF result = Error THEN [m EXCEPT !.failed = TRUE]
  ELSE [m EXCEPT !.values = Append(Prefix(@, n), result)]

\* processFunc: the arguments are all that lies above the last marker.
ProcessFunc(m) ==
  LET markers == {i \in DOMAIN m.values : m.values[i] = Marker}
      last == CHOOSE i \in markers : \A j \in markers : j <= i
      n == Len(m.values) - last
  IN IF markers = {} THEN [m EXCEPT !.failed = TRUE]
     ELSE Reduced(m, n + 1, Call(Suffix(m.values, n)))

ProcessOp(m, op) ==
  IF op = "f" THEN ProcessFunc(m)
  ELSE IF op \notin Operator \/ Len(m.values) < Arity(op)
  THEN [m EXCEPT !.failed = TRUE]
  ELSE Reduced(m, Arity(op), Result(op, Suffix(m.values, Arity(op))))

\* One operator is taken from its stack and applied.
Applied(m) == ProcessOp([m EXCEPT !.ops = Prefix(@, 1)], Top(m.ops))

RECURSIVE ToParen(_)
ToParen(m) ==
  IF m.failed \/ m.ops = <<>> THEN m
  ELSE IF Top(m.ops) = "(" THEN m ELSE ToParen(Applied(m))

\* Mutant: a ! before the parenthesis waits for the end of the expression.
ProcessParenOnly(m) ==
  LET inner == ToParen(m)
      closed == [inner EXCEPT !.ops = Prefix(@, 1)]
  IN IF inner.failed THEN inner
     ELSE IF inner.ops = <<>> THEN [inner EXCEPT !.failed = TRUE]
     ELSE IF closed.ops # <<>> /\ Top(closed.ops) = "f" THEN Applied(closed)
     ELSE closed

\* processParen: what is open since the parenthesis, then a ! or a function
\* right before it.
ProcessParen(m) ==
  LET inner == ToParen(m)
      closed == [inner EXCEPT !.ops = Prefix(@, 1)]
  IN IF inner.failed THEN inner
     ELSE IF inner.ops = <<>> THEN [inner EXCEPT !.failed = TRUE]
     ELSE IF closed.ops # <<>> /\ Top(closed.ops) \in {"!", "f"} THEN Applied(closed)
     ELSE closed

(***************************************************************************)
(* Trees, and how they are written.                                        *)
(***************************************************************************)
Leaf(v) == [op |-> "value", value |-> v, args |-> <<>>]

Node(op, args) == [op |-> op, value |-> Nil, args |-> args]

Token(op) == [op |-> op, value |-> Nil]

RECURSIVE Bare(_), Written(_), Meaning(_)

\* What needs no parentheses as an operand: a value, a call, and a negation of
\* something that stands in them.
Bare(t) == t.op \in {"value", "f"} \/ (t.op = "!" /\ ~Bare(t.args[1]))

Operand(t) ==
  IF Bare(t) THEN Written(t) ELSE <<Token("(")>> \o Written(t) \o <<Token(")")>>

\* The condition of a choice stands without them: the question mark applies one
\* operator, which has to be the condition's own.
Written(t) ==
  CASE t.op = "value" -> <<[op |-> "value", value |-> t.value]>>
    [] t.op = "!" -> <<Token("!")>> \o Operand(t.args[1])
    [] t.op = ":" -> Written(t.args[1]) \o <<Token("?")>> \o Operand(t.args[2])
                       \o <<Token(":")>> \o Operand(t.args[3])
    [] t.op = "f" -> <<Token("f"), Token("(")>> \o Operand(t.args[1])
                       \o Operand(t.args[2]) \o <<Token(")")>>
    [] OTHER -> Operand(t.args[1]) \o <<Token(t.op)>> \o Operand(t.args[2])

Meaning(t) ==
  IF t.op = "value" THEN t.value
  ELSE LET args == [i \in DOMAIN t.args |-> Meaning(t.args[i])] IN
       IF t.op # "f" THEN Result(t.op, args)
       ELSE IF Error \in {args[i] : i \in DOMAIN args} THEN Error ELSE Call(args)

RECURSIVE Grabs(_), Misread(_)

\* A choice whose condition leaves no operator behind: a value, a call or a
\* negated parenthesis.  The question mark takes what stands before the choice.
Grabs(t) == t.op = ":" /\ (Bare(t.args[1]) \/ Grabs(t.args[1]))

\* Such a choice as an operand: what stands before it is its own parenthesis, and
\* that is no operator.
Misread(t) ==
  \E i \in DOMAIN t.args :
    (Grabs(t.args[i]) /\ <<t.op, i>> # <<":", 1>>) \/ Misread(t.args[i])

(***************************************************************************)
(* EvaluateWithVars.                                                       *)
(***************************************************************************)
RulesInit ==
  /\ expression \in Expressions
  /\ tokens = Written(expression)
  /\ machine = [values |-> <<>>, ops |-> <<>>, failed |-> FALSE]
  /\ answer = Marker

Reading(kinds) ==
  /\ ~machine.failed
  /\ tokens # <<>>
  /\ Head(tokens).op \in kinds
  /\ tokens' = Tail(tokens)
  /\ UNCHANGED <<expression, answer>>

PushValue ==
  /\ Reading({"value"})
  /\ machine' = [machine EXCEPT !.values = Append(@, Head(tokens).value)]

\* A name that is registered goes on both stacks.
PushFunction ==
  /\ Reading({"f"})
  /\ machine' = [machine EXCEPT !.values = Append(@, Marker), !.ops = Append(@, "f")]

PushOperator ==
  /\ Reading(Operator \union {"("})
  /\ machine' = [machine EXCEPT !.ops = Append(@, Head(tokens).op)]

CloseParen ==
  /\ Reading({")"})
  /\ machine' = ProcessParen(machine)

Question ==
  /\ Reading({"?"})
  /\ machine' = IF machine.ops = <<>> THEN machine ELSE Applied(machine)

\* The operators that are left, last in, first out.
Finish ==
  /\ ~machine.failed /\ tokens = <<>> /\ machine.ops # <<>>
  /\ machine' = Applied(machine)
  /\ UNCHANGED <<expression, tokens, answer>>

Answer ==
  /\ answer = Marker
  /\ machine.failed \/ (tokens = <<>> /\ machine.ops = <<>>)
  /\ answer' = IF machine.failed \/ machine.values = <<>> THEN Error
               ELSE Top(machine.values)
  /\ UNCHANGED <<expression, tokens, machine>>

RulesNext ==
  \/ PushValue \/ PushFunction \/ PushOperator \/ CloseParen \/ Question
  \/ Finish \/ Answer

RulesSpec == RulesInit /\ [][RulesNext]_ruleVars

(***************************************************************************)
(* Properties.                                                             *)
(***************************************************************************)
\* An expression whose operands stand in parentheses is answered by what it says,
\* and by an error exactly when a type does not fit somewhere in it, or when an
\* operand is a choice with a plain value, a call or a negated parenthesis for its
\* condition: (true ? 1 : 2) == 1 is an error, (true == true ? 1 : 2) == 1 is not
\* (EvaluateWithVars, processOp, processParen, processFunc).
EvaluatedAsWritten ==
  answer # Marker =>
    answer = IF Misread(expression) THEN Error ELSE Meaning(expression)
==============================================================================
