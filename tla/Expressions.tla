---------------------------- MODULE Expressions ----------------------------
(***************************************************************************)
(* Conditions and assignments: expression/Expressions.cpp, ExprUtils.h,    *)
(* core/AssignAction.h and ExecutionExpressionAction.  An expression tree  *)
(* is evaluated from its leaves up, left before right, so that any tree is *)
(* a sequence of the steps below: a constant or a variable is pushed, an   *)
(* operator takes its operands from the stack and pushes what it gives.    *)
(*                                                                         *)
(* A value carries the type that boost::variant carries.  An integer is    *)
(* one of [MinInt .. MaxInt], int64_t with fewer bits.  A double is a      *)
(* multiple of 1/Scale, its operations rounded towards zero to the next    *)
(* one, or an infinity, or NaN; Eps of them are the 1e-8 of almostEqual(). *)
(* A string is its length: strings of one letter, ordered as std::string   *)
(* orders them.                                                            *)
(***************************************************************************)
EXTENDS Integers, Sequences

CONSTANTS
    Vars,            \* the names of variables
    MaxInt,          \* the largest int64_t
    Scale,           \* an integer n is the double n * Scale
    Eps,             \* 1e-8
    MaxDouble,       \* the largest finite double
    MaxLen,          \* bound: the longest string
    MaxStack         \* bound: how many operands wait for an operator

ASSUME ExpressionsAssumption ==
    /\ MaxInt \in Nat \ {0}
    /\ Scale \in Nat \ {0}
    /\ Eps \in 1 .. Scale
    /\ MaxDouble \in Nat
    /\ MaxInt * Scale + Scale <= MaxDouble
    /\ MaxLen \in Nat
    /\ MaxStack \in Nat

MinInt == -MaxInt - 1

Int64 == MinInt .. MaxInt

(* The doubles that are no numbers, as the integers beyond MaxDouble, so   *)
(* that < orders the infinities as the processor does.                     *)
Infinity == MaxDouble + 1
NaN == MaxDouble + 2
Doubles == (-Infinity) .. NaN

IsFinite(d) == d \in (-MaxDouble) .. MaxDouble

DoubleValues == [type : {"double"}, val : Doubles]
BoolValues == [type : {"bool"}, val : 0 .. 1]
StringValues == [type : {"string"}, val : 0 .. MaxLen]
IntValues == [type : {"int"}, val : Int64]
Values == IntValues \cup DoubleValues \cup BoolValues \cup StringValues

(* What an evaluation can give instead: folly::makeUnexpected (or a        *)
(* variable that is not set), LOG(FATAL), and SIGFPE.                      *)
Null == [type |-> "null", val |-> 0]
Error == [type |-> "error", val |-> 0]
Fatal == [type |-> "fatal", val |-> 0]
Trap == [type |-> "trap", val |-> 0]

IntValue(n) == [type |-> "int", val |-> n]
DoubleValue(d) == [type |-> "double", val |-> d]
BoolValue(b) == [type |-> "bool", val |-> IF b THEN 1 ELSE 0]

(***************************************************************************)
(* Machine arithmetic.                                                     *)
(***************************************************************************)

Abs(n) == IF n < 0 THEN -n ELSE n

Wrap(n) == ((n - MinInt) % (2 * MaxInt + 2)) + MinInt

(* C++ division rounds towards zero, and the remainder has the sign of the *)
(* dividend.                                                               *)
Div(a, b) == IF (a < 0) = (b < 0) THEN Abs(a) \div Abs(b) ELSE -(Abs(a) \div Abs(b))

Mod(a, b) == a - b * Div(a, b)

(* The division instruction traps on the smallest integer by -1.           *)
Traps(a, b) == a = MinInt /\ b = -1

(* The arithmetic of doubles: what is beyond the largest is an infinity,   *)
(* and an operation that has no value gives NaN.                           *)
Round(d) == IF d > MaxDouble THEN Infinity ELSE IF d < -MaxDouble THEN -Infinity ELSE d

Opposite(a) == IF a = NaN THEN NaN ELSE -a

Plus(a, b) ==
    CASE IsFinite(a) /\ IsFinite(b) -> Round(a + b)
      [] ~IsFinite(a) /\ (IsFinite(b) \/ a = b) -> a
      [] ~IsFinite(b) /\ IsFinite(a) -> b
      [] OTHER -> NaN

Minus(a, b) == Plus(a, Opposite(b))

SignedInfinity(a, b) == IF (a < 0) = (b < 0) THEN Infinity ELSE -Infinity

Times(a, b) ==
    CASE IsFinite(a) /\ IsFinite(b) -> Round(Div(a * b, Scale))
      [] NaN \notin {a, b} /\ 0 \notin {a, b} /\ ~(IsFinite(a) /\ IsFinite(b)) -> SignedInfinity(a, b)
      [] OTHER -> NaN

(* A divisor near zero has been refused.                                   *)
Over(a, b) ==
    CASE IsFinite(a) /\ IsFinite(b) -> Round(Div(a * Scale, b))
      [] IsFinite(a) /\ b \in {Infinity, -Infinity} -> 0
      [] IsFinite(b) /\ a \in {Infinity, -Infinity} -> SignedInfinity(a, b)
      [] OTHER -> NaN

FMod(a, b) ==
    CASE IsFinite(a) /\ IsFinite(b) -> Mod(a, b)
      [] IsFinite(a) /\ b \in {Infinity, -Infinity} -> a
      [] OTHER -> NaN

(* No comparison with NaN is true.                                         *)
NearZero(d) == d # NaN /\ Abs(d) < Eps

(***************************************************************************)
(* ExprUtils.                                                              *)
(***************************************************************************)

IsInt(x) == x.type = "int"

IsArithmetic(x) == x.type \in {"int", "double"}

AsDouble(x) == IF IsInt(x) THEN x.val * Scale ELSE x.val

(* A string is "true" when it is empty.                                    *)
AsBool(x) == IF x.type = "string" THEN x.val = 0 ELSE x.val # 0

(* Doubles are compared with the tolerance on one side only.               *)
AlmostEqualOneSided(a, b) == Minus(a, b) # NaN /\ Minus(a, b) < Eps

(* An infinity is not within Eps of itself: their difference is NaN.       *)
AlmostEqual(a, b) == NearZero(Minus(a, b))

(***************************************************************************)
(* UnaryExpression::eval and ArithmeticExpression::eval.                   *)
(***************************************************************************)

UnaryOps == {"PLUS", "NEGATE", "NOT"}
ArithmeticOps == {"ADD", "SUB", "MUL", "DIV", "MOD"}
RelationalOps == {"LT", "LE", "GT", "GE", "EQ", "NE"}
LogicalOps == {"AND", "OR", "XOR"}

ApplyUnary(op, x) ==
    CASE op = "PLUS" -> x
      [] op = "NEGATE" /\ IsInt(x) -> IntValue(Wrap(-x.val))
      [] op = "NEGATE" /\ x.type = "double" -> DoubleValue(Opposite(x.val))
      [] op = "NOT" -> BoolValue(~AsBool(x))
      [] OTHER -> Error

(* The other half of the check forgotten.                                  *)
AddOverflowPositive(l, r) == l >= 0 /\ r >= 0 /\ MaxInt - l < r

(* <= for <: a sum that fits is refused.                                   *)
AddOverflowEarly(l, r) ==
    \/ l >= 0 /\ r >= 0 /\ MaxInt - l <= r
    \/ l < 0 /\ r < 0 /\ MinInt - l >= r

AddOverflow(l, r) ==
    \/ l >= 0 /\ r >= 0 /\ MaxInt - l < r
    \/ l < 0 /\ r < 0 /\ MinInt - l > r

(* -r wraps for the smallest integer, which has no opposite.               *)
SubOverflow(l, r) ==
    \/ l > 0 /\ r < 0 /\ MaxInt - l < Wrap(-r)
    \/ l < 0 /\ r > 0 /\ MinInt - l > -r

MulOverflow(l, r) ==
    \/ l > 0 /\ r > 0 /\ Div(MaxInt, l) < r
    \/ l < 0 /\ r < 0 /\ Div(MaxInt, l) > r
    \/ l > 0 /\ r < 0 /\ Div(MinInt, l) > r
    \/ l < 0 /\ r > 0 /\ Div(MinInt, l) < r

IntArithmetic(op, l, r) ==
    CASE op = "ADD" -> IF AddOverflow(l, r) THEN Fatal ELSE IntValue(Wrap(l + r))
      [] op = "SUB" -> IF SubOverflow(l, r) THEN Fatal ELSE IntValue(Wrap(l - r))
      [] op = "MUL" -> IF l < 0 /\ r > 0 /\ Traps(MinInt, l) THEN Trap
                       ELSE IF MulOverflow(l, r) THEN Fatal
                       ELSE IntValue(Wrap(l * r))
      [] op = "DIV" -> IF r = 0 THEN Fatal ELSE IF Traps(l, r) THEN Trap ELSE IntValue(Div(l, r))
      [] op = "MOD" -> IF r = 0 THEN Fatal ELSE IF Traps(l, r) THEN Trap ELSE IntValue(Mod(l, r))

DoubleArithmetic(op, l, r) ==
    CASE op = "ADD" -> DoubleValue(Plus(l, r))
      [] op = "SUB" -> DoubleValue(Minus(l, r))
      [] op = "MUL" -> DoubleValue(Times(l, r))
      [] op = "DIV" -> IF NearZero(r) THEN Fatal ELSE DoubleValue(Over(l, r))
      [] op = "MOD" -> IF NearZero(r) THEN Fatal ELSE DoubleValue(FMod(l, r))

ApplyArithmetic(op, l, r) ==
    CASE IsInt(l) /\ IsInt(r) -> IntArithmetic(op, l.val, r.val)
      [] IsArithmetic(l) /\ IsArithmetic(r) /\ ~(IsInt(l) /\ IsInt(r)) ->
            DoubleArithmetic(op, AsDouble(l), AsDouble(r))
      [] op = "ADD" /\ l.type = "string" /\ r.type = "string" ->
            [type |-> "string", val |-> l.val + r.val]
      [] OTHER -> Error

(***************************************************************************)
(* RelationalExpression::eval: <, <=, >, >= are those of boost::variant,   *)
(* which orders values of different types by their types and makes <=, >   *)
(* and >= of <, so that a double is <= NaN and not less than it; == and != *)
(* convert.  LogicalExpression::eval has evaluated both sides already.     *)
(***************************************************************************)

Which(x) == CASE x.type = "int" -> 0
              [] x.type = "double" -> 1
              [] x.type = "bool" -> 2
              [] x.type = "string" -> 3

Unordered(l, r) == l.type = "double" /\ r.type = "double" /\ NaN \in {l.val, r.val}

Less(l, r) ==
    IF Which(l) = Which(r) THEN ~Unordered(l, r) /\ l.val < r.val ELSE Which(l) < Which(r)

Equal(l, r) ==
    IF IsArithmetic(l) /\ IsArithmetic(r) /\ ~(IsInt(l) /\ IsInt(r))
    THEN AlmostEqual(AsDouble(l), AsDouble(r))
    ELSE l = r

Compare(op, l, r) ==
    CASE op = "LT" -> Less(l, r)
      [] op = "LE" -> ~Less(r, l)
      [] op = "GT" -> Less(r, l)
      [] op = "GE" -> ~Less(l, r)
      [] op = "EQ" -> Equal(l, r)
      [] op = "NE" -> ~Equal(l, r)

Connect(op, l, r) ==
    CASE op = "AND" -> AsBool(l) /\ AsBool(r)
      [] op = "OR" -> AsBool(l) \/ AsBool(r)
      [] op = "XOR" -> AsBool(l) # AsBool(r)

Apply(op, l, r) ==
    CASE op \in ArithmeticOps -> ApplyArithmetic(op, l, r)
      [] op \in RelationalOps -> BoolValue(Compare(op, l, r))
      [] op \in LogicalOps -> BoolValue(Connect(op, l, r))

-----------------------------------------------------------------------------

VARIABLES
    ctx,             \* ActionContext::exprCtx, Null for a variable that is not set
    stack,           \* the operands of the evaluation under way
    rc,              \* what the last action returned
    proc             \* the process: "runs", or how it ended

vars == <<ctx, stack, rc, proc>>

Init ==
    /\ ctx = [x \in Vars |-> Null]
    /\ stack = <<>>
    /\ rc = "OK"
    /\ proc = "runs"

Evaluating == proc = "runs" /\ Len(stack) < MaxStack

(* The scanner gives no negative number, no empty string and no NaN; a     *)
(* number of too many digits is an infinity.                               *)
Literals ==
    {x \in Values : /\ x.val >= 0
                    /\ x.type = "string" => x.val > 0
                    /\ x.type = "double" => x.val # NaN}

Constant ==
    /\ Evaluating
    /\ \E x \in Literals : stack' = Append(stack, x)
    /\ UNCHANGED <<ctx, rc, proc>>

(* An error goes up through every operator to the action, which returns.   *)
Fail ==
    /\ stack' = <<>>
    /\ rc' = "ERR_FAILED"
    /\ UNCHANGED <<ctx, proc>>

Variable(x) ==
    /\ Evaluating
    /\ IF ctx[x] = Null
       THEN Fail
       ELSE /\ stack' = Append(stack, ctx[x])
            /\ UNCHANGED <<ctx, rc, proc>>

(* The operator has been applied to all but the operands `rest`.  A string *)
(* beyond MaxLen is not followed.                                          *)
Push(rest, result) ==
    \/ /\ result \in Values
       /\ stack' = Append(rest, result)
       /\ UNCHANGED <<ctx, rc, proc>>
    \/ /\ result = Error
       /\ Fail
    \/ /\ result \in {Fatal, Trap}
       /\ proc' = result.type
       /\ UNCHANGED <<ctx, stack, rc>>

Unary(op) ==
    /\ proc = "runs"
    /\ Len(stack) > 0
    /\ Push(SubSeq(stack, 1, Len(stack) - 1), ApplyUnary(op, stack[Len(stack)]))

Binary(op) ==
    /\ proc = "runs"
    /\ Len(stack) > 1
    /\ Push(SubSeq(stack, 1, Len(stack) - 2),
            Apply(op, stack[Len(stack) - 1], stack[Len(stack)]))

(* AssignAction::doRun.                                                    *)
Assign(x) ==
    /\ proc = "runs"
    /\ Len(stack) = 1
    /\ ctx' = [ctx EXCEPT ![x] = stack[1]]
    /\ stack' = <<>>
    /\ rc' = "OK"
    /\ UNCHANGED proc

(* ExecutionExpressionAction::doRun.                                       *)
Condition ==
    /\ proc = "runs"
    /\ Len(stack) = 1
    /\ rc' = IF AsBool(stack[1]) THEN "OK" ELSE "ERR_FAILED"
    /\ stack' = <<>>
    /\ UNCHANGED <<ctx, proc>>

(* CheckLeadersAction and RebuildIndexAction, on other threads, put their  *)
(* result into a variable, perhaps between two operands of one expression: *)
(* a string, which may be empty, and the id of a job.                      *)
ResultVar(x) ==
    /\ proc = "runs"
    /\ \E v \in StringValues \cup {y \in IntValues : y.val > 0} : ctx' = [ctx EXCEPT ![x] = v]
    /\ UNCHANGED <<stack, rc, proc>>

Ended == proc # "runs" /\ UNCHANGED vars

Next ==
    \/ Constant
    \/ Condition
    \/ Ended
    \/ \E x \in Vars : Variable(x) \/ Assign(x) \/ ResultVar(x)
    \/ \E op \in UnaryOps : Unary(op)
    \/ \E op \in ArithmeticOps \cup RelationalOps \cup LogicalOps : Binary(op)

Spec == Init /\ [][Next]_vars

-----------------------------------------------------------------------------
(***************************************************************************)
(* Properties.                                                             *)
(***************************************************************************)

(* Every value of a variable and every operand is a value of its type; in  *)
(* particular the integers stay in their width.                            *)
TypeOK ==
    /\ ctx \in [Vars -> Values \cup {Null}]
    /\ stack \in Seq(Values)
    /\ rc \in {"OK", "ERR_FAILED"}
    /\ proc \in {"runs", "fatal", "trap"}

(* The quotient as the standard defines it, and the other operations as    *)
(* the integers have them.                                                 *)
Quotient(l, r) ==
    CHOOSE q \in MinInt .. -MinInt :
        \E m \in Int64 : l = q * r + m /\ Abs(m) < Abs(r) /\ m * l >= 0

Exact(op, l, r) ==
    CASE op = "ADD" -> l + r
      [] op = "SUB" -> l - r
      [] op = "MUL" -> l * r
      [] op = "DIV" -> Quotient(l, r)
      [] op = "MOD" -> l - r * Quotient(l, r)

IntegersOnTop ==
    Len(stack) > 1 /\ IsInt(stack[Len(stack) - 1]) /\ IsInt(stack[Len(stack)])

(* What an operation on integers leaves on the stack is the exact result,  *)
(* or the process ends: the overflow checks of ArithmeticExpression::eval  *)
(* miss one case, that of the smallest integer subtracted from one that is *)
(* not negative.                                                           *)
IntegersExact ==
    [][IntegersOnTop =>
        LET l == stack[Len(stack) - 1].val
            r == stack[Len(stack)].val
        IN \A op \in ArithmeticOps :
             /\ Binary(op)
             /\ proc' = "runs"
             /\ ~(op = "SUB" /\ l >= 0 /\ r = MinInt)
             => stack'[Len(stack')] = IntValue(Exact(op, l, r))]_vars

(* The process is not ended for nothing: whichever operator has been       *)
(* applied, LOG(FATAL) and the trap come only when its exact result is no  *)
(* int64_t or its divisor is zero, but for two cases, a positive number    *)
(* multiplied by -1 from the left, where the overflow check itself divides *)
(* the smallest integer by -1, and the remainder of the smallest integer   *)
(* by -1.                                                                  *)
EndsForAReason ==
    [][proc = "runs" /\ proc' # "runs" /\ IntegersOnTop =>
        LET l == stack[Len(stack) - 1].val
            r == stack[Len(stack)].val
        IN /\ \E op \in ArithmeticOps : Binary(op)
           /\ \A op \in ArithmeticOps :
                Binary(op) =>
                    \/ op \in {"DIV", "MOD"} /\ r = 0
                    \/ op = "MUL" /\ l = -1 /\ r > 0
                    \/ op = "MOD" /\ Traps(l, r)
                    \/ Exact(op, l, r) \notin Int64]_vars

(* Doubles that <, > and == tell nothing about: one is NaN, or they are    *)
(* the same infinity, whose difference is NaN.                             *)
Incomparable(l, r) ==
    /\ l.type = "double" /\ r.type = "double"
    /\ NaN \in {l.val, r.val} \/ (l = r /\ ~IsFinite(l.val))

(* Of two operands one is less, or they are equal: neither only for the    *)
(* doubles just named, both only for numbers within Eps of each other, an  *)
(* integer being less than any double.  == does not depend on the order of *)
(* its sides, != is its negation, no two values are each less than the     *)
(* other, and <= is < or the same value, or NaN on a side.  So an infinity *)
(* is <= and >= itself and not == itself, as RelationalExpression::eval    *)
(* and almostEqual() have it.                                              *)
ComparisonsConsistent ==
    Len(stack) > 1 =>
        LET l == stack[Len(stack) - 1]
            r == stack[Len(stack)]
            before == Compare("LT", l, r)
            after == Compare("GT", l, r)
            same == Compare("EQ", l, r)
        IN /\ ~(before /\ after)
           /\ same = Compare("EQ", r, l)
           /\ same = ~Compare("NE", l, r)
           /\ (before \/ after \/ same) = ~Incomparable(l, r)
           /\ Compare("LE", l, r) = (before \/ l = r \/ Unordered(l, r))
           /\ same /\ (before \/ after) =>
                /\ IsArithmetic(l) /\ IsArithmetic(r)
                /\ l.type = r.type => l.type = "double"
                /\ IsFinite(AsDouble(l)) /\ IsFinite(AsDouble(r))
                /\ Abs(AsDouble(l) - AsDouble(r)) < Eps
=============================================================================
