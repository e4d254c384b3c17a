-------------------------- MODULE ConstantExpression --------------------------
(***************************************************************************)
(* The recursive-descent parser of constant expressions and initializers   *)
(* (submod/cst/src/ptx_cst_expressions.cpp) with its depth budget.         *)
(*                                                                         *)
(* `stack` is the C++ call stack of parseInitializer, parseConstant-       *)
(* Expression, parseConstantUnary and parseConstantPrimary; a frame keeps  *)
(* its arguments, the point where it waits, and the height of the part of  *)
(* its tree that is built.  `node` is a result on its way to the caller.   *)
(* The tree itself is abstracted to its height and to `bind`, how tightly  *)
(* its root binds: 11 for a primary or a unary, the precedence of a binary *)
(* operator, 0 for a conditional.                                          *)
(*                                                                         *)
(* "Or", "Sign" and "Star" stand for the operators of precedence 1, 9 and  *)
(* 10, "Not" for `~` and `!`, "Cast" for .s64 and .u64, "Ident" for names. *)
(***************************************************************************)
EXTENDS Integers, Sequences, FiniteSets

CONSTANTS
  Alphabet,              \* the token kinds of the inputs
  MaxTokens,             \* bound: no input has more tokens than this
  maxConstantTreeDepth   \* PtxCstParser::maxConstantTreeDepth

Kinds == {"Literal", "Ident", "Cast", "Not", "Sign", "Star", "Or", "Question", "Colon",
          "LParen", "RParen", "LBrace", "RBrace", "Comma", "Eq", "Other", "Eof"}

ASSUME InputAssumption == Alphabet \subseteq Kinds /\ MaxTokens \in Nat
ASSUME DepthAssumption == maxConstantTreeDepth \in Nat \ {0}

VARIABLES
  pos,      \* id of the lookahead token
  look,     \* its kind
  ahead,    \* kind of its successor, which peekNext() reads
  stack,    \* the active calls, the innermost last
  node,     \* the returned tree, or none
  verdict,  \* "running", or how the parse ended
  grouped   \* history: every operator built so far has operands that bind tighter

cursor == <<pos, look, ahead>>
vars == <<pos, look, ahead, stack, node, verdict, grouped>>

constantBinaryPrecedence(k) ==
  CASE k = "Or" -> 1 [] k = "Sign" -> 9 [] k = "Star" -> 10 [] OTHER -> -1

isConstantUnaryOperator(k) == k \in {"Not", "Sign"}

isIdentifierToken(k) == k \in {"Ident", "Cast"}

Larger(a, b) == IF a >= b THEN a ELSE b

none == [height |-> 0, bind |-> 0]

Frame(fn, least, rem) ==
  [fn |-> fn, at |-> "start", least |-> least, rem |-> rem, op |-> 0, height |-> 0, bind |-> 0]

Top == stack[Len(stack)]

(* The budget of a child *)
SameBudget(rem) == rem
ChildBudget(rem) == rem - 1

(* A parent of a tree of this height would exceed the budget. *)
AtLimitEarly(height, rem) == height + 1 >= rem
AtLimit(height, rem) == height >= rem

(* The least precedence that the right operand of an operator may have *)
RightLeastSame(precedence) == precedence
RightLeastSkips(precedence) == precedence + 2
RightLeast(precedence) == precedence + 1

-----------------------------------------------------------------------------
Input(k, p) == IF k = "Eof" \/ p >= MaxTokens THEN {"Eof"} ELSE Alphabet \cup {"Eof"}

Consume ==
  /\ pos' = pos + 1
  /\ look' = ahead
  /\ ahead' \in Input(ahead, pos + 2)

(* parseVariableDeclaration starts an initializer or an extent,            *)
(* parseNumericOperand an expression or an addend of an address.           *)
Init ==
  /\ pos = 0
  /\ look \in Input("Other", 0) /\ ahead \in Input(look, 1)
  /\ stack \in { <<Frame("Initializer", 0, maxConstantTreeDepth)>>,
                 <<Frame("Expression", 0, maxConstantTreeDepth)>>,
                 <<Frame("Expression", 10, maxConstantTreeDepth)>> }
  /\ node = none /\ verdict = "running" /\ grouped = TRUE

Running(fn, at) == verdict = "running" /\ stack # <<>> /\ Top.fn = fn /\ Top.at = at

(* Control is in the innermost call at this point, with nothing returned. *)
In(fn, at) == Running(fn, at) /\ node = none

(* The innermost call waits there for the tree that has been returned. *)
Returned(fn, at) == Running(fn, at) /\ node # none

Continue(frame) ==
  stack' = [stack EXCEPT ![Len(stack)] = frame] /\ UNCHANGED verdict

Call(frame, callee) ==
  /\ stack' = Append([stack EXCEPT ![Len(stack)] = frame], callee)
  /\ node' = none /\ UNCHANGED verdict

Return(height, bind) ==
  /\ stack' = SubSeq(stack, 1, Len(stack) - 1)
  /\ node' = [height |-> height, bind |-> bind]
  /\ verdict' = IF Len(stack) = 1 THEN "accepted" ELSE verdict

(* depthLimitExceeded; the frame would have waited where it stands. *)
Deep(frame) ==
  stack' = [stack EXCEPT ![Len(stack)] = frame] /\ verdict' = "deep" /\ UNCHANGED node

Malformed == verdict' = "malformed" /\ UNCHANGED <<stack, node>>

(* Descend when a child fits under the frame, whose operator was consumed. *)
Descend(frame, fits, callee) ==
  \/ fits /\ Call(frame, callee)
  \/ ~fits /\ Deep(frame)

-----------------------------------------------------------------------------
(* parseConstantExpression(minimum_precedence, remaining_depth) *)

ExpressionStart ==
  /\ In("Expression", "start")
  /\ Descend([Top EXCEPT !.at = "left"], Top.rem > 0, Frame("Unary", 0, Top.rem))
  /\ UNCHANGED <<cursor, grouped>>

ExpressionLeft ==
  /\ Returned("Expression", "left")
  /\ Continue([Top EXCEPT !.at = "loop", !.height = node.height, !.bind = node.bind])
  /\ node' = none
  /\ UNCHANGED <<cursor, grouped>>

ExpressionBinary ==
  LET precedence == constantBinaryPrecedence(look) IN
  /\ In("Expression", "loop")
  /\ precedence >= Top.least
  /\ Consume
  /\ Descend([Top EXCEPT !.at = "right", !.op = precedence], ~AtLimit(Top.height, Top.rem),
             Frame("Expression", RightLeast(precedence), ChildBudget(Top.rem)))
  /\ UNCHANGED grouped

ExpressionRight ==
  LET depth == Larger(Top.height, node.height) + 1 IN
  /\ Returned("Expression", "right")
  /\ \/ /\ depth > Top.rem
        /\ Deep(Top)
     \/ /\ depth <= Top.rem
        /\ Continue([Top EXCEPT !.at = "loop", !.height = depth, !.bind = Top.op])
        /\ node' = none
  /\ grouped' = (grouped /\ Top.bind >= Top.op /\ node.bind > Top.op)
  /\ UNCHANGED cursor

isConditional == Top.least = 0 /\ look = "Question"

ExpressionQuestion ==
  /\ In("Expression", "loop")
  /\ isConditional
  /\ Consume
  /\ Descend([Top EXCEPT !.at = "true"], ~AtLimit(Top.height, Top.rem),
             Frame("Expression", 0, ChildBudget(Top.rem)))
  /\ grouped' = (grouped /\ Top.bind > 0)

ExpressionColon ==
  /\ Returned("Expression", "true")
  /\ \/ /\ look = "Colon"
        /\ Consume
        /\ Call([Top EXCEPT !.at = "false", !.height = Larger(Top.height, node.height)],
                Frame("Expression", 0, ChildBudget(Top.rem)))
     \/ look # "Colon" /\ Malformed /\ UNCHANGED cursor
  /\ UNCHANGED grouped

ExpressionFalse ==
  LET depth == Larger(Top.height, node.height) + 1 IN
  /\ Returned("Expression", "false")
  /\ IF depth > Top.rem THEN Deep(Top) ELSE Return(depth, 0)
  /\ UNCHANGED <<cursor, grouped>>

ExpressionEnd ==
  /\ In("Expression", "loop")
  /\ constantBinaryPrecedence(look) < Top.least
  /\ ~isConditional
  /\ Return(Top.height, Top.bind)
  /\ UNCHANGED <<cursor, grouped>>

-----------------------------------------------------------------------------
(* parseConstantUnary(remaining_depth) *)

UnaryOperator ==
  /\ In("Unary", "start") /\ Top.rem > 0
  /\ isConstantUnaryOperator(look)
  /\ Consume
  /\ Descend([Top EXCEPT !.at = "operand"], Top.rem # 1,
             Frame("Unary", 0, ChildBudget(Top.rem)))
  /\ UNCHANGED grouped

UnaryPrimary ==
  /\ In("Unary", "start")
  /\ Top.rem > 0 => ~isConstantUnaryOperator(look)
  /\ Descend([Top EXCEPT !.at = "primary"], Top.rem > 0, Frame("Primary", 0, Top.rem))
  /\ UNCHANGED <<cursor, grouped>>

UnaryEnd ==
  /\ \/ Returned("Unary", "operand") /\ Return(node.height + 1, 11)
        /\ grouped' = (grouped /\ node.bind = 11)
     \/ Returned("Unary", "primary") /\ Return(node.height, node.bind)
        /\ UNCHANGED grouped
  /\ UNCHANGED cursor

-----------------------------------------------------------------------------
(* parseConstantPrimary(remaining_depth) *)

PrimaryLeaf ==
  /\ In("Primary", "start")
  /\ look \in {"Literal", "Ident"}
  /\ Consume
  /\ Continue([Top EXCEPT !.at = "postfix", !.height = 1])
  /\ UNCHANGED <<node, grouped>>

PrimaryOpen ==
  /\ In("Primary", "start")
  /\ look \notin {"Literal", "Ident"}
  /\ \/ look = "LParen" /\ Consume /\ Continue([Top EXCEPT !.at = "open"]) /\ UNCHANGED node
     \/ look # "LParen" /\ Malformed /\ UNCHANGED cursor
  /\ UNCHANGED grouped

PrimaryParen ==
  /\ In("Primary", "open")
  /\ look # "Cast"
  /\ Descend([Top EXCEPT !.at = "paren"], Top.rem # 1,
             Frame("Expression", 0, ChildBudget(Top.rem)))
  /\ UNCHANGED <<cursor, grouped>>

(* `(.s64)`: the parenthesis is closed before the depth is tested. *)
PrimaryCast ==
  /\ \/ In("Primary", "open") /\ look = "Cast"
        /\ Consume /\ Continue([Top EXCEPT !.at = "type"]) /\ UNCHANGED node
     \/ In("Primary", "type") /\ look # "RParen" /\ Malformed /\ UNCHANGED cursor
     \/ In("Primary", "type") /\ look = "RParen" /\ Consume
        /\ Descend([Top EXCEPT !.at = "cast"], Top.rem # 1,
                   Frame("Unary", 0, ChildBudget(Top.rem)))
  /\ UNCHANGED grouped

PrimaryCastEnd ==
  /\ Returned("Primary", "cast")
  /\ Return(node.height + 1, 11)
  /\ grouped' = (grouped /\ node.bind = 11)
  /\ UNCHANGED cursor

PrimaryClose ==
  LET depth == Larger(Top.height, node.height) + 1 IN
  /\ Returned("Primary", "paren") \/ Returned("Primary", "argument")
  /\ \/ look # "RParen" /\ Malformed /\ UNCHANGED cursor
     \/ /\ look = "RParen"
        /\ Consume
        /\ \/ /\ Top.at = "argument" /\ depth > Top.rem
              /\ Deep(Top)
           \/ /\ Top.at = "argument" => depth <= Top.rem
              /\ Continue([Top EXCEPT !.at = "postfix", !.height = depth])
              /\ node' = none
  /\ UNCHANGED grouped

PrimaryCall ==
  /\ In("Primary", "postfix")
  /\ look = "LParen"
  /\ Consume
  /\ Descend([Top EXCEPT !.at = "argument"], ~AtLimit(Top.height, Top.rem),
             Frame("Expression", 0, ChildBudget(Top.rem)))
  /\ UNCHANGED grouped

PrimaryEnd ==
  /\ In("Primary", "postfix")
  /\ look # "LParen"
  /\ Return(Top.height, 11)
  /\ UNCHANGED <<cursor, grouped>>

-----------------------------------------------------------------------------
(* parseInitializer(remaining_depth) *)

InitializerStart ==
  LET isNamed == isIdentifierToken(look) /\ ahead = "Eq" IN
  /\ In("Initializer", "start")
  /\ \/ /\ Top.rem = 0
        /\ Deep(Top) /\ UNCHANGED cursor
     \/ /\ Top.rem > 0 /\ isNamed
        /\ Consume /\ Continue([Top EXCEPT !.at = "equals"]) /\ UNCHANGED node
     \/ /\ Top.rem > 0 /\ ~isNamed /\ look # "LBrace"
        /\ Call([Top EXCEPT !.at = "scalar"], Frame("Expression", 0, Top.rem))
        /\ UNCHANGED cursor
     \/ /\ Top.rem > 0 /\ look = "LBrace"
        /\ Consume /\ Continue([Top EXCEPT !.at = "list"]) /\ UNCHANGED node
  /\ UNCHANGED grouped

InitializerNamed ==
  /\ In("Initializer", "equals")
  /\ Consume
  /\ Call([Top EXCEPT !.at = "named"], Frame("Expression", 0, ChildBudget(Top.rem)))
  /\ UNCHANGED grouped

InitializerElement ==
  /\ In("Initializer", "list")
  /\ look # "RBrace"
  /\ Descend([Top EXCEPT !.at = "element"], Top.rem # 1,
             Frame("Initializer", 0, ChildBudget(Top.rem)))
  /\ UNCHANGED <<cursor, grouped>>

InitializerNext ==
  /\ Returned("Initializer", "element")
  /\ \/ /\ look = "Comma"
        /\ Consume
        /\ Continue([Top EXCEPT !.at = "list", !.height = Larger(Top.height, node.height)])
        /\ node' = none
     \/ /\ look = "RBrace"
        /\ Consume
        /\ Return(Larger(Top.height, node.height) + 1, 11)
     \/ look \notin {"Comma", "RBrace"} /\ Malformed /\ UNCHANGED cursor
  /\ UNCHANGED grouped

InitializerEnd ==
  /\ \/ In("Initializer", "list") /\ look = "RBrace" /\ Consume /\ Return(Top.height + 1, 11)
     \/ Returned("Initializer", "named") /\ Return(node.height + 1, 11) /\ UNCHANGED cursor
     \/ Returned("Initializer", "scalar") /\ Return(node.height, node.bind) /\ UNCHANGED cursor
  /\ UNCHANGED grouped

Ended == verdict # "running" /\ UNCHANGED vars

Next ==
  \/ ExpressionStart \/ ExpressionLeft \/ ExpressionBinary \/ ExpressionRight
  \/ ExpressionQuestion \/ ExpressionColon \/ ExpressionFalse \/ ExpressionEnd
  \/ UnaryOperator \/ UnaryPrimary \/ UnaryEnd
  \/ PrimaryLeaf \/ PrimaryOpen \/ PrimaryParen \/ PrimaryCast \/ PrimaryCastEnd
  \/ PrimaryClose \/ PrimaryCall \/ PrimaryEnd
  \/ InitializerStart \/ InitializerNamed \/ InitializerElement \/ InitializerNext
  \/ InitializerEnd
  \/ Ended

Spec == Init /\ [][Next]_vars

-----------------------------------------------------------------------------
Functions == {"Initializer", "Expression", "Unary", "Primary"}
Points == {"start", "left", "loop", "right", "true", "false", "operand", "primary", "open",
           "type", "cast", "paren", "postfix", "argument", "equals", "named", "scalar",
           "list", "element"}
Frames ==
  [fn : Functions, at : Points, least : 0 .. 11, rem : 0 .. maxConstantTreeDepth,
   op : 0 .. 10, height : Nat, bind : 0 .. 11]

(* Every variable has the range that its C++ counterpart can hold. *)
TypeOK ==
  /\ pos \in Nat /\ look \in Kinds /\ ahead \in Kinds
  /\ stack \in Seq(Frames)
  /\ node \in [height : Nat, bind : 0 .. 11]
  /\ verdict \in {"running", "accepted", "malformed", "deep"}
  /\ grouped \in BOOLEAN

(* An accepted tree respects the limit: the heights that the parser adds up *)
(* on the way out agree with the budget that it hands down on the way in.   *)
AcceptedFits ==
  verdict = "accepted" => node.height \in 1 .. maxConstantTreeDepth

(* Here a frame waits for a child of its own tree, one level below its root. *)
AddsLevel(frame) ==
  frame.at \in {"right", "true", "false", "argument", "element",
               "operand", "cast", "paren", "named"}

(* Here it also holds a part of its tree, `height` high, on that level. *)
HoldsPart(frame) == frame.at \in {"right", "true", "false", "argument", "element"}

(* The levels of the whole tree above what the i-th call of s waits for *)
LevelsTo(s, i) == Cardinality({j \in 1 .. i : AddsLevel(s[j])})

(* Heights that any tree must have whose source begins with what was        *)
(* consumed: down to the innermost call's tree, which has at least a leaf,  *)
(* and down to each part that is built already.                             *)
LeastHeights ==
  {LevelsTo(stack, Len(stack)) + Larger(1, node.height)} \cup
  { LevelsTo(stack, i) + stack[i].height : i \in {j \in 1 .. Len(stack) : HoldsPart(stack[j])} }

(* Nothing is refused for its depth that could still fit: the limit counts  *)
(* levels of the tree, not tokens, list elements or postfix operators.      *)
RefusedIsTooDeep ==
  verdict = "deep" => \E height \in LeastHeights : height > maxConstantTreeDepth

(* The C++ call stack is bounded by the limit, whatever the source. *)
RecursionBounded == Len(stack) <= 3 * maxConstantTreeDepth + 2

(* Precedence and associativity: the left operand of a binary operator      *)
(* binds at least as tightly as the operator, its right operand tighter, a  *)
(* condition is no conditional, and a prefix takes a unary or a primary.    *)
Grouping == grouped
=============================================================================
