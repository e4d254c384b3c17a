------------------------- MODULE ConstantEvaluation -------------------------
(***************************************************************************)
(* classifyExpression() of submod/semantic/src/ptx_declaration_semantics.cpp*)
(* : the category and, where it is known, the value of a constant           *)
(* expression, and the failure that numericConstantValue() reports.         *)
(*                                                                         *)
(* An integer is its bits and whether they are read as unsigned; a double   *)
(* is an exact fraction <<numerator, denominator>>, its rounding is left    *)
(* out.                                                                     *)
(***************************************************************************)
EXTENDS PtxBase, Bitwise

Integer(value) == [category |-> "Integer", integer |-> value, number |-> None, single |-> FALSE]
Floating(value) == [category |-> "Floating", integer |-> None, number |-> value, single |-> FALSE]
Address == [category |-> "Address", integer |-> None, number |-> None, single |-> FALSE]
Invalid == [category |-> "Invalid", integer |-> None, number |-> None, single |-> FALSE]

asSigned(value) ==
  IF value.bits < 2 ^ (Width - 1) THEN value.bits ELSE value.bits - 2 ^ Width
signedBoolean(truth) == [bits |-> IF truth THEN 1 ELSE 0, unsigned |-> FALSE]

(* A value, read as it is or as unsigned *)
As(value, unsigned) == IF unsigned THEN value.bits ELSE asSigned(value)
NumberOf(value) == As(value, value.unsigned)

nonnegativeIntegerValue(info) ==
  IF info.category # "Integer" \/ info.integer = None \/ NumberOf(info.integer[1]) < 0 THEN None
  ELSE Some(NumberOf(info.integer[1]))

Comparisons == {"<", "<=", ">", ">=", "=", "#"}
Compares(operation, left, right) ==
  CASE operation = "<" -> left < right
    [] operation = "<=" -> left <= right
    [] operation = ">" -> left > right
    [] operation = ">=" -> left >= right
    [] operation = "=" -> left = right
    [] operation = "#" -> left # right

-----------------------------------------------------------------------------
(* Integers *)

Shifted(operation, left, amount) ==
  IF operation = "shl" THEN Wrapped(left.bits * 2 ^ amount)
  ELSE left.bits \div 2 ^ amount
       + (IF ~left.unsigned /\ amount # 0 /\ asSigned(left) < 0
          THEN 2 ^ Width - 2 ^ (Width - amount) ELSE 0)

Negated(bits, negative) == IF negative THEN Wrapped(-bits) ELSE bits
Magnitude(value) == Negated(value.bits, asSigned(value) < 0)

Quotient(left, right, unsigned) ==
  IF unsigned THEN left.bits \div right.bits
  ELSE Negated(Magnitude(left) \div Magnitude(right),
               (asSigned(left) < 0) # (asSigned(right) < 0))

(* Whether a binary operation of known integers has no value *)
Undefined(operation, right) ==
  \/ operation \in {"/", "%"} /\ right.bits = 0
  \/ operation \in {"shl", "shr"} /\ right.bits >= Width

(* The common signedness of two operands, and of the result of an operation *)
CommonUnsigned(left, right) == left.unsigned \/ right.unsigned
ResultUnsigned(operation, left, right) ==
  CASE operation \in {"shl", "shr"} -> left.unsigned
    [] operation = "%" -> FALSE
    [] OTHER -> CommonUnsigned(left, right)

TruthOf(operation, left, right, unsigned) ==
  CASE operation \in Comparisons -> Compares(operation, As(left, unsigned), As(right, unsigned))
    [] operation = "&&" -> left.bits # 0 /\ right.bits # 0
    [] operation = "||" -> left.bits # 0 \/ right.bits # 0

ArithmeticBits(operation, left, right) ==
  CASE operation \in {"shl", "shr"} -> Shifted(operation, left, right.bits)
    [] operation = "&" -> left.bits & right.bits
    [] operation = "^" -> left.bits ^^ right.bits
    [] operation = "|" -> left.bits | right.bits
    [] operation = "%" -> left.bits % right.bits
    [] operation = "+" -> Wrapped(left.bits + right.bits)
    [] operation = "-" -> Wrapped(left.bits - right.bits)
    [] operation = "*" -> Wrapped(left.bits * right.bits)
    [] operation = "/" -> Quotient(left, right, CommonUnsigned(left, right))

evaluateIntegerBinary(operation, left, right) ==
  IF Undefined(operation, right) THEN Invalid
  ELSE Integer(Some(
         IF operation \in Comparisons \cup {"&&", "||"}
         THEN signedBoolean(TruthOf(operation, left, right, CommonUnsigned(left, right)))
         ELSE [bits |-> ArithmeticBits(operation, left, right),
               unsigned |-> ResultUnsigned(operation, left, right)]))

-----------------------------------------------------------------------------
(* Floating values, and integers promoted to them *)

Promoted(info) ==
  Floating(IF info.integer = None THEN info.number ELSE Some(<<NumberOf(info.integer[1]), 1>>))

(* The pair of operands after promoteFloatingOperands() *)
promoteFloatingOperands(left, right) ==
  IF {left.category, right.category} = {"Integer", "Floating"}
  THEN <<IF left.category = "Integer" THEN Promoted(left) ELSE left,
         IF right.category = "Integer" THEN Promoted(right) ELSE right>>
  ELSE <<left, right>>

Sign(n) == IF n < 0 THEN -1 ELSE 1
FractionOf(operation, a, b) ==
  CASE operation = "+" -> <<a[1] * b[2] + b[1] * a[2], a[2] * b[2]>>
    [] operation = "-" -> <<a[1] * b[2] - b[1] * a[2], a[2] * b[2]>>
    [] operation = "*" -> <<a[1] * b[1], a[2] * b[2]>>
    [] operation = "/" -> <<Sign(b[1]) * a[1] * b[2], Sign(b[1]) * a[2] * b[1]>>

FloatingBinary(operation, left, right) ==
  LET known == left.number # None /\ right.number # None
      a == left.number[1]
      b == right.number[1]
  IN CASE operation \in Comparisons /\ known ->
            Integer(Some(signedBoolean(Compares(operation, a[1] * b[2], b[1] * a[2]))))
       [] operation \in Comparisons /\ ~known -> Integer(None)
       [] operation \in {"+", "-", "*", "/"} /\ ~known -> Floating(None)
       [] operation \in {"+", "-", "*", "/"} /\ known ->
            IF operation = "/" /\ b[1] = 0 THEN Invalid
            ELSE Floating(Some(FractionOf(operation, a, b)))
       [] OTHER -> Invalid

-----------------------------------------------------------------------------
(* Every node kind, from the infos of its operands *)

NumericBinary(operation, operands) ==
  CASE \A i \in {1, 2} : operands[i].category = "Floating" ->
         FloatingBinary(operation, operands[1], operands[2])
    [] \A i \in {1, 2} : operands[i].category = "Integer" ->
         IF \E i \in {1, 2} : operands[i].integer = None THEN Integer(None)
         ELSE evaluateIntegerBinary(operation, operands[1].integer[1], operands[2].integer[1])
    [] OTHER -> Invalid

Binary(operation, first, second) ==
  LET categories == <<first.category, second.category>>
  IN CASE \/ operation \in {"+", "-"} /\ categories = <<"Address", "Integer">>
          \/ operation = "+" /\ categories = <<"Integer", "Address">> -> Address
       [] operation \in Comparisons /\ categories = <<"Address", "Address">> -> Integer(None)
       [] OTHER -> NumericBinary(operation, promoteFloatingOperands(first, second))

Cast(unsigned, operand) ==
  IF operand.category # "Integer" THEN Invalid
  ELSE IF operand.integer = None THEN operand
       ELSE Integer(Some([operand.integer[1] EXCEPT !.unsigned = unsigned]))

Unary(operation, operand) ==
  LET value == operand.integer[1]
      known == operand.integer # None
  IN CASE operation \in {"+", "-"} /\ operand.category \notin {"Integer", "Floating"} -> Invalid
       [] operation \in {"!", "~"} /\ operand.category # "Integer" -> Invalid
       [] operation = "-" /\ operand.category = "Floating" /\ operand.number # None ->
            Floating(Some(<<-operand.number[1][1], operand.number[1][2]>>))
       [] operation = "-" /\ known ->
            Integer(Some([value EXCEPT !.bits = Wrapped(-value.bits)]))
       [] operation = "!" /\ known -> Integer(Some(signedBoolean(value.bits = 0)))
       [] operation = "~" /\ known ->
            Integer(Some([bits |-> 2 ^ Width - 1 - value.bits, unsigned |-> TRUE]))
       [] OTHER -> operand

Call(generic, literal, callee, argument) ==
  CASE generic -> IF argument.category = "Address" THEN Address ELSE Invalid
    [] ~generic /\ literal /\ callee.integer # None
       /\ argument.category \in {"Integer", "Address"} -> Integer(None)
    [] OTHER -> Invalid

Selected(condition, whenTrue, whenFalse) ==
  IF condition.integer = None
  THEN [category |-> whenTrue.category, single |-> FALSE, number |-> None,
        integer |-> IF whenTrue.integer = whenFalse.integer THEN whenTrue.integer ELSE None]
  ELSE IF condition.integer[1].bits # 0 THEN whenTrue ELSE whenFalse

(* Both integers as the unsigned ones among them *)
Alike(values) ==
  [i \in {1, 2} |->
     IF values[i].category # "Integer" THEN values[i]
     ELSE Integer(Some([bits |-> values[i].integer[1].bits,
                        unsigned |-> CommonUnsigned(values[1].integer[1], values[2].integer[1])]))]

OfBranches(condition, values) ==
  CASE values[1].category # values[2].category -> Invalid
    [] values[1].category = "Integer" /\ values[2].category = "Integer"
       /\ (values[1].integer = None \/ values[2].integer = None) -> Integer(None)
    [] OTHER -> Selected(condition, Alike(values)[1], Alike(values)[2])

Conditional(condition, first, second) ==
  IF condition.category # "Integer" THEN Invalid
  ELSE OfBranches(condition, promoteFloatingOperands(first, second))

(* The value of a spelling that may end in u *)
parseIntegerLiteral(text) ==
  [bits |-> text.value, unsigned |-> text.form = "u" \/ text.value >= 2 ^ (Width - 1)]
Representable(text) == parseIntegerMagnitude(text) # None

Literal(literal, direct) ==
  CASE literal.kind = "Integer" ->
         IF Representable(literal.text) THEN Integer(Some(parseIntegerLiteral(literal.text)))
         ELSE Invalid
    [] literal.kind = "WarpSize" -> Integer(Some([bits |-> Wrapped(32), unsigned |-> FALSE]))
    [] literal.kind = "F32" ->
         IF direct /\ ~literal.prefixed THEN [Floating(None) EXCEPT !.single = TRUE] ELSE Invalid
    [] literal.kind = "Float" -> IF literal.value = None THEN Invalid ELSE Floating(literal.value)

-----------------------------------------------------------------------------
(* A failure is absent, deferred (a symbol has no value yet), or final; the *)
(* one that is kept is the first final one, or the first of all.            *)

Noted(failure, new) ==
  IF failure = "none" \/ new = "final" THEN new ELSE failure

Operands(e) ==
  CASE e.node \in {"Parenthesized", "Cast", "Unary"} -> <<e.operand>>
    [] e.node = "Call" -> <<e.callee, e.argument>>
    [] e.node = "Binary" -> <<e.left, e.right>>
    [] e.node = "Conditional" -> <<e.condition, e.true, e.false>>
    [] OTHER -> <<>>

Combine(e, direct, infos) ==
  CASE e.node = "Literal" -> Literal(e, direct)
    [] e.node = "Symbol" -> Address
    [] e.node = "Parenthesized" -> infos[1]
    [] e.node = "Call" ->
         Call(e.callee.node = "Symbol" /\ e.callee.name = GenericName, e.callee.node = "Literal",
              infos[1], infos[2])
    [] e.node = "Cast" -> Cast(e.unsigned, infos[1])
    [] e.node = "Unary" -> Unary(e.operation, infos[1])
    [] e.node = "Binary" -> Binary(e.operation, infos[1], infos[2])
    [] e.node = "Conditional" -> Conditional(infos[1], infos[2], infos[3])

(* [info, failure], with the failure of what was classified before *)
WithFailure(e, info, failure) ==
  [info |-> info,
   failure |-> CASE e.node = "Symbol" -> Noted(failure, "deferred")
                 [] info.category = "Invalid" -> Noted(failure, "final")
                 [] OTHER -> failure]
OfOperands(e, direct, operands) ==
  WithFailure(e, Combine(e, direct, operands.infos), operands.failure)
WithOperand(infos, result) ==
  [infos |-> Append(infos, result.info), failure |-> result.failure]

RECURSIVE Classified(_, _, _)
Classified(e, direct, failure) ==
  OfOperands(e, direct,
    FoldLeft(LAMBDA done, operand :
               WithOperand(done.infos, Classified(operand, FALSE, done.failure)),
             [infos |-> <<>>, failure |-> failure], Operands(e)))

classifyExpression(e) == Classified(e, FALSE, "none").info

(* The value, and whether the failure of an expression without one may be  *)
(* settled when its symbols are known                                       *)
NumericValue(info) ==
  CASE info.category = "Integer" -> info.integer
    [] info.category = "Floating" -> info.number
    [] OTHER -> None
NumericResult(result) ==
  [value |-> IF result.failure = "none" THEN NumericValue(result.info) ELSE None,
   failure |-> IF result.failure = "none" /\ NumericValue(result.info) = None THEN "deferred"
               ELSE result.failure]
numericConstantValue(e) == NumericResult(Classified(e, FALSE, "none"))

(* What a diagnostic sink is told of the literals of an expression *)
RECURSIVE LiteralDiagnostics(_)
LiteralDiagnostics(e) ==
  When(e.node = "Literal" /\ e.kind = "Integer" /\ ~Representable(e.text), "InvalidIntegerLiteral")
  \o Each(Operands(e), LAMBDA operand : LiteralDiagnostics(operand))

constantArrayExtent(e) == nonnegativeIntegerValue(classifyExpression(e))

IntegerValue(info) == IF info.category = "Integer" THEN info.integer ELSE None
constantIntegerValue(e) == IntegerValue(classifyExpression(e))

(* The key that compares dimensions: an extent where there is one, else the *)
(* expression as written                                                    *)
Key(e, extent) == IF extent = None THEN <<"text", e>> ELSE <<"#", extent>>
dimensionKey(e) == Key(e, constantArrayExtent(e))

-----------------------------------------------------------------------------
(* How the value of an immediate or constant expression is taken for a      *)
(* scalar type: ptx_resolved_ir_literals.cpp of submod/resolved_ir.  A      *)
(* floating value is not rounded, it keeps its exact value.  A result is    *)
(* the value, if there is one, and what was said meanwhile.                 *)
Nothing == [value |-> None, said |-> <<>>]
Found(value) == [value |-> Some(value), said |-> <<>>]
Refused(kind) == [value |-> None, said |-> <<kind>>]
Saying(said, result) == [result EXCEPT !.said = said \o @]

(* The first result that has a value, and what is said up to there *)
OrElse(first, second) == IF first.value # None THEN first ELSE Saying(first.said, second)

-----------------------------------------------------------------------------
Least(a, b) == IF a < b THEN a ELSE b
BitsOf(type) == Least(8 * scalar_size_of(type), Width)
Masked(bits, type) == bits % 2 ^ BitsOf(type)

IntegerKinds == {"Unsigned", "Signed", "Bit"}
IntegerImmediate(bits, type) == [form |-> "Integer", bits |-> bits, type |-> type]
FloatingImmediate(number, type) == [form |-> "Floating", number |-> number, type |-> type]

(* Whether a source fits the range of a type; a negative one may also stand *)
(* for the bits of an unsigned type                                         *)
Magnitudes(bits, signed) ==
  [positive |-> IF signed THEN 2 ^ (bits - 1) - 1 ELSE 2 * 2 ^ (bits - 1) - 1,
   negative |-> IF signed THEN 2 ^ (bits - 1) ELSE 2 * 2 ^ (bits - 1) - 1]
WithinMagnitudes(source, limits) ==
  IF ~source.unsigned /\ asSigned(source) < 0 THEN -asSigned(source) <= limits.negative
  ELSE source.bits <= limits.positive
Representable64(source, type) ==
  WithinMagnitudes(source, Magnitudes(BitsOf(type), scalar_kind(type) = "Signed"))

convert_integer_value(source, type, require_target_range) ==
  IF \/ scalar_kind(type) \notin IntegerKinds \/ scalar_size_of(type) > 8
     \/ require_target_range /\ ~Representable64(source, type)
  THEN Refused("InvalidImmediate")
  ELSE Found(IntegerImmediate(Masked(source.bits, type), type))

FloatingDestinations == {".f16", ".f32", ".f64", ".bf16", ".e4m3", ".e5m2"}
floating_destination_compatible(destination, source) ==
  \/ destination \in FloatingDestinations
  \/ /\ scalar_kind(destination) = "Bit"
     /\ scalar_types_compatible(destination, source, "SameWidth")

is_packed32_literal_type(type) == type \in {".f16x2", ".bf16x2", ".e4m3x4", ".e5m2x4"}

resolve_float_value(number, type) ==
  IF floating_destination_compatible(type, ".f64") THEN Found(FloatingImmediate(number, type))
  ELSE Refused("InvalidImmediate")

(* The value of an expression that has one *)
resolve_numeric_value(info, type, require_target_range) ==
  IF info.category = "Integer"
  THEN convert_integer_value(info.integer[1], type, require_target_range)
  ELSE resolve_float_value(info.number[1], type)

(* The word of a single-precision literal: kept where its width is, and no   *)
(* sign may stand before it                                                 *)
resolve_float_bits_literal(literal, type) ==
  IF literal.prefixed
     \/ ~(floating_destination_compatible(type, ".f32") \/ is_packed32_literal_type(type))
  THEN Refused("InvalidImmediate") ELSE Found([form |-> "Word32", type |-> type])

OfInteger(info, type, require_target_range) ==
  IF info.category = "Invalid" THEN Refused("InvalidImmediate")
  ELSE convert_integer_value(info.integer[1], type, require_target_range)

resolve_immediate_literal(literal, type, require_target_range) ==
  CASE literal.kind = "F32" -> resolve_float_bits_literal(literal, type)
    [] literal.kind = "Float" ->
         IF literal.value = None THEN Refused("InvalidImmediate")
         ELSE resolve_float_value(literal.value[1], type)
    [] literal.kind \in {"Integer", "WarpSize"} ->
         OfInteger(Literal(literal, FALSE), type, require_target_range)
=============================================================================
