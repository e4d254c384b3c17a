-------------------------- MODULE FunctionContract --------------------------
(***************************************************************************)
(* The normalized signature of a function or call prototype, by which       *)
(* declarations are compared and calls are checked:                         *)
(* ptx_function_contract.hpp and the first part of                          *)
(* ptx_declaration_semantics.cpp of submod/semantic.  A normalized number   *)
(* is <<"value", n>>, or <<"key", spelling>> of one that has no value.      *)
(***************************************************************************)
EXTENDS ConstantEvaluation

Value(n) == <<"value", n>>
InvalidStructuralKey(spelling) == <<"key", spelling>>
IsValue(normalized) == normalized[1] = "value"

positiveCount(text) ==
  LET count == parseIntegerMagnitude(text) IN IF count = <<0>> THEN None ELSE count
IsPowerOfTwo(n) == \E i \in 0 .. Width - 1 : n = 2 ^ i
isValidAlignment(text) == positiveCount(text) # None /\ IsPowerOfTwo(positiveCount(text)[1])

integerSyntaxKey(text) ==
  LET value == parseIntegerMagnitude(text) IN IF value = None THEN <<"key", text>> ELSE Value(value[1])

LinkageQualifiers == {".extern", ".visible", ".weak", ".common"}
declarationLinkage(qualifiers) ==
  LET linkages == SelectSeq(qualifiers, LAMBDA q : q \in LinkageQualifiers)
  IN IF linkages = <<>> THEN "None" ELSE linkages[1]

-----------------------------------------------------------------------------
(* One formal parameter *)

parameterAlignmentContract(explicit, default) ==
  IF explicit # None
  THEN Some(IF isValidAlignment(explicit[1]) THEN Value(explicit[1].value)
            ELSE InvalidStructuralKey(explicit[1]))
  ELSE IF default = None THEN None ELSE Some(Value(default[1]))

PositiveExtent(e, extent) ==
  IF extent \notin {None, <<0>>} THEN Value(extent[1]) ELSE InvalidStructuralKey(e)
parameterArrayExtentContract(e) == PositiveExtent(e, constantArrayExtent(e))
DimensionContract(dimension) ==
  IF dimension = None THEN None ELSE Some(parameterArrayExtentContract(dimension[1]))

PointedSpaces == {".local", ".shared", ".global", ".const"}
VectorTypes == {".v2", ".v4"}

parameterVectorShape(vector) ==
  IF vector = None THEN "Scalar" ELSE IF vector[1] \in VectorTypes THEN vector[1] ELSE "Invalid"
Lanes(vector) == IF vector = None THEN 1 ELSE IF vector[1] = ".v2" THEN 2 ELSE 4

parameterContract(parameter) ==
  [space |-> parameter.space,
   alignment |->
     parameterAlignmentContract(
       parameter.alignment,
       IF IsScalar(parameter.type)
       THEN Some(scalar_size_of(parameter.type) * Lanes(parameter.vector)) ELSE None),
   scalar |-> IF IsScalar(parameter.type) THEN parameter.type ELSE "Invalid",
   shape |-> parameterVectorShape(parameter.vector),
   type |-> parameter.type,
   is_pointer |-> parameter.is_pointer,
   pointed |-> IF parameter.pointer_space = None \/ parameter.pointer_space[1] \in PointedSpaces
               THEN parameter.pointer_space ELSE <<"Invalid">>,
   pointer_alignment |->
     parameterAlignmentContract(parameter.pointer_alignment,
                                IF parameter.is_pointer THEN Some(4) ELSE None),
   extents |-> [i \in DOMAIN parameter.dimensions |->
                  DimensionContract(parameter.dimensions[i])]]

(* Whether known extents multiply within a word *)
Product(bytes, extents) == FoldLeft(LAMBDA product, extent : product * extent, bytes, extents)
Fits(bytes, extents) ==
  \A n \in 1 .. Len(extents) : Product(bytes, SubSeq(extents, 1, n)) < Word

(* Elements of an array: valid, and their number unless the outer axis is open *)
CountsOf(known) == [i \in DOMAIN known |-> known[i][1][2]]
ValidAxes(axes, known) ==
  /\ \A i \in DOMAIN axes : axes[i] = None => i = 1
  /\ \A i \in DOMAIN known : IsValue(known[i][1]) /\ known[i][1][2] # 0
  /\ Fits(1, CountsOf(known))
ArrayExtent(valid, total) == [valid |-> valid, total |-> IF valid THEN total ELSE None]
OfAxes(axes, known) ==
  ArrayExtent(ValidAxes(axes, known),
              IF Len(known) = Len(axes) THEN Some(Product(1, CountsOf(known))) ELSE None)
parameter_array_extent(axes) == OfAxes(axes, SelectSeq(axes, LAMBDA axis : axis # None))

SameExtent(left, right, identical) ==
  IF left.valid /\ right.valid THEN left.total = right.total
  ELSE left.valid = right.valid /\ identical
parameter_arrays_equal(left, right) ==
  /\ (left = <<>>) = (right = <<>>)
  /\ SameExtent(parameter_array_extent(left), parameter_array_extent(right), left = right)

SameContract(left, right) ==
  /\ \A field \in {"space", "alignment", "scalar", "shape", "is_pointer", "pointed",
                   "pointer_alignment"} : left[field] = right[field]
  /\ \/ left.scalar # "Invalid"
     \/ left.type = right.type
  /\ parameter_arrays_equal(left.extents, right.extents)

(* How an argument or a formal takes part in a call; Invalid fits nothing *)
HasValue(normalized) == normalized # None /\ IsValue(normalized[1])
OfArray(contract, array) ==
  LET valid == /\ HasValue(contract.alignment) /\ array.valid
               /\ contract.is_pointer => HasValue(contract.pointer_alignment)
  IN [space |-> IF valid THEN contract.space ELSE "Invalid",
      type |-> contract.type, shape |-> contract.shape,
      is_array |-> contract.extents # <<>>,
      alignment |-> IF valid THEN contract.alignment[1][2] ELSE 0,
      size |-> IF valid /\ contract.extents # <<>> THEN array.total ELSE None,
      pointer |-> IF valid /\ contract.is_pointer
                  THEN Some([space |-> contract.pointed,
                             alignment |-> contract.pointer_alignment[1][2]])
                  ELSE None]
call_argument_properties(contract) ==
  OfArray(contract, parameter_array_extent(contract.extents))

-----------------------------------------------------------------------------
(* Signatures *)

Contracts(parameters) == [i \in DOMAIN parameters |-> parameterContract(parameters[i])]

functionSignature(declared) ==
  [is_entry |-> declared.is_entry, is_noreturn |-> declared.is_noreturn,
   returns |-> Contracts(declared.returns), parameters |-> Contracts(declared.parameters)]

SameContracts(left, right) ==
  /\ Len(left) = Len(right)
  /\ \A i \in DOMAIN left : SameContract(left[i], right[i])

SameSignature(left, right) ==
  /\ left.is_entry = right.is_entry /\ left.is_noreturn = right.is_noreturn
  /\ SameContracts(left.returns, right.returns)
  /\ SameContracts(left.parameters, right.parameters)

(* A variable's natural alignment, where its storage is laid out *)
AtMost16(bytes) == IF bytes <= 16 THEN Some(bytes) ELSE None
naturalStorageAlignment(variable) ==
  IF \/ parameterScalarType(variable.type) = None
     \/ parameterVectorShape(variable.vector) = "Invalid" THEN None
  ELSE AtMost16(scalar_size_of(variable.type) * Lanes(variable.vector))

variableAlignmentContract(variable) ==
  parameterAlignmentContract(variable.alignment, naturalStorageAlignment(variable))

AxisKey(dimension) == IF dimension = None THEN None ELSE dimensionKey(dimension[1])
variableSignature(variable, declarator) ==
  [space |-> variable.space, alignment |-> variableAlignmentContract(variable),
   vector |-> variable.vector, type |-> variable.type,
   count |-> IF declarator.count = None THEN None
             ELSE Some(integerSyntaxKey(declarator.count[1])),
   dimensions |-> [i \in DOMAIN declarator.dimensions |->
                     AxisKey(declarator.dimensions[i])]]
=============================================================================
