--------------------------- MODULE CallResolution ---------------------------
(***************************************************************************)
(* Calls and accesses of a bound module: the operands of a call and the     *)
(* address of an access (ptx_resolved_ir_bound_operands.cpp), the           *)
(* compatibility of an argument with a formal                               *)
(* (ptx_call_argument_compatibility.cpp), the tables of functions that      *)
(* calls go through (ptx_call_tables.cpp), the check of a call against the  *)
(* signature of its callee (check_call_abi() of ptx_resolved_module.cpp).   *)
(*                                                                         *)
(* "ResolveException" among the diagnostics is a throw of that exception.   *)
(***************************************************************************)
EXTENDS StorageLayout

Refusal == Refused("InvalidOperand")

-----------------------------------------------------------------------------
(* Registers *)

is_register_valued_symbol(symbol) ==
  symbol.kind \in {"Variable", "InputParameter", "ReturnParameter"} /\ symbol.space = "Register"

(* The symbol of a register of a class and of a vector width *)
IsRegisterOf(symbol, class, vector) ==
  /\ is_register_valued_symbol(symbol)
  /\ IsScalar(symbol.type)
  /\ (class = "Predicate") = (symbol.type = ".pred")
  /\ symbol.vector = vector
BoundRegister(table, found, class, vector) ==
  IF found # NoSymbol /\ IsRegisterOf(table.symbols[found], class, vector) THEN Found(found)
  ELSE Refusal
resolve_bound_register(table, scope, name, class, vector) ==
  BoundRegister(table, lookup(table, scope, name), class, vector)

ordinary_register_lane(selector) ==
  CASE selector \in {".x", ".r"} -> 0
    [] selector \in {".y", ".g"} -> 1
    [] selector \in {".z", ".b"} -> 2
    [] selector \in {".w", ".a"} -> 3

(* A scalar register, or a lane of a vector of them *)
BoundLane(table, found, lane) ==
  IF found = NoSymbol THEN Refusal
  ELSE IF table.symbols[found].vector # None /\ lane < Lanes(table.symbols[found].vector)
  THEN BoundRegister(table, found, "General", table.symbols[found].vector)
  ELSE Refusal
resolve_register(table, scope, reference) ==
  IF reference.form = "Name"
  THEN resolve_bound_register(table, scope, reference.name, "General", None)
  ELSE BoundLane(table, lookup(table, scope, reference.name),
                 ordinary_register_lane(reference.component))

(* A lane must come from a vector that a register can hold *)
HeldByRegister(symbol) == scalar_size_of(symbol.type) * Lanes(symbol.vector) <= 16
HeldLane(table, lane) == lane.value # None /\ HeldByRegister(table.symbols[lane.value[1]])

is_address_register_type(type) == scalar_kind(type) \in IntegerKinds /\ scalar_size_of(type) <= 8
is_function_address_register_type(type) == IsFundamental(type) /\ is_address_register_type(type)

resolve_predicate(table, n) ==
  n.node.predicate = None
  \/ resolve_bound_register(table, n.scope, n.node.predicate[1], "Predicate", None).value # None

-----------------------------------------------------------------------------
(* Operands of a call *)

(* A body .param of a kernel is an input of it in the first versions *)
source_version(module) ==
  LET written == SelectSeq(module, LAMBDA item : item.kind = "Version" /\ item.value # None)
  IN IF written = <<>> THEN None ELSE written[1].value
BodyParameterRole(module, n) ==
  IF module[n.at[1]].is_entry /\ Below(source_version(module), 14)
  THEN "LegacyEntryInput" ELSE "BodyLocal"

MayBeTransferred(symbol, role) ==
  /\ symbol.kind \in {"Variable", "InputParameter", "ReturnParameter", "CallParameter"}
  /\ symbol.space \in {"Register", "Parameter"}
  /\ symbol.space = "Parameter" =>
       /\ symbol.kind \notin {"InputParameter", "ReturnParameter"}
       /\ role # "LegacyEntryInput"
  /\ IsScalar(symbol.type)
BoundParameter(table, found, role) ==
  IF found # NoSymbol /\ MayBeTransferred(table.symbols[found], role) THEN Found(found) ELSE Refusal
resolve_call_parameter(module, table, n, name) ==
  BoundParameter(table, lookup(table, n.scope, name), BodyParameterRole(module, n))

ResolvedArgument(module, table, n, argument) ==
  CASE argument.form = "Literal" ->
         argument.value.node = "Literal" \/ numericConstantValue(argument.value).failure = "none"
    [] argument.form = "Name" ->
         resolve_call_parameter(module, table, n, argument.name).value # None
    [] argument.form = "Member" ->
         /\ HeldLane(table, resolve_register(table, n.scope, argument))
         /\ resolve_call_parameter(module, table, n, argument.name).value # None

resolve_call_arguments(module, table, n) ==
  n.node.inputs = None
  \/ \A i \in DOMAIN n.node.inputs[1] : ResolvedArgument(module, table, n, n.node.inputs[1][i])

resolve_call_return_parameter(module, table, n) ==
  n.node.returns = None
  \/ /\ Len(n.node.returns[1]) = 1
     /\ n.node.returns[1][1].form # "Literal"
     /\ ResolvedArgument(module, table, n, n.node.returns[1][1])

MayBeCalled(table, found) ==
  found # NoSymbol /\ table.symbols[found].kind = "Function" /\ ~table.symbols[found].is_entry
resolve_direct_call_target(table, n) == MayBeCalled(table, lookup(table, n.scope, n.node.target))

(* A register that holds the address, and what is known of the callee: a    *)
(* prototype or a list of this function, or a table declared before         *)
HoldsFunction(table, register) ==
  /\ register.value # None
  /\ is_function_address_register_type(table.symbols[register.value[1]].type)
StoredMetadata(table, n, tables, found) ==
  /\ table.symbols[found].kind = "Variable" /\ table.symbols[found].count = None
  /\ \E i \in DOMAIN tables : tables[i].symbol = found
  /\ hasPriorDeclaration(table, found, n.at)
MetadataOfBody(symbol, function) ==
  symbol.scope = function /\ symbol.kind \in {"CallPrototype", "CallTargets"}
KnownCallee(table, n, tables, found) ==
  found # NoSymbol /\ (StoredMetadata(table, n, tables, found)
                       \/ MetadataOfBody(table.symbols[found], n.function))
resolve_indirect_callee(table, n, tables) ==
  /\ HoldsFunction(table, resolve_bound_register(table, n.scope, n.node.target, "General", None))
  /\ KnownCallee(table, n, tables, lookup(table, n.scope, n.node.metadata[1]))

resolveCall(module, table, n, tables) ==
  /\ resolve_predicate(table, n)
  /\ IF n.node.metadata = None THEN resolve_direct_call_target(table, n)
     ELSE resolve_indirect_callee(table, n, tables)
  /\ resolve_call_return_parameter(module, table, n)
  /\ resolve_call_arguments(module, table, n)

-----------------------------------------------------------------------------
(* Accesses to memory: the address.  The value is left out. *)

is_addressable_data_symbol(symbol) ==
  /\ ~isOpaqueObjectType(symbol.type)
  /\ \/ symbol.kind = "Variable" /\ storage_space(symbol.space)
     \/ symbol.kind \in {"InputParameter", "ReturnParameter", "CallParameter"}
        /\ symbol.space = "Parameter"

address_offset_fits_signed32(offset) == offset \in -(HalfWord \div 2) .. HalfWord \div 2 - 1

AddressRegister(table, register) ==
  register.value # None /\ is_address_register_type(table.symbols[register.value[1]].type)
HoldsAddress(table, scope, name) ==
  AddressRegister(table, resolve_bound_register(table, scope, name, "General", None))

IsNumericArray(symbol, index, storage) ==
  \/ \E i \in DOMAIN storage : /\ storage[i].symbol = index /\ storage[i].extents # <<>>
                               /\ ~isOpaqueObjectType(storage[i].type)
  \/ symbol.space = "Parameter" /\ symbol.is_array

AddressAt(table, n, storage, found, symbol) ==
  IF n.node.index # None
  THEN /\ is_addressable_data_symbol(symbol)
       /\ IsNumericArray(symbol, found, storage)
       /\ HoldsAddress(table, n.scope, n.node.index[1])
  ELSE IF symbol.kind = "Variable" /\ symbol.space = "Register"
  THEN HoldsAddress(table, n.scope, n.node.base)
  ELSE is_addressable_data_symbol(symbol)
BoundAddress(table, n, storage, found) ==
  found # NoSymbol /\ AddressAt(table, n, storage, found, table.symbols[found])
resolve_address(table, n, storage) ==
  /\ address_offset_fits_signed32(n.node.offset)
  /\ BoundAddress(table, n, storage, lookup(table, n.scope, n.node.base))

resolveAccess(table, n, storage) ==
  resolve_predicate(table, n) /\ resolve_address(table, n, storage)

-----------------------------------------------------------------------------
(* Whether an actual argument agrees with a formal *)

PointedCompatible(formal, actual) ==
  /\ \A p \in {formal, actual} : p.space = None \/ p.space[1] \in PointedSpaces
  /\ formal.space # None => formal.space = actual.space
  /\ actual.alignment >= formal.alignment

ArraysCompatible(formal, actual) ==
  /\ formal.space = "Parameter" /\ actual.space = "Parameter"
  /\ actual.size # None
  /\ formal.size # None => formal.size = actual.size
  /\ formal.alignment = actual.alignment

checkCallArgumentCompatibility(formal, actual) ==
  /\ {formal.space, actual.space} \subseteq {"Register", "Parameter"}
  /\ IsScalar(formal.type) /\ formal.type = actual.type
  /\ formal.shape # "Invalid" /\ formal.shape = actual.shape
  /\ formal.is_array = actual.is_array
  /\ formal.is_array => ArraysCompatible(formal, actual)
  /\ (formal.pointer = None) = (actual.pointer = None)
  /\ formal.pointer # None => PointedCompatible(formal.pointer[1], actual.pointer[1])

resolve_call_literal(e, formal) ==
  IF \/ formal.shape # "Scalar" \/ formal.scalar = "Invalid"
     \/ formal.scalar = ".f16x2" /\ ~(e.node = "Literal" /\ e.kind = "F32")
  THEN Refused("InvalidImmediate")
  ELSE IF e.node = "Literal" THEN resolve_immediate_literal(e, formal.scalar, TRUE)
  ELSE resolve_numeric_value(classifyExpression(e), formal.scalar, TRUE)

-----------------------------------------------------------------------------
(* Properties of what may be an argument: of formals, and of variables of   *)
(* bodies                                                                   *)

NodeAt(table, at) == table.nodes[CHOOSE i \in DOMAIN table.nodes : table.nodes[i].at = at].node

SizeOf(extents) ==
  IF extents # <<>> /\ AllKnown(extents) /\ Fits(1, KnownExtents(extents))
  THEN Some(Product(1, KnownExtents(extents))) ELSE None
array_size(declarator) ==
  SizeOf([i \in DOMAIN declarator.dimensions |->
            IF declarator.dimensions[i] = None THEN None
            ELSE constantArrayExtent(declarator.dimensions[i][1])])

OfBodyVariable(variable, declarator, symbol) ==
  [space |-> variable.space, type |-> variable.type,
   shape |-> parameterVectorShape(variable.vector), is_array |-> declarator.dimensions # <<>>,
   alignment |-> IF symbol.alignment = None THEN 1 ELSE symbol.alignment[1],
   size |-> array_size(declarator), pointer |-> None]

OfFormal(function, k) ==
  Some(call_argument_properties(parameterContract((function.returns \o function.parameters)[k])))
OfLocal(variable, symbol) ==
  Some(OfBodyVariable(variable, variable.declarators[Last(symbol.at)], symbol))

index_function_call_arguments_of_inputs(table, symbol) ==
  IF symbol.scope = <<>> \/ symbol.kind # "InputParameter" THEN None
  ELSE OfFormal(NodeAt(table, symbol.scope), Last(symbol.at))
index_function_call_arguments(table, symbol) ==
  CASE symbol.scope = <<>> -> None
    [] symbol.scope # <<>> /\ symbol.kind \in {"InputParameter", "ReturnParameter"} ->
         OfFormal(NodeAt(table, symbol.scope), Last(symbol.at))
    [] symbol.scope # <<>> /\ symbol.kind \in {"Variable", "CallParameter"} ->
         OfLocal(NodeAt(table, Front(symbol.at)), symbol)
    [] OTHER -> None

-----------------------------------------------------------------------------
(* Signatures by symbol *)

(* The first declaration of each function *)
SymbolsOf(table, kind) == {i \in DOMAIN table.symbols : table.symbols[i].kind = kind}
DeclaredAs(table, name) ==
  SelectSeq(table.nodes, LAMBDA n : n.node.kind = "Function" /\ n.node.name = name)
FunctionSignatures(table) ==
  [i \in {i \in SymbolsOf(table, "Function") : DeclaredAs(table, table.symbols[i].name) # <<>>} |->
     functionSignature(DeclaredAs(table, table.symbols[i].name)[1].node)]

MetadataAt(table, symbol) == NodeAt(table, table.symbols[symbol].at)
index_function_metadata_signatures(table, signatures) ==
  [i \in SymbolsOf(table, "CallPrototype") |-> functionSignature(MetadataAt(table, i))]
  @@ [i \in SymbolsOf(table, "CallTargets") |->
        signatures[canonical(table, exactDeclaration(table, <<>>,
                                                     MetadataAt(table, i).targets[1]))]]

-----------------------------------------------------------------------------
(* Call tables *)

IsTableStorage(table, storage) ==
  /\ storage.type \in {".u32", ".u64"} /\ storage.space \in {"Global", "Constant"}
  /\ storage.lanes = 1 /\ table.symbols[storage.symbol].count = None
  /\ Len(storage.extents) = 1 /\ storage.extents[1] \notin {None, Some(0)}
  /\ storage.initialization = "Explicit" /\ storage.initializer # <<>>

IsFunctionAddress(value) ==
  value.form = "Address" /\ value.kind = "Function" /\ value.addend = 0 /\ value.mask = None
IsTableEntry(table, storage, signatures, index, entry, target) ==
  /\ entry.byte_offset = (index - 1) * scalar_size_of(storage.type)
  /\ \A symbol \in {entry.value.symbol, target} : MayBeCalled(table, symbol)
  /\ hasPriorDeclaration(table, entry.value.symbol, storage.at)
  /\ target \in DOMAIN signatures /\ ~signatures[target].is_entry

(* Every slot has the signature of the first *)
SlotAgreesUnchecked(signatures, first, callee) == callee \in DOMAIN signatures
SlotAgrees(signatures, first, callee) == SameSignature(signatures[first], signatures[callee])

CallTableSlot(entry, callee) ==
  [byte_offset |-> entry.byte_offset, symbol |-> entry.value.symbol, canonical_function |-> callee]
CallTable(table, storage, signature, callees) ==
  [symbol |-> storage.symbol, scope |-> storage.scope, owner |-> storage.owner,
   space |-> storage.space, type |-> storage.type, extent |-> storage.extents[1][1],
   byte_extent |-> storage.byte_extent, name |-> table.symbols[storage.symbol].name,
   slots |-> [i \in DOMAIN callees |-> CallTableSlot(storage.initializer[i], callees[i])],
   signature |-> signature]

(* callees are the canonical targets of the slots *)
TableOfSlots(table, storage, signatures, callees) ==
  IF \A index \in DOMAIN callees :
       /\ IsTableEntry(table, storage, signatures, index, storage.initializer[index],
                       callees[index])
       /\ SlotAgrees(signatures, callees[1], callees[index])
  THEN Found(CallTable(table, storage, signatures[callees[1]], callees))
  ELSE Refused("InvalidCallTable")
build_call_table(table, storage, signatures) ==
  IF /\ IsTableStorage(table, storage)
     /\ \A index \in DOMAIN storage.initializer :
          IsFunctionAddress(storage.initializer[index].value)
  THEN TableOfSlots(table, storage, signatures,
                    [index \in DOMAIN storage.initializer |->
                       canonical(table, storage.initializer[index].value.symbol)])
  ELSE Refused("InvalidCallTable")

(* Each table once, at its first use *)
MetadataSymbol(table, n) == lookup(table, n.scope, n.node.metadata[1])
IsTableCall(table, n) ==
  /\ n.node.kind = "Call" /\ n.node.metadata # None
  /\ table.symbols[MetadataSymbol(table, n)].kind = "Variable"
WithTable(indexed, built) ==
  [tables |-> indexed.tables \o built.value, said |-> indexed.said \o built.said]
OfOwned(indexed, table, signatures, owned) ==
  IF owned = <<>> THEN [indexed EXCEPT !.said = Append(@, "InvalidCallTable")]
  ELSE WithTable(indexed, build_call_table(table, owned[1], signatures))
OfTableCall(indexed, table, storage, signatures, n, symbol) ==
  IF table.symbols[symbol].count # None \/ ~hasPriorDeclaration(table, symbol, n.at)
  THEN [indexed EXCEPT !.said = Append(@, "InvisibleCallTable")]
  ELSE IF \E i \in DOMAIN indexed.tables : indexed.tables[i].symbol = symbol THEN indexed
  ELSE OfOwned(indexed, table, signatures,
               SelectSeq(storage, LAMBDA s : s.symbol = symbol /\ s.linkage # ".extern"))
index_call_tables(table, storage, signatures) ==
  FoldLeft(LAMBDA indexed, n : OfTableCall(indexed, table, storage, signatures, n,
                                           MetadataSymbol(table, n)),
           [tables |-> <<>>, said |-> <<>>],
           SelectSeq(table.nodes, LAMBDA n : IsTableCall(table, n)))

(* A table goes by the signature that its slots share *)
WithTables(signatures, tables) ==
  signatures @@ [symbol \in {tables[i].symbol : i \in DOMAIN tables} |->
    tables[CHOOSE i \in DOMAIN tables : tables[i].symbol = symbol].signature]

-----------------------------------------------------------------------------
(* The call against its callee *)

(* A last array of bytes without a size takes no argument, too *)
IsOpenBytes(formal) ==
  /\ formal.extents # <<>> /\ call_argument_properties(formal).size = None
  /\ formal.scalar = ".b8" /\ formal.space = "Parameter"
OmittedInput(actuals, formals) ==
  formals # <<>> /\ Len(actuals) = Len(formals) - 1 /\ IsOpenBytes(Last(formals))

ArgumentAgrees(formal, actual) ==
  When(~checkCallArgumentCompatibility(call_argument_properties(formal), actual),
       "IncompatibleArgument")
LiteralOf(formal) ==
  [space |-> "Register", type |-> formal.type, shape |-> "Scalar",
   is_array |-> FALSE, alignment |-> 0, size |-> None, pointer |-> None]

LiteralSays(e, formal) ==
  IF e.node # "Literal" /\ numericConstantValue(e).failure # "none" THEN <<"InvalidImmediate">>
  ELSE IF resolve_call_literal(e, formal).value = None THEN resolve_call_literal(e, formal).said
  ELSE ArgumentAgrees(formal, LiteralOf(formal))

(* An object that has no entry in the index of the function is a throw *)
ObjectSays(table, n, argument, indexed, formal) ==
  IF indexed = None THEN <<"ResolveException">>
  ELSE IF argument.form = "Name" THEN ArgumentAgrees(formal, indexed[1])
  ELSE IF HeldLane(table, resolve_register(table, n.scope, argument))
  THEN ArgumentAgrees(formal, [indexed[1] EXCEPT !.shape = "Scalar"])
  ELSE <<"InvalidOperand">>
ArgumentSays(table, n, argument, formal) ==
  IF argument.form = "Literal" THEN LiteralSays(argument.value, formal)
  ELSE ObjectSays(table, n, argument,
                  index_function_call_arguments(
                    table, table.symbols[lookup(table, n.scope, argument.name)]), formal)

GroupSays(table, n, given, formals, input) ==
  When(Len(given) # Len(formals) /\ ~(input /\ OmittedInput(given, formals)), "ArgumentCount")
  \o FlattenSeq([i \in 1 .. Least(Len(given), Len(formals)) |->
                   ArgumentSays(table, n, given[i], formals[i])])
Given(arguments) == IF arguments = None THEN <<>> ELSE arguments[1]
CallAgainst(table, n, signature) ==
  GroupSays(table, n, Given(n.node.returns), signature.returns, FALSE)
  \o GroupSays(table, n, Given(n.node.inputs), signature.parameters, TRUE)
CallTo(table, n, signatures, callee) ==
  IF callee \notin DOMAIN signatures THEN When(n.node.metadata # None, "ResolveException")
  ELSE CallAgainst(table, n, signatures[callee])
CalleeName(node) == IF node.metadata # None THEN node.metadata[1] ELSE node.target
check_call_abi(table, n, signatures) ==
  CallTo(table, n, signatures, canonical(table, lookup(table, n.scope, CalleeName(n.node))))
=============================================================================
