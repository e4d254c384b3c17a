---------------------------- MODULE OwnedModule ----------------------------
(***************************************************************************)
(* The module that resolveModuleOnly() returns (ptx_resolved_ir_module.hpp) *)
(* and how ptx_resolved_module.cpp of submod/resolved_ir makes its parts:   *)
(* the header, the contracts and parameters of functions, and what the      *)
(* operands of instructions keep of the symbols they name.  All of it can   *)
(* be read without the syntax module.  A range is the place of what it      *)
(* covers.                                                                  *)
(***************************************************************************)
EXTENDS CallResolution, FunctionChecks

Optionally(optional, Of(_)) == IF optional = None THEN None ELSE Some(Of(optional[1]))

normalized_u32(text) == IF text.value < HalfWord THEN Some(text.value) ELSE None

-----------------------------------------------------------------------------
(* Identities *)

(* Directives that say where and how, not what, have no part in it *)
Contextual == {"Version", "Target"}

(* Two functions with one encoding agree in these parts.  Ranges are left    *)
(* out of it, and so are pragmas and locations in a body.                    *)
Encoded ==
  {"is_entry", "is_prototype", "is_noreturn", "qualifiers", "attributes", "name", "returns",
   "parameters", "abi_preserve", "abi_preserve_control", "blocks_are_clusters", "language",
   "resources", "body"}
function_source_identity(function) == Restrict(function, Encoded)
IdentitiesOf(functions_of) ==
  [identity \in {function_source_identity(functions_of[i]) : i \in DOMAIN functions_of} |->
     Cardinality({i \in DOMAIN functions_of :
                    function_source_identity(functions_of[i]) = identity})]
module_source_identity(ast) ==
  [items |-> SelectSeq(ast, LAMBDA item : item.kind \notin Contextual \cup {"Function"}),
   functions |-> IdentitiesOf(SelectSeq(ast, LAMBDA item : item.kind = "Function"))]

-----------------------------------------------------------------------------
(* Contracts of a function *)

Dimensional == {"MaxNtid", "ReqNtid", "ReqNctaPerCluster"}
has_implicit_resource_dimensions(kind) == kind \in Dimensional

Numbers(texts) == [i \in DOMAIN texts |-> normalized_u32(texts[i])[1]]
Padded(values) == values \o [i \in 1 .. 3 - Len(values) |-> 1]
resolve_resource_contract(resource) ==
  [kind |-> resource.kind, explicit_value_count |-> Len(resource.values),
   values |-> IF has_implicit_resource_dimensions(resource.kind)
              THEN Padded(Numbers(resource.values)) ELSE Numbers(resource.values)]

resolve_abi_contract(suffix, control) ==
  Optionally(suffix, LAMBDA count : [count |-> normalized_u32(count)[1],
                                     control_registers |-> control])

resolve_unified_id(attribute) ==
  IF Len(attribute.values) # 2 THEN None
  ELSE Some(<<attribute.values[1].value, attribute.values[2].value>>)
resolve_function_attribute(attribute) ==
  [kind |-> attribute.kind,
   unified_id |-> IF attribute.kind = "Unified" THEN resolve_unified_id(attribute) ELSE None]

ResolvedFunctionContract(table, symbol, function) ==
  [signature |-> functionSignature(function), linkage |-> table.symbols[symbol].linkage,
   canonical_function |-> canonical(table, symbol), is_noreturn |-> function.is_noreturn,
   attributes |-> [i \in DOMAIN function.attributes |->
                     resolve_function_attribute(function.attributes[i])],
   abi_preserve |-> resolve_abi_contract(function.abi_preserve, FALSE),
   abi_preserve_control |-> resolve_abi_contract(function.abi_preserve_control, TRUE),
   resources |-> [i \in DOMAIN function.resources |->
                    resolve_resource_contract(function.resources[i])],
   blocks_are_clusters |-> function.blocks_are_clusters,
   language_values |-> function.language]

-----------------------------------------------------------------------------
(* Parameters *)

KnownAxes(dimensions) ==
  [i \in DOMAIN dimensions |->
     IF dimensions[i] = None THEN None ELSE constantArrayExtent(dimensions[i][1])]
parameter_byte_extent(type, lanes, extents) ==
  IF AllKnown(extents) THEN Some(Product(scalar_size_of(type) * lanes, KnownExtents(extents)))
  ELSE None

OfParameterSymbol(index, symbol, role, type, explicit, extents, pointer) ==
  [symbol |-> index, scope |-> symbol.scope, role |-> role, type |-> type,
   alignment |-> symbol.alignment, explicit_alignment |-> explicit,
   lanes |-> Lanes(symbol.vector), extents |-> extents,
   byte_extent |-> parameter_byte_extent(type, Lanes(symbol.vector), extents),
   pointer |-> pointer]

(* resolve_parameter_declaration() of a formal *)
OfFormalParameter(table, symbol, role, parameter) ==
  OfParameterSymbol(symbol, table.symbols[symbol], role, parameter.type,
                    parameter.alignment # None, KnownAxes(parameter.dimensions),
                    call_argument_properties(parameterContract(parameter)).pointer)
(* and of a declaration in a body *)
OfBodyDeclarator(table, symbol, role, variable, declarator) ==
  OfParameterSymbol(symbol, table.symbols[symbol], role, variable.type,
                    variable.alignment # None, KnownAxes(declarator.dimensions), None)

ResolvedOpaque(index, symbol, parameter) ==
  [symbol |-> index, scope |-> symbol.scope, kind |-> parameter.type,
   explicit_alignment |-> IF parameter.alignment = None THEN None ELSE symbol.alignment,
   extents |-> KnownAxes(parameter.dimensions)]

FormalsOf(formals, opaque) ==
  SelectSeq(formals, LAMBDA p : p.space = "Parameter" /\ isOpaqueObjectType(p.type) = opaque)
append_parameters(table, function, formals, role) ==
  Each(FormalsOf(formals, FALSE),
       LAMBDA p : <<OfFormalParameter(table, lookup(table, function, p.name), role, p)>>)
OpaqueFormal(table, symbol, p) == <<ResolvedOpaque(symbol, table.symbols[symbol], p)>>
append_opaque_parameters(table, function, formals) ==
  Each(FormalsOf(formals, TRUE),
       LAMBDA p : OpaqueFormal(table, lookup(table, function, p.name), p))

collect_body_parameters(module, table, function) ==
  Each(SelectSeq(table.nodes, LAMBDA n :
         n.function = function /\ n.node.kind = "Variable" /\ n.node.space = "Parameter"),
       LAMBDA n : [k \in DOMAIN n.node.declarators |->
         OfBodyDeclarator(table, declaration_symbol(table, n.scope, n.node.declarators[k]),
                          BodyParameterRole(module, n), n.node, n.node.declarators[k])])

InputRole(item) == IF item.is_entry THEN "EntryInput" ELSE "DeviceInput"
ParametersOf(module, table, at, item) ==
  append_parameters(table, at, item.returns, "DeviceReturn")
  \o append_parameters(table, at, item.parameters, InputRole(item))
  \o collect_body_parameters(module, table, at)

-----------------------------------------------------------------------------
(* Control contracts *)

OwnedControl(table, n) ==
  [symbol |-> lookup(table, n.function, n.node.name), scope |-> n.function, name |-> n.node.name]
ControlOf(table, function, kind) ==
  SelectSeq(table.nodes, LAMBDA n : n.function = function /\ n.node.kind = kind)

(* A compact L<n> is L0 to Ln-1 *)
TargetLabels(table, function, target) ==
  IF target.count = None THEN <<target.name>>
  ELSE [k \in 1 .. target.count[1].value |->
          CHOOSE l \in LabelsOf(table, function) :
            compactLabelIndex(target.name, l) = Some(k - 1)]
LabelTarget(table, function, name) == [symbol |-> lookup(table, function, name), name |-> name]
BranchSet(table, n) ==
  OwnedControl(table, n)
  @@ [targets |-> Each(n.node.targets, LAMBDA target :
        LET names == TargetLabels(table, n.function, target)
        IN [k \in DOMAIN names |-> LabelTarget(table, n.function, names[k])])]

TargetOf(table, name, symbol) ==
  [symbol |-> symbol, name |-> name, canonical_function |-> canonical(table, symbol)]
CallTargetsOf(table, names) ==
  [i \in DOMAIN names |-> TargetOf(table, names[i], lookup(table, <<>>, names[i]))]
CallSet(table, signatures, n, targets) ==
  OwnedControl(table, n)
  @@ [targets |-> targets, signature |-> signatures[targets[1].canonical_function]]

PrototypeContract(table, n) ==
  OwnedControl(table, n)
  @@ [signature |-> functionSignature(n.node), is_noreturn |-> n.node.is_noreturn,
      abi_preserve |-> resolve_abi_contract(n.node.abi_preserve, FALSE),
      abi_preserve_control |-> resolve_abi_contract(n.node.abi_preserve_control, TRUE)]

resolve_control_contracts(table, signatures, function) ==
  [branch_target_sets |-> Each(ControlOf(table, function, "BranchTargets"),
                               LAMBDA n : <<BranchSet(table, n)>>),
   call_target_sets |->
     Each(ControlOf(table, function, "CallTargets"),
          LAMBDA n : <<CallSet(table, signatures, n, CallTargetsOf(table, n.node.targets))>>),
   call_prototypes |-> Each(ControlOf(table, function, "CallPrototype"),
                            LAMBDA n : <<PrototypeContract(table, n)>>)]

-----------------------------------------------------------------------------
(* Operands: what each keeps of the symbol that it names.  `expects' is the *)
(* kind of symbol that its place in the instruction calls for, and `local'  *)
(* whether it must be one of the function.                                  *)

MemberIndex(symbol, name) ==
  IF symbol.count = None THEN None ELSE compactLabelIndex(symbol.name, name)

Operand(role, expects, local, name) ==
  [role |-> role, expects |-> expects, local |-> local, name |-> name, symbol |-> NoSymbol,
   index |-> None, literal |-> None, register |-> None, parameter |-> None, address |-> None]
Naming(table, operand, symbol) ==
  [operand EXCEPT !.symbol = symbol, !.index = MemberIndex(table.symbols[symbol], operand.name)]

(* resolve_bound_register() *)
RegisterRef(symbol, class, lane) ==
  Some([class |-> class, type |-> symbol.type, vector |-> symbol.vector, lane |-> lane])
RegisterOperand(table, role, class, symbol, name, lane) ==
  [Naming(table, Operand(role, "Register", TRUE, name), symbol) EXCEPT
     !.register = RegisterRef(table.symbols[symbol], class, lane)]
RegisterNamed(table, n, role, class, name) ==
  RegisterOperand(table, role, class, lookup(table, n.scope, name), name, None)

(* resolve_call_parameter(): a name that is no member is no register *)
CarryingParameter(operand, symbol) ==
  [operand EXCEPT !.parameter = Some([type |-> symbol.type, space |-> symbol.space])]
ArgumentNamed(table, role, argument, symbol) ==
  CarryingParameter(
    IF argument.form = "Member"
    THEN RegisterOperand(table, role, "General", symbol, argument.name,
                         Some(ordinary_register_lane(argument.component)))
    ELSE Naming(table, Operand(role, "Any", TRUE, argument.name), symbol),
    table.symbols[symbol])
TypedLiteral(e, formal) ==
  [source |-> e, typed |-> IF formal = None THEN None ELSE resolve_call_literal(e, formal[1]).value]
ArgumentOperand(table, n, role, argument, formal) ==
  IF argument.form = "Literal"
  THEN [Operand(role, "Any", TRUE, <<>>) EXCEPT
          !.literal = Some(TypedLiteral(argument.value, formal))]
  ELSE ArgumentNamed(table, role, argument, lookup(table, n.scope, argument.name))
ArgumentOperands(table, n, role, arguments, formals) ==
  [i \in DOMAIN Given(arguments) |->
     ArgumentOperand(table, n, role, Given(arguments)[i], Nth(formals, i))]

(* resolve_data_symbol(): an access keeps a parameter in its own space *)
RoleAmong(parameters, symbol) ==
  LET records == SelectSeq(parameters, LAMBDA p : p.symbol = symbol)
  IN IF records = <<>> THEN None ELSE Some(records[1].role)
EnclosingKind(is_entry) == IF is_entry THEN "Entry" ELSE "Device"
resolve_data_symbol(symbol, role, is_entry) ==
  [kind |-> symbol.kind, space |-> symbol.space, address_space |-> symbol.space,
   type |-> symbol.type, alignment |-> symbol.alignment, role |-> role,
   enclosing |-> EnclosingKind(is_entry)]

AccessAddress(f, n, index, symbol) ==
  resolve_data_symbol(symbol, RoleAmong(f.parameter_declarations, index), f.is_entry)
  @@ [context |-> EnclosingKind(f.is_entry), qualifier |-> n.node.qualifier,
      stride |-> IF n.node.index = None THEN None ELSE Some(scalar_size_of(symbol.type)),
      write |-> n.node.kind = "Store", selected |-> n.node.space]
BaseOperand(table, f, n, index, symbol) ==
  IF symbol.space = "Register" THEN RegisterNamed(table, n, "Base", "General", n.node.base)
  ELSE [Naming(table, Operand("Base", symbol.kind, FALSE, n.node.base), index) EXCEPT
          !.address = Some(AccessAddress(f, n, index, symbol))]
BaseNamed(table, f, n, index) == BaseOperand(table, f, n, index, table.symbols[index])

NamedOperand(table, n, role, expects, local, name) ==
  Naming(table, Operand(role, expects, local, name), lookup(table, n.scope, name))

(* A list or prototype of the body, or a table *)
MetadataOperand(table, n, kind) ==
  NamedOperand(table, n, IF kind = "Variable" THEN "Table" ELSE "Metadata", kind,
               kind # "Variable", n.node.metadata[1])
CalleeOperands(table, n) ==
  IF n.node.metadata = None
  THEN <<NamedOperand(table, n, "Callee", "Function", FALSE, n.node.target)>>
  ELSE <<RegisterNamed(table, n, "FunctionAddress", "General", n.node.target),
         MetadataOperand(table, n, table.symbols[MetadataSymbol(table, n)].kind)>>

CalledSignature(signatures, callee) ==
  IF callee \in DOMAIN signatures THEN signatures[callee]
  ELSE [returns |-> <<>>, parameters |-> <<>>]
CallOperands(table, n, signature) ==
  ArgumentOperands(table, n, "Return", n.node.returns, signature.returns)
  \o CalleeOperands(table, n)
  \o ArgumentOperands(table, n, "Input", n.node.inputs, signature.parameters)

PredicateOperands(table, n, names) ==
  Each(names, LAMBDA name : <<RegisterNamed(table, n, "Guard", "Predicate", name)>>)
OperandsOf(table, signatures, f, n) ==
  CASE n.node.kind = "Call" ->
         PredicateOperands(table, n, n.node.predicate)
         \o CallOperands(table, n, CalledSignature(signatures,
              canonical(table, lookup(table, n.scope, CalleeName(n.node)))))
    [] n.node.kind \in {"Load", "Store"} ->
         PredicateOperands(table, n, n.node.predicate)
         \o Each(n.node.index, LAMBDA name :
                   <<RegisterNamed(table, n, "Index", "General", name)>>)
         \o <<BaseNamed(table, f, n, lookup(table, n.scope, n.node.base))>>
    [] n.node.kind = "Branch" ->
         <<NamedOperand(table, n, "Target", "Label", TRUE, n.node.target)>>
    [] n.node.kind = "Indexed" ->
         <<NamedOperand(table, n, "Targets", "BranchTargets", TRUE, n.node.list)>>
    [] OTHER -> <<>>

-----------------------------------------------------------------------------
(* The function, the aliases and the module *)

NamedParts(module, table, at, item, symbol) ==
  [symbol |-> symbol, name |-> table.symbols[symbol].name, is_entry |-> item.is_entry,
   is_prototype |-> item.is_prototype,
   contract |-> ResolvedFunctionContract(table, symbol, item),
   identity |-> function_source_identity(item),
   parameter_declarations |-> ParametersOf(module, table, at, item),
   opaque_entry_parameters |-> append_opaque_parameters(table, at, item.parameters)]

(* What the record of the function of item i has besides its place, its     *)
(* configuration and its body                                               *)
FunctionParts(module, table, signatures, i) ==
  NamedParts(module, table, <<i>>, module[i], lookup(table, <<>>, module[i].name))
  @@ resolve_control_contracts(table, signatures, <<i>>)

AliasRecord(module, table, i, symbol) ==
  [symbol |-> symbol, canonical_function |-> canonical(table, symbol), name |-> module[i].alias,
   aliasee_name |-> module[i].aliasee, region |-> RegionAt(module, i)]
function_aliases(module, table) ==
  FlattenSeq([i \in DOMAIN module |->
    IF module[i].kind # "Alias" THEN <<>>
    ELSE <<AliasRecord(module, table, i, lookup(table, <<>>, module[i].alias))>>])

ResolvedModule(module, table, header, functions, storage, call_tables) ==
  [table |-> table, functions |-> functions, aliases |-> function_aliases(module, table),
   header |-> header, storage |-> storage, call_tables |-> call_tables,
   identity |-> module_source_identity(module)]
=============================================================================
