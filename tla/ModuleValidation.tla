-------------------------- MODULE ModuleValidation --------------------------
(***************************************************************************)
(* validateModule() of submod/resolved_ir/src/ptx_module_availability.cpp,  *)
(* of a resolved module alone and of one with a source that its holder      *)
(* supplies.                                                                *)
(* Instruction checks, textures, debug metadata and pragmas are left out.   *)
(***************************************************************************)
EXTENDS OwnedRules

Paths == INSTANCE Reachability

-----------------------------------------------------------------------------
(* Availability of what a function declares *)

check_target_list_availability(f, version, profile) ==
  OfEach(f.branch_target_sets, LAMBDA set :
           append_minimum_requirement("BranchTargets", version, profile))
  \cup OfEach(f.call_target_sets, LAMBDA set :
                append_minimum_requirement("CallTargets", version, profile))

RequirementsOf(prototype) ==
  {"CallPrototype"}
  \cup (IF prototype.is_noreturn THEN {"Noreturn"} ELSE {})
  \cup (IF prototype.abi_preserve # None THEN {"AbiPreserve"} ELSE {})
  \cup (IF prototype.abi_preserve_control # None THEN {"AbiPreserveControl"} ELSE {})
PrototypeAvailable(prototype, version, profile) ==
  UNION {append_minimum_requirement(feature, version, profile) :
           feature \in RequirementsOf(prototype)}
check_prototype_availability(f, version, profile) ==
  OfEach(f.call_prototypes, LAMBDA prototype : PrototypeAvailable(prototype, version, profile))

check_language_availability(f, version) ==
  unsupported(f.contract.language_values # None /\ Below(version, 93))
check_entry_pointer_availability(f, version) ==
  unsupported(Below(version, 22) /\ \E record \in ToSet(f.parameter_declarations) :
                                      record.role = "EntryInput" /\ record.pointer # None)

check_module_weak_availability(o, version) ==
  OfEach(SelectSeq(o.table.symbols \o o.storage, LAMBDA record : record.linkage = ".weak"),
         LAMBDA record : append_minimum_requirement("Weak", version, None))
IsWeak(o, f) ==
  \/ f.contract.linkage = ".weak"
  \/ owned_symbol(o, f.symbol) /\ o.table.symbols[f.symbol].linkage = ".weak"
check_function_weak_availability(o, f, version) ==
  IF IsWeak(o, f) THEN append_minimum_requirement("Weak", version, None) ELSE {}
check_max_ncta_availability(f, version) ==
  IF "MaxNctaPerSm" \in KindsOf(f.contract.resources)
  THEN append_minimum_requirement("MaxNctaPerSm", version, None) ELSE {}

(* The rest asks for a version and a target: `declared' is a contract or a  *)
(* syntax function                                                          *)
check_attributes(attributes, version, profile) ==
  OfEach(attributes, LAMBDA attribute :
           append_requirement(attribute_availability(attribute.kind), version, profile))
DirectivesOf(declared) ==
  (IF declared.is_noreturn THEN {"Noreturn"} ELSE {})
  \cup (IF declared.abi_preserve # None THEN {"AbiPreserve"} ELSE {})
  \cup (IF declared.abi_preserve_control # None THEN {"AbiPreserveControl"} ELSE {})
check_function_directives(declared, version, profile) ==
  UNION {append_requirement(directive_availability(directive), version, profile) :
           directive \in DirectivesOf(declared)}
ResourcesAvailable(declared, version, profile) ==
  (IF declared.blocks_are_clusters THEN append_requirement(ClustersAvailability, version, profile)
   ELSE {})
  \cup UNION {append_requirement(resource_availability(kind), version, profile) :
                kind \in KindsOf(declared.resources) \ {"MaxNctaPerSm"}}
check_function_contract_availability(declared, version, profile) ==
  check_attributes(declared.attributes, version, profile)
  \cup check_function_directives(declared, version, profile)
  \cup ResourcesAvailable(declared, version, profile)

(* Directives of a body, blocks included *)
BodyDirective(n, version, profile, complete) ==
  CASE n.node.kind = "Variable" ->
         IF complete THEN check_attributes(n.node.attributes, version, profile) ELSE {}
    [] n.node.kind \in {"BranchTargets", "CallTargets"} ->
         append_minimum_requirement(n.node.kind, version, profile)
    [] n.node.kind = "CallPrototype" -> PrototypeAvailable(n.node, version, profile)
    [] OTHER -> {}
check_body_directives(nodes, at, version, profile, complete) ==
  OfEach(SelectSeq(nodes, LAMBDA n : n.function = at),
         LAMBDA n : BodyDirective(n, version, profile, complete))
-----------------------------------------------------------------------------
(* The supplied source against the functions of the resolved module *)

Identical(ast, i, o) ==
  {k \in DOMAIN o.functions : o.functions[k].identity = function_source_identity(ast[i])}
Unambiguous(found, exact) ==
  CASE Cardinality(found) = 1 -> found
    [] Cardinality(found) # 1 /\ Cardinality(exact) = 1 -> exact
    [] OTHER -> {}
ExactOf(o, i, found) == Unambiguous(found, {k \in found : o.functions[k].range = <<i>>})
source_function(ast, i, o) == ExactOf(o, i, Identical(ast, i, o))

OwnsScope(o, f) ==
  \E k \in DOMAIN o.table.nodes :
    /\ o.table.nodes[k].at = f.scope /\ o.table.nodes[k].node.kind = "Function"
    /\ lookup(o.table, <<>>, o.table.nodes[k].node.name) = f.symbol
OccursAt(o, f) == FunctionScope(o, f.range) /\ f.range = f.scope /\ OwnsScope(o, f)

SameInstructions(instructions, body) ==
  /\ Len(instructions) = Len(body)
  /\ \A j \in DOMAIN body :
       {body[j].opcode, Payload(body[j])} = {instructions[j].node.kind}
SameFunction(item, instructions, o, f) ==
  /\ OccursAt(o, f)
  /\ f.name = item.name /\ f.is_entry = item.is_entry /\ f.is_prototype = item.is_prototype
  /\ SameInstructions(instructions, f.body)
FunctionItems(ast) == {i \in DOMAIN ast : ast[i].kind = "Function"}
Associated(ast, rebound, o, Match(_)) ==
  /\ \A i \in FunctionItems(ast) : \A k \in Match(i) :
       SameFunction(ast[i], InstructionsOf(rebound, <<i>>), o, o.functions[k])
  /\ \A i, j \in FunctionItems(ast) : i # j => Match(i) \cap Match(j) = {}
  /\ \A i \in FunctionItems(ast) : Match(i) # {}
  /\ UNION {Match(i) : i \in FunctionItems(ast)} = DOMAIN o.functions
check_source_associations(ast, rebound, o) ==
  append_model_mismatch(\/ o.identity # module_source_identity(ast)
                        \/ ~Associated(ast, rebound, o, LAMBDA i : source_function(ast, i, o)))

-----------------------------------------------------------------------------
(* The call graph: its joins, what analyze_call_cycles() refuses, and the   *)
(* functions in which it finds recursion (CallGraph has the analysis)       *)

JoinOf(o, f) ==
  check_signature(f.contract.signature) \cup check_function_contract_integrity(f)
  \cup (IF ~OccursAt(o, f) THEN {"ModuleSourceMismatch"}
        ELSE check_control_contracts(o, f, TRUE) \cup check_module_references(o, f, TRUE)
             \cup check_typed_call_literals(o, f))
check_call_graph_joins(o) ==
  build_signature_index(o) \cup check_call_tables(o)
  \cup append_model_mismatch(
         \E f \in ToSet(o.functions) : check_direct_call_visibility(o.table, f) # <<>>)
  \cup OfEach(o.functions, LAMBDA f : JoinOf(o, f))
has_call_graph_structure_error(said) ==
  ~(said \subseteq {"UnsupportedAvailability", "MissingValidationContext", "UnknownTarget"})

Device(o) == {f \in ToSet(o.functions) : ~f.is_entry}
Defined(o) == {f \in Device(o) : ~f.is_prototype}
Vertex(f) == f.contract.canonical_function

ListsOf(o, symbol) ==
  UNION {{s \in ToSet(f.call_target_sets) : s.symbol = symbol} : f \in ToSet(o.functions)}
SlotsOf(o, symbol) ==
  UNION {ToSet(t.slots) : t \in {t \in ToSet(o.call_tables) : t.symbol = symbol}}
CalleesOf(f) ==
  Each(CallInstructions(f), LAMBDA instruction :
         InRole(instruction, {"Callee", "Metadata", "Table"}))
Invoked(o, callee) ==
  IF callee.role = "Callee" THEN {canonical(o.table, callee.symbol)}
  ELSE {target.canonical_function : target \in
          UNION {ToSet(s.targets) : s \in ListsOf(o, callee.symbol)}
          \cup SlotsOf(o, callee.symbol)}
InvokedBy(o, f) == UNION {Invoked(o, callee) : callee \in ToSet(CalleesOf(f))}

(* A target of a list takes what the list says and is declared before a call *)
TargetKnown(o, list, target, at) ==
  /\ \E f \in Device(o) :
       Vertex(f) = target.canonical_function /\ SameSignature(f.contract.signature, list.signature)
  /\ hasPriorDeclaration(o.table, target.symbol, at)
CallUnderstood(o, instruction) ==
  \A callee \in ToSet(InRole(instruction, {"Metadata"})) :
    /\ Cardinality(ListsOf(o, callee.symbol)) <= 1
    /\ \A list \in ListsOf(o, callee.symbol) : \A target \in ToSet(list.targets) :
         TargetKnown(o, list, target, instruction.node.at)
GraphBuilt(o) ==
  /\ \A f \in Device(o) : /\ canonical(o.table, f.symbol) = Vertex(f)
                          /\ ~f.contract.signature.is_entry
  /\ \A f, g \in Defined(o) : Vertex(f) = Vertex(g) => f = g
  /\ \A f \in ToSet(o.functions) : \A instruction \in ToSet(CallInstructions(f)) :
       CallUnderstood(o, instruction)

OnCycle(o, f) ==
  \E t \in InvokedBy(o, f) \cap {Vertex(g) : g \in Defined(o)} :
    Paths!Reaches({Vertex(g) : g \in Defined(o)},
                  UNION {{Vertex(g)} \X InvokedBy(o, g) : g \in Defined(o)}, t, Vertex(f))
IsRecursive(o, f) == f \in Defined(o) /\ OnCycle(o, f)

(* The graph is looked at only if what it joins fits together *)
RecursionIn(o, f, version, profile) ==
  IF Meets(version, profile, directive_availability("Recursion")) \/ ~IsRecursive(o, f)
  THEN {} ELSE {"UnsupportedAvailability"}
GraphSays(o, joins, RecursionOf(_)) ==
  joins
  \cup (IF has_call_graph_structure_error(joins) THEN {}
        ELSE IF ~GraphBuilt(o) THEN {"ModuleSourceMismatch"}
        ELSE OfEach(o.functions, LAMBDA f : RecursionOf(f)))
current_call_graph(o, RecursionOf(_)) == GraphSays(o, check_call_graph_joins(o), RecursionOf)

-----------------------------------------------------------------------------
(* What both validators say of a function *)

FunctionIdentified(o, f) ==
  /\ IsSymbolIn(o, f.symbol, "Function", <<>>)
  /\ o.table.symbols[f.symbol].name = f.name /\ o.table.symbols[f.symbol].scope = <<>>
  /\ canonical(o.table, f.symbol) = f.contract.canonical_function
LabelBeforeEnd(o, f, label) ==
  label.instruction_offset < Len(f.body) /\ IsSymbolIn(o, label.symbol, "Label", f.scope)
LabelIntact(o, f, label) ==
  label.instruction_offset <= Len(f.body) /\ IsSymbolIn(o, label.symbol, "Label", f.scope)

OwnedFunction(o, f, version) ==
  check_signature(f.contract.signature) \cup check_function_parameters(o, f)
  \cup check_function_contract_integrity(f)
  \cup check_opaque_entry_parameters(o, f, version) \cup check_entry_parameter_size(f, version)
  \cup check_module_references(o, f, FALSE) \cup check_parameter_reference_roles(o, f)

(* With what is known of a version and a target *)
KnownAvailability(o, f, version, profile) ==
  check_function_weak_availability(o, f, version) \cup check_max_ncta_availability(f, version)
  \cup check_body_parameter_roles(f, version, profile)
  \cup check_target_list_availability(f, version, profile)
  \cup check_prototype_availability(f, version, profile)
  \cup check_language_availability(f, version)
  \cup check_entry_pointer_availability(f, version)
WhenComplete(version, profile, said) == IF version = None \/ profile = None THEN {} ELSE said

SourceTarget(targets) == IF targets = <<>> THEN None ELSE Some(targets[1])
check_current_function_source_context(o, f) ==
  append_model_mismatch(
    \/ f.region \notin DOMAIN o.header.regions
    \/ f.version # o.header.regions[f.region].version
    \/ f.target # SourceTarget(o.header.regions[f.region].targets))

ModuleDeclarations(o, version) ==
  check_module_weak_availability(o, version) \cup check_declaration_identifiers(o)
  \cup check_register_declaration_types(o) \cup check_register_arrays(o)
  \cup check_storage_declarations(o) \cup check_opaque_storage(o, version)
  \cup check_target_debug_sections(target_debug_range(o.header))
  \cup append_model_mismatch(
         \E f \in ToSet(o.functions) :
           \/ check_legacy_entry_input_sizes(o.table, f) # <<>>
           \/ check_call_parameter_transfers(o.table, f, FALSE) # <<>>)

-----------------------------------------------------------------------------
(* validateModule() of the resolved module alone *)

(* owned_target_context(): the profile, with a version *)
owned_target_context(region) ==
  IF region.version = None \/ region.targets = <<>> THEN [profile |-> None, said |-> {}]
  ELSE [profile |-> FirstProfile(region.targets),
        said |-> IF FirstProfile(region.targets) = None THEN {"UnknownTarget"} ELSE {}]

AddressSizeWritten(header) == CountOf(header.source_order, "AddressSize") > 0
RegionSays(header, region) ==
  check_header_region(region)
  \cup check_header_features(region.version, region.targets,
                             AddressSizeWritten(header) \/ region.address_from = "Explicit")
  \cup owned_target_context(region).said
HeaderSays(header) ==
  append_model_mismatch(
    \/ header.invalid # 0 \/ header.regions = <<>>
    \/ \E i \in DOMAIN header.regions : header.regions[i].version # header.regions[1].version)
  \cup OfEach(header.regions, LAMBDA region : RegionSays(header, region))
  \cup check_module_texture_mode(header)

AliasIn(region) ==
  owned_target_context(region).said
  \cup WhenComplete(region.version, owned_target_context(region).profile,
                    append_requirement(directive_availability("Alias"), region.version,
                                       owned_target_context(region).profile))
AliasSays(o, alias) ==
  append_model_mismatch(~(/\ IsSymbolIn(o, alias.symbol, "Function", <<>>)
                          /\ canonical(o.table, alias.symbol) = alias.canonical_function))
  \cup (IF alias.region \in DOMAIN o.header.regions THEN AliasIn(o.header.regions[alias.region])
        ELSE {"ModuleSourceMismatch"})

VersionOf(header, region) ==
  IF region \in DOMAIN header.regions THEN header.regions[region].version ELSE None
FunctionRecords(o, f) ==
  append_model_mismatch(
    ~(/\ FunctionIdentified(o, f) /\ FunctionScope(o, f.scope) /\ OwnsScope(o, f)
      /\ \A i \in DOMAIN f.label_positions : LabelIntact(o, f, f.label_positions[i])))
  \cup OwnedFunction(o, f, VersionOf(o.header, f.region))
  \cup check_resource_contracts(f) \cup check_control_contracts(o, f, FALSE)
  \cup check_typed_call_literals(o, f)
FunctionIn(o, f, region, profile) ==
  KnownAvailability(o, f, region.version, FirstProfile(region.targets))
  \cup owned_target_context(region).said
  \cup WhenComplete(region.version, profile,
                    check_function_register_formals(f, region.version, profile)
                    \cup check_function_contract_availability(f.contract, region.version, profile))
FunctionSays(o, f) ==
  FunctionRecords(o, f) \cup check_current_function_source_context(o, f)
  \cup (IF f.region \notin DOMAIN o.header.regions THEN {}
        ELSE FunctionIn(o, f, o.header.regions[f.region],
                        owned_target_context(o.header.regions[f.region]).profile))

OwnedRecursion(o, f) ==
  IF f.region \notin DOMAIN o.header.regions THEN {}
  ELSE RecursionIn(o, f, o.header.regions[f.region].version,
                   FirstProfile(o.header.regions[f.region].targets))
OwnedSays(o) ==
  HeaderSays(o.header) \cup ModuleDeclarations(o, VersionOf(o.header, 1))
  \cup check_module_declaration_placement(o, FALSE) \cup check_common_availability(o)
  \cup OfEach(o.aliases, LAMBDA alias : AliasSays(o, alias))
  \cup OfEach(o.functions, LAMBDA f : FunctionSays(o, f))
  \cup current_call_graph(o, LAMBDA f : OwnedRecursion(o, f))

(* and what RequireCompleteContext adds *)
LacksContext(region) == region.version = None \/ FirstProfile(region.targets) = None
OwnedLacks(o) ==
  check_owned_header_order(o.header) \cup check_module_declaration_placement(o, TRUE)
  \cup missing_context(
         \/ \E i \in DOMAIN o.header.regions :
              o.header.regions[i].targets # <<>> /\ LacksContext(o.header.regions[i])
         \/ \E i \in DOMAIN o.functions :
              /\ o.functions[i].region \in DOMAIN o.header.regions
              /\ \/ o.header.regions[o.functions[i].region].version = None
                 \/ o.header.regions[o.functions[i].region].targets = <<>>)

-----------------------------------------------------------------------------
(* validateModule() with a source: its header counts, not the one resolved  *)

BindingKinds == {"DuplicateSymbol", "ConflictingLinkageQualifiers", "InvalidParameterizedCount",
                 "UnresolvedReference", "InvalidReferenceTarget"}
AvailabilityKinds == {"UnsupportedKernelResourcePtxVersion", "UnsupportedDirectivePtxVersion",
                      "UnsupportedDirectiveTarget", "UnsupportedParameterDeclaration"}
OfDeclaration(said) ==
  CASE said \in BindingKinds -> "ModuleSourceMismatch"
    [] said \in AvailabilityKinds -> "UnsupportedAvailability"
    [] OTHER -> "RuleViolation"

TargetItems(ast) == SelectSeq(ast, LAMBDA item : item.kind = "Target")
TargetSays(version, targets) ==
  check_target_items(targets) \cup check_header_features(version, targets, FALSE)
  \cup rule_violation(Len(ModesOf(targets)) > 1)
  \cup (IF targets # <<>> /\ FirstProfile(targets) = None THEN {"UnknownTarget"} ELSE {})
SourceModes(version, modes) ==
  rule_violation(\E i \in DOMAIN modes : modes[i] # modes[1])
  \cup unsupported(modes # <<>> /\ Last(modes) = Independent /\ Below(version, 15))
SourceHeader(ast, version) ==
  check_header_features(version, <<>>, \E i \in DOMAIN ast : ast[i].kind = "AddressSize")
  \cup check_target_debug_sections(target_debug_option(ast))
  \cup OfEach(TargetItems(ast), LAMBDA item : TargetSays(version, item.targets))
  \cup SourceModes(version, Each(TargetItems(ast), LAMBDA item : ModesOf(item.targets)))

(* The target that is active at an item *)
ProfileAmong(items) == IF items = <<>> THEN None ELSE FirstProfile(Last(items).targets)
active_profile(ast, i) == ProfileAmong(TargetItems(SubSeq(ast, 1, i)))

SourceFunction(ast, rebound, o, i, f, version, profile) ==
  KnownAvailability(o, f, version, profile)
  \cup check_body_directives(rebound.nodes, <<i>>, version, profile,
                             version # None /\ profile # None)
  \cup WhenComplete(version, profile,
                    check_function_contract_availability(ast[i], version, profile)
                    \cup check_function_register_formals(f, version, profile))
ItemSays(ast, rebound, o, i, version, profile) ==
  CASE ast[i].kind = "Variable" ->
         WhenComplete(version, profile, check_attributes(ast[i].attributes, version, profile))
    [] ast[i].kind = "Alias" ->
         WhenComplete(version, profile,
                      append_requirement(directive_availability("Alias"), version, profile))
    [] ast[i].kind = "Function" ->
         UNION {SourceFunction(ast, rebound, o, i, o.functions[k], version, profile) :
                  k \in source_function(ast, i, o)}
    [] OTHER -> {}

SuppliedFunction(o, f, version) ==
  OwnedFunction(o, f, version) \cup check_current_function_source_context(o, f)
  \cup check_resource_contracts(f) \cup check_max_ncta_availability(f, version)
(* Recursion at each item of the source that is the function *)
ItemsOf(ast, o, f) ==
  {i \in FunctionItems(ast) : \E k \in source_function(ast, i, o) : o.functions[k] = f}
RecursionAsResolved(ast, o, f, version) == OwnedRecursion(o, f)
SourceRecursion(ast, o, f, version) ==
  UNION {RecursionIn(o, f, version, active_profile(ast, i)) : i \in ItemsOf(ast, o, f)}
SuppliedSays(ast, rebound, o, said, version) ==
  SourceHeader(ast, version) \cup ModuleDeclarations(o, version)
  \cup OfEach(o.functions, LAMBDA f : SuppliedFunction(o, f, version))
  \cup {OfDeclaration(said[i]) : i \in DOMAIN said}
  \cup current_call_graph(o, LAMBDA f : SourceRecursion(ast, o, f, version))
  \cup UNION {ItemSays(ast, rebound, o, i, version, active_profile(ast, i)) : i \in DOMAIN ast}

SourceLacks(ast, version) ==
  check_header_order(module_header_order(ast))
  \cup missing_context(
         \/ version = None
         \/ \E i \in DOMAIN ast : /\ ast[i].kind \in {"Variable", "Alias", "Function"}
                                  /\ active_profile(ast, i) = None)
=============================================================================
