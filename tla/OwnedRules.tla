----------------------------- MODULE OwnedRules -----------------------------
(***************************************************************************)
(* The checks of ptx_module_availability.cpp (submod/resolved_ir) on a      *)
(* resolved module that its holder may have changed: whether its records    *)
(* agree with one another and with the symbol table it carries.  A check    *)
(* gives the set of the kinds of what it says; source ranges, textures and  *)
(* the payloads of instructions that ModuleBinding leaves out are left out. *)
(***************************************************************************)
EXTENDS OwnedModule

append_model_mismatch(wrong) == IF wrong THEN {"ModuleSourceMismatch"} ELSE {}
rule_violation(wrong) == IF wrong THEN {"RuleViolation"} ELSE {}
unsupported(wrong) == IF wrong THEN {"UnsupportedAvailability"} ELSE {}

(* What a check says of each of a sequence *)
OfEach(elements, Checked(_)) == UNION {Checked(elements[i]) : i \in DOMAIN elements}

-----------------------------------------------------------------------------
(* Availability: a requirement is <<version, architecture, capability>>.    *)
(* What is not known of the version or the profile asks for nothing.        *)

directive_availability(directive) ==
  CASE directive = "MaxNctaPerSm" -> <<13, 0, "">>
    [] directive \in {"BodyParameter", "Recursion", "PossibleRecursion"} -> <<20, 20, "">>
    [] directive = "Weak" -> <<31, 0, "">>
    [] directive = "Alias" -> <<63, 30, "">>
    [] directive \in {"CallPrototype", "BranchTargets", "CallTargets"} -> <<21, 20, "">>
    [] directive = "Noreturn" -> <<64, 30, "">>
    [] directive \in {"AbiPreserve", "AbiPreserveControl"} -> <<90, 80, "">>

resource_availability(kind) ==
  CASE kind \in {"MaxNreg", "MaxNctaPerSm", "MaxNtid"} -> <<13, 0, "">>
    [] kind = "ReqNtid" -> <<21, 0, "">>
    [] kind = "MinNctaPerSm" -> <<20, 0, "">>
    [] kind \in {"ReqNctaPerCluster", "ExplicitCluster", "MaxClusterRank"} -> <<78, 90, "cluster">>

attribute_availability(kind) == IF kind = "Managed" THEN <<40, 30, "">> ELSE <<80, 90, "">>
ClustersAvailability == <<90, 90, "cluster">>

Meets(version, profile, requirement) ==
  /\ version # None => version[1] >= requirement[1]
  /\ profile # None => profile[1].architecture >= requirement[2]
append_minimum_requirement(feature, version, profile) ==
  unsupported(~Meets(version, profile, directive_availability(feature)))

(* Of a target of which both are known *)
append_requirement(requirement, version, profile) ==
  unsupported(\/ ~Meets(version, profile, requirement)
              \/ requirement[3] # "" /\ requirement[3] \notin profile[1].capabilities)

-----------------------------------------------------------------------------
(* The header *)

check_header_order(events) ==
  (IF Len(events) >= 2 /\ events[1].kind = "Version" /\ events[2].kind = "Target" THEN {}
   ELSE {"MissingValidationContext"})
  \cup append_model_mismatch(\E i \in DOMAIN events :
         \/ events[i].kind = "Version" /\ i # 1
         \/ events[i].kind = "AddressSize" /\ i # 3)

CountOf(events, kind) == Cardinality({i \in DOMAIN events : events[i].kind = kind})
OnceIf(explicit) == IF explicit THEN 1 ELSE 0
AgreesWithRegions(events, regions) ==
  /\ CountOf(events, "Target") = Len(regions) - 1
  /\ CountOf(events, "Version") = OnceIf(regions[1].version_from = "Explicit")
  /\ CountOf(events, "AddressSize") = OnceIf(regions[1].address_from = "Explicit")
  /\ \A i \in 2 .. Len(regions) :
       regions[i].targets_from = "Explicit" /\ regions[i].targets # <<>>
check_owned_header_order(header) ==
  check_header_order(header.source_order)
  \cup append_model_mismatch(/\ header.regions # <<>>
                             /\ ~AgreesWithRegions(header.source_order, header.regions))

(* An architecture comes first, and only there *)
check_target_items(items) ==
  append_model_mismatch(
    \/ items = <<>>
    \/ \E i \in DOMAIN items :
         \/ classify_target_directive_item(items[i]) = "Invalid"
         \/ (i = 1) # (classify_target_directive_item(items[i]) = "Architecture"))

RequiredVersion(option) ==
  CASE classify_target_directive_item(option) = "TextureMode" -> 15
    [] classify_target_directive_item(option) = "Debug" -> 30
    [] OTHER -> 0
FirstProfile(options) == IF options = <<>> THEN None ELSE find_target_profile(options[1])
Lacks(option, profile) ==
  /\ classify_target_directive_item(option) = "MapF64ToF32"
  /\ profile # None /\ ~profile[1].maps
FeatureMissing(version, options, explicit_address_size, profile) ==
  \/ Below(version, 10)
  \/ explicit_address_size /\ Below(version, 23)
  \/ profile # None /\ Below(version, profile[1].minimum)
  \/ \E i \in 2 .. Len(options) :
       Below(version, RequiredVersion(options[i])) \/ Lacks(options[i], profile)
check_header_features(version, options, explicit_address_size) ==
  unsupported(FeatureMissing(version, options, explicit_address_size, FirstProfile(options)))

(* A module of ModuleTree has no sections, so its debug option has none to go by *)
IsDebug(targets) ==
  \E i \in DOMAIN targets : classify_target_directive_item(targets[i]) = "Debug"
target_debug_range(header) == \E i \in DOMAIN header.regions : IsDebug(header.regions[i].targets)
target_debug_option(ast) == \E i \in DOMAIN ast : ast[i].kind = "Target" /\ IsDebug(ast[i].targets)
check_target_debug_sections(debug) == rule_violation(debug)

RegionIntact(region) ==
  /\ region.address_size \in {32, 64}
  /\ (region.version = None) = (region.version_from = "Missing")
  /\ (region.targets = <<>>) = (region.targets_from = "Missing")
  /\ region.address_from # "Missing"
  /\ "Defaulted" \notin {region.version_from, region.targets_from}
  /\ region.address_from = "Defaulted" => region.address_size = 32
  /\ region.maps = Contains(region.targets, MapF64ToF32)
  /\ Len(ModesOf(region.targets)) <= 1
check_header_region(region) ==
  append_model_mismatch(~RegionIntact(region))
  \cup (IF region.targets = <<>> THEN {} ELSE check_target_items(region.targets))

(* The modes of all regions, in order; the first is that of the module *)
EffectiveMode(modes) == IF modes = <<>> THEN Unified ELSE modes[1]
TextureModeOf(header, modes) ==
  append_model_mismatch(
    \/ \E i \in DOMAIN modes : modes[i] # modes[1]
    \/ \E i \in DOMAIN header.regions : header.regions[i].texture_mode # EffectiveMode(modes))
  \cup unsupported(/\ EffectiveMode(modes) = Independent /\ header.regions # <<>>
                   /\ Below(header.regions[1].version, 15))
check_module_texture_mode(header) ==
  TextureModeOf(header, Each(header.regions, LAMBDA region : ModesOf(region.targets)))

-----------------------------------------------------------------------------
(* Contracts of a function *)

KindsOf(resources) == {resources[i].kind : i \in DOMAIN resources}
ExpectedValues(kind) ==
  IF kind \in Dimensional THEN 3 ELSE IF kind = "ExplicitCluster" THEN 0 ELSE 1
ResourceIntact(resource) ==
  /\ Len(resource.values) = ExpectedValues(resource.kind)
  /\ resource.explicit_value_count <= Len(resource.values)
  /\ resource.kind \in Dimensional => resource.explicit_value_count # 0
  /\ resource.kind = "MaxNctaPerSm" => resource.explicit_value_count = 1
  /\ resource.kind \in Dimensional =>
       \A i \in resource.explicit_value_count + 1 .. Len(resource.values) : resource.values[i] = 1
ResourcesAgree(contract, kinds, is_entry) ==
  /\ Cardinality(kinds) = Len(contract.resources)
  /\ ~({"MaxNtid", "ReqNtid"} \subseteq kinds)
  /\ ~({"ReqNctaPerCluster", "MaxClusterRank"} \subseteq kinds)
  /\ contract.blocks_are_clusters => {"ReqNtid", "ReqNctaPerCluster"} \subseteq kinds
  /\ ~is_entry => contract.resources = <<>> /\ ~contract.blocks_are_clusters
check_resource_contracts(f) ==
  append_model_mismatch(
    \/ \E i \in DOMAIN f.contract.resources : ~ResourceIntact(f.contract.resources[i])
    \/ ~ResourcesAgree(f.contract, KindsOf(f.contract.resources), f.is_entry))

(* .managed is no attribute of a function, .unified at most once *)
AttributesIntact(attributes) ==
  /\ Len(attributes) <= 1
  /\ \A i \in DOMAIN attributes :
       attributes[i].kind = "Unified" /\ attributes[i].unified_id # None
LanguagesIntact(languages) ==
  languages # None => /\ languages[1] # <<>>
                      /\ \A i \in DOMAIN languages[1] : LanguageCode(languages[1][i]) # None
check_function_contract_integrity(f) ==
  append_model_mismatch(
    ~(/\ LanguagesIntact(f.contract.language_values)
      /\ AttributesIntact(f.contract.attributes)
      /\ f.contract.signature.is_entry = f.is_entry
      /\ f.contract.signature.is_noreturn = f.contract.is_noreturn
      /\ f.contract.is_noreturn => f.contract.signature.returns = <<>>
      /\ f.contract.abi_preserve # None => ~f.contract.abi_preserve[1].control_registers
      /\ f.contract.abi_preserve_control # None =>
           f.contract.abi_preserve_control[1].control_registers))

-----------------------------------------------------------------------------
(* Signatures *)

formal_vector_width(shape) ==
  CASE shape = "Scalar" -> 1 [] shape = ".v2" -> 2 [] shape = ".v4" -> 4 [] OTHER -> 0

(* Bytes of a declaration, None where its first axis is open *)
DeclaredBytes(valid, bytes, extents) ==
  [valid |-> valid,
   bytes |-> IF valid /\ AllKnown(extents) THEN Some(Product(bytes, KnownExtents(extents)))
             ELSE None]
checked_declaration_extent(type, lanes, extents, allow_unsized) ==
  DeclaredBytes(/\ IsScalar(type) /\ lanes \in {1, 2, 4}
                /\ scalar_size_of(type) * lanes <= 16
                /\ \A i \in DOMAIN extents : extents[i] = None => allow_unsized /\ i = 1
                /\ \A i \in DOMAIN extents : extents[i] # Some(0)
                /\ Fits(scalar_size_of(type) * lanes, KnownExtents(extents)),
                scalar_size_of(type) * lanes, extents)

valid_parameter_pointer(role, type, lanes, array, pointer) ==
  pointer # None =>
    /\ role = "EntryInput" /\ ~array /\ lanes = 1 /\ type \in PointerTypes
    /\ IsPowerOfTwo(pointer[1].alignment)
    /\ pointer[1].space # None => pointer[1].space[1] \in PointedSpaces

valid_formal_vector(formal) ==
  /\ formal_vector_width(formal.shape) # 0
  /\ formal_vector_width(formal.shape) # 1 =>
       /\ \/ formal.space = "Parameter"
          \/ formal.space = "Register" /\ formal.extents = <<>>
       /\ formal.extents # <<>> => parameter_array_extent(formal.extents).total # None
       /\ ~formal.is_pointer /\ ~isOpaqueObjectType(formal.type)
       /\ IsFundamental(formal.scalar) /\ formal.scalar # ".pred"
       /\ scalar_size_of(formal.scalar) * formal_vector_width(formal.shape) <= 16
valid_scalar_contract(formal) ==
  IsFundamental(formal.scalar) /\ (formal.scalar = ".pred" => formal.space = "Register")

contract_constant(normalized) == IF HasValue(normalized) THEN Some(normalized[1][2]) ELSE None
parameter_axes(formal) == [i \in DOMAIN formal.extents |-> contract_constant(formal.extents[i])]

LaidOutFormal(formal, may_be_open) ==
  /\ HasValue(formal.alignment) /\ IsPowerOfTwo(formal.alignment[1][2])
  /\ checked_declaration_extent(formal.scalar, formal_vector_width(formal.shape),
                                parameter_axes(formal), may_be_open).valid
PointerFormal(formal, entry_inputs) ==
  IF formal.is_pointer
  THEN /\ formal.space = "Parameter" /\ call_argument_properties(formal).pointer # None
       /\ valid_parameter_pointer(IF entry_inputs THEN "EntryInput" ELSE "DeviceInput",
                                  formal.scalar, formal_vector_width(formal.shape),
                                  formal.extents # <<>>, call_argument_properties(formal).pointer)
  ELSE formal.pointed = None /\ formal.pointer_alignment = None
FormalIntact(formal, entry_inputs, may_be_open) ==
  /\ valid_formal_vector(formal)
  /\ formal.alignment # None => IsValue(formal.alignment[1])
  /\ parameter_array_extent(formal.extents).valid
  /\ formal.extents # <<>> => formal.space = "Parameter"
  /\ PointerFormal(formal, entry_inputs)
  /\ IF isOpaqueObjectType(formal.type)
     THEN entry_inputs /\ formal.space = "Parameter" /\ ~formal.is_pointer
     ELSE LaidOutFormal(formal, may_be_open) /\ valid_scalar_contract(formal)
  /\ formal.space \in {"Register", "Parameter"}
  /\ entry_inputs => formal.space = "Parameter"

(* Only the last input of a device function may be an open array of bytes *)
MayBeOpen(signature, i) ==
  /\ ~signature.is_entry /\ i = Len(signature.parameters)
  /\ signature.parameters[i].space = "Parameter" /\ signature.parameters[i].scalar = ".b8"
  /\ formal_vector_width(signature.parameters[i].shape) = 1
check_signature(signature) ==
  append_model_mismatch(
    \/ \E i \in DOMAIN signature.returns : ~FormalIntact(signature.returns[i], FALSE, FALSE)
    \/ \E i \in DOMAIN signature.parameters :
         ~FormalIntact(signature.parameters[i], signature.is_entry, MayBeOpen(signature, i)))

IsNarrow(formal) ==
  /\ formal.space = "Register" /\ formal.extents = <<>>
  /\ valid_scalar_contract(formal) /\ valid_formal_vector(formal)
  /\ scalar_size_of(formal.scalar) * formal_vector_width(formal.shape) < 4
check_register_formal_width(signature, version, profile) ==
  unsupported(/\ version[1] >= 20 /\ profile[1].architecture >= 20
              /\ \E formal \in ToSet(signature.returns \o signature.parameters) : IsNarrow(formal))
check_function_register_formals(f, version, profile) ==
  check_register_formal_width(f.contract.signature, version, profile)
  \cup OfEach(f.call_prototypes, LAMBDA prototype :
                check_register_formal_width(prototype.signature, version, profile))

-----------------------------------------------------------------------------
(* Symbols, scopes and parameters *)

owned_symbol(o, symbol) == symbol \in DOMAIN o.table.symbols
is_function_owned_scope(scope, function) == IsPrefix(function, scope)
is_operand_scope(scope, function) == scope = <<>> \/ is_function_owned_scope(scope, function)
FunctionScope(o, range) ==
  \E i \in DOMAIN o.table.nodes :
    o.table.nodes[i].at = range /\ o.table.nodes[i].node.kind = "Function"

expected_parameter_role(symbol, f) ==
  CASE symbol.kind = "InputParameter" -> Some(InputRole(f))
    [] symbol.kind = "ReturnParameter" /\ ~f.is_entry -> Some("DeviceReturn")
    [] OTHER -> None

(* The symbols of a function's own scope that a test selects *)
OfScope(o, f, Chosen(_)) ==
  SelectSeq([i \in DOMAIN o.table.symbols |-> i],
            LAMBDA i : o.table.symbols[i].scope = f.scope /\ Chosen(o.table.symbols[i]))

OpaqueFormals(f) == FormalsOf(f.contract.signature.parameters, TRUE)
BoundOpaque(o, f) ==
  OfScope(o, f, LAMBDA symbol :
            symbol.kind = "InputParameter" /\ isOpaqueObjectType(symbol.type))
OpaqueAgrees(record, symbol, scope, formal) ==
  /\ symbol.scope = scope /\ record.scope = scope
  /\ symbol.kind = "InputParameter" /\ symbol.space = "Parameter" /\ symbol.type = record.kind
  /\ formal # None =>
       /\ formal[1].type = record.kind
       /\ record.explicit_alignment = contract_constant(formal[1].alignment)
       /\ parameter_array_extent(formal[1].extents).valid
       /\ record.extents = parameter_axes(formal[1])
  /\ record.explicit_alignment = symbol.alignment
  /\ record.explicit_alignment # None => IsPowerOfTwo(record.explicit_alignment[1])
  /\ symbol.is_array = (record.extents # <<>>)
  /\ \A i \in DOMAIN record.extents : record.extents[i] \notin {None, Some(0)}

OpaqueIntact(o, f, i, bound, record) ==
  /\ owned_symbol(o, record.symbol)
  /\ OpaqueAgrees(record, o.table.symbols[record.symbol], f.scope, Nth(OpaqueFormals(f), i))
  /\ Nth(bound, i) \in {None, Some(record.symbol)}
OpaqueRecords(o, f, bound, records, version) ==
  append_model_mismatch(\/ Len(OpaqueFormals(f)) # Len(records) \/ Len(bound) # Len(records)
                        \/ \E i \in DOMAIN records : ~OpaqueIntact(o, f, i, bound, records[i]))
  \cup rule_violation(records # <<>> /\ Below(version, 15))
check_opaque_entry_parameters(o, f, version) ==
  IF f.is_entry
  THEN OpaqueRecords(o, f, BoundOpaque(o, f), f.opaque_entry_parameters, version)
  ELSE append_model_mismatch(OpaqueFormals(f) # <<>> \/ f.opaque_entry_parameters # <<>>)


RoleAgrees(o, f, record, symbol, expected) ==
  IF expected # None THEN record.role = expected[1] /\ record.scope = f.scope
  ELSE /\ symbol.kind = "CallParameter"
       /\ \/ record.role = "BodyLocal"
          \/ /\ record.role = "LegacyEntryInput" /\ f.is_entry /\ ~f.is_prototype
             /\ owned_symbol(o, f.symbol)
             /\ o.table.symbols[f.symbol].kind = "Function" /\ o.table.symbols[f.symbol].is_entry
MayBeOpenRecord(record, expected) ==
  /\ expected = Some("DeviceInput") /\ record.type = ".b8" /\ record.lanes = 1
  /\ record.extents # <<>>
ExtentAgrees(record, extent) == extent.valid /\ record.byte_extent = extent.bytes
RecordAgrees(o, f, record, symbol, expected) ==
  /\ symbol.space = "Parameter" /\ symbol.scope = record.scope
  /\ is_function_owned_scope(record.scope, f.scope)
  /\ RoleAgrees(o, f, record, symbol, expected)
  /\ symbol.type = record.type /\ IsFundamental(record.type) /\ record.type # ".pred"
  /\ record.lanes = Lanes(symbol.vector)
  /\ record.alignment = symbol.alignment /\ record.alignment # None
  /\ IsPowerOfTwo(record.alignment[1])
  /\ ~record.explicit_alignment =>
       record.alignment = Some(scalar_size_of(record.type) * record.lanes)
  /\ symbol.is_array = (record.extents # <<>>)
  /\ symbol.count # None => record.extents = <<>>
  /\ ExtentAgrees(record, checked_declaration_extent(record.type, record.lanes, record.extents,
                                                     MayBeOpenRecord(record, expected)))
  /\ valid_parameter_pointer(record.role, record.type, record.lanes, record.extents # <<>>,
                             record.pointer)
RecordOfSymbol(o, f, record, symbol) ==
  RecordAgrees(o, f, record, symbol, expected_parameter_role(symbol, f))
RecordIntact(o, f, record) ==
  owned_symbol(o, record.symbol) /\ RecordOfSymbol(o, f, record, o.table.symbols[record.symbol])

HasToBeRecorded(symbol, f) ==
  /\ is_function_owned_scope(symbol.scope, f.scope) /\ symbol.space = "Parameter"
  /\ symbol.kind \in {"CallParameter", "ReturnParameter", "InputParameter"}
  /\ ~isOpaqueObjectType(symbol.type) /\ symbol.type # "None"
RecordsIntact(o, f) ==
  /\ \A i \in DOMAIN f.parameter_declarations :
       /\ RecordIntact(o, f, f.parameter_declarations[i])
       /\ \A j \in 1 .. i - 1 :
            f.parameter_declarations[j].symbol # f.parameter_declarations[i].symbol
  /\ \A i \in DOMAIN o.table.symbols :
       HasToBeRecorded(o.table.symbols[i], f) => RecordOf(f, i) # None

(* Formals against the symbols of the header, in order *)
FormalBinds(formal, symbol) ==
  /\ formal_vector_width(formal.shape) = Lanes(symbol.vector)
  /\ formal.space = symbol.space
  /\ {formal.type, symbol.type} \cap OpaqueTypes # {} => formal.type = symbol.type
  /\ ~isOpaqueObjectType(symbol.type) => IsScalar(symbol.type) /\ symbol.type = formal.scalar
NumbersAgree(formal, symbol, properties, may_be_open) ==
  /\ properties.space # "Invalid" /\ contract_constant(formal.alignment) = symbol.alignment
  /\ ~formal.is_pointer => formal.pointed = None /\ formal.pointer_alignment = None
  /\ formal.extents # <<>> /\ properties.size = None =>
       may_be_open /\ formal.scalar = ".b8" /\ formal_vector_width(formal.shape) = 1
StoredAs(formal, properties, record, role) ==
  record # None =>
    /\ record[1].role = role /\ record[1].type = formal.scalar
    /\ record[1].alignment = Some(properties.alignment)
    /\ record[1].extents = parameter_axes(formal) /\ record[1].pointer = properties.pointer
FormalAgrees(f, formal, symbol, record, role, may_be_open) ==
  /\ FormalBinds(formal, symbol)
  /\ ~isOpaqueObjectType(symbol.type) =>
       /\ NumbersAgree(formal, symbol, call_argument_properties(formal), may_be_open)
       /\ IF symbol.space = "Register"
          THEN formal.extents = <<>> /\ ~formal.is_pointer /\ record = None
          ELSE StoredAs(formal, call_argument_properties(formal), record, role)
IsStoredFormal(symbol) == ~isOpaqueObjectType(symbol.type) /\ symbol.space # "Register"
RecordedAs(f, role) ==
  LET records == SelectSeq(f.parameter_declarations, LAMBDA record : record.role = role)
  IN [i \in DOMAIN records |-> records[i].symbol]
FormalList(o, f, formals, bound, role) ==
  /\ Len(formals) = Len(bound)
  /\ \A i \in DOMAIN formals \cap DOMAIN bound :
       FormalAgrees(f, formals[i], o.table.symbols[bound[i]], RecordOf(f, bound[i]), role,
                    role = "DeviceInput" /\ i = Len(formals))
  /\ RecordedAs(f, role) = SelectSeq(bound, LAMBDA i : IsStoredFormal(o.table.symbols[i]))

check_function_parameters(o, f) ==
  append_model_mismatch(
    ~(/\ FunctionScope(o, f.range) /\ f.range = f.scope
      /\ RecordsIntact(o, f)
      /\ FormalList(o, f, f.contract.signature.returns,
                    OfScope(o, f, LAMBDA symbol : symbol.kind = "ReturnParameter"),
                    "DeviceReturn")
      /\ FormalList(o, f, f.contract.signature.parameters,
                    OfScope(o, f, LAMBDA symbol : symbol.kind = "InputParameter"),
                    InputRole(f))))

InputBytes(total, record) ==
  LET extent == checked_declaration_extent(record.type, record.lanes, record.extents, FALSE)
  IN IF \/ record.role # "EntryInput" \/ ~extent.valid \/ extent.bytes = None
        \/ record.alignment = None \/ ~IsPowerOfTwo(record.alignment[1])
     THEN total ELSE RoundedUp(total, record.alignment[1]) + extent.bytes[1]
check_entry_parameter_size(f, version) ==
  append_model_mismatch(
    /\ f.is_entry /\ version # None
    /\ FoldLeft(InputBytes, 0, f.parameter_declarations) > EntryLimit(version[1]))

-----------------------------------------------------------------------------
(* Declarations of the table *)

check_declaration_identifiers(o) ==
  rule_violation(\E i \in DOMAIN o.table.symbols : ~isIdentifier(o.table.symbols[i].name))
check_register_declaration_types(o) ==
  rule_violation(\E i \in DOMAIN o.table.symbols :
                   /\ o.table.symbols[i].kind = "Variable" /\ o.table.symbols[i].space = "Register"
                   /\ ~IsFundamental(o.table.symbols[i].type))

IsRegisterRecord(o, record) ==
  /\ owned_symbol(o, record.symbol)
  /\ o.table.symbols[record.symbol].space = "Register" /\ record.extents # <<>>
check_register_arrays(o) ==
  rule_violation(
    \/ \E i \in DOMAIN o.table.symbols :
         o.table.symbols[i].space = "Register" /\ o.table.symbols[i].is_array
    \/ \E i \in DOMAIN o.storage : IsRegisterRecord(o, o.storage[i])
    \/ \E i \in DOMAIN o.functions : \E j \in DOMAIN o.functions[i].parameter_declarations :
         IsRegisterRecord(o, o.functions[i].parameter_declarations[j]))

(* The places at which a symbol is declared as a variable *)
declarationOccurrences(o, symbol) ==
  {o.table.declarations[i].at : i \in
     {i \in DOMAIN o.table.declarations : SameSymbol(o.table.declarations[i], symbol)}}

(* The events of the header order tell which region a place is in *)
EventsAround(header, place) ==
  {j \in DOMAIN header.source_order :
     header.source_order[j].kind = "Other" /\ IsPrefix(header.source_order[j].at, place)}
RegionOfEvent(header, j) ==
  1 + Cardinality({i \in 1 .. j : header.source_order[i].kind = "Target"})
AtEvent(header, region, Says(_)) ==
  IF region > Len(header.regions) THEN append_model_mismatch(TRUE)
  ELSE Says(header.regions[region])
AtPlace(header, place, Says(_)) ==
  append_model_mismatch(Cardinality(EventsAround(header, place)) # 1)
  \cup UNION {AtEvent(header, RegionOfEvent(header, j), Says) : j \in EventsAround(header, place)}

missing_context(missing) == IF missing THEN {"MissingValidationContext"} ELSE {}
PlacedIn(region, profile, strict) ==
  missing_context(strict /\ (region.version = None \/ profile = None))
  \cup rule_violation(/\ region.version # None /\ region.version[1] >= 30
                      /\ profile # None /\ profile[1].architecture >= 20)
NeedsFunction(symbol) ==
  symbol.kind = "Variable" /\ symbol.space \in {"Register", "Local"} /\ symbol.scope = <<>>
check_module_declaration_placement(o, strict) ==
  OfEach(SelectSeq(o.table.symbols, NeedsFunction), LAMBDA symbol :
    UNION {AtPlace(o.header, place, LAMBDA region :
                     PlacedIn(region, FirstProfile(region.targets), strict)) :
             place \in declarationOccurrences(o, symbol)})

-----------------------------------------------------------------------------
(* Storage *)

storage_owner(scope) == IF scope = <<>> THEN <<>> ELSE <<scope[1]>>
bound_storage_space(symbol) == IF storage_space(symbol.space) THEN Some(symbol.space) ELSE None

CommonSymbol(symbol) ==
  /\ symbol.kind = "Variable" /\ symbol.scope = <<>> /\ symbol.space = "Global"
  /\ IsFundamental(symbol.type) /\ symbol.type # ".pred"

(* Each occurrence of a stored variable has one record, all of one shape *)
OneRecordEach(occurrences, records) ==
  /\ \A place \in occurrences : Cardinality({i \in DOMAIN records : records[i].at = place}) = 1
  /\ records # <<>> => Len(records) = Cardinality(occurrences)
OneShape(scalars) == \A i \in DOMAIN scalars : scalars[i].extents = scalars[1].extents
StoredRecords(o, symbol, records) ==
  /\ OneRecordEach(declarationOccurrences(o, symbol), records)
  /\ OneShape(SelectSeq(records, LAMBDA record : ~isOpaqueObjectType(record.type)))
SymbolStored(o, i, symbol) ==
  /\ symbol.linkage = ".common" => CommonSymbol(symbol)
  /\ symbol.kind = "Variable" /\ bound_storage_space(symbol) # None =>
       StoredRecords(o, symbol, SelectSeq(o.storage, LAMBDA record : record.symbol = i))

StorageBound(o, record, symbol) ==
  /\ symbol.kind = "Variable" /\ bound_storage_space(symbol) = Some(record.space)
  /\ record.scope = symbol.scope /\ record.owner = storage_owner(symbol.scope)
  /\ record.linkage = symbol.linkage /\ record.count = symbol.count
  /\ record.at \in declarationOccurrences(o, symbol)

IsDynamicShared(record) ==
  /\ record.linkage = ".extern" /\ record.space = "Shared"
  /\ record.extents # <<>> /\ record.extents[1] = None
StoredScalar(record, symbol, extent) ==
  /\ record.type = symbol.type /\ record.lanes = Lanes(symbol.vector)
  /\ extent.valid /\ record.byte_extent = extent.bytes
  /\ record.alignment # None /\ IsPowerOfTwo(record.alignment[1])
  /\ record.alignment = symbol.alignment
  /\ record.alignment = (IF record.explicit_alignment # None THEN record.explicit_alignment
                         ELSE Some(scalar_size_of(record.type) * record.lanes))
  /\ record.is_dynamic_shared = IsDynamicShared(record)
  /\ record.count # Some(0)
(* The high word of 128 bits extends the low one *)
WideConstant(value) ==
  value.form = "Constant" /\ value.high_bits # 0 =>
    /\ value.high_bits = Word - 1
    /\ asSigned([bits |-> value.bits, unsigned |-> FALSE]) < 0
ScalarInitialized(record) ==
  CASE record.linkage = ".extern" ->
         record.initialization = "External" /\ record.initializer = <<>>
    [] record.linkage # ".extern" /\ record.space \in {"Global", "Constant"} ->
         record.initialization \in {"Zero", "Explicit"}
    [] OTHER -> record.initialization = "Uninitialized" /\ record.initializer = <<>>
RecordStored(record, symbol) ==
  /\ record.declaration_kind = (IF record.linkage = ".extern" THEN "External" ELSE "Definition")
  /\ record.linkage = ".common" =>
       /\ ~isOpaqueObjectType(record.type) /\ ~record.legacy_texture
       /\ record.scope = <<>> /\ record.space = "Global"
  /\ ~isOpaqueObjectType(record.type) =>
       /\ StoredScalar(record, symbol,
                       checked_declaration_extent(record.type, record.lanes, record.extents,
                                                  record.linkage = ".extern"))
       /\ record.type = ".b128" =>
            \A i \in DOMAIN record.initializer : WideConstant(record.initializer[i].value)
       /\ ScalarInitialized(record)
StorageIntact(o, record) ==
  /\ owned_symbol(o, record.symbol)
  /\ StorageBound(o, record, o.table.symbols[record.symbol])
  /\ RecordStored(record, o.table.symbols[record.symbol])
check_storage_declarations(o) ==
  append_model_mismatch(
    \/ \E i \in DOMAIN o.table.symbols : ~SymbolStored(o, i, o.table.symbols[i])
    \/ \E i \in DOMAIN o.storage : ~StorageIntact(o, o.storage[i]))

CommonIn(region, profile) ==
  unsupported(Below(region.version, 50) \/ (profile # None /\ profile[1].architecture < 20))
check_common_availability(o) ==
  OfEach(SelectSeq(o.storage, LAMBDA record : record.linkage = ".common"), LAMBDA record :
           AtPlace(o.header, record.at,
                   LAMBDA region : CommonIn(region, FirstProfile(region.targets))))

(* Opaque objects *)
PositiveExtents(extents) == \A i \in DOMAIN extents : extents[i] \notin {None, Some(0)}
OpaqueBound(record, symbol) ==
  /\ symbol.kind = "Variable" /\ symbol.scope = record.scope /\ symbol.type = record.type
  /\ symbol.space = "Global" /\ symbol.vector = None
  /\ symbol.alignment = record.explicit_alignment /\ symbol.count = record.count
OpaqueLaidOut(record) ==
  /\ record.scope = <<>> /\ record.owner = <<>> /\ record.space = "Global" /\ record.lanes = 1
  /\ record.byte_extent = None /\ record.alignment = record.explicit_alignment
  /\ record.legacy_texture => record.type = ".texref"
  /\ record.initializer = <<>> /\ ~record.is_dynamic_shared
  /\ ~record.is_managed /\ record.unified_id = None
  /\ \/ PositiveExtents(record.extents)
     \/ /\ record.declaration_kind = "External" /\ record.extents # <<>>
        /\ record.extents[1] = None /\ PositiveExtents(Tail(record.extents))
OpaqueInitialized(record) ==
  IF record.declaration_kind = "External"
  THEN record.initialization = "External" /\ record.objects = <<>>
  ELSE /\ record.initialization \in {"Uninitialized", "OpaqueStatic"}
       /\ (record.initialization = "OpaqueStatic") = (record.objects # <<>>)

(* opaque_field_for_kind() and the range of the field's value *)
ValidValue(field, codes, value) ==
  IF codes.names # <<>> THEN value - codes.first \in 0 .. Len(codes.names) - 1
  ELSE field \in Truths => value <= 1
ValidMember(type, members, k) ==
  /\ opaque_static_field_accepts(members[k].field, type)
  /\ \A l \in 1 .. k - 1 : members[l].field # members[k].field
  /\ ValidValue(members[k].field, Enumerants(members[k].field), members[k].value)
ValidObject(record, objects, j) ==
  /\ Len(objects[j].indices) = Len(record.extents)
  /\ \A axis \in DOMAIN record.extents : objects[j].indices[axis] < record.extents[axis][1]
  /\ \A l \in 1 .. j - 1 : objects[l].indices # objects[j].indices
  /\ objects[j].members # <<>>
  /\ \A k \in DOMAIN objects[j].members : ValidMember(record.type, objects[j].members, k)
OpaqueStored(o, record) ==
  IF isOpaqueObjectType(record.type)
  THEN /\ owned_symbol(o, record.symbol)
       /\ OpaqueBound(record, o.table.symbols[record.symbol]) /\ OpaqueLaidOut(record)
       /\ OpaqueInitialized(record)
       /\ \A j \in DOMAIN record.objects : ValidObject(record, record.objects, j)
  ELSE /\ ~record.legacy_texture /\ record.objects = <<>>
       /\ record.initialization # "OpaqueStatic"
check_opaque_storage(o, version) ==
  append_model_mismatch(
    \/ \E i \in DOMAIN o.table.symbols :
         /\ o.table.symbols[i].scope = <<>> /\ o.table.symbols[i].kind = "Variable"
         /\ isOpaqueObjectType(o.table.symbols[i].type)
         /\ \A j \in DOMAIN o.storage :
              o.storage[j].symbol # i \/ ~isOpaqueObjectType(o.storage[j].type)
    \/ \E j \in DOMAIN o.storage : ~OpaqueStored(o, o.storage[j]))
  \cup rule_violation(
         /\ Below(version, 15)
         /\ \E j \in DOMAIN o.storage :
              isOpaqueObjectType(o.storage[j].type) /\ ~o.storage[j].legacy_texture)

-----------------------------------------------------------------------------
(* Control contracts: lists of labels and of callees, and prototypes        *)

IsSymbolIn(o, symbol, kind, scope) ==
  /\ owned_symbol(o, symbol) /\ o.table.symbols[symbol].kind = kind
  /\ is_function_owned_scope(o.table.symbols[symbol].scope, scope)
ContractIn(o, f, contract, kind) ==
  /\ IsSymbolIn(o, contract.symbol, kind, f.scope)
  /\ contract.scope = o.table.symbols[contract.symbol].scope
BranchesIntact(o, f, set) ==
  /\ ContractIn(o, f, set, "BranchTargets")
  /\ \A i \in DOMAIN set.targets : IsSymbolIn(o, set.targets[i].symbol, "Label", f.scope)
TargetIntact(o, target) ==
  /\ IsSymbolIn(o, target.symbol, "Function", <<>>)
  /\ canonical(o.table, target.symbol) = target.canonical_function
CalleesIntact(o, f, set) ==
  /\ ContractIn(o, f, set, "CallTargets") /\ set.targets # <<>>
  /\ \A i \in DOMAIN set.targets : TargetIntact(o, set.targets[i])
PrototypeIntact(o, f, prototype) ==
  ContractIn(o, f, prototype, "CallPrototype") /\ ~prototype.signature.is_entry
check_control_contracts(o, f, calls_only) ==
  append_model_mismatch(
    \/ ~calls_only /\ \E i \in DOMAIN f.branch_target_sets :
                         ~BranchesIntact(o, f, f.branch_target_sets[i])
    \/ \E i \in DOMAIN f.call_target_sets : ~CalleesIntact(o, f, f.call_target_sets[i])
    \/ \E i \in DOMAIN f.call_prototypes : ~PrototypeIntact(o, f, f.call_prototypes[i]))
  \cup OfEach(f.call_target_sets \o f.call_prototypes,
              LAMBDA contract : check_signature(contract.signature))

-----------------------------------------------------------------------------
(* Calls against the signatures that the module keeps                       *)

Kept(symbol, signature) == <<[symbol |-> symbol, signature |-> signature]>>
DirectSignatures(o) ==
  Each(o.functions, LAMBDA f : Kept(f.contract.canonical_function, f.contract.signature))
IndirectSignatures(o) ==
  Each(o.functions, LAMBDA f : Each(f.call_prototypes \o f.call_target_sets,
                                    LAMBDA c : Kept(c.symbol, c.signature)))
  \o Each(o.call_tables, LAMBDA t : Kept(t.symbol, t.signature))
(* The first of a symbol counts *)
Indexed1(kept, symbol) == Nth(SelectSeq(kept, LAMBDA s : s.symbol = symbol), 1)
Compatible(kept) ==
  \A i \in DOMAIN kept :
    SameSignature(Indexed1(kept, kept[i].symbol)[1].signature, kept[i].signature)
build_signature_index(o) ==
  append_model_mismatch(~Compatible(DirectSignatures(o)) \/ ~Compatible(IndirectSignatures(o)))
direct_signature(o, symbol) ==
  IF ~owned_symbol(o, symbol) \/ o.table.symbols[symbol].kind # "Function" THEN None
  ELSE Indexed1(DirectSignatures(o), canonical(o.table, symbol))
indirect_signature(o, symbol) == Indexed1(IndirectSignatures(o), symbol)

call_vector_shape(lanes) ==
  CASE lanes = 1 -> "Scalar" [] lanes = 2 -> ".v2" [] lanes = 4 -> ".v4" [] OTHER -> "Invalid"
RegisterProperties(symbol) ==
  [space |-> "Register", type |-> symbol.type, shape |-> call_vector_shape(Lanes(symbol.vector)),
   is_array |-> FALSE, alignment |-> 0, size |-> None, pointer |-> None]
RecordProperties(record) ==
  [space |-> "Parameter", type |-> record.type, shape |-> call_vector_shape(record.lanes),
   is_array |-> record.extents # <<>>, alignment |-> record.alignment[1],
   size |-> SizeOf(record.extents), pointer |-> record.pointer]
CachedProperties(cached) ==
  [space |-> cached.space, type |-> cached.type, shape |-> "Scalar", is_array |-> FALSE,
   alignment |-> 0, size |-> None, pointer |-> None]
OfRecords(records, cached) ==
  IF records = <<>> THEN CachedProperties(cached) ELSE RecordProperties(records[1])
build_parameter_properties(o, symbol, cached) ==
  IF owned_symbol(o, symbol) /\ o.table.symbols[symbol].space = "Register"
  THEN RegisterProperties(o.table.symbols[symbol])
  ELSE OfRecords(Each(o.functions, LAMBDA f : RecordOf(f, symbol)), cached)

(* A lane of a vector that a register can hold is a scalar *)
valid_register_component(register) ==
  register.lane # None =>
    /\ register.class = "General" /\ register.type # ".pred"
    /\ register.vector # None /\ register.lane[1] < Lanes(register.vector)
HeldLanes(register) == scalar_size_of(register.type) * Lanes(register.vector) <= 16
OfLane(properties, operand) ==
  IF operand.register = None THEN properties
  ELSE IF operand.parameter[1].space = "Register" /\ valid_register_component(operand.register[1])
          /\ HeldLanes(operand.register[1])
  THEN [properties EXCEPT !.shape = "Scalar"]
  ELSE [properties EXCEPT !.space = "Invalid", !.type = "Invalid"]
ActualProperties(o, operand) ==
  OfLane([build_parameter_properties(o, operand.symbol, operand.parameter[1]) EXCEPT
            !.space = operand.parameter[1].space, !.type = operand.parameter[1].type], operand)

check_typed_literal(literal, formal) ==
  literal.typed # None /\ resolve_call_literal(literal.source, formal).value = literal.typed
check_call_parameter(o, operand, formal) ==
  checkCallArgumentCompatibility(call_argument_properties(formal), ActualProperties(o, operand))
OperandAgrees(o, operand, formal) ==
  IF operand.literal # None THEN check_typed_literal(operand.literal[1], formal)
  ELSE check_call_parameter(o, operand, formal)
OperandsAgree(o, actuals, formals) ==
  \A i \in DOMAIN actuals \cap DOMAIN formals : OperandAgrees(o, actuals[i], formals[i])
check_call_inputs(o, actuals, formals) ==
  /\ Len(actuals) = Len(formals) \/ OmittedInput(actuals, formals)
  /\ OperandsAgree(o, actuals, formals)
check_call_returns(o, actuals, formals) ==
  Len(actuals) = Len(formals) /\ OperandsAgree(o, actuals, formals)


OfSignature(o, instruction, signature) ==
  /\ signature # None
  /\ check_call_inputs(o, InRole(instruction, {"Input"}), signature[1].signature.parameters)
  /\ check_call_returns(o, InRole(instruction, {"Return"}), signature[1].signature.returns)
SignatureOf(o, callee) ==
  IF callee.role = "Callee" THEN direct_signature(o, callee.symbol)
  ELSE indirect_signature(o, callee.symbol)
CallIntact(o, instruction, callees) ==
  callees # <<>> /\ OfSignature(o, instruction, SignatureOf(o, callees[1]))
CallInstructions(f) == SelectSeq(f.body, LAMBDA instruction : Payload(instruction) = "Call")
check_typed_call_literals(o, f) ==
  append_model_mismatch(
    \E i \in DOMAIN CallInstructions(f) :
      ~CallIntact(o, CallInstructions(f)[i],
                  InRole(CallInstructions(f)[i], {"Callee", "Metadata", "Table"})))

-----------------------------------------------------------------------------
(* Call tables against the storage and the functions of the module          *)

TableUses(f) == Each(CallInstructions(f), LAMBDA instruction :
  [k \in DOMAIN InRole(instruction, {"Table"}) |->
     [function |-> f.scope, node |-> instruction.node,
      operand |-> InRole(instruction, {"Table"})[k]]])
(* A use is where the table of symbols has it, after the declaration *)
UseIntact(o, use) ==
  /\ owned_symbol(o, use.operand.symbol)
  /\ use.node.node.metadata = Some(use.operand.name)
  /\ lookup(o.table, use.node.scope, use.operand.name) = use.operand.symbol
  /\ o.table.symbols[use.operand.symbol].kind = "Variable"
  /\ MemberIndex(o.table.symbols[use.operand.symbol], use.operand.name) = None
  /\ is_function_owned_scope(use.node.scope, use.function)
  /\ is_operand_scope(o.table.symbols[use.operand.symbol].scope, use.function)
  /\ hasPriorDeclaration(o.table, use.operand.symbol, use.node.at)
  /\ Len(SelectSeq(o.call_tables, LAMBDA t : t.symbol = use.operand.symbol)) = 1
SameShape(built, owned) ==
  /\ \A field \in DOMAIN owned \ {"signature", "slots"} : built[field] = owned[field]
  /\ SameSignature(built.signature, owned.signature)
SameTable(built, owned) ==
  /\ \A field \in DOMAIN owned \ {"signature"} : built[field] = owned[field]
  /\ SameSignature(built.signature, owned.signature)
Rebuilt(built, owned) == built.value # None /\ SameTable(built.value[1], owned)
DirectIndex(kept) ==
  [symbol \in {kept[i].symbol : i \in DOMAIN kept} |-> Indexed1(kept, symbol)[1].signature]
OfDefinitions(o, t, definitions) ==
  /\ Len(definitions) = 1
  /\ Rebuilt(build_call_table(o.table, definitions[1], DirectIndex(DirectSignatures(o))), t)
TableIntact(o, uses, t) ==
  /\ \E i \in DOMAIN uses : uses[i].operand.symbol = t.symbol
  /\ OfDefinitions(o, t, SelectSeq(o.storage, LAMBDA record :
                      record.symbol = t.symbol /\ record.declaration_kind = "Definition"))
UsedOnce(uses, n) == Cardinality({i \in DOMAIN uses : uses[i].node = n}) = 1
TablesIntact(o, uses) ==
  /\ \A i \in DOMAIN uses : UseIntact(o, uses[i])
  /\ \A i \in DOMAIN o.table.nodes :
       IsTableCall(o.table, o.table.nodes[i]) => UsedOnce(uses, o.table.nodes[i])
  /\ \A i \in DOMAIN o.call_tables : TableIntact(o, uses, o.call_tables[i])
check_call_tables(o) == append_model_mismatch(~TablesIntact(o, Each(o.functions, TableUses)))

-----------------------------------------------------------------------------
(* References: what an operand keeps of its symbol, against the symbol      *)

OperandUses(f, calls_only) ==
  Each(IF calls_only THEN CallInstructions(f) ELSE f.body, LAMBDA instruction :
         SelectSeq(instruction.operands, LAMBDA use : use.literal = None))

IsObject(kinds, symbol) == symbol.kind \in kinds \cup {"InputParameter", "ReturnParameter"}
is_register_operand_symbol(symbol) ==
  IsObject({"Variable"}, symbol) /\ symbol.space = "Register"
KindExpected(use, symbol) ==
  CASE use.expects = "Any" -> TRUE
    [] use.expects = "Register" -> is_register_operand_symbol(symbol)
    [] OTHER -> symbol.kind = use.expects
Identified(f, use, symbol) ==
  /\ KindExpected(use, symbol)
  /\ use.role = "Guard" => symbol.type = ".pred" /\ symbol.vector = None
  /\ is_operand_scope(symbol.scope, f.scope)
  /\ use.local => is_function_owned_scope(symbol.scope, f.scope)

(* The name it was written with still leads to the symbol and the member *)
NamesSymbol(o, use, symbol) ==
  /\ lookup(o.table, symbol.scope, use.name) = use.symbol
  /\ use.index = MemberIndex(symbol, use.name)
ParameterCached(o, use, symbol, cached) ==
  /\ IsObject({"Variable", "CallParameter"}, symbol) /\ IsScalar(symbol.type)
  /\ cached.type = symbol.type /\ cached.space = symbol.space
  /\ symbol.space \in {"Register", "Parameter"}
  /\ NamesSymbol(o, use, symbol)
  /\ use.register # None => HeldLanes(use.register[1])
HoldsCallee(register, symbol) ==
  /\ is_function_address_register_type(symbol.type) /\ register.class = "General"
  /\ symbol.vector # None => register.lane # None /\ HeldLanes(register)
RegisterCached(o, use, symbol, register) ==
  /\ IsScalar(symbol.type) /\ register.type = symbol.type /\ register.vector = symbol.vector
  /\ NamesSymbol(o, use, symbol) /\ symbol.count # None => use.index # None
  /\ valid_register_component(register)
  /\ register.class = (IF symbol.type = ".pred" THEN "Predicate" ELSE "General")
  /\ use.role = "FunctionAddress" => HoldsCallee(register, symbol)
CachesAgree(o, use, symbol) ==
  /\ use.parameter # None => ParameterCached(o, use, symbol, use.parameter[1])
  /\ use.register # None => RegisterCached(o, use, symbol, use.register[1])
MemberAgrees(use, symbol) ==
  /\ use.index # None => symbol.count # None /\ use.index[1] < symbol.count[1]
  /\ symbol.kind = "CallParameter" /\ symbol.count # None => use.index # None

(* The base of an access.  The last array of the symbol tells the element   *)
(* of a named index.                                                        *)
ElementTypes(o, f, symbol) ==
  Each(o.storage, LAMBDA record :
         IF /\ record.symbol = symbol /\ record.extents # <<>> /\ IsScalar(record.type)
            /\ record.owner \in {<<>>, f.scope}
         THEN <<record.type>> ELSE <<>>)
  \o Each(f.parameter_declarations, LAMBDA record :
            IF record.symbol = symbol /\ record.extents # <<>> THEN <<record.type>> ELSE <<>>)
IndexAgrees(address, types) ==
  /\ types # <<>>
  /\ address.type = Last(types) /\ address.stride = Some(scalar_size_of(Last(types)))
check_address_symbol_binding(o, f, use, symbol, address) ==
  /\ address.stride # None => IndexAgrees(address, ElementTypes(o, f, use.symbol))
  /\ address.kind = symbol.kind
  /\ address.space = symbol.space /\ address.address_space = symbol.space
  /\ address.type = symbol.type /\ address.alignment = symbol.alignment
  /\ {address.enclosing, address.context} = {EnclosingKind(f.is_entry)}
  /\ expected_parameter_role(symbol, f) # None =>
       HasRole(f, use.symbol, expected_parameter_role(symbol, f)[1])

AddressOfRecord(record, address) ==
  IF record.role \in {"EntryInput", "LegacyEntryInput"} /\ address.write
  THEN IF record.role = "EntryInput" THEN {"RuleViolation"} ELSE {"ModuleSourceMismatch"}
  ELSE IF address.selected # "Parameter" THEN {"AddressStateSpaceMismatch"} ELSE {}
check_parameter_address_operand(record, symbol, address) ==
  IF symbol.space # "Parameter" THEN {}
  ELSE IF record = None \/ record[1].scope # symbol.scope THEN {"ModuleSourceMismatch"}
  ELSE AddressOfRecord(record[1], address)

AddressSays(o, f, use, symbol) ==
  IF use.address = None THEN {}
  ELSE IF ~check_address_symbol_binding(o, f, use, symbol, use.address[1])
  THEN {"ModuleSourceMismatch"}
  ELSE check_parameter_address_operand(RecordOf(f, use.symbol), symbol, use.address[1])
ReferenceTo(o, f, use, symbol) ==
  IF ~Identified(f, use, symbol) THEN {"ModuleSourceMismatch"}
  ELSE append_model_mismatch(~CachesAgree(o, use, symbol))
       \cup (IF ~MemberAgrees(use, symbol) THEN {"ModuleSourceMismatch"}
             ELSE AddressSays(o, f, use, symbol))
check_module_references(o, f, calls_only) ==
  OfEach(OperandUses(f, calls_only), LAMBDA use :
    IF ~owned_symbol(o, use.symbol) THEN {"ModuleSourceMismatch"}
    ELSE ReferenceTo(o, f, use, o.table.symbols[use.symbol]))

(* The roles that accesses keep.  A device function's parameters may have   *)
(* been taken into local memory.                                            *)
KindOfRole(role) ==
  CASE role \in {"EntryInput", "DeviceInput"} -> "InputParameter"
    [] role = "DeviceReturn" -> "ReturnParameter"
    [] role \in {"LegacyEntryInput", "BodyLocal"} -> "CallParameter"
OwnersOfRole(role) ==
  CASE role \in {"EntryInput", "LegacyEntryInput"} -> {"Entry"}
    [] role \in {"DeviceInput", "DeviceReturn"} -> {"Device"}
    [] role = "BodyLocal" -> {"Entry", "Device"}
SpacesOfRole(role) ==
  {"Parameter"} \cup (IF role \in {"DeviceInput", "DeviceReturn"} THEN {"Local"} ELSE {})
valid_parameter_role_cache(address) ==
  address.role # None =>
    /\ address.kind = KindOfRole(address.role[1]) /\ address.space = "Parameter"
    /\ address.address_space \in SpacesOfRole(address.role[1])
    /\ {address.enclosing, address.context} \subseteq OwnersOfRole(address.role[1])
LegacyAccess(address) ==
  /\ address.role # None /\ address.kind = "CallParameter" /\ address.enclosing = "Entry"
  /\ address.space = "Parameter" /\ address.address_space = "Parameter"
  /\ address.qualifier # "Function"
RoleCached(f, use, address) ==
  /\ valid_parameter_role_cache(address)
  /\ address.role # None => HasRole(f, use.symbol, address.role[1])
  /\ HasRole(f, use.symbol, "LegacyEntryInput") => LegacyAccess(address)
check_parameter_reference_roles(o, f) ==
  append_model_mismatch(
    \E use \in ToSet(OperandUses(f, FALSE)) :
      IF use.address = None THEN HasRole(f, use.symbol, "LegacyEntryInput")
      ELSE owned_symbol(o, use.symbol) /\ ~RoleCached(f, use, use.address[1]))

check_body_parameter_roles(f, version, profile) ==
  OfEach(f.parameter_declarations, LAMBDA record :
    CASE record.role = "LegacyEntryInput" ->
           unsupported(Below(version, 10) \/ (version # None /\ ~Below(version, 14)))
      [] record.role = "BodyLocal" ->
           append_minimum_requirement("BodyParameter", version, profile)
      [] OTHER -> {})

=============================================================================
