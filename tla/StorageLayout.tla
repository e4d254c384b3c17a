---------------------------- MODULE StorageLayout ----------------------------
(***************************************************************************)
(* Storage of declared variables: ptx_storage_declarations.cpp of           *)
(* submod/resolved_ir.  A declaration becomes its extents in bytes, its     *)
(* alignment and the elements of its initializer, each at a byte offset and *)
(* a constant or the address of a symbol.                                   *)
(***************************************************************************)
EXTENDS ModuleBinding, DeclarationRules

NoInitializer == "UnsupportedStorageInitializer"
NoDeclaration == "UnsupportedStorageDeclaration"
Overflows == "StorageExtentOverflow"

module_version(module) == modulePtxVersion(module)
before_version(version, required) == Below(version, required)

storage_space(space) == space \in {"Global", "Constant", "Shared", "Local"}

is_byte_mask(mask) ==
  \E byte \in 0 .. (Width - 1) \div 8 : mask = Wrapped(255 * 2 ^ (8 * byte))
LowBit(mask) == CHOOSE bit \in 0 .. Width - 1 :
                  mask % 2 ^ bit = 0 /\ mask % 2 ^ (bit + 1) # 0

-----------------------------------------------------------------------------
(* Constants *)

(* Wider than a word, a constant is extended by the sign of its value *)
StoredConstant(value, type) ==
  [form |-> "Constant", bits |-> Masked(value.bits, type),
   high_bits |-> IF type = ".b128" /\ ~value.unsigned /\ asSigned(value) < 0 THEN Word - 1 ELSE 0]

(* A byte that a mask selects from a constant *)
SelectedByte(mask, argument, type, version) ==
  IF mask = None \/ argument = None \/ ~is_byte_mask(mask[1].bits) THEN Nothing
  ELSE IF before_version(version, 73) THEN Refused(NoInitializer)
  ELSE Found(StoredConstant(
               [bits |-> (argument[1].bits & mask[1].bits) \div 2 ^ LowBit(mask[1].bits),
                unsigned |-> TRUE], type))

WholeOrByte(e, value, type, version) ==
  IF value # None THEN Found(StoredConstant(value[1], type))
  ELSE IF e.node = "Call" /\ e.callee.node = "Literal"
  THEN SelectedByte(constantIntegerValue(e.callee), constantIntegerValue(e.argument), type, version)
  ELSE Nothing
integer_constant(e, type, version) ==
  IF scalar_kind(type) \notin IntegerKinds THEN Nothing
  ELSE WholeOrByte(e, constantIntegerValue(e), type, version)

(* A literal of single precision stands for itself, any other expression for *)
(* its number                                                                *)
FloatElement(resolved) ==
  IF resolved.value = None THEN Refused(NoInitializer)
  ELSE Found([form |-> "Float", value |-> resolved.value[1]])
floating_constant(e, type) ==
  IF e.node = "Literal" /\ e.kind = "F32" THEN FloatElement(resolve_immediate_literal(e, type, FALSE))
  ELSE IF numericConstantValue(e).failure # "none" THEN Nothing
  ELSE FloatElement(resolve_numeric_value(classifyExpression(e), type, FALSE))

-----------------------------------------------------------------------------
(* Addresses: [form, symbol, kind, addend, mask] *)

HasAddress(target, version) ==
  IF target.kind = "Function" THEN ~(target.is_entry /\ before_version(version, 31))
  ELSE /\ target.kind = "Variable" /\ ~isOpaqueObjectType(target.type)
       /\ target.space \in {"Global", "Constant"}
AddressKind(target, version) ==
  IF target.space = "Global" /\ before_version(version, 31) THEN "Generic"
  ELSE IF target.kind = "Function" THEN "Function" ELSE "StateSpace"
AddressOf(table, found, version) ==
  IF found = NoSymbol \/ ~HasAddress(table.symbols[found], version) THEN Refused(NoInitializer)
  ELSE Found([form |-> "Address", symbol |-> found, addend |-> 0, mask |-> None,
              kind |-> AddressKind(table.symbols[found], version)])
symbol_relocation(table, scope, name, version) ==
  AddressOf(table, lookup(table, scope, name), version)

Moved(address, amount) ==
  IF address.kind = "Function" \/ address.mask # None THEN Refused(NoInitializer)
  ELSE Found([address EXCEPT !.addend = Wrapped(@ + amount)])

ToGeneric(address) ==
  IF address.kind = "Function" \/ address.mask # None THEN Refused(NoInitializer)
  ELSE Found([address EXCEPT !.kind = "Generic"])

OneByte(address, mask) ==
  IF address.mask # None THEN Refused(NoInitializer) ELSE Found([address EXCEPT !.mask = Some(mask)])

Then(result, Next(_)) ==
  IF result.value = None THEN result ELSE Saying(result.said, Next(result.value[1]))

(* The left operand of a sum is tried first; what it said remains *)
Sum(operation, left, left_integer, right, right_integer) ==
  IF left.value # None /\ right_integer # None
  THEN Then(left, LAMBDA address :
              Moved(address, IF operation = "+" THEN right_integer[1].bits
                             ELSE Wrapped(-right_integer[1].bits)))
  ELSE Saying(left.said,
              IF operation = "-" THEN Nothing
              ELSE IF right.value # None /\ left_integer # None
              THEN Then(right, LAMBDA address : Moved(address, left_integer[1].bits))
              ELSE [right EXCEPT !.value = None])

(* The mask of a call is looked at before the address in it *)
MaskSays(mask, version) ==
  IF before_version(version, 71) THEN Refused(NoInitializer)
  ELSE IF mask = None THEN Nothing
  ELSE IF ~is_byte_mask(mask[1].bits) THEN Refused(NoInitializer)
  ELSE Found(mask[1].bits)
MaskedBy(mask, address) ==
  IF mask.value = None THEN mask
  ELSE Then(address, LAMBDA unmasked : OneByte(unmasked, mask.value[1]))

RECURSIVE relocation(_, _, _, _)
relocation(table, scope, e, version) ==
  CASE e.node = "Symbol" -> symbol_relocation(table, scope, e.name, version)
    [] e.node = "Parenthesized" -> relocation(table, scope, e.operand, version)
    [] e.node = "Call" ->
         IF e.callee.node = "Symbol" /\ e.callee.name = GenericName
         THEN Then(relocation(table, scope, e.argument, version), ToGeneric)
         ELSE IF e.callee.node # "Literal" THEN Nothing
         ELSE MaskedBy(MaskSays(constantIntegerValue(e.callee), version),
                       relocation(table, scope, e.argument, version))
    [] e.node = "Binary" ->
         IF e.operation \notin {"+", "-"} THEN Nothing
         ELSE Sum(e.operation, relocation(table, scope, e.left, version),
                  constantIntegerValue(e.left), relocation(table, scope, e.right, version),
                  constantIntegerValue(e.right))
    [] OTHER -> Nothing

(* One element: a constant if it is one, else an address that its type holds *)
HeldBy(address, type) ==
  IF address.value = None THEN Saying(address.said, Refused(NoInitializer))
  ELSE IF \/ type \in {".u32", ".u64"}
          \/ type = ".u8" /\ address.value[1].mask # None
  THEN address ELSE Saying(address.said, Refused(NoInitializer))
initializer_value(table, scope, e, type, version) ==
  OrElse(OrElse(integer_constant(e, type, version), floating_constant(e, type)),
         HeldBy(relocation(table, scope, e, version), type))

-----------------------------------------------------------------------------
(* Initializers of arrays and vectors, element after element *)

(* Goes on with the next of a list while all before it have succeeded *)
Joined(result, element) ==
  [value |-> IF element.value = None THEN None ELSE Some(result.value[1] \o element.value[1]),
   said |-> result.said \o element.said]
InOrder(elements, Resolved(_)) ==
  FoldLeft(LAMBDA result, i : IF result.value = None THEN result ELSE Joined(result, Resolved(i)),
           Found(<<>>), [i \in DOMAIN elements |-> i])

(* Scalars in one element of an aggregate *)
scalar_stride_of_whole(shape) == Product(1, shape)
scalar_stride(shape) == Product(1, Tail(shape))

(* index counts the scalars before this part, shape is that of the part *)
RECURSIVE flatten_initializer(_, _, _, _, _, _, _)
flatten_initializer(table, scope, initializer, shape, index, type, version) ==
  CASE shape = <<>> ->
         IF initializer.form # "Value" THEN Refused(NoInitializer)
         ELSE IF index * scalar_size_of(type) >= Word THEN Refused(Overflows)
         ELSE Then(initializer_value(table, scope, initializer.value, type, version),
                   LAMBDA value :
                     Found(<<[byte_offset |-> index * scalar_size_of(type), value |-> value]>>))
    [] shape # <<>> /\ initializer.form # "List" -> Refused(NoInitializer)
    [] OTHER ->
         IF ~Fits(1, Tail(shape)) THEN Refused(Overflows)
         ELSE IF Len(initializer.elements) > shape[1] THEN Refused(NoInitializer)
         ELSE InOrder(initializer.elements, LAMBDA i :
                IF index + (i - 1) * scalar_stride(shape) >= Word THEN Refused(Overflows)
                ELSE flatten_initializer(table, scope, initializer.elements[i], Tail(shape),
                                         index + (i - 1) * scalar_stride(shape), type, version))

-----------------------------------------------------------------------------
(* Opaque objects *)

AddressModes == {<<"addr_mode_0">>, <<"addr_mode_1">>, <<"addr_mode_2">>}
Channels == {<<"channel_data_type">>, <<"channel_order">>}
Truths == {<<"normalized_coords">>, <<"force_unnormalized_coords">>, <<"memory_layout">>}
Counts == {<<"width">>, <<"height">>, <<"depth">>, <<"array_size">>, <<"num_mipmap_levels">>,
           <<"num_samples">>}
opaque_static_field == AddressModes \cup Channels \cup Truths \cup Counts \cup {<<"filter_mode">>}

(* Enumerants of a field, in the order of their codes from the first one *)
Enumerants(field) ==
  CASE field = <<"filter_mode">> -> [first |-> 0, names |-> <<"nearest", "linear">>]
    [] field \in AddressModes ->
         [first |-> 0,
          names |-> <<"wrap", "mirror", "clamp_ogl", "clamp_to_edge", "clamp_to_border">>]
    [] field = <<"channel_data_type">> ->
         [first |-> 4304,
          names |-> <<"CL_SNORM_INT8", "CL_SNORM_INT16", "CL_UNORM_INT8", "CL_UNORM_INT16",
                      "CL_UNORM_SHORT_565", "CL_UNORM_SHORT_555", "CL_UNORM_INT_101010",
                      "CL_SIGNED_INT8", "CL_SIGNED_INT16", "CL_SIGNED_INT32",
                      "CL_UNSIGNED_INT8", "CL_UNSIGNED_INT16", "CL_UNSIGNED_INT32",
                      "CL_HALF_FLOAT", "CL_FLOAT">>]
    [] field = <<"channel_order">> ->
         [first |-> 4272,
          names |-> <<"CL_R", "CL_A", "CL_RG", "CL_RA", "CL_RGB", "CL_RGBA", "CL_BGRA", "CL_ARGB",
                      "CL_INTENSITY", "CL_LUMINANCE">>]
    [] OTHER -> [first |-> 0, names |-> <<>>]

opaque_static_field_accepts(field, type) ==
  CASE type = ".samplerref" ->
         field \in AddressModes \cup {<<"force_unnormalized_coords">>, <<"filter_mode">>}
    [] type = ".surfref" ->
         field \in Channels \cup {<<"width">>, <<"height">>, <<"depth">>, <<"array_size">>,
                                  <<"memory_layout">>}
    [] type = ".texref" ->
         field \in opaque_static_field \ {<<"force_unnormalized_coords">>, <<"memory_layout">>}

(* The code of an enumerant, written by name or by number; the number of any *)
(* other field                                                               *)
NamedCode(codes, e) ==
  IF e.node = "Symbol"
  THEN Earliest({i \in DOMAIN codes.names : e.name = <<codes.names[i]>>}) ELSE NoSymbol
EnumerantCode(codes, named, integer) ==
  IF named # NoSymbol THEN Some(codes.first + named - 1)
  ELSE IF integer = None \/ integer[1].bits - codes.first \notin 0 .. Len(codes.names) - 1 THEN None
  ELSE Some(integer[1].bits)
NumberCode(field, integer) ==
  IF \/ integer = None
     \/ ~integer[1].unsigned /\ asSigned(integer[1]) < 0
     \/ field \in Truths /\ integer[1].bits > 1
  THEN None ELSE Some(integer[1].bits)
CodeOf(field, codes, e, integer) ==
  IF codes.names = <<>> THEN NumberCode(field, integer)
  ELSE EnumerantCode(codes, NamedCode(codes, e), integer)
MemberValue(field, e) == CodeOf(field, Enumerants(field), e, constantIntegerValue(e))

MembersIn(elements, type, values) ==
  IF /\ elements # <<>>
     /\ \A i \in DOMAIN elements :
          /\ elements[i].form = "Named"
          /\ elements[i].name \in opaque_static_field
          /\ opaque_static_field_accepts(elements[i].name, type)
          /\ \A j \in 1 .. i - 1 : elements[j].name # elements[i].name
          /\ values[i] # None
  THEN Found([i \in DOMAIN elements |-> [field |-> elements[i].name, value |-> values[i][1]]])
  ELSE Refused(NoInitializer)
opaque_static_members(initializer, type) ==
  IF initializer.form # "List" THEN Refused(NoInitializer)
  ELSE MembersIn(initializer.elements, type,
                 [i \in DOMAIN initializer.elements |->
                    MemberValue(initializer.elements[i].name, initializer.elements[i].value)])

RECURSIVE collect_opaque_static_objects(_, _, _, _)
collect_opaque_static_objects(initializer, extents, indices, type) ==
  IF extents = <<>>
  THEN Then(opaque_static_members(initializer, type),
            LAMBDA members : Found(<<[indices |-> indices, members |-> members]>>))
  ELSE IF \/ initializer.form # "List" \/ extents[1] = None
          \/ Len(initializer.elements) > extents[1][1]
  THEN Refused(NoInitializer)
  ELSE InOrder(initializer.elements, LAMBDA i :
         collect_opaque_static_objects(initializer.elements[i], Tail(extents),
                                       Append(indices, i - 1), type))

-----------------------------------------------------------------------------
(* resolve_declarator() *)

declaration_linkage(qualifiers) == declarationLinkage(qualifiers)

inferred_outer_extent(initializer) ==
  IF initializer # None /\ initializer[1].form = "List" THEN Some(Len(initializer[1].elements))
  ELSE None

ExtentOf(dimension, outer, inferred, external) ==
  CASE dimension = None /\ outer /\ (inferred # None \/ external) -> Found(<<inferred>>)
    [] dimension # None /\ IsExtent(dimension[1]) -> Found(<<constantArrayExtent(dimension[1])>>)
    [] OTHER -> Refused(NoDeclaration)
Extents(variable, declarator) ==
  InOrder(declarator.dimensions, LAMBDA i :
    ExtentOf(declarator.dimensions[i], i = 1, inferred_outer_extent(declarator.initializer),
             declaration_linkage(variable.qualifiers) = ".extern"))

StorageType(variable) == IF variable.legacy_texture THEN ".texref" ELSE variable.type
LaneBytes(variable) == scalar_size_of(StorageType(variable)) * Lanes(variable.vector)

(* Whether a type may be stored at this place at all *)
Storable(variable, scope) ==
  IF isOpaqueObjectType(StorageType(variable))
  THEN scope = <<>> /\ variable.space = "Global" /\ variable.vector = None
  ELSE parameterScalarType(StorageType(variable)) # None /\ LaneBytes(variable) <= 16

Initialization(variable, external) ==
  IF external THEN "External"
  ELSE IF ~isOpaqueObjectType(StorageType(variable)) /\ variable.space \in {"Global", "Constant"}
  THEN "Zero" ELSE "Uninitialized"

LastOf(found) == IF found = <<>> THEN None ELSE Some(Last(found))
Attribute(variable, kind) == LastOf(SelectSeq(variable.attributes, LAMBDA a : a.kind = kind))

ValuesOf(attribute) == IF attribute = None THEN None ELSE Some(attribute[1].values)

KnownExtents(extents) == FlattenSeq(extents)

declaration_symbol(table, scope, declarator) ==
  CHOOSE i \in DOMAIN table.symbols :
    /\ table.symbols[i].scope = scope /\ table.symbols[i].name = declarator.name
    /\ (table.symbols[i].count = None) = (declarator.count = None)

AllKnown(extents) == \A i \in DOMAIN extents : extents[i] # None

StorageRecord(symbol, n, variable, declarator, type, linkage, extents) ==
  [symbol |-> symbol, at |-> n.at, scope |-> n.scope, owner |-> n.function,
   space |-> variable.space, type |-> type, lanes |-> Lanes(variable.vector), extents |-> extents,
   byte_extent |-> IF ~isOpaqueObjectType(type) /\ AllKnown(extents)
                   THEN Some(Product(LaneBytes(variable), KnownExtents(extents))) ELSE None,
   alignment |-> IF variable.alignment # None THEN Some(variable.alignment[1].value)
                 ELSE IF isOpaqueObjectType(type) THEN None ELSE Some(LaneBytes(variable)),
   explicit_alignment |-> IF variable.alignment = None THEN None
                          ELSE Some(variable.alignment[1].value),
   count |-> parameterizedCount(declarator.count), legacy_texture |-> variable.legacy_texture,
   declaration_kind |-> IF linkage = ".extern" THEN "External" ELSE "Definition",
   linkage |-> linkage,
   is_dynamic_shared |-> linkage = ".extern" /\ variable.space = "Shared"
                         /\ extents # <<>> /\ extents[1] = None,
   is_managed |-> Attribute(variable, "Managed") # None,
   unified_id |-> ValuesOf(Attribute(variable, "Unified")),
   initialization |-> Initialization(variable, linkage = ".extern"),
   initializer |-> <<>>, objects |-> <<>>]

WithInitializer(table, n, initializer, record, version) ==
  CASE isOpaqueObjectType(record.type) ->
         IF record.linkage = ".extern" THEN Refused(NoInitializer)
         ELSE Then(collect_opaque_static_objects(initializer, record.extents, <<>>, record.type),
                   LAMBDA objects : Found([record EXCEPT !.initialization = "OpaqueStatic",
                                                         !.objects = objects]))
    [] OTHER ->
         IF ~AllKnown(record.extents) THEN Refused(NoInitializer)
         ELSE Then(flatten_initializer(table, n.scope, initializer,
                                       KnownExtents(record.extents)
                                       \o (IF record.lanes > 1 THEN <<record.lanes>> ELSE <<>>),
                                       0, record.type, version),
                   LAMBDA elements : Found([record EXCEPT !.initialization = "Explicit",
                                                          !.initializer = elements]))

resolve_attributes(variable) ==
  \A i \in DOMAIN variable.attributes :
    variable.attributes[i].kind = "Unified" =>
      /\ Len(variable.attributes[i].values) = 2
      /\ \A k \in 1 .. 2 : parseIntegerMagnitude(variable.attributes[i].values[k]) # None

Initialized(table, n, declarator, record, version) ==
  IF declarator.initializer = None THEN Found(record)
  ELSE WithInitializer(table, n, declarator.initializer[1], record, version)
LaidOut(table, n, declarator, extents, version) ==
  IF /\ ~isOpaqueObjectType(StorageType(n.node))
     /\ ~Fits(LaneBytes(n.node), KnownExtents(extents))
  THEN Refused(Overflows)
  ELSE Initialized(table, n, declarator,
                   StorageRecord(declaration_symbol(table, n.scope, declarator), n, n.node,
                                 declarator, StorageType(n.node), declaration_linkage(n.node.qualifiers),
                                 extents), version)

Written(variable) ==
  /\ resolve_attributes(variable)
  /\ variable.alignment = None \/ parseIntegerMagnitude(variable.alignment[1]) # None
OfKnownExtents(table, n, declarator, extents, version) ==
  IF extents.value = None THEN extents
  ELSE IF ~Written(n.node) THEN Refused(NoDeclaration)
  ELSE Saying(extents.said, LaidOut(table, n, declarator, extents.value[1], version))
resolve_declarator(table, n, declarator, version) ==
  IF ~Storable(n.node, n.scope) THEN Refused(NoDeclaration)
  ELSE OfKnownExtents(table, n, declarator, Extents(n.node, declarator), version)

(* Every declaration is tried; any diagnostic refuses them all *)
AllOrNone(results, said) ==
  [value |-> IF said = <<>> THEN Some([i \in DOMAIN results |-> results[i].value[1]]) ELSE None,
   said |-> said]
OfResults(results) == AllOrNone(results, Each(results, LAMBDA result : result.said))
OfVariable(table, n, version) ==
  [k \in DOMAIN n.node.declarators |->
     resolve_declarator(table, [n EXCEPT !.at = Append(@, k)], n.node.declarators[k], version)]
resolve_storage_declarations(module, table) ==
  OfResults(Each(SelectSeq(Kind(table.nodes, "Variable"),
                           LAMBDA n : storage_space(n.node.space)),
                 LAMBDA n : OfVariable(table, n, module_version(module))))
=============================================================================
