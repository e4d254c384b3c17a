--------------------------- MODULE VariableRules ---------------------------
(***************************************************************************)
(* The checks of variables and their initializers in                        *)
(* ptx_declaration_semantics.cpp of submod/semantic.  An initializer is     *)
(* [form |-> "Value", value], [form |-> "Named", name, value] or            *)
(* [form |-> "List", elements].                                             *)
(***************************************************************************)
EXTENDS ParameterRules

UninitializedTypes == {".f16", ".f16x2", ".pred"}

(* A prefix of a type's spelling, as the code tests it *)
IntegerTypes == {type \in DOMAIN ScalarType :
                   \/ ScalarType[type].kind \in {"Unsigned", "Signed", "Bit", "Pred"}
                   \/ type \in {".bf16", ".bf16x2", ".ue8m0", ".ue8m0x2", ".ue4m3", ".s2f6x2"}}
FloatTypes == {type \in DOMAIN ScalarType :
                 ScalarType[type].kind = "Float" /\ type \notin {".ue8m0", ".ue8m0x2", ".ue4m3",
                                                                 ".s2f6x2"}}

initializerTypeAccepts(type, info) ==
  CASE info.category = "Address" -> type \in {".u32", ".u64"}
    [] info.category = "Integer" -> type \in IntegerTypes
    [] info.category = "Floating" ->
         IF scalar_kind(type) = "Bit"
         THEN scalar_types_compatible(type, IF info.single THEN ".f32" ELSE ".f64", "SameWidth")
         ELSE type \in FloatTypes
    [] OTHER -> FALSE

checkRegisterDeclaration(variable) ==
  LET Shape(declarator) == When(declarator.dimensions # <<>>, "InvalidRegisterDeclarationShape")
      vector == variable.vector
  IN IF variable.space # "Register" THEN <<>>
     ELSE Each(variable.declarators, Shape)
          \o (IF ~IsScalar(variable.type) THEN <<"UnknownRegisterDeclarationType">>
              ELSE IF ~IsFundamental(variable.type) THEN <<"UnsupportedRegisterDeclarationType">>
              ELSE When(/\ vector # None
                        /\ \/ vector[1] \notin VectorTypes
                           \/ variable.type = ".pred"
                           \/ scalar_size_of(variable.type) * Lanes(vector) > 16,
                        "InvalidRegisterDeclarationShape"))

(* Symbols of an initializer must be addresses that are known by then *)
InitializerSymbol(table, at, found) ==
  LET symbol == table.symbols[found]
  IN IF found = NoSymbol THEN <<>>
     ELSE IF symbol.kind = "Function"
          THEN When(~hasPriorDeclaration(table, found, at), "FunctionAddressBeforeDeclaration")
          ELSE When(~(/\ symbol.kind = "Variable" /\ symbol.space \in {"Global", "Constant"}
                      /\ ~isOpaqueObjectType(symbol.type)),
                    "InvalidInitializerExpression")

RECURSIVE checkInitializerSymbols(_, _, _, _)
checkInitializerSymbols(table, scope, at, e) ==
  LET generic == e.node = "Call" /\ e.callee.node = "Symbol" /\ e.callee.name = GenericName
  IN IF e.node = "Symbol" THEN InitializerSymbol(table, at, lookup(table, scope, e.name))
     ELSE Each(IF generic THEN <<e.argument>> ELSE Operands(e),
               LAMBDA operand : checkInitializerSymbols(table, scope, at, operand))

checkInitializerType(type, info) ==
  IF info.category = "Invalid" THEN <<"InvalidInitializerExpression">>
  ELSE When(type \notin UninitializedTypes /\ ~initializerTypeAccepts(type, info),
            "InitializerTypeMismatch")
checkScalarInitializer(table, scope, at, e, type) ==
  LiteralDiagnostics(e) \o checkInitializerSymbols(table, scope, at, e)
  \o checkInitializerType(type, Classified(e, TRUE, "none").info)

(* extents are those of the axes that are left; None is one that is open *)
RECURSIVE checkInitializer(_, _, _, _, _, _)
checkInitializer(table, scope, at, initializer, extents, type) ==
  CASE extents = <<>> ->
         IF initializer.form = "Value"
         THEN checkScalarInitializer(table, scope, at, initializer.value, type)
         ELSE <<"InitializerShapeMismatch">>
    [] extents # <<>> /\ initializer.form # "List" -> <<"InitializerShapeMismatch">>
    [] OTHER ->
         When(extents[1] # None /\ Len(initializer.elements) > extents[1][1],
              "ExcessInitializerElements")
         \o Each(initializer.elements, LAMBDA e :
                   checkInitializer(table, scope, at, e, Tail(extents), type))

checkInitialized(table, scope, at, type, initializer, extents) ==
  When(type \in UninitializedTypes, "InitializerTypeMismatch")
  \o When(/\ extents # <<>> /\ extents[1] = None
          /\ initializer.form = "List" /\ initializer.elements = <<>>,
          "InvalidArrayDimension")
  \o checkInitializer(table, scope, at, initializer, extents, type)

PositiveOrOpen(extent) == IF extent = <<0>> THEN None ELSE extent
InitializerAxes(variable, dimensions) ==
  [index \in DOMAIN dimensions |->
     IF dimensions[index] = None THEN None
     ELSE PositiveOrOpen(constantArrayExtent(dimensions[index][1]))]
  \o (IF variable.vector = None THEN <<>> ELSE <<Some(Lanes(variable.vector))>>)

checkDeclarator(table, scope, at, variable, declarator) ==
  LET external == /\ declarationLinkage(variable.qualifiers) = ".extern"
                  /\ variable.space \in {"Global", "Constant", "Shared", "Local"}
      initializer == declarator.initializer
      dimensions == declarator.dimensions
  IN checkIdentifier(declarator.name)
     \o FlattenSeq([index \in DOMAIN dimensions |->
                      IF dimensions[index] # None THEN checkDimension(dimensions[index][1])
                      ELSE When(index # 1 \/ (initializer = None /\ ~external),
                                "UnsizedArrayDimension")])
     \o (IF initializer = None \/ variable.legacy_texture \/ isOpaqueObjectType(variable.type)
         THEN <<>>
         ELSE checkInitialized(table, scope, at, variable.type, initializer[1],
                               InitializerAxes(variable, dimensions)))

checkVariableDeclaration(table, n, version) ==
  LET variable == n.node
      texture == /\ variable.legacy_texture
                 /\ \/ variable.space # "Global"
                    \/ variable.type \notin {".u32", ".u64"} \/ variable.vector # None
      opaque == ~variable.legacy_texture /\ isOpaqueObjectType(variable.type) /\ Below(version, 15)
  IN checkRegisterDeclaration(variable)
     \o When(texture, "UnsupportedStorageDeclaration") \o When(opaque, "UnsupportedStorageDeclaration")
     \o FlattenSeq([k \in DOMAIN variable.declarators |->
                      checkDeclarator(table, n.scope, Append(n.at, k), variable,
                                      variable.declarators[k])])

checkCommonVariable(variable, version, sm, module_scope) ==
  Each(variable.qualifiers, LAMBDA qualifier :
         IF qualifier # ".common" THEN <<>>
         ELSE When(~(/\ module_scope /\ variable.space = "Global" /\ ~variable.legacy_texture
                     /\ parameterScalarType(variable.type) # None),
                   "InvalidLinkage")
              \o When(Below(version, 50), "UnsupportedDirectivePtxVersion")
              \o When(Below(sm, 20), "UnsupportedDirectiveTarget"))

checkModulePlacement(variable, version, sm) ==
  When(AtLeast(version, 30) /\ AtLeast(sm, 20) /\ variable.space \in {"Register", "Local"},
       "InvalidDeclarationPlacement")
=============================================================================
