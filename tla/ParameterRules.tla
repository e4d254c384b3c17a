--------------------------- MODULE ParameterRules ---------------------------
(***************************************************************************)
(* The checks of formal parameters and of .param variables of bodies in     *)
(* ptx_declaration_semantics.cpp of submod/semantic.                        *)
(***************************************************************************)
EXTENDS ModuleTree

Unsupported == "UnsupportedParameterDeclaration"


AtLeast(known, required) == known # None /\ known[1] >= required

(* The default ABI of PTX 2.0 on sm_20 *)
Modern(version, sm) == AtLeast(version, 20) /\ AtLeast(sm, 20)

requireParameterAvailability(version, sm, required_version, required_sm) ==
  When(Below(version, required_version), Unsupported) \o When(Below(sm, required_sm), Unsupported)

checkIdentifier(name) == When(~isIdentifier(name), "InvalidIdentifier")
checkAlignment(alignment) ==
  When(alignment # None /\ ~isValidAlignment(alignment[1]), "InvalidAlignment")
IsExtent(e) == constantArrayExtent(e) \notin {None, <<0>>}
checkDimension(e) == LiteralDiagnostics(e) \o When(~IsExtent(e), "InvalidArrayDimension")

(* Bytes of a parameter, if its extents are known and they fit in a word *)
ByteProduct(bytes, extents) ==
  IF \/ bytes = 0 \/ \E i \in DOMAIN extents : extents[i] \in {None, <<0>>}
     \/ ~Fits(bytes, FlattenSeq(extents)) THEN None
  ELSE Some(Product(bytes, FlattenSeq(extents)))
parameterByteExtent(type, lanes, dimensions) ==
  ByteProduct(scalar_size_of(type) * lanes,
              [i \in DOMAIN dimensions |->
                 IF dimensions[i] = None THEN None ELSE constantArrayExtent(dimensions[i][1])])

-----------------------------------------------------------------------------
(* checkHeaderParameter() *)

Roles == {"EntryInput", "DeviceInput", "DeviceReturn", "CallPrototypeInput", "CallPrototypeReturn"}
OfPrototype(role) == role \in {"CallPrototypeInput", "CallPrototypeReturn"}
permitsRegisterParameter(role) == role \in Roles \ {"EntryInput"}
permitsUnsizedInput(role) == role \in {"DeviceInput", "CallPrototypeInput"}

PointerTypes == {".b32", ".b64", ".s32", ".s64", ".u32", ".u64"}

IsArray(parameter) == parameter.dimensions # <<>>
IsUnsized(parameter) == IsArray(parameter) /\ parameter.dimensions[1] = None
IsRegister(parameter) == parameter.space = "Register"
IsParameter(parameter) == parameter.space = "Parameter"

VectorUnsupported(parameter) ==
  /\ parameter.vector # None
  /\ \/ IsRegister(parameter) /\ IsArray(parameter)
     \/ parameter.is_pointer
     \/ parameterVectorShape(parameter.vector) = "Invalid"
     \/ parameterScalarType(parameter.type) = None
     \/ scalar_size_of(parameter.type) * Lanes(parameter.vector) > 16

OpaqueParameter(parameter, role, version, sm) ==
  When(~parameter_array_extent(parameterContract(parameter).extents).valid,
       "InvalidArrayDimension")
  \o (CASE role # "EntryInput" \/ ~IsParameter(parameter) \/ parameter.is_pointer
           \/ parameter.pointer_alignment # None -> <<Unsupported>>
        [] OTHER -> IF IsUnsized(parameter) THEN <<"UnsizedArrayDimension">>
                    ELSE requireParameterAvailability(version, sm, 15, 0))

PointerParameter(parameter, role, version, sm) ==
  IF ~parameter.is_pointer THEN <<>>
  ELSE IF /\ role = "EntryInput" /\ IsParameter(parameter) /\ ~IsArray(parameter)
          /\ parameter.type \in PointerTypes
       THEN requireParameterAvailability(version, sm, 22, 0)
       ELSE <<Unsupported>>

(* Known inner axes must fit in a word even where the outer one is open *)
ArrayParameter(parameter) ==
  LET known == IF IsUnsized(parameter) THEN Tail(parameter.dimensions) ELSE parameter.dimensions
  IN IF ~IsArray(parameter) \/ parameterScalarType(parameter.type) = None THEN <<>>
     ELSE When(IF parameter_array_extent(parameterContract(parameter).extents).valid
               THEN parameterByteExtent(parameter.type, Lanes(parameter.vector), known) = None
               ELSE \A i \in DOMAIN parameter.dimensions :
                      parameter.dimensions[i] # None => IsExtent(parameter.dimensions[i][1]),
               "StorageExtentOverflow")

ScalarParameter(parameter, role, is_final, version, sm) ==
  LET bytes == scalar_size_of(parameter.type) * Lanes(parameter.vector)
      narrow == IsRegister(parameter) /\ ~IsArray(parameter) /\ Modern(version, sm) /\ bytes < 4
      open == permitsUnsizedInput(role) /\ is_final /\ parameter.type = ".b8"
              /\ parameter.vector = None
  IN When(narrow, Unsupported)
     \o (IF IsArray(parameter) /\ ~IsParameter(parameter)
         THEN <<IF OfPrototype(role) THEN "InvalidCallPrototype" ELSE Unsupported>>
         ELSE IF IsUnsized(parameter) /\ ~open THEN <<"UnsizedArrayDimension">>
         ELSE (IF IsUnsized(parameter) THEN requireParameterAvailability(version, sm, 60, 30)
               ELSE <<>>)
              \o (IF IsParameter(parameter) /\ role \in {"DeviceInput", "DeviceReturn"}
                  THEN requireParameterAvailability(version, sm, 20, 20) ELSE <<>>)
              \o PointerParameter(parameter, role, version, sm)
              \o ArrayParameter(parameter))

checkHeaderParameter(parameter, role, is_final, version, sm) ==
  LET misplaced == ~IsParameter(parameter)
                   /\ ~(IsRegister(parameter) /\ permitsRegisterParameter(role))
      untyped == /\ parameterScalarType(parameter.type) = None
                 /\ ~(parameter.type = ".pred" /\ IsRegister(parameter))
  IN (IF parameter.name = <<"_">> /\ OfPrototype(role) THEN <<>> ELSE checkIdentifier(parameter.name))
     \o checkAlignment(parameter.alignment) \o checkAlignment(parameter.pointer_alignment)
     \o FlattenSeq([axis \in DOMAIN parameter.dimensions |->
                      IF parameter.dimensions[axis] # None
                      THEN checkDimension(parameter.dimensions[axis][1])
                      ELSE When(axis # 1, "UnsizedArrayDimension")])
     \o (IF misplaced \/ VectorUnsupported(parameter) THEN <<Unsupported>>
         ELSE IF isOpaqueObjectType(parameter.type)
              THEN OpaqueParameter(parameter, role, version, sm)
         ELSE IF untyped THEN <<Unsupported>>
         ELSE ScalarParameter(parameter, role, is_final, version, sm))

HeaderParameters(parameters, role, version, sm) ==
  FlattenSeq([i \in DOMAIN parameters |->
                checkHeaderParameter(parameters[i], role, i = Len(parameters), version, sm)])

-----------------------------------------------------------------------------
(* checkEntryParameterSize() *)

EntryLimit(version) == IF version < 15 THEN 256 ELSE IF version < 81 THEN 4352 ELSE 32764

RoundedUp(total, alignment) == ((total + alignment - 1) \div alignment) * alignment

(* The offset after a parameter, negative once the size cannot be told *)
Unsized == -1
Overflowed == -2
AfterBytes(total, alignment, bytes) ==
  IF bytes = None THEN Unsized
  ELSE IF total > Word - alignment \/ RoundedUp(total, alignment) >= Word - bytes[1] THEN Overflowed
  ELSE RoundedUp(total, alignment) + bytes[1]
AfterParameter(total, parameter) ==
  CASE total < 0 -> total
    [] total >= 0 /\ ~IsParameter(parameter) -> Unsized
    [] OTHER ->
         IF isOpaqueObjectType(parameter.type) THEN total
         ELSE IF \/ parameterScalarType(parameter.type) = None
                 \/ parameter.alignment # None /\ ~isValidAlignment(parameter.alignment[1])
              THEN Unsized
         ELSE AfterBytes(total,
                         IF parameter.alignment = None
                         THEN scalar_size_of(parameter.type) * Lanes(parameter.vector)
                         ELSE parameter.alignment[1].value,
                         parameterByteExtent(parameter.type, Lanes(parameter.vector),
                                             parameter.dimensions))

EntryBytes(parameters) == FoldLeft(AfterParameter, 0, parameters)

EntrySize(total, limit) ==
  When(total = Overflowed, "StorageExtentOverflow") \o When(total > limit, Unsupported)
checkEntryParameterSize(parameters, version) ==
  IF version = None THEN <<>> ELSE EntrySize(EntryBytes(parameters), EntryLimit(version[1]))

checkFunctionParameters(function, version, sm) ==
  IF function.is_entry
  THEN When(function.returns # <<>>, Unsupported)
       \o HeaderParameters(function.parameters, "EntryInput", version, sm)
       \o (IF function.parameters = <<>> THEN <<>>
           ELSE requireParameterAvailability(version, sm, 14, 0)
                \o checkEntryParameterSize(function.parameters, version))
  ELSE When(Len(function.returns) > 1 /\ Modern(version, sm), Unsupported)
       \o HeaderParameters(function.returns, "DeviceReturn", version, sm)
       \o HeaderParameters(function.parameters, "DeviceInput", version, sm)

checkCallPrototype(prototype, version, sm) ==
  requireParameterAvailability(version, sm, 21, 20)
  \o When(prototype.is_noreturn /\ prototype.returns # <<>>, "InvalidCallPrototype")
  \o When(Len(prototype.returns) > 1 /\ Modern(version, sm), Unsupported)
  \o HeaderParameters(prototype.returns, "CallPrototypeReturn", version, sm)
  \o HeaderParameters(prototype.parameters, "CallPrototypeInput", version, sm)

-----------------------------------------------------------------------------
(* .param variables of a body *)

(* The first axis that ends the count of bytes decides what is said of it *)
KnownUpTo(extents, n) == \A i \in 1 .. n : extents[i] \notin {None, <<0>>}
EndingAxes(bytes, extents) ==
  {n \in DOMAIN extents :
     KnownUpTo(extents, n) => ~Fits(bytes, FlattenSeq(SubSeq(extents, 1, n)))}
AtAxis(declarator, legacy, extents, axis) ==
  IF axis = NoSymbol THEN <<>>
  ELSE IF declarator.dimensions[axis] = None
       THEN When(legacy \/ declarator.initializer # None, "UnsizedArrayDimension")
       ELSE When(KnownUpTo(extents, axis), "StorageExtentOverflow")
OfExtents(declarator, legacy, bytes, extents) ==
  AtAxis(declarator, legacy, extents, Earliest(EndingAxes(bytes, extents)))
BodyParameterAxes(variable, declarator, legacy) ==
  OfExtents(declarator, legacy, scalar_size_of(variable.type) * Lanes(variable.vector),
            [n \in DOMAIN declarator.dimensions |->
               IF declarator.dimensions[n] = None THEN None
               ELSE constantArrayExtent(declarator.dimensions[n][1])])

checkBodyParameterDeclaration(variable, version, sm, is_entry) ==
  LET legacy == is_entry /\ Below(version, 14)
      placed == CASE is_entry /\ AtLeast(version, 14) /\ Below(version, 20) -> <<Unsupported>>
                  [] legacy -> requireParameterAvailability(version, None, 10, 0)
                  [] OTHER -> IF ~is_entry \/ version # None
                              THEN requireParameterAvailability(version, sm, 20, 20) ELSE <<>>
      shape == parameterVectorShape(variable.vector)
  IN placed
     \o (IF \/ isOpaqueObjectType(variable.type) \/ parameterScalarType(variable.type) = None
            \/ shape = "Invalid" \/ scalar_size_of(variable.type) * Lanes(variable.vector) > 16
         THEN <<Unsupported>>
         ELSE Each(variable.declarators, LAMBDA declarator :
                     When(declarator.initializer # None, Unsupported)
                     \o BodyParameterAxes(variable, declarator, legacy)))
=============================================================================
