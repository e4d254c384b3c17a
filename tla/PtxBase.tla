------------------------------ MODULE PtxBase ------------------------------
(***************************************************************************)
(* The vocabulary of submod/base: identifiers, integer spellings, scalar    *)
(* types and their compatibility, opaque types, and the catalog of targets; *)
(* and what stands before what in the source, as submod/binding records it. *)
(*                                                                         *)
(* A name is a sequence of characters.  An integer spelling is the number   *)
(* it writes and the form in which it is written.  An optional value is a   *)
(* sequence of length 0 or 1.  A version 7.8 is the number 78.              *)
(***************************************************************************)
EXTENDS Integers, Sequences, SequencesExt

CONSTANT Width   \* bits of an integer value: 64 in the code

ASSUME WidthAssumption == Width \in Nat \ {0}

None == <<>>
Some(value) == <<value>>
Word == 2 ^ Width
Wrapped(n) == n % Word
HalfWord == 2 ^ (Width \div 2)   \* of a uint32_t field
GenericName == <<"g", "e", "n", "e", "r", "i", "c">>

Letters == {"a", "b", "c", "d", "e", "f", "g", "h", "k", "m", "p", "r", "t", "v", "x",
            "A", "F", "L", "T"}
Digits == <<"0", "1", "2", "3", "4", "5", "6", "7", "8", "9">>
DigitCharacters == {Digits[i] : i \in DOMAIN Digits}
DigitValue(character) == CHOOSE i \in 0 .. 9 : Digits[i + 1] = character

isIdentifier(text) ==
  /\ text # <<>>
  /\ text[1] \in Letters \/ (text[1] \in {"_", "$", "%"} /\ Len(text) > 1)
  /\ \A i \in 2 .. Len(text) : text[i] \in Letters \cup DigitCharacters \cup {"_", "$"}

parseIntegerMagnitude(text) == IF text.value < Word THEN Some(text.value) ELSE None

-----------------------------------------------------------------------------
(* Scalar types *)

(* spelling, kind, bytes; those that only instructions use come last *)
FundamentalRows ==
  {<<".u8", "Unsigned", 1>>, <<".u16", "Unsigned", 2>>, <<".u32", "Unsigned", 4>>,
   <<".u64", "Unsigned", 8>>, <<".s8", "Signed", 1>>, <<".s16", "Signed", 2>>,
   <<".s32", "Signed", 4>>, <<".s64", "Signed", 8>>, <<".b8", "Bit", 1>>, <<".b16", "Bit", 2>>,
   <<".b32", "Bit", 4>>, <<".b64", "Bit", 8>>, <<".b128", "Bit", 16>>, <<".f16", "Float", 2>>,
   <<".f16x2", "Float", 4>>, <<".f32", "Float", 4>>, <<".f64", "Float", 8>>,
   <<".pred", "Pred", 1>>}
InstructionOnlyRows ==
  {<<".u8x4", "Unsigned", 4>>, <<".u16x2", "Unsigned", 4>>, <<".s8x4", "Signed", 4>>,
   <<".s16x2", "Signed", 4>>, <<".u2", "Unsigned", 1>>, <<".u4", "Unsigned", 1>>,
   <<".s2", "Signed", 1>>, <<".s4", "Signed", 1>>, <<".b1", "Bit", 1>>,
   <<".f32x2", "Float", 8>>, <<".tf32", "Float", 4>>}
  \cup ({".bf16", ".e4m3x2", ".e5m2x2", ".e2m3x2", ".e3m2x2", ".e2m1x4", ".ue8m0x2", ".s2f6x2"}
          \X {"Float"} \X {2})
  \cup ({".bf16x2", ".e4m3x4", ".e5m2x4", ".e2m3x4", ".e3m2x4"} \X {"Float"} \X {4})
  \cup ({".e4m3", ".e5m2", ".e2m1x2", ".e3m2", ".e2m3", ".e2m1", ".ue8m0", ".ue4m3"}
          \X {"Float"} \X {1})

TypeRows == FundamentalRows \cup InstructionOnlyRows
TypeOf(row) == [kind |-> row[2], bytes |-> row[3], fundamental |-> row \in FundamentalRows]
ScalarType ==
  [spelling \in {row[1] : row \in TypeRows} |->
     TypeOf(CHOOSE row \in TypeRows : row[1] = spelling)]

IsScalar(type) == type \in DOMAIN ScalarType
IsFundamental(type) == IsScalar(type) /\ ScalarType[type].fundamental
scalar_kind(type) == IF IsScalar(type) THEN ScalarType[type].kind ELSE "Invalid"
scalar_size_of(type) == IF IsScalar(type) THEN ScalarType[type].bytes ELSE 0

FundamentalIntegers ==
  {".u8", ".u16", ".u32", ".u64", ".s8", ".s16", ".s32", ".s64"}

SizesCompatible(wide, needed, policy) ==
  CASE policy = "Exact" -> FALSE
    [] policy = "WordOrDoubleword" -> needed = 8 /\ wide \in {4, 8}
    [] policy = "EqualOrWider" -> wide >= needed
    [] policy = "SameWidth" -> wide = needed

scalar_types_compatible(actual, instruction, policy) ==
  \/ actual = instruction
  \/ /\ SizesCompatible(scalar_size_of(actual), scalar_size_of(instruction), policy)
     /\ \/ "Bit" \in {scalar_kind(actual), scalar_kind(instruction)}
        \/ {actual, instruction} \subseteq FundamentalIntegers

(* What a declaration of a parameter may be made of *)
parameterScalarType(type) == IF IsFundamental(type) /\ type # ".pred" THEN Some(type) ELSE None

OpaqueTypes == {".texref", ".samplerref", ".surfref"}
isOpaqueObjectType(type) == type \in OpaqueTypes

-----------------------------------------------------------------------------
(* Targets: <<"sm", number, flavor>>, or the word of an option *)

Ordinary ==
  {<<10, 10>>, <<11, 10>>, <<12, 12>>, <<13, 12>>, <<20, 20>>, <<30, 30>>, <<32, 40>>,
   <<35, 31>>, <<37, 41>>, <<50, 40>>, <<52, 41>>, <<53, 42>>, <<60, 50>>, <<61, 50>>,
   <<62, 50>>, <<70, 60>>, <<72, 61>>, <<75, 63>>, <<80, 70>>, <<86, 71>>, <<87, 74>>,
   <<88, 90>>, <<89, 78>>, <<90, 78>>, <<100, 86>>, <<103, 88>>, <<101, 86>>, <<110, 90>>,
   <<120, 87>>, <<121, 88>>}
Specific == {<<90, 80>>, <<100, 86>>, <<103, 88>>, <<101, 86>>, <<110, 90>>, <<120, 87>>, <<121, 88>>}
Family == {<<100, 88>>, <<103, 88>>, <<101, 88>>, <<110, 90>>, <<120, 88>>, <<121, 88>>}

(* <<number, flavor, first version>> *)
Catalog ==
  {<<row[1], "", row[2]>> : row \in Ordinary}
  \cup {<<row[1], "a", row[2]>> : row \in Specific}
  \cup {<<row[1], "f", row[2]>> : row \in Family}

EnabledFamilies(number, flavor) ==
  IF flavor = "" THEN {}
  ELSE CASE number = 100 -> {100}
         [] number = 103 -> {100, 103}
         [] number \in {101, 110} -> {110}
         [] number = 120 -> {120}
         [] number = 121 -> {120, 121}
         [] OTHER -> {}

Capabilities(number) ==
  CASE number < 50 -> {}
    [] number >= 50 /\ number < 80 -> {"graph_exec"}
    [] number >= 80 /\ number < 90 -> {"graph_exec", "reserved_smem"}
    [] number >= 90 -> {"graph_exec", "reserved_smem", "aggregate_smem", "cluster"}

IsArchitecture(target) == target[1] = "sm"

(* A catalog entry; sm_101 goes by the features of sm_110 *)
Profile(row) ==
  [number |-> row[1], flavor |-> row[2], minimum |-> row[3],
   architecture |-> IF row[1] = 101 THEN 110 ELSE row[1],
   families |-> EnabledFamilies(row[1], row[2]), capabilities |-> Capabilities(row[1]),
   maps |-> row[1] \in {10, 11, 12}]

Optional(found) == IF found = {} THEN None ELSE Some(CHOOSE one \in found : TRUE)

find_target_profile(target) ==
  IF ~IsArchitecture(target) THEN None
  ELSE Optional({Profile(row) : row \in {r \in Catalog : r[1] = target[2] /\ r[2] = target[3]}})

classify_target_directive_item(target) ==
  CASE target[1] \in {"texmode_unified", "texmode_independent"} -> "TextureMode"
    [] target[1] = "debug" -> "Debug"
    [] target[1] = "map_f64_to_f32" -> "MapF64ToF32"
    [] IsArchitecture(target) -> "Architecture"
    [] OTHER -> "Invalid"

-----------------------------------------------------------------------------
(* Places and declarations: a place is the path to a node (ModuleTree), and  *)
(* places are ordered as the source is                                       *)

IsStrictlyBefore(p, q) ==
  \/ IsStrictPrefix(p, q)
  \/ \E n \in DOMAIN p \cap DOMAIN q :
       p[n] < q[n] /\ SubSeq(p, 1, n - 1) = SubSeq(q, 1, n - 1)

SameSymbol(left, right) ==
  left.scope = right.scope /\ left.name = right.name /\ (left.count = None) = (right.count = None)

(* Only these kinds have the places of their declarations recorded *)
Recorded == {"Variable", "CallParameter", "Function", "BranchTargets"}

hasAnyDeclaration(table, symbol, use) == table.symbols[symbol].kind \in Recorded
hasPriorDeclaration(table, symbol, use) ==
  /\ table.symbols[symbol].kind \in Recorded
  /\ \E i \in DOMAIN table.declarations :
       /\ SameSymbol(table.declarations[i], table.symbols[symbol])
       /\ IsStrictlyBefore(table.declarations[i].at, use)

-----------------------------------------------------------------------------
(* Diagnostics are sequences of their kinds *)

When(condition, kind) == IF condition THEN <<kind>> ELSE <<>>
Each(sequence, Checked(_)) == FlattenSeq([i \in DOMAIN sequence |-> Checked(sequence[i])])

Nth(sequence, i) == IF i \in DOMAIN sequence THEN Some(sequence[i]) ELSE None
=============================================================================
