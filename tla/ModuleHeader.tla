---------------------------- MODULE ModuleHeader ----------------------------
(***************************************************************************)
(* What the directives .version, .target and .address_size make of a        *)
(* module: the version and the target by which the rules of declarations    *)
(* check (submod/semantic/src/ptx_declaration_semantics.cpp), and the       *)
(* header of regions that functions and aliases belong to                   *)
(* (resolve_module_header() of submod/resolved_ir).  A module is the        *)
(* sequence of its items; a region begins at a .target.                     *)
(***************************************************************************)
EXTENDS PtxBase

DirectivesUpTo(module, i, kind) == {j \in 1 .. i : module[j].kind = kind}

modulePtxVersion(module) ==
  LET versions == DirectivesUpTo(module, Len(module), "Version")
  IN IF versions = {} THEN None ELSE module[Min(versions)].value

ArchitectureOf(profile) == IF profile = None THEN None ELSE Some(profile[1].architecture)
targetSmVersion(directive) ==
  IF directive.targets = <<>> THEN None
  ELSE ArchitectureOf(find_target_profile(directive.targets[1]))

(* The target directive in force at item i; one that is unknown clears it *)
ActiveTarget(module, i) ==
  LET targets == DirectivesUpTo(module, i, "Target")
  IN IF targets = {} THEN None ELSE targetSmVersion(module[Max(targets)])

RegionAt(ast, i) == 1 + Cardinality(DirectivesUpTo(ast, i, "Target"))

-----------------------------------------------------------------------------
(* The header: resolve_module_header() *)

module_header_order(ast) ==
  [i \in DOMAIN ast |->
     [kind |-> IF ast[i].kind \in {"Version", "Target", "AddressSize"} THEN ast[i].kind
               ELSE "Other",
      at |-> <<i>>]]

Unified == <<"texmode_unified">>
Independent == <<"texmode_independent">>
MapF64ToF32 == <<"map_f64_to_f32">>
TextureModes == {Unified, Independent}
ModesOf(targets) == Each(targets, LAMBDA t : When(t \in TextureModes, t))

EmptyHeader ==
  [version |-> None, address_size |-> 32, explicit_size |-> FALSE, texture_mode |-> None,
   invalid |-> 0, regions |-> <<[targets |-> <<>>]>>]

OfVersionLast(h, directive) ==
  IF directive.value = None THEN [h EXCEPT !.invalid = @ + 1]
  ELSE [h EXCEPT !.version = directive.value]
OfVersion(h, directive) ==
  IF directive.value = None \/ h.version # None THEN [h EXCEPT !.invalid = @ + 1]
  ELSE [h EXCEPT !.version = directive.value]

address_size_bits(text) ==
  IF text.form = "dec" /\ text.value \in {32, 64} THEN Some(text.value) ELSE None

WithAddressSize(h, size) ==
  IF size = None \/ h.explicit_size THEN [h EXCEPT !.invalid = @ + 1]
  ELSE [h EXCEPT !.address_size = size[1], !.explicit_size = TRUE]
OfAddressSize(h, directive) == WithAddressSize(h, address_size_bits(directive.bits))

(* The last mode of a directive counts, unless an earlier directive differs *)
WithMode(h, modes) ==
  IF modes = <<>> THEN h
  ELSE IF h.texture_mode \in {None, Some(Last(modes))}
  THEN [h EXCEPT !.invalid = @ + Len(modes) - 1, !.texture_mode = Some(Last(modes))]
  ELSE [h EXCEPT !.invalid = @ + Len(modes)]
WithTargets(h, targets) ==
  [h EXCEPT !.invalid = IF targets = <<>> THEN @ + 1 ELSE @,
            !.regions = Append(@, [targets |-> targets])]
OfTarget(h, directive) ==
  WithMode(WithTargets(h, directive.targets), ModesOf(directive.targets))

OfItem(h, item) ==
  CASE item.kind = "Version" -> OfVersion(h, item)
    [] item.kind = "AddressSize" -> OfAddressSize(h, item)
    [] item.kind = "Target" -> OfTarget(h, item)
    [] OTHER -> h
AfterItems(ast) ==
  LET after[i \in 0 .. Len(ast)] == IF i = 0 THEN EmptyHeader ELSE OfItem(after[i - 1], ast[i])
  IN after[Len(ast)]

(* What a region says, and whether the source says it *)
FromSource(known) == IF known THEN "Explicit" ELSE "Missing"
SourceRegion(h, targets) ==
  [version |-> h.version, targets |-> targets,
   texture_mode |-> IF h.texture_mode = None THEN Unified ELSE h.texture_mode[1],
   maps |-> Contains(targets, MapF64ToF32), address_size |-> h.address_size,
   version_from |-> FromSource(h.version # None), targets_from |-> FromSource(targets # <<>>),
   address_from |-> IF h.explicit_size THEN "Explicit" ELSE "Defaulted"]

(* Every region gets the configuration as it is in the end *)
Configured(h, ast) ==
  [invalid |-> h.invalid, source_order |-> module_header_order(ast),
   regions |-> [i \in DOMAIN h.regions |-> SourceRegion(h, h.regions[i].targets)]]
resolve_module_header(ast) == Configured(AfterItems(ast), ast)
=============================================================================
