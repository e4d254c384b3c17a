---------------------------- MODULE ModuleHolder ----------------------------
(***************************************************************************)
(* The holder of a resolved module: it resolves a source, keeps what it     *)
(* gets, edits it or replaces the source, and validates again, alone and    *)
(* against the source that it then has (ptx_resolved_ir_module.hpp of       *)
(* submod/resolved_ir).                                                     *)
(***************************************************************************)
EXTENDS ResolvedModules, ModuleValidation

CONSTANTS
  Edited,         \* the sources whose resolved modules the holder edits, once
  Replacements    \* what the holder replaces a source with, once, by source

VARIABLES
  owned,      \* None, or the resolved module that is kept
  declared,   \* what binding and the rules of declarations said of the source
  verdict     \* None, or what validateModule() said of `owned` last

holder == <<owned, declared, verdict>>

Init ==
  /\ ResolutionInit
  /\ owned = None /\ declared = <<>> /\ verdict = None

Resolving ==
  /\ Resolve
  /\ declared' = IF phase = "Declarations" THEN diagnostics' ELSE declared
  /\ UNCHANGED <<owned, verdict>>

Current == ResolvedModule(module, table, header, functions, storage, call_tables)
IsCurrent == outcome = "Module" /\ owned = Some(Current)

Keep ==
  /\ outcome = "Module" /\ owned = None
  /\ owned' = Some(Current)
  /\ UNCHANGED <<vars, declared, verdict>>

(* Both policies: what AvailableContext says, and what a complete context adds *)
Supplied(o, associated) ==
  IF associated # {} THEN [says |-> associated, lacks |-> {}]
  ELSE [says |-> SuppliedSays(module, table, o, declared, source_version(module)),
        lacks |-> SourceLacks(module, source_version(module))]
Judged(o) ==
  [supplied |-> Supplied(o, check_source_associations(module, table, o)),
   alone |-> [says |-> OwnedSays(o), lacks |-> OwnedLacks(o)]]
Validate ==
  /\ outcome # "Running" /\ owned # None /\ verdict = None
  /\ verdict' = Some(Judged(owned[1]))
  /\ UNCHANGED <<vars, owned, declared>>

-----------------------------------------------------------------------------
(* Edits of one field, of a function, a record of storage or a table *)

Without(sequence) == {RemoveAt(sequence, i) : i \in DOMAIN sequence}
WithType(record, type) ==
  [field \in DOMAIN record |-> IF field \in {"type", "scalar"} THEN type ELSE record[field]]
Retyped(records) == UNION {{[records EXCEPT ![i] = WithType(@, type)] : type \in {".u32", ".f32"}} :
                             i \in DOMAIN records}
SignatureEdits(signature) ==
  {[signature EXCEPT !.parameters = parameters] :
     parameters \in Without(signature.parameters) \cup Retyped(signature.parameters)}
  \cup {[signature EXCEPT !.returns = returns] :
          returns \in Without(signature.returns) \cup Retyped(signature.returns)}
  \cup {[signature EXCEPT !.is_noreturn = ~@]}
OperandEdits(o, operands) ==
  Without(operands)
  \cup UNION {{[operands EXCEPT ![i].symbol = symbol] : symbol \in DOMAIN o.table.symbols} :
                i \in {i \in DOMAIN operands : operands[i].symbol # NoSymbol}}
BodyEdits(o, body) ==
  Without(body)
  \cup UNION {{[body EXCEPT ![j].operands = operands] :
                 operands \in OperandEdits(o, body[j].operands)} : j \in DOMAIN body}
TargetEdits(o) ==
  {[symbol |-> symbol, canonical_function |-> symbol] :
     symbol \in {s \in DOMAIN o.table.symbols : o.table.symbols[s].kind = "Function"}}
ListEdits(o, list) ==
  {[list EXCEPT !.targets = targets] : targets \in Without(list.targets)}
  \cup {[list EXCEPT !.signature = signature] : signature \in SignatureEdits(list.signature)}
  \cup UNION {{[list EXCEPT !.targets[i] = target @@ list.targets[i]] :
                 target \in TargetEdits(o)} : i \in DOMAIN list.targets}
FunctionEdits(o, f) ==
  {[f EXCEPT !.contract.signature = signature] :
     signature \in SignatureEdits(f.contract.signature)}
  \cup {[f EXCEPT !.body = body] : body \in BodyEdits(o, f.body)}
  \cup {[f EXCEPT !.parameter_declarations = declarations] :
          declarations \in Without(f.parameter_declarations) \cup Retyped(f.parameter_declarations)}
  \cup {[f EXCEPT !.is_entry = ~@], [f EXCEPT !.is_prototype = ~@], [f EXCEPT !.version = None]}
  \cup UNION {{[f EXCEPT !.call_target_sets[i] = list] :
                 list \in ListEdits(o, f.call_target_sets[i])} : i \in DOMAIN f.call_target_sets}
TableEdits(o, t) ==
  {[t EXCEPT !.slots = slots] : slots \in Without(t.slots)}
  \cup {[t EXCEPT !.signature = signature] : signature \in SignatureEdits(t.signature)}
  \cup UNION {{[t EXCEPT !.slots[i] = target @@ t.slots[i]] :
                 target \in TargetEdits(o)} : i \in DOMAIN t.slots}
RecordEdits(r) ==
  {[r EXCEPT !.type = type] : type \in {".u32", ".f32", ".u64"}}
  \cup {[r EXCEPT !.extents = extents] : extents \in Without(r.extents)}
  \cup {[r EXCEPT !.initializer = initializer] : initializer \in Without(r.initializer)}

Edits(o) ==
  UNION {{[o EXCEPT !.functions[i] = f] : f \in FunctionEdits(o, o.functions[i])} :
           i \in DOMAIN o.functions}
  \cup UNION {{[o EXCEPT !.call_tables[i] = t] : t \in TableEdits(o, o.call_tables[i])} :
                i \in DOMAIN o.call_tables}
  \cup UNION {{[o EXCEPT !.storage[i] = r] : r \in RecordEdits(o.storage[i])} :
                i \in DOMAIN o.storage}
  \cup {[o EXCEPT !.functions = functions_left] : functions_left \in Without(o.functions)}
  \cup {[o EXCEPT !.storage = records] : records \in Without(o.storage)}

Edit ==
  /\ module \in Edited /\ IsCurrent
  /\ \E o \in Edits(owned[1]) : o # owned[1] /\ owned' = Some(o)
  /\ verdict' = None
  /\ UNCHANGED <<vars, declared>>

(* Another source for the kept module, and its own resolution beside it *)
Resupply ==
  /\ IsCurrent /\ verdict # None /\ module \in DOMAIN Replacements
  /\ ResolveAgain(Replacements[module])
  /\ declared' = <<>> /\ verdict' = None
  /\ UNCHANGED owned

(* Nothing is left to be asked *)
Rest ==
  /\ outcome # "Running"
  /\ IF owned = None THEN outcome # "Module" ELSE verdict # None
  /\ UNCHANGED <<vars, holder>>

Next == Resolving \/ Keep \/ Validate \/ Edit \/ Resupply \/ Rest

Spec == Init /\ [][Next]_<<vars, holder>>

-----------------------------------------------------------------------------
(* A module that is kept as it was resolved is never said not to fit        *)
(* itself, and whoever validates it alone sees no more than with its        *)
(* source.  Three sources resolve that the validator does not take: an      *)
(* invalid directive of the header, a resource of a kernel that is written  *)
(* twice, and an opaque array with an empty list.                           *)
IsTolerated ==
  \/ header.invalid # 0
  \/ \E i \in DOMAIN module :
       /\ module[i].kind = "Function"
       /\ ~IsInjective([j \in DOMAIN module[i].resources |-> module[i].resources[j].kind])
  \/ \E r \in Range(storage) :
       r.type \in OpaqueTypes /\ r.initialization # "None" /\ r.objects = <<>>
ResolvedIsIntact ==
  IsCurrent /\ verdict # None /\ ~IsTolerated =>
    /\ "ModuleSourceMismatch" \notin verdict[1].alone.says \cup verdict[1].supplied.says
    /\ verdict[1].supplied.says = {} => verdict[1].alone.says = {}

(* What the validator accepts under another source than the one a module    *)
(* was resolved from is what that source resolves to, the values of its     *)
(* initializers aside, and what it accepts of it alone.  Without            *)
(* initializers the source does resolve; with them, RetargetingKeepsRules.  *)
HasOtherSource == owned # None /\ module \notin Edited /\ owned[1] # Current
AcceptedAgain == HasOtherSource /\ verdict # None /\ verdict[1].supplied.says = {}
Uninitialized(records) == [i \in DOMAIN records |-> [records[i] EXCEPT !.initializer = <<>>]]
Unversioned(f) == [f EXCEPT !.version = None, !.target = None]
RetargetingIsSound ==
  AcceptedAgain =>
    /\ Uninitialized(owned[1].storage) = owned[1].storage => outcome = "Module"
    /\ outcome = "Module" =>
         /\ Len(functions) = Len(owned[1].functions)
         /\ \A i \in DOMAIN functions :
              Unversioned(functions[i]) = Unversioned(owned[1].functions[i])
         /\ Uninitialized(storage) = Uninitialized(owned[1].storage)
         /\ OwnedSays(Current) = {}

(* "Retargeting must not bypass version/target-sensitive declaration        *)
(* rules", says validateModule() where it binds the other source (line      *)
(* 5204 of ptx_module_availability.cpp): a source that it accepts resolves. *)
RetargetingKeepsRules == AcceptedAgain => outcome = "Module"

(* The functions that a call of a kept module reaches, as its records say *)
TargetSymbols(o, instruction) ==
  LET lists == {operand.symbol : operand \in Range(InRole(instruction, {"Metadata", "Table"}))}
      Listed(s) == UNION {Range(list.targets) : list \in
                      {list \in UNION {Range(f.call_target_sets) : f \in Range(o.functions)} :
                         list.symbol = s}}
      Filled(s) == UNION {Range(t.slots) : t \in {t \in Range(o.call_tables) : t.symbol = s}}
  IN IF lists = {} THEN {operand.symbol : operand \in Range(InRole(instruction, {"Callee"}))}
     ELSE {target.symbol : target \in UNION {Listed(s) \cup Filled(s) : s \in lists}}
RecordsNamed(o, symbol) ==
  LET meant == {symbol} \cup {alias.canonical_function : alias \in
                               {alias \in Range(o.aliases) : alias.symbol = symbol}}
  IN {f \in Range(o.functions) : {f.symbol, f.contract.canonical_function} \cap meant # {}}
Receives(o, operands, formals) ==
  /\ Len(operands) \in {Len(formals), Len(formals) - 1}
  /\ Len(operands) < Len(formals) => Last(formals).extents = <<None>>
  /\ \A i \in DOMAIN operands :
       operands[i].literal = None =>
         o.table.symbols[operands[i].symbol].type = formals[i].type

(* However a kept module was edited: if the validator accepts it, each of   *)
(* its calls reaches functions that it holds and that take the arguments.   *)
ValidatedCallsFit ==
  verdict # None /\ verdict[1].alone.says = {} =>
    \A f \in Range(owned[1].functions) : \A instruction \in Range(f.body) :
      instruction.opcode = "Call" =>
        \A symbol \in TargetSymbols(owned[1], instruction) :
          /\ RecordsNamed(owned[1], symbol) # {}
          /\ \A g \in RecordsNamed(owned[1], symbol) :
               LET signature == g.contract.signature
               IN /\ ~g.is_entry
                  /\ Receives(owned[1], InRole(instruction, {"Return"}), signature.returns)
                  /\ Receives(owned[1], InRole(instruction, {"Input"}), signature.parameters)
=============================================================================
