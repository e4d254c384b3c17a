--------------------------- MODULE FunctionChecks ---------------------------
(***************************************************************************)
(* The checks of resolved functions that the resolution and the validators  *)
(* of submod/resolved_ir share: the visibility of callees                   *)
(* (ptx_call_target_visibility.cpp), and in ptx_call_parameter_transfers.cpp*)
(* the protocol of .param objects (an argument of a call is stored right    *)
(* before it, a result loaded right after) and the sum of the inputs of a   *)
(* kernel of the first versions.                                            *)
(*                                                                         *)
(* A function has parameter_declarations, [symbol, role, byte_extent], and  *)
(* a body of instructions [node, operands]; an operand has its role and the *)
(* symbol that it names.  The value that is loaded or stored is left out.   *)
(***************************************************************************)
EXTENDS PtxBase

(* The nodes of a function, of a table that lists them as they are written *)
InstructionKinds == {"Call", "Load", "Store", "Branch", "Indexed", "Other"}
NodesOf(table, function, kinds) ==
  Each(table.nodes, LAMBDA n : When(n.function = function /\ n.node.kind \in kinds, n))
InstructionsOf(table, function) == NodesOf(table, function, InstructionKinds)

Payload(instruction) == instruction.node.node.kind
InRole(instruction, roles) ==
  Each(instruction.operands, LAMBDA x : When(x.role \in roles, x))

-----------------------------------------------------------------------------
(* Callees: a function is declared before it is called by its name *)

IsDeviceFunction(symbol) == symbol.kind = "Function" /\ ~symbol.is_entry
CalleeSays(table, callee, at) ==
  When(\/ callee.symbol \notin DOMAIN table.symbols
       \/ ~IsDeviceFunction(table.symbols[callee.symbol])
       \/ ~hasPriorDeclaration(table, callee.symbol, at), "InvisibleCallTarget")
check_direct_call_visibility(table, f) ==
  Each(f.body, LAMBDA instruction :
    Each(InRole(instruction, {"Callee"}), LAMBDA callee :
           CalleeSays(table, callee, instruction.node.at)))

-----------------------------------------------------------------------------
(* Transfers of arguments and results *)

(* The first record of a symbol *)
RecordsOf(f, symbol) ==
  {i \in DOMAIN f.parameter_declarations : f.parameter_declarations[i].symbol = symbol}
RecordOf(f, symbol) ==
  IF RecordsOf(f, symbol) = {} THEN None
  ELSE Some(f.parameter_declarations[Min(RecordsOf(f, symbol))])
HasRole(f, symbol, role) == RecordOf(f, symbol) # None /\ RecordOf(f, symbol)[1].role = role

(* The symbol at the base of a load or store, and what the access may not do *)
parameter_address(table, instruction) ==
  Each(instruction.operands, LAMBDA base :
         When(/\ Payload(instruction) \in {"Load", "Store"} /\ base.role = "Base"
              /\ base.address # None /\ base.symbol \in DOMAIN table.symbols, base))
IsEntryInput(f, symbol, index) ==
  f.is_entry /\ (symbol.kind = "InputParameter" \/ HasRole(f, index, "LegacyEntryInput"))
IsLocalObject(f, symbol, index) ==
  symbol.kind = "CallParameter" /\ HasRole(f, index, "BodyLocal")
AccessTo(f, symbol, base, store, include_legacy_readonly) ==
  When(include_legacy_readonly /\ store /\ HasRole(f, base.symbol, "LegacyEntryInput"),
       "ReadOnlyParameter")
  \o When(\/ /\ base.address[1].qualifier = "Entry" /\ ~IsEntryInput(f, symbol, base.symbol)
          \/ /\ base.address[1].qualifier = "Function" /\ f.is_entry
             /\ ~IsLocalObject(f, symbol, base.symbol),
          "ParameterQualifier")
AccessSays(table, f, instruction, include_legacy_readonly) ==
  Each(parameter_address(table, instruction), LAMBDA base :
         AccessTo(f, table.symbols[base.symbol], base, Payload(instruction) = "Store",
                  include_legacy_readonly))

(* An object is a symbol and, of a group, its member *)
ObjectOf(operand) == <<operand.symbol, operand.index>>
IsTransfer(table, f, base) ==
  /\ base.address[1].selected = "Parameter"
  /\ IsLocalObject(f, table.symbols[base.symbol], base.symbol)
parameter_transfer(table, f, instruction) ==
  Each(parameter_address(table, instruction), LAMBDA base :
         When(IsTransfer(table, f, base),
              [object |-> ObjectOf(base), store |-> Payload(instruction) = "Store"]))

CallObjects(call, role) ==
  {ObjectOf(x) : x \in {x \in Range(InRole(call, {role})) : x.parameter # None}}

(* The first instruction after a run of stores, the last before one of loads *)
AfterStores(transfers, i) ==
  CHOOSE j \in i + 1 .. Len(transfers) + 1 :
    /\ \A k \in i .. j - 1 : transfers[k] # None /\ transfers[k][1].store
    /\ j = Len(transfers) + 1 \/ transfers[j] = None \/ ~transfers[j][1].store
BeforeLoads(transfers, i) ==
  CHOOSE j \in 0 .. i - 1 :
    /\ \A k \in j + 1 .. i : transfers[k] # None /\ ~transfers[k][1].store
    /\ j = 0 \/ transfers[j] = None \/ transfers[j][1].store

(* What a transfer of this kind is an argument or a result of *)
EitherArguments(store) == "Input"
TransferredBy(store) == IF store THEN "Input" ELSE "Return"

HasCallAt(body, at, transfer) ==
  /\ at \in DOMAIN body
  /\ Payload(body[at]) = "Call"
  /\ transfer.object \in CallObjects(body[at], TransferredBy(transfer.store))
TransferSays(body, transfers, i, transfer) ==
  IF InRole(body[i], {"Guard"}) # <<>> THEN <<"PredicatedTransfer">>
  ELSE When(~HasCallAt(body,
                       IF transfer.store THEN AfterStores(transfers, i)
                       ELSE BeforeLoads(transfers, i), transfer),
            "TransferWithoutCall")

TransfersOf(table, f) == [i \in DOMAIN f.body |-> parameter_transfer(table, f, f.body[i])]
TransfersSay(body, transfers) ==
  FlattenSeq([i \in DOMAIN body |->
                IF transfers[i] = None THEN <<>>
                ELSE TransferSays(body, transfers, i, transfers[i][1])])
check_call_parameter_transfers(table, f, include_legacy_readonly) ==
  Each(f.body, LAMBDA instruction :
         AccessSays(table, f, instruction, include_legacy_readonly))
  \o TransfersSay(f.body, TransfersOf(table, f))

-----------------------------------------------------------------------------
(* The sum of the inputs of a kernel of the first versions *)

LegacyCeiling == 32764

(* A group counts as often as it has members, an unknown symbol not at all *)
Copies(table, symbol) ==
  CASE symbol \notin DOMAIN table.symbols -> 0
    [] table.symbols[symbol].count = None -> 1
    [] OTHER -> table.symbols[symbol].count[1]
LegacyInputs(table, f) ==
  Each(f.parameter_declarations, LAMBDA record :
    When(record.role = "LegacyEntryInput",
         [extent |-> record.byte_extent, copies |-> Copies(table, record.symbol)]))

(* A sum that has been refused stays so *)
WithInputWrapping(total, input) ==
  LET bytes == Wrapped(input.extent[1] * input.copies)
  IN IF total = None \/ input.extent = None \/ Wrapped(total[1] + bytes) > LegacyCeiling
     THEN None ELSE Some(Wrapped(total[1] + bytes))
WithInput(total, input) ==
  LET bytes == Wrapped(input.extent[1] * input.copies)
  IN IF \/ total = None \/ input.extent = None \/ input.copies = 0
        \/ input.extent[1] > (Word - 1) \div input.copies
        \/ total[1] > Word - 1 - bytes
        \/ Wrapped(total[1] + bytes) > LegacyCeiling
     THEN None ELSE Some(Wrapped(total[1] + bytes))
SumOfInputs(inputs) ==
  LET sum[i \in 0 .. Len(inputs)] == IF i = 0 THEN Some(0) ELSE WithInput(sum[i - 1], inputs[i])
  IN sum[Len(inputs)]

check_legacy_entry_input_sizes(table, f) ==
  When(SumOfInputs(LegacyInputs(table, f)) = None, "LegacyInputSize")
=============================================================================
