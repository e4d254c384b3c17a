CONSTANT Width = 15
CONSTANT Modules <- ModuleRegisters
CONSTANT Edited <- Unchanged
CONSTANT Replacements <- NotReplaced
CONSTANT Binding <- Bound
CONSTANT DeclarationsSay <- bind_and_check
CONSTANT StorageOf <- resolve_storage_declarations
CONSTANT CallIndex <- index_calls
CONSTANT NameIn <- lookup
CONSTANT CallResolves <- resolveCall
CONSTANT AccessResolves <- resolveAccess
CONSTANT CallSays <- check_call_abi
CONSTANT PartsOf <- FunctionParts
CONSTANT OperandsIn <- OperandsOf
SPECIFICATION Spec
INVARIANT NeverThrows
