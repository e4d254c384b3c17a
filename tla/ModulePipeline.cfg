CONSTANT Width = 15
CONSTANT Modules <- Instances
CONSTANT Edited <- EditedSources
CONSTANT Replacements <- Retargeted
CONSTANT Binding <- Bound
CONSTANT DeclarationsSay <- bind_and_check
CONSTANT StorageOf <- resolve_storage_declarations
CONSTANT CallIndex <- index_calls
CONSTANT NameIn <- lookup
CONSTANT CallResolves <- resolveCall
CONSTANT AccessResolves <- resolveAccess
CONSTANT CallSays <- check_call_abi
CONSTANT PartsOf <- FunctionParts
CONSTANT OperandsIn <- OperandsOf
SPECIFICATION Spec
INVARIANT OnlyRegistersThrow InitializersInside NothingDropped OneConfiguration CalleesTakeArguments
INVARIANT DeclaredBeforeUse TransfersFollowProtocol KernelInputsFit
INVARIANT ResolvedIsIntact RetargetingIsSound ValidatedCallsFit
PROPERTY KeepsPromise
