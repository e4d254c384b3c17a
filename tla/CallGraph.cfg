SPECIFICATION Spec
CONSTANTS
  Modules <- SomeModules
  EntrySignature = "entry"
  MaxCalls = 3
INVARIANTS ReportsAreCycles CertainIsDirect OpenIsOpen OnlyConsistent
