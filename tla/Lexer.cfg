SPECIFICATION Spec
CONSTANTS
  Texts <- AllTexts
  MaxTokens = 4
INVARIANTS PositionsMatchSource DeliveredOnce Lossless
PROPERTY EofIsFinal
