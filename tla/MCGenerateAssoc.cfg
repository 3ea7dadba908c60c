CONSTANTS
  Names <- MCNames
  Words <- MCWords
  WordLen <- MCWordLen
  DigitWords <- MCDigitWords
  StopWords <- MCStopWords
  Occurs <- MCOccurs
  Other = Other
  NoName = NoName
  MaxConfLines = 3
  MaxDbLines = 2
  MaxTokens = 2
SPECIFICATION Spec
INVARIANTS
  FindMatchCorrect
