SPECIFICATION Spec
CONSTANTS
  OptionChoices <- MCOptionChoices
  BatchSizes = {3}
  MaxOffered = 6
INVARIANTS
  TypeOK
  Accounting
  QueueIsSuffix
PROPERTIES
  ImplementsStream
