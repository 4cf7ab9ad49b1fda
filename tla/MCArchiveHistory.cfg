SPECIFICATION ArchiveSpec
CONSTANTS
  Setups <- MCSetups
  Numerals <- MCNumerals
  Texts = {"on"}
  Qualities = {"Good", "Bad"}
  Times = {0, 1, 3}
  MaxOffers = 3
INVARIANTS
  ArchiveTypeOK
  SkippedWithinDeadband
  NaNHoldsDeadband
  ChangesExactlyArchived
  PeriodKept
