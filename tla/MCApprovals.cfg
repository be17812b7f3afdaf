SPECIFICATION Spec
CONSTANTS
  Origins = {1, 2}
  Alternatives <- Others
  MaxFallbacks = 2
  MaxFaults = 1
  MaxEdits = 1
INVARIANT TypeOK
PROPERTIES PaidByConsent HistoryHolds
