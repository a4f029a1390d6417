CONSTANTS
  sheet = sheet
  Sheets = {sheet}
  SheetOf <- MCSheetOf
  MaxOps = 2
  Flushes = {f1, f2}
  MaxAttempts = 2
  MaxInterruptions = 1
SPECIFICATION OutboxSpec
INVARIANTS
  OutboxTypeOK
  NothingIsLost
PROPERTIES
  ImplementsEditDelivery
  EventuallySettled
