SPECIFICATION Spec
CONSTANTS
  Importers = {i1, i2}
  Payments <- MCPayments
  Booked <- MCBooked
  MaxUploads = 3
INVARIANTS TypeOK AnswersAreTrue
PROPERTIES ImportsAreWhole EveryImportEnds
CHECK_DEADLOCK FALSE
