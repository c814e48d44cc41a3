SPECIFICATION Spec
CONSTANTS
  PROFILES <- InService
INVARIANTS TypeOK FreshReads
PROPERTIES MarkedStaysRight
