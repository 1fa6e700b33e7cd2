SPECIFICATION Spec
CONSTANTS
  Clients = {c1, c2}
  Emails = {a, b}
  NoEmail = NoEmail
  MaxAccounts = 3
  MaxAudits = 2
SYMMETRY Symmetry
INVARIANTS
  TypeOK
PROPERTIES
  AdminStays
  ReservationSurvives
