SPECIFICATION Spec
CONSTANTS
  offer = offer  discount1 = discount1  discount2 = discount2
  checkout = checkout  portal1 = portal1  portal2 = portal2
  code1 = code1  worker1 = worker1  worker2 = worker2
  Workers = {worker1, worker2}
  Offers = {offer}
  Discounts = {discount1, discount2}
  Checkouts = {checkout}
  Portals = {portal1, portal2}
  Configuration = configuration
  Commands <- MCCommands
  Revisions = {1, 2, 3}
  Scenarios <- MCScenarios
  Codes = {code1}
  Code <- MCCode
  MaxSource = 2
  NoCode = NoCode
  NoCommand = NoCommand
SYMMETRY Symmetric
INVARIANTS
  CommandTypeOK
  ReceiptMatchesClaim
  ProviderOnce
  AnswersAgree
  AcceptedIsRecorded
  CodeExclusive
PROPERTIES
  NeverRevived
  ImplementsLedger
CHECK_DEADLOCK FALSE
