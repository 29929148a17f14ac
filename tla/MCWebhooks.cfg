SPECIFICATION Spec
CONSTANTS
  OAuth = {seller}
  Controller = {}
  Smtp = {}
  Accounts = {account1}
  Tokens = {}
  Credentials = {}
  MailAccount <- MCEmpty
  Domain <- MCEmpty
  TestMailAccount = testMailbox
  Production = TRUE
  MaxRevision = 4
  NoAccount = NoAccount
  NoConnection = NoConnection
  NoCredential = NoCredential
  Events = {1, 2}
  States = {"active", "invoiced", "canceled"}
  Told <- MCTold
  Canceled = {"canceled"}
  Seller = seller
  Account = account1
  Hinted = {1}
  MaxMappingTries = 2
  MaxRedeliveries = 1
  MaxClock = 1
  NoEvent = NoEvent
INVARIANTS
  TypeOK
  ReceiptsAgree
  NothingStranded
  ProjectionCurrent
  OutboxRelayed
  DeauthorizationHolds
PROPERTIES
  SettledOnce
  ImplementsLog
CHECK_DEADLOCK FALSE
