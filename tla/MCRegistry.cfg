SPECIFICATION RegistrySpec
CONSTANTS
  key1 = key1  key2 = key2  key3 = key3
  mailbox1 = mailbox1  mailbox2 = mailbox2
  OAuth = {oauth1}
  Controller = {controller1}
  Smtp = {smtp1, smtp2}
  Accounts = {account1, account2}
  Tokens = {token1, token2}
  Credentials = {key1, key2, key3}
  MailAccount <- MCMailAccount
  Domain <- MCDomain
  TestMailAccount = testMailbox
  Production = TRUE
  MaxRevision = 5
  NoAccount = NoAccount
  NoConnection = NoConnection
  NoCredential = NoCredential
CONSTRAINT OneHalf
SYMMETRY Symmetric
INVARIANTS
  RegistryTypeOK
  SentinelsAgree
  ActivationIsFresh
  LostForGood
  SmtpIsolated
CHECK_DEADLOCK FALSE
