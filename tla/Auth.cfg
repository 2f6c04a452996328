\* Mails, logins and a use of a token race; the behaviour stops when all are answered.
SPECIFICATION Spec
CONSTANTS
  r1 = r1  r2 = r2  r3 = r3  r4 = r4
  k1 = k1  k2 = k2
  lower = lower  upper = upper  system = system  SystemToken = SystemToken  nobody = nobody
  Nil = Nil
  User <- MCUser
  Name <- MCName
  Named <- MCNamed
  UsernameOf <- MCUsernameOf
  Secret <- MCSecret
  Request <- MCRequest
  May <- MCMay
  Operator <- MCOperator
  SystemName <- system
  Lifetime <- MCLifetime
  Start = 7
  End = 10
  Period = 2
  MaxDuration = 8
SYMMETRY Secrets
CHECK_DEADLOCK FALSE
INVARIANT MailedPasswordsMatch
INVARIANT ServedAsMailed
PROPERTY TokensNeedMailedPassword
