\* Two keys and a certificate, two lines and three attempts: enough for one key to
\* leave its options behind and for another, or another line, to replace them.
SPECIFICATION AuthSpec
CONSTANTS
  k1 = k1
  k2 = k2
  c1 = c1
  Keys = {k1, k2}
  Certs = {c1}
  Policies <- MCPolicies
  Files <- MCFiles
  MaxTries = 3
\* The client has given up or is in.
CHECK_DEADLOCK FALSE
INVARIANTS
  LoginAuthorized
  KeyLoginHasItsLine
  RootKeyHasCommand
  CertLoginValid
