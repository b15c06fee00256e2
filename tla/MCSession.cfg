\* One channel: AgentRequest sets the flag that others of the connection would set.
SPECIFICATION Spec
CONSTANTS
  Sessions = {s1}
  User = "git"
  Accounts <- MCAccounts
  Passwd <- MCPasswd
  Installed = {"/bin/zsh"}
\* Every session has ended: nothing is left to do.
CHECK_DEADLOCK FALSE
INVARIANTS
  SuccessIsReal
  RestrictionsHold
  AgentSocketScope
PROPERTY SessionEnds
