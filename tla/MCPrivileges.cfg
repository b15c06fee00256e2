\* Two SFTP sessions and a command of any users, two of them and root: every way in
\* which two drops and restores, and a command between them, can interleave.
SPECIFICATION Spec
CONSTANTS
  Sessions = {s1, s2}
  Commands = {c1}
  Users = {u1, u2}
  Root = root
  DaemonIds = {u1, root}
\* Each session and command runs once.
CHECK_DEADLOCK FALSE
INVARIANTS
  RestoreSucceeds
  RootAtRest
  AloneServedAsUser
  AloneRunsAsUser
