\* Two overlapping SFTP sessions.
SPECIFICATION Spec
CONSTANTS
  Sessions = {s1, s2}
  Commands = {c1}
  Users = {u1, u2}
  Root = root
  DaemonIds = {u1, root}
\* Each session and command runs once.
CHECK_DEADLOCK FALSE
INVARIANT ServedAsUser
