\* The first file is any of MCFiles; the files saved over it are fewer, for every place
\* of a save among the reads of two loads.
SPECIFICATION Spec
CONSTANTS
  Words <- MCWords
  Fold <- MCFold
  Number <- MCNumber
  HostPorts = {"127.0.0.1:9200"}
  Addresses = {"0.0.0.0"}
  Dotted = {}
  KeyType <- MCKeyType
  SftpPaths = {"internal-sftp", "/usr/lib/sftp-server"}
  Unparsable = unparsable
  Files <- MCFiles
  Saves <- MCSaves
  Ports = {0, 70000}
  Systems <- MCSystems
  MaxSaves = 1
  MaxLoads = 2
  Absent = absent
  Denied = denied
\* The programs exit.
CHECK_DEADLOCK FALSE
INVARIANTS
  LoadedIsMeant
  RunsAsWritten
