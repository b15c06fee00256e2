------------------------------ MODULE MCConfig ------------------------------
(***************************************************************************)
(* Files of up to two lines of several kinds, some refused, one unknown;   *)
(* of two HostKey lines, and of the default ones with up to two more.      *)
(***************************************************************************)
EXTENDS ConfigLoad

MCFold ==
  [w \in {"Port", "PermitRootLogin", "PasswordAuthentication", "PubkeyAuthentication",
          "DenyUsers", "AllowGroups", "HostKey", "Subsystem", "LogFile", "Match",
          "User", "TrustedUserCAKeys", "AuthorizedKeysFile",
          "Yes", "no", "Off", "2222", "70000", "alice", "bob", "wheel", "sftp",
          "/usr/lib/sftp-server", "internal-sftp", "/var/log/sshd", "/etc/ca",
          "own_key", "", "0.0.0.0", "MetricsEnabled", "MetricsAddress", "127.0.0.1:9200"} \cup Members(DefaultKeys) |->
     CASE w = "Port" -> "port" [] w = "PermitRootLogin" -> "permitrootlogin"
       [] w = "PasswordAuthentication" -> "passwordauthentication"
       [] w = "PubkeyAuthentication" -> "pubkeyauthentication"
       [] w = "DenyUsers" -> "denyusers" [] w = "AllowGroups" -> "allowgroups"
       [] w = "HostKey" -> "hostkey" [] w = "Subsystem" -> "subsystem"
       [] w = "LogFile" -> "logfile" [] w = "Match" -> "match" [] w = "User" -> "user"
       [] w = "TrustedUserCAKeys" -> "trustedusercakeys"
       [] w = "AuthorizedKeysFile" -> "authorizedkeysfile"
       [] w = "MetricsEnabled" -> "metricsenabled" [] w = "MetricsAddress" -> "metricsaddress"
       [] w = "Yes" -> "yes" [] w = "Off" -> "off" [] OTHER -> w]
MCWords == DOMAIN MCFold
MCNumber == [w \in {"2222", "70000"} |-> IF w = "2222" THEN 2222 ELSE 70000]
MCKeyType ==
  [w \in MCWords |-> CASE w = DefaultKeys[1] -> "rsa" [] w = DefaultKeys[2] -> "ecdsa"
                       [] w = DefaultKeys[3] -> "ed25519" [] OTHER -> ""]

MCLines ==
  {<< "Port", "2222" >>, << "Port", "70000" >>, << "PermitRootLogin", "Yes" >>,
   << "PasswordAuthentication", "no" >>, << "PasswordAuthentication", "Yes" >>,
   << "PubkeyAuthentication", "Off" >>, << "DenyUsers", "alice", "bob" >>,
   << "AllowGroups", "wheel" >>, << "LogFile", "/var/log/sshd" >>,
   << "Subsystem", "sftp", "internal-sftp" >>, << "Subsystem", "sftp", "/usr/lib/sftp-server" >>,
   << "TrustedUserCAKeys", "/etc/ca" >>, << "AuthorizedKeysFile", "own_key" >>,
   << "MetricsEnabled", "Yes" >>, << "MetricsAddress", "127.0.0.1:9200" >>,
   << "Match", "User", "alice" >>, << "DenyUsers" >>, << >>, Unparsable}
UpTo(n, S) == UNION {[1..k -> S] : k \in 0..n}
KeyLines == {<< "HostKey", p >> : p \in Members(DefaultKeys) \cup {"own_key"}}
MCFiles == UpTo(2, MCLines) \cup UpTo(2, KeyLines)
  \cup {[i \in 1..3 |-> << "HostKey", DefaultKeys[i] >>] \o t : t \in UpTo(2, KeyLines)}
MCSaves ==
  {<< << "DenyUsers", "alice" >>, << "MetricsEnabled", "Yes" >> >>,
   << << "PasswordAuthentication", "Yes" >>, Unparsable >>,
   << << "HostKey", "own_key" >>, << "DenyUsers", "bob" >>, << "HostKey", DefaultKeys[1] >> >>}
MCSystems == {[missing |-> {}, denied |-> {}],
              [missing |-> {"internal-sftp", "/etc/ssh/ssh_host_rsa_key"}, denied |-> {"/var/log/sshd", "/etc/ssh/ssh_host_ecdsa_key"}]}
=============================================================================
