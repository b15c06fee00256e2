---------------------------- MODULE ConfigRules ----------------------------
(***************************************************************************)
(* pkg/config: the directives, what a line does to a Config, Validate, and *)
(* what becomes of a Config on its way to the handlers.  A Config is a     *)
(* function from directives to values; a line is the sequence of the words *)
(* that shlex finds in it, empty for blank lines and comments.             *)
(***************************************************************************)
EXTENDS Integers, Sequences, FiniteSets

CONSTANTS
  Words,      \* of the files
  Fold,       \* the spelling of a word that the code compares: ToLower, and
              \* ToUpper for the values of loglevel and syslogfacility
  Number,     \* strconv.Atoi, for the words that are numbers
  HostPorts,  \* words that net.SplitHostPort takes apart
  Addresses,  \* words that are IP addresses or hostnames
  Dotted,     \* words with ".." in them
  KeyType,    \* detectKeyType of a word used as a path
  SftpPaths,  \* words with "sftp" in them
  Unparsable  \* a line shlex.Split rejects

Scalars == {"port", "x11displayoffset", "permitrootlogin", "loglevel",
            "syslogfacility", "logfile", "metricsaddress"}
Booleans == {"passwordauthentication", "pubkeyauthentication",
             "kbdinteractiveauthentication", "allowagentforwarding",
             "allowtcpforwarding", "x11forwarding", "x11uselocalhost",
             "gatewayports", "metricsenabled"}
UserLists == {"allowusers", "denyusers", "allowgroups", "denygroups"}
PathLists == {"listenaddress", "trustedusercakeys", "revokedkeys"}
Directives == Scalars \cup Booleans \cup UserLists \cup PathLists
                \cup {"hostkey", "authorizedkeysfile", "subsystem"}

RootLogins == {"yes", "no", "prohibit-password", "forced-commands-only"}
LogLevels == {"QUIET", "FATAL", "ERROR", "INFO", "VERBOSE", "DEBUG", "DEBUG1", "DEBUG2", "DEBUG3"}
SyslogFacilities == {"DAEMON", "USER", "AUTH", "AUTHPRIV"} \cup
  {"LOCAL0", "LOCAL1", "LOCAL2", "LOCAL3", "LOCAL4", "LOCAL5", "LOCAL6", "LOCAL7"}

ASSUME ConfigAssumption == DOMAIN Fold = Words /\ DOMAIN Number \subseteq Words

DefaultKeys ==
  << "/etc/ssh/ssh_host_rsa_key", "/etc/ssh/ssh_host_ecdsa_key", "/etc/ssh/ssh_host_ed25519_key" >>

\* createDefaultConfig.
Default ==
  [d \in Directives |->
     CASE d \in UserLists \cup {"trustedusercakeys", "revokedkeys", "subsystem"} -> << >>
       [] d \in Booleans -> d \notin {"x11forwarding", "gatewayports", "metricsenabled"}
       [] d = "port" -> 22 [] d = "x11displayoffset" -> 10
       [] d = "listenaddress" -> << "0.0.0.0" >> [] d = "hostkey" -> DefaultKeys
       [] d = "permitrootlogin" -> "prohibit-password"
       [] d = "authorizedkeysfile" -> << ".ssh/authorized_keys" >>
       [] d = "loglevel" -> "INFO" [] d = "syslogfacility" -> "AUTH" [] d = "logfile" -> ""
       [] d = "metricsaddress" -> "127.0.0.1:9100"]

----------------------------------------------------------------------------
(* One line.                                                               *)

Directive(line) == Fold[Head(line)]
Known(line) == line # << >> /\ Directive(line) \in Directives

PortNumbers == 1..65535

\* The checks the parse functions make of a scalar's argument.
ValidValue(d, w) ==
  /\ d \in {"port", "x11displayoffset"} => w \in DOMAIN Number
  /\ d = "port" => Number[w] \in PortNumbers
  /\ d = "x11displayoffset" => Number[w] >= 0
  /\ d = "permitrootlogin" => Fold[w] \in RootLogins
  /\ d = "loglevel" => Fold[w] \in LogLevels
  /\ d = "syslogfacility" => Fold[w] \in SyslogFacilities
  /\ d = "metricsaddress" => w \in HostPorts

\* parseConfigLine returns nil.  An unknown directive is ignored: so are Match and
\* Include, and the lines below a Match apply to everybody.
Accepts(line) ==
  /\ line # Unparsable
  /\ Known(line) =>
       LET d == Directive(line)
           args == Tail(line)
       IN CASE d \in UserLists \cup {"authorizedkeysfile"} -> args # << >>
            [] d = "subsystem" -> Len(args) = 2
            [] OTHER -> Len(args) = 1 /\ ValidValue(d, args[1])

\* What a scalar or Boolean directive stores.
Value(d, w) ==
  CASE d \in Booleans -> Fold[w] \in {"yes", "true", "1"}
    [] d \in {"port", "x11displayoffset"} -> Number[w]
    [] d \in {"permitrootlogin", "loglevel", "syslogfacility"} -> Fold[w]
    [] OTHER -> w

\* m[x] = v, as Go writes it.
Put(m, x, v) == [y \in DOMAIN m \cup {x} |-> IF y = x THEN v ELSE m[y]]

\* Regression: the defaults go with every HostKey line, not only with the first.
AppliedClearing(c, line) ==
  LET d == Directive(line)
      args == Tail(line)
  IN IF ~Known(line) THEN c
     ELSE CASE d \in Scalars \cup Booleans -> [c EXCEPT ![d] = Value(d, args[1])]
            [] d \in UserLists \cup PathLists -> [c EXCEPT ![d] = @ \o args]
            [] d \in {"authorizedkeysfile", "hostkey"} -> [c EXCEPT ![d] = args]
            [] d = "subsystem" -> [c EXCEPT ![d] = Put(@, args[1], args[2])]

\* The Config after an accepted line.  HostKey replaces a list that equals the
\* default one and adds to any other.
Applied(c, line) ==
  LET d == Directive(line)
      args == Tail(line)
  IN IF ~Known(line) THEN c
     ELSE CASE d \in Scalars \cup Booleans -> [c EXCEPT ![d] = Value(d, args[1])]
            [] d \in UserLists \cup PathLists -> [c EXCEPT ![d] = @ \o args]
            [] d = "hostkey" -> [c EXCEPT ![d] = IF @ = Default[d] THEN args ELSE @ \o args]
            [] d = "authorizedkeysfile" -> [c EXCEPT ![d] = args]
            [] d = "subsystem" -> [c EXCEPT ![d] = Put(@, args[1], args[2])]

----------------------------------------------------------------------------
(* Validate.  sys is what it asks of the system: the paths that do not     *)
(* exist (for a log file: its directory), and those that cannot be used.   *)

SysState == [missing : SUBSET Words, denied : SUBSET Words]

Issue(level, directive) == [level |-> level, directive |-> directive]
When(cond, level, directive) == IF cond THEN {Issue(level, directive)} ELSE {}

PortIssues(c) ==
  IF c["port"] \notin PortNumbers THEN {Issue("error", "port")}
  ELSE When(c["port"] < 1024, "warning", "port") \cup When(c["port"] # 22, "info", "port")

ListenIssues(c) ==
  LET all == {c["listenaddress"][i] : i \in DOMAIN c["listenaddress"]}
  IN When(Cardinality(all) < Len(c["listenaddress"]), "warning", "listenaddress")
       \cup When(all \cap {"0.0.0.0", "::"} # {}, "info", "listenaddress")
       \cup When(~(all \subseteq Addresses), "error", "listenaddress")

HostKeyIssues(c, sys) ==
  LET paths == c["hostkey"]
      Type(i) == KeyType[paths[i]]
      types == {Type(i) : i \in DOMAIN paths}
  IN IF paths = << >> THEN {Issue("error", "hostkey")}
     ELSE When(\E i \in DOMAIN paths : paths[i] \in sys.missing, "warning", "hostkey")
            \cup When(\E i \in DOMAIN paths : paths[i] \in sys.denied \ sys.missing, "error", "hostkey")
            \cup When(\E i, j \in DOMAIN paths : i < j /\ Type(i) = Type(j) /\ Type(i) # "",
                      "warning", "hostkey")
            \cup When(types \cap {"ed25519", "ecdsa"} = {}, "info", "hostkey")

\* Keyboard-interactive authentication does not count.
AuthenticationIssues(c) ==
  When(~c["passwordauthentication"] /\ ~c["pubkeyauthentication"], "error", "authentication")
    \cup When(c["passwordauthentication"], "warning", "passwordauthentication")
    \cup When(\E i \in DOMAIN c["authorizedkeysfile"] : c["authorizedkeysfile"][i] \in Dotted,
              "error", "authorizedkeysfile")

\* The lists are compared word by word, not as patterns.
AuthorizationIssues(c) ==
  When(c["permitrootlogin"] \notin RootLogins, "error", "permitrootlogin")
    \cup When(c["permitrootlogin"] = "yes", "warning", "permitrootlogin")
    \cup When(\E i \in DOMAIN c["allowusers"], j \in DOMAIN c["denyusers"] :
                c["allowusers"][i] = c["denyusers"][j], "warning", "allowusers/denyusers")

\* A log file in no directory is an error; one that cannot be opened, a warning.
LoggingIssues(c, sys) ==
  When(c["loglevel"] \in {"DEBUG", "DEBUG1", "DEBUG2", "DEBUG3"}, "info", "loglevel")
    \cup When(c["logfile"] \in sys.missing, "error", "logfile")
    \cup When(c["logfile"] \in sys.missing \cup sys.denied, "warning", "logfile")

ForwardingIssues(c) ==
  When(c["allowtcpforwarding"] /\ c["gatewayports"], "warning", "gatewayports")
    \cup When(c["allowagentforwarding"], "info", "allowagentforwarding")
    \cup When(c["x11forwarding"], "info", "x11forwarding")

SubsystemIssues(c, sys) ==
  LET binaries == {c["subsystem"][n] : n \in DOMAIN c["subsystem"]}
  IN When(binaries \cap sys.missing # {}, "error", "subsystem")
       \cup When(binaries \cap (sys.denied \ sys.missing) # {}, "warning", "subsystem")
       \cup When("sftp" \notin DOMAIN c["subsystem"], "info", "subsystem")
       \cup When(/\ "sftp" \in DOMAIN c["subsystem"]
                 /\ c["subsystem"]["sftp"] \notin SftpPaths, "warning", "subsystem")

CrossIssues(c) ==
  When(/\ ~c["passwordauthentication"] /\ ~c["pubkeyauthentication"]
       /\ c["allowusers"] # << >>, "warning", "authentication")
    \cup When(c["permitrootlogin"] = "yes" /\ c["passwordauthentication"], "error", "security")

Validate(c, sys) ==
  PortIssues(c) \cup ListenIssues(c) \cup HostKeyIssues(c, sys) \cup AuthenticationIssues(c)
    \cup AuthorizationIssues(c) \cup LoggingIssues(c, sys) \cup ForwardingIssues(c)
    \cup SubsystemIssues(c, sys) \cup CrossIssues(c)

Valid(c, sys) == \A issue \in Validate(c, sys) : issue.level # "error"

----------------------------------------------------------------------------
(* What the handlers are made from.                                        *)

\* NewLogger: the log file has to be opened, and the syslog facility, which always
\* has a value after Load, needs a syslog daemon.
LoggerFails(c, sys, syslog) == c["logfile"] \in sys.missing \cup sys.denied \/ ~syslog

\* These go to the metrics server, and only at the start.
MetricsDirectives == {"metricsenabled", "metricsaddress"}
MetricsConfig(c) == [d \in MetricsDirectives |-> c[d]]

\* pkg/server listens at ":port" and installs sftp whatever the file says.
ServerConfig(c) ==
  [d \in Directives \ ({"listenaddress"} \cup MetricsDirectives) |->
     IF d = "subsystem" THEN [n \in {"sftp"} |-> "internal-sftp"] ELSE c[d]]

\* The embedded server has fields neither for the listen address and the port, which
\* its listener has already, nor for the groups, and does not read those for the
\* metrics; its subsystem is sftp or nothing.
HandlerConfig(c) ==
  [d \in Directives \ ({"listenaddress", "port"} \cup MetricsDirectives) |->
     CASE d \in {"allowgroups", "denygroups"} -> << >>
       [] d = "subsystem" -> IF "sftp" \in DOMAIN c[d] /\ c[d]["sftp"] # ""
                              THEN [n \in {"sftp"} |-> "internal-sftp"] ELSE << >>
       [] OTHER -> c[d]]
=============================================================================
