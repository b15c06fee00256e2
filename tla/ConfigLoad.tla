----------------------------- MODULE ConfigLoad -----------------------------
(***************************************************************************)
(* config.Load and the programs that call it: at the start, for the -t     *)
(* flag, and for every SIGHUP.  Load reads the file line by line while an  *)
(* administrator saves another one, by renaming a new file over it or by   *)
(* writing it in place.  "cli" is internal/cli with the embedded server,   *)
(* "server" is pkg/server.  A read returns whole lines.                    *)
(***************************************************************************)
EXTENDS ConfigRules

CONSTANTS
  Files,  \* contents the file may have at first
  Saves,  \* contents that may be saved over it
  Ports,  \* values of the -p flag, 0 for none
  Systems, \* members of SysState: what Validate and NewLogger may find
  MaxSaves, MaxLoads, \* bounds
  Absent, Denied \* the path leads to no file, to one that cannot be opened

Lines == {Unparsable} \cup Seq(Words)

ASSUME LoadAssumption ==
  /\ Files \subseteq Seq(Lines) /\ Saves \subseteq Seq(Lines)
  /\ Absent \notin Seq(Lines) /\ Denied \notin Seq(Lines)

VARIABLES
  disk,    \* what the path leads to: lines, Absent or Denied
  rest,    \* lines still to be written by a save in place
  saves,
  pc,      \* Load: idle, read, loaded, failed
  fd,      \* its file: none, the one at the path, or an old one
  old,     \* content of the replaced one
  pos,     \* lines read
  cfg,     \* the Config that Load fills
  loads,
  program, \* who calls Load: "cli", "server", and "test" for cli with -t
  port,    \* the -p flag
  phase,   \* starting, running, exited
  verdict, \* of -t
  active,  \* what the handlers were made from
  metrics, \* what the metrics server was made from
  text,    \* (history) what the file held when the last Load opened it
  torn,    \* (history) it was written in place from then on, or while it was opened
  source, sourceTorn, \* (history) text and torn of the Load that active comes from
  start, startTorn    \* (history) text and torn of the Load the program was started with

fileVars == <<disk, rest, saves>>
loadVars == <<pc, fd, old, pos, cfg, loads, text, torn>>
useVars == <<active, metrics, source, sourceTorn, start, startTorn>>
programVars == <<program, port, phase, verdict, useVars>>
vars == <<fileVars, loadVars, programVars>>

IsFile(content) == content \notin {Absent, Denied}
View == IF fd = "old" THEN old ELSE disk

Init ==
  /\ disk \in Files \cup {Absent, Denied}
  /\ rest = << >> /\ saves = 0
  /\ pc = "idle" /\ fd = "none" /\ old = << >> /\ pos = 0
  /\ cfg = Default /\ loads = 0
  /\ text = << >> /\ torn = FALSE
  /\ program \in {"cli", "server", "test"}
  /\ port \in IF program = "server" THEN {0} ELSE Ports
  /\ phase = "starting" /\ verdict = "none"
  /\ active = Default /\ metrics = MetricsConfig(Default)
  /\ source = << >> /\ sourceTorn = FALSE /\ start = << >> /\ startTorn = FALSE

----------------------------------------------------------------------------
(* The administrator.                                                      *)

\* A new file takes the place of the old one, which stays as it was for whoever
\* has it open.
Replace ==
  /\ saves < MaxSaves /\ rest = << >>
  /\ saves' = saves + 1
  /\ disk' \in Saves \cup {Absent}
  /\ IF fd = "path" THEN fd' = "old" /\ old' = disk ELSE UNCHANGED <<fd, old>>
  /\ UNCHANGED <<rest, pc, pos, cfg, loads, text, torn, programVars>>

\* The file is truncated and written again, line by line.
Truncate ==
  /\ saves < MaxSaves /\ rest = << >> /\ IsFile(disk)
  /\ saves' = saves + 1
  /\ disk' = << >> /\ rest' \in Saves
  /\ IF fd = "path" THEN torn' = TRUE ELSE UNCHANGED torn
  /\ UNCHANGED <<pc, fd, old, pos, cfg, loads, text, programVars>>

WriteLine ==
  /\ rest # << >>
  /\ disk' = Append(disk, Head(rest)) /\ rest' = Tail(rest)
  /\ IF fd = "path" THEN torn' = TRUE ELSE UNCHANGED torn
  /\ UNCHANGED <<saves, pc, fd, old, pos, cfg, loads, text, programVars>>

----------------------------------------------------------------------------
(* Load.                                                                   *)

\* The defaults, then the file: without one the defaults are the configuration,
\* and any other error of os.Open is one of Load.
Open ==
  /\ pc = "idle" /\ loads < MaxLoads
  /\ phase # "exited"
  /\ loads' = loads + 1
  /\ cfg' = Default /\ pos' = 0
  /\ text' = disk /\ torn' = (rest # << >>)
  /\ CASE disk = Absent -> pc' = "loaded" /\ UNCHANGED fd
       [] disk = Denied -> pc' = "failed" /\ UNCHANGED fd
       [] OTHER -> pc' = "read" /\ fd' = "path"
  /\ UNCHANGED <<fileVars, old, programVars>>

Close == fd' = "none" /\ old' = << >>

\* The Config as the handlers of this program are given it.
Handlers(c) == IF program = "server" THEN ServerConfig(c) ELSE HandlerConfig(c)

\* Regression: a reload reads the file into the Config that the handlers hold.
ReadLineInPlace ==
  /\ pc = "read" /\ pos < Len(View)
  /\ Accepts(View[pos + 1])
  /\ cfg' = Applied(cfg, View[pos + 1])
  /\ pos' = pos + 1
  /\ active' = Handlers(cfg')
  /\ UNCHANGED <<fileVars, pc, fd, old, loads, text, torn, program, port, phase, verdict,
                 metrics, source, sourceTorn, start, startTorn>>

\* One turn of parseConfigFile's loop.
ReadLine ==
  /\ pc = "read" /\ pos < Len(View)
  /\ Accepts(View[pos + 1])
  /\ cfg' = Applied(cfg, View[pos + 1])
  /\ pos' = pos + 1
  /\ UNCHANGED <<fileVars, pc, fd, old, loads, text, torn, programVars>>

\* A line is refused, or the read fails, or a line is too long for the scanner.
ReadFails ==
  /\ pc = "read"
  /\ pc' = "failed"
  /\ Close
  /\ UNCHANGED <<fileVars, pos, cfg, loads, text, torn, programVars>>

ReadEnds ==
  /\ pc = "read" /\ pos >= Len(View)
  /\ pc' = "loaded"
  /\ Close
  /\ UNCHANGED <<fileVars, pos, cfg, loads, text, torn, programVars>>

----------------------------------------------------------------------------
(* The callers.                                                            *)

\* loadAndApplyConfig: the flag is taken as it is, and only here.
WithPort(c) == IF port = 0 THEN c ELSE [c EXCEPT !["port"] = port]

\* Load's error, or one of the steps after it, is returned.
StartFails ==
  /\ phase = "starting" /\ pc \in {"failed", "loaded"}
  /\ pc = "loaded" => program # "test"
  /\ phase' = "exited"
  /\ UNCHANGED <<fileVars, loadVars, program, port, verdict, useVars>>

\* validateAndReportConfig: exit 0 or 1.
Test ==
  /\ phase = "starting" /\ pc = "loaded" /\ program = "test"
  /\ \E sys \in Systems :
       verdict' = IF Valid(WithPort(cfg), sys) THEN "valid" ELSE "invalid"
  /\ phase' = "exited"
  /\ UNCHANGED <<fileVars, loadVars, program, port, useVars>>

\* The handlers are made, and the Config is forgotten.
Use(c) ==
  /\ \E sys \in Systems, syslog \in BOOLEAN : ~LoggerFails(c, sys, syslog)
  /\ active' = Handlers(c)
  /\ source' = text /\ sourceTorn' = torn
  /\ pc' = "idle" /\ cfg' = Default /\ pos' = 0
  /\ text' = << >> /\ torn' = FALSE

Run ==
  /\ phase = "starting" /\ pc = "loaded" /\ program # "test"
  /\ phase' = "running"
  /\ Use(WithPort(cfg))
  /\ metrics' = MetricsConfig(cfg) /\ start' = text /\ startTorn' = torn
  /\ UNCHANGED <<fileVars, fd, old, loads, program, port, verdict>>

\* SIGHUP: pkg/server rebuilds its handlers, the embedded server does so only before
\* its Start (CliServer); neither touches the metrics server.
Reload ==
  /\ phase = "running" /\ pc = "loaded"
  /\ Use(cfg)
  /\ UNCHANGED <<fileVars, fd, old, loads, program, port, phase, verdict, metrics, start, startTorn>>

\* Load failed, or the logger, or the host keys, or Configure refused: the handlers
\* stay.  What a Configure that fails does to the rest of the embedded server is in
\* EmbeddedServer.
ReloadFails ==
  /\ phase = "running" /\ pc \in {"loaded", "failed"}
  /\ pc' = "idle" /\ cfg' = Default /\ pos' = 0
  /\ text' = << >> /\ torn' = FALSE
  /\ UNCHANGED <<fileVars, fd, old, loads, programVars>>

Next ==
  \/ Replace \/ Truncate \/ WriteLine
  \/ Open \/ ReadLine \/ ReadFails \/ ReadEnds
  \/ StartFails \/ Test \/ Run \/ Reload \/ ReloadFails

Spec == Init /\ [][Next]_vars

----------------------------------------------------------------------------
(* What a file means, said of the file as a whole.                         *)

\* The lines of text t that are about directive d, by their numbers.
LinesOf(t, d) == {i \in DOMAIN t : Known(t[i]) /\ Directive(t[i]) = d}
IsLast(lines, i) == i \in lines /\ \A j \in lines : j <= i
Rank(lines, i) == Cardinality({j \in lines : j <= i})

Members(list) == {list[i] : i \in DOMAIN list}
Args(t, lines) == UNION {Members(Tail(t[i])) : i \in lines}

\* The first line gives the first element of list, the next one the next.
InOrder(t, lines, list) == \A i \in lines : Rank(lines, i) \in DOMAIN list => list[Rank(lines, i)] = t[i][2]

\* A fourth HostKey line after the three defaults finds a list that looks like the
\* defaults and clears it.
RepeatsDefaults(t, lines) == Cardinality(lines) > Len(DefaultKeys) /\ InOrder(t, lines, DefaultKeys)

Adds(t, lines, d, v) == Members(v) = Members(Default[d]) \cup Args(t, lines)

Lists(t, lines, v) ==
  (Len(v) = Cardinality(lines) /\ InOrder(t, lines, v)) \/ RepeatsDefaults(t, lines)

Binds(t, lines, v) ==
  /\ DOMAIN v = {t[i][2] : i \in lines}
  /\ \A i \in lines :
       v[t[i][2]] = t[i][3] \/ \E j \in lines : j > i /\ t[j][2] = t[i][2]

EndsWith(t, lines, d, v) ==
  \E i \in lines : /\ IsLast(lines, i)
                   /\ v = IF d = "authorizedkeysfile" THEN Tail(t[i]) ELSE Value(d, t[i][2])

\* Text t gives directive d the value v: the last line counts for what has one
\* value, every line for what is a list.
Means(t, d, v) ==
  LET lines == LinesOf(t, d)
  IN IF lines = {} THEN v = Default[d]
     ELSE CASE d \in UserLists \cup PathLists -> Adds(t, lines, d, v)
            [] d = "hostkey" -> Lists(t, lines, v)
            [] d = "subsystem" -> Binds(t, lines, v)
            [] OTHER -> EndsWith(t, lines, d, v)

\* Load accepts only files without a line it would refuse, and returns what the file
\* means: the order of the lines matters only where the last one counts.  A file that
\* was written in place meanwhile may be half of what it was meant to be.
LoadedIsMeant ==
  pc = "loaded" /\ ~torn =>
    IF IsFile(text)
      THEN /\ \A i \in DOMAIN text : Accepts(text[i])
           /\ \A d \in Directives : Means(text, d, cfg[d])
      ELSE cfg = Default

\* What a program is made from for the directives in which it follows its file: neither
\* looks at its listen addresses, pkg/server has sftp whatever the subsystems are, and
\* the groups are lost on the way to the embedded server.
Followed ==
  Directives \ ({"listenaddress", "subsystem"} \cup MetricsDirectives
                  \cup IF program = "server" THEN {} ELSE {"port", "allowgroups", "denygroups"})

\* Two files run side by side, each of them whole, whatever was saved, loaded and
\* refused since: the handlers come from the last file that was taken over, and the
\* metrics server from the one the program was started with, which no reload replaces.
\* Without a file, they are made from the defaults.
RunsAsWritten ==
  phase = "running" =>
    /\ ~sourceTorn =>
         IF IsFile(source) THEN \A d \in Followed : Means(source, d, active[d])
                           ELSE active = Handlers(Default)
    /\ ~startTorn =>
         IF IsFile(start) THEN \A d \in MetricsDirectives : Means(start, d, metrics[d])
                          ELSE metrics = MetricsConfig(Default)
=============================================================================
