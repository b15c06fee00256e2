------------------------------ MODULE HostKeys ------------------------------
(***************************************************************************)
(* pkg/crypto/hostkey.go and its callers: servers that load their host     *)
(* keys and generate those they miss, in several processes of one host     *)
(* (the daemon, its keygen unit, a daemon per connection).  Every file     *)
(* operation is a step, so that others come between; processes crash and   *)
(* start again, and their files stay.                                      *)
(***************************************************************************)
EXTENDS HostKeyRules

CONSTANTS
  Servers,       \* processes
  Confs,         \* configurations, [kind, paths, data, auto]: the list of paths, keys
                 \* in memory, and whether to make a key where nothing is configured
  NoConf,
  OnDisk,        \* keys that files may hold at first
  Absent, Broken \* no file; one that does not parse, such as part of a key

ASSUME HostKeysAssumption ==
  /\ Confs \subseteq [kind : {"server", "embedded", "keygen"},
                      paths : Seq(Paths \cup {Empty}), data : Seq(Keys), auto : BOOLEAN]
  /\ \A c \in Confs : c.kind # "embedded" => c.data = << >> /\ c.auto
  /\ NoConf \notin Confs
  /\ OnDisk \subseteq Keys
  /\ Absent \notin Keys /\ Broken \notin Keys /\ Absent # Broken

VARIABLES
  file,     \* what is at each path
  made,     \* keys that exist
  pc,       \* where a process stands: "down" is none, "up" one that has loaded its keys
  conf,     \* configuration whose keys it loads
  signers,  \* its keys so far, one per entry of conf's paths, NoKey for an empty one
  newKey,   \* key it is about to save
  active,   \* configuration it serves
  serving,  \* keys it offers
  contested, \* history: paths that two processes found absent at the same time
  damaged   \* history: paths where a fault left part of a key

vars == <<file, made, pc, conf, signers, newKey, active, serving, contested, damaged>>
local == <<pc, conf, signers, newKey>>

TypeOK ==
  /\ file \in [Paths -> Keys \cup {Absent, Broken}]
  /\ made \subseteq Keys
  /\ pc \in [Servers -> {"down", "load", "save", "write", "up"}]
  /\ conf \in [Servers -> Confs \cup {NoConf}]
  /\ signers \in [Servers -> Seq(Keys \cup {NoKey})]
  /\ newKey \in [Servers -> Keys \cup {NoKey}]
  /\ active \in [Servers -> Confs \cup {NoConf}]
  /\ serving \in [Servers -> SUBSET Keys]
  /\ contested \subseteq Paths
  /\ damaged \subseteq Paths

InMemory == {k \in Keys : \E c \in Confs : \E i \in DOMAIN c.data : c.data[i] = k}

\* Any files, also broken ones and keys that ValidateHostKey refuses.
Init ==
  /\ file \in [Paths -> OnDisk \cup {Absent, Broken}]
  /\ \A p, q \in Paths : file[p] = file[q] /\ file[p] \in Keys => p = q
  /\ made = Keys \cap ({file[p] : p \in Paths} \cup InMemory)
  /\ pc = [s \in Servers |-> "down"]
  /\ conf = [s \in Servers |-> NoConf]
  /\ signers = [s \in Servers |-> << >>]
  /\ newKey = [s \in Servers |-> NoKey]
  /\ active = [s \in Servers |-> NoConf]
  /\ serving = [s \in Servers |-> {}]
  /\ contested = {}
  /\ damaged = {p \in Paths : file[p] = Broken}

----------------------------------------------------------------------------
\* GenerateHostKeys: without configured paths the defaults.
KeyPaths(c) == IF c.kind = "keygen" /\ c.paths = << >> THEN DefaultPaths ELSE c.paths

\* The entry of the list that comes next.
Entry(s) == Len(signers[s]) + 1
HasEntry(s) == Entry(s) <= Len(KeyPaths(conf[s]))
Path(s) == KeyPaths(conf[s])[Entry(s)]

\* A process between its look at a path and the end of its write.
Making(s, p) == pc[s] \in {"save", "write"} /\ Path(s) = p

Start(s) ==
  /\ pc[s] = "down"
  /\ \E c \in Confs : conf' = [conf EXCEPT ![s] = c]
  /\ pc' = [pc EXCEPT ![s] = "load"]
  /\ UNCHANGED <<file, made, signers, newKey, active, serving, contested, damaged>>

\* reloadConfiguration loads the keys again, with whatever sshd_config says now, while
\* the server offers those it has.
Reload(s) ==
  /\ pc[s] = "up"
  /\ active[s].kind = "server"
  /\ \E c \in Confs : c.kind = "server" /\ conf' = [conf EXCEPT ![s] = c]
  /\ pc' = [pc EXCEPT ![s] = "load"]
  /\ UNCHANGED <<file, made, signers, newKey, active, serving, contested, damaged>>

Forget(s) ==
  /\ signers' = [signers EXCEPT ![s] = << >>]
  /\ newKey' = [newKey EXCEPT ![s] = NoKey]

\* An error: a reload leaves the server as it was, anything else ends the process.
Fail(s) ==
  /\ pc' = [pc EXCEPT ![s] = IF active[s] = NoConf THEN "down" ELSE "up"]
  /\ conf' = [conf EXCEPT ![s] = active[s]]
  /\ Forget(s)
  /\ UNCHANGED <<made, active, serving, contested>>

SkipEmpty(s) ==
  /\ pc[s] = "load" /\ HasEntry(s)
  /\ Path(s) = Empty
  /\ signers' = [signers EXCEPT ![s] = Append(@, NoKey)]
  /\ UNCHANGED <<file, made, pc, conf, newKey, active, serving, contested, damaged>>

ReadKey(s) ==
  /\ pc[s] = "load" /\ HasEntry(s)
  /\ Path(s) # Empty
  /\ file[Path(s)] \in Keys
  /\ signers' = [signers EXCEPT ![s] = Append(@, file[Path(s)])]
  /\ UNCHANGED <<file, made, pc, conf, newKey, active, serving, contested, damaged>>

\* Regression: a path whose key cannot be loaded is left out.
ReadFailsSkip(s) ==
  /\ pc[s] = "load" /\ HasEntry(s)
  /\ Path(s) # Empty
  /\ signers' = [signers EXCEPT ![s] = Append(@, NoKey)]
  /\ UNCHANGED <<file, made, pc, conf, newKey, active, serving, contested, damaged>>

\* A file that does not parse, or an error of ReadFile other than that there is none.
ReadFails(s) ==
  /\ pc[s] = "load" /\ HasEntry(s)
  /\ Path(s) # Empty
  /\ Fail(s)
  /\ UNCHANGED <<file, damaged>>

Unused == Keys \ made

\* No file: a new key is made, which exists only in memory yet.
Generate(s) ==
  /\ pc[s] = "load" /\ HasEntry(s)
  /\ Path(s) # Empty
  /\ file[Path(s)] = Absent
  /\ \E k \in Unused \ Small :
       /\ Algo[k] = keyTypeFromPath(Path(s))
       /\ newKey' = [newKey EXCEPT ![s] = k]
       /\ made' = made \cup {k}
  /\ pc' = [pc EXCEPT ![s] = "save"]
  /\ contested' = IF \E t \in Servers \ {s} : Making(t, Path(s))
                  THEN contested \cup {Path(s)} ELSE contested
  /\ UNCHANGED <<file, conf, signers, active, serving, damaged>>

\* Making the directory or opening the file fails.
SaveFails(s) ==
  /\ pc[s] = "save"
  /\ Fail(s)
  /\ UNCHANGED <<file, damaged>>

\* WriteFile opens the file, made or truncated: nothing is in it.
OpenFile(s) ==
  /\ pc[s] = "save"
  /\ file' = [file EXCEPT ![Path(s)] = Broken]
  /\ pc' = [pc EXCEPT ![s] = "write"]
  /\ UNCHANGED <<made, conf, signers, newKey, active, serving, contested, damaged>>

\* Regression: the number of bytes written is not looked at.
WriteKeyUnchecked(s) ==
  /\ pc[s] = "write"
  /\ \E left \in {Broken, newKey[s]} : file' = [file EXCEPT ![Path(s)] = left]
  /\ signers' = [signers EXCEPT ![s] = Append(@, newKey[s])]
  /\ newKey' = [newKey EXCEPT ![s] = NoKey]
  /\ pc' = [pc EXCEPT ![s] = "load"]
  /\ UNCHANGED <<made, conf, active, serving, contested, damaged>>

WriteKey(s) ==
  /\ pc[s] = "write"
  /\ file' = [file EXCEPT ![Path(s)] = newKey[s]]
  /\ signers' = [signers EXCEPT ![s] = Append(@, newKey[s])]
  /\ newKey' = [newKey EXCEPT ![s] = NoKey]
  /\ pc' = [pc EXCEPT ![s] = "load"]
  /\ UNCHANGED <<made, conf, active, serving, contested, damaged>>

\* Regression: the error is logged, and the key used though it is not saved.
WriteFailsGoOn(s) ==
  /\ pc[s] = "write"
  /\ signers' = [signers EXCEPT ![s] = Append(@, newKey[s])]
  /\ newKey' = [newKey EXCEPT ![s] = NoKey]
  /\ pc' = [pc EXCEPT ![s] = "load"]
  /\ damaged' = damaged \cup {Path(s)}
  /\ UNCHANGED <<file, made, conf, active, serving, contested>>

\* A write that fails has left nothing, a part or, with an error at its end, everything.
WriteFails(s) ==
  /\ pc[s] = "write"
  /\ \E left \in {file[Path(s)], Broken, newKey[s]} :
       file' = [file EXCEPT ![Path(s)] = left]
  /\ damaged' = damaged \cup {Path(s)}
  /\ Fail(s)

\* The end of GenerateHostKeys, whose process then ends.
KeygenEnds(s) ==
  /\ pc[s] = "load" /\ ~HasEntry(s)
  /\ conf[s].kind = "keygen"
  /\ pc' = [pc EXCEPT ![s] = "down"]
  /\ conf' = [conf EXCEPT ![s] = NoConf]
  /\ Forget(s)
  /\ UNCHANGED <<file, made, active, serving, contested, damaged>>

\* configureHostKeys with the keys that were loaded, or one that is not saved.
LoadEnds(s) ==
  /\ pc[s] = "load" /\ ~HasEntry(s)
  /\ conf[s].kind # "keygen"
  /\ \E own \in IF MakesOwn(conf[s], signers[s]) THEN Unused ELSE {NoKey} :
       LET keys == Served(conf[s], signers[s], own)
       IN /\ keys # {}
          /\ serving' = [serving EXCEPT ![s] = keys]
          /\ made' = made \cup keys
  /\ active' = [active EXCEPT ![s] = conf[s]]
  /\ pc' = [pc EXCEPT ![s] = "up"]
  /\ Forget(s)
  /\ UNCHANGED <<file, conf, contested, damaged>>

NoValidKeys(s) ==
  /\ pc[s] = "load" /\ ~HasEntry(s)
  /\ conf[s].kind # "keygen"
  /\ ~MakesOwn(conf[s], signers[s])
  /\ Served(conf[s], signers[s], NoKey) = {}
  /\ Fail(s)
  /\ UNCHANGED <<file, damaged>>

\* A process is stopped or killed, wherever it is.
Crash(s) ==
  /\ pc[s] # "down"
  /\ pc' = [pc EXCEPT ![s] = "down"]
  /\ conf' = [conf EXCEPT ![s] = NoConf]
  /\ active' = [active EXCEPT ![s] = NoConf]
  /\ serving' = [serving EXCEPT ![s] = {}]
  /\ damaged' = IF pc[s] = "write" THEN damaged \cup {Path(s)} ELSE damaged
  /\ Forget(s)
  /\ UNCHANGED <<file, made, contested>>

\* The operator removes a file that does not parse, while nobody writes it.
Repair(p) ==
  /\ file[p] = Broken
  /\ \A s \in Servers : ~Making(s, p)
  /\ file' = [file EXCEPT ![p] = Absent]
  /\ damaged' = damaged \ {p}
  /\ UNCHANGED <<made, local, active, serving, contested>>

Step(s) ==
  \/ Start(s) \/ Reload(s)
  \/ SkipEmpty(s) \/ ReadKey(s) \/ ReadFails(s) \/ Generate(s)
  \/ SaveFails(s) \/ OpenFile(s) \/ WriteKey(s) \/ WriteFails(s)
  \/ KeygenEnds(s) \/ LoadEnds(s) \/ NoValidKeys(s) \/ Crash(s)

Next ==
  \/ \E s \in Servers : Step(s)
  \/ \E p \in Paths : Repair(p)

Spec == Init /\ [][Next]_vars

----------------------------------------------------------------------------
StoredAt(p) == IF file[p] \in Keys THEN file[p] ELSE NoKey

\* The keys of server s are the saved ones, in as far as all of its paths have one.
OffersStored(s) ==
  LET paths == active[s].paths
      saved == [i \in DOMAIN paths |-> IF paths[i] = Empty THEN NoKey ELSE StoredAt(paths[i])]
  IN /\ active[s] # NoConf
     /\ \A i \in DOMAIN paths : paths[i] \notin contested
     /\ \E i \in DOMAIN paths : paths[i] # Empty
     => serving[s] = Served(active[s], saved, NoKey)

\* Whoever offers a key for a path offers the one that is saved there, so that it is the
\* same after a restart and in every other process (hostkey.go:90): whatever reloads
\* and faults came between, except at paths that two processes generated at once.
ServedIsStored == \A s \in Servers : OffersStored(s)

\* A file that does not parse, and so keeps every server from starting that lists it, is
\* left by an error or the end of a process during its write (hostkey.go:124), and
\* never by two processes that write it at once.
BrokenOnlyByFault ==
  \A p \in Paths :
    file[p] = Broken => p \in damaged \/ \E s \in Servers : pc[s] = "write" /\ Path(s) = p

\* The files and the keys offered are those of a store of write-once registers, in
\* which a server that comes up offers what it finds in all of its paths.
Store == INSTANCE KeyStore WITH
  key <- [p \in Paths |-> StoredAt(p)]
ImplementsStore == Store!Spec
=============================================================================
