------------------------------ MODULE KeyStore ------------------------------
(***************************************************************************)
(* What a store of host keys promises.  Each path is a register that is    *)
(* written once, and a server that comes up serves what its registers hold.*)
(* Both hold except for paths that two servers found empty at the same     *)
(* time: those are contested, and nothing is promised of them.             *)
(***************************************************************************)
EXTENDS HostKeyRules

CONSTANTS
  Servers,
  Confs,   \* configurations: see HostKeys
  NoConf

VARIABLES
  key,       \* key of each path, NoKey before it has one
  contested,
  active,    \* configuration that each server came up with
  serving    \* keys it offers

storeVars == <<key, contested, active, serving>>

Init ==
  /\ key \in [Paths -> Keys \cup {NoKey}]
  /\ contested = {}
  /\ active = [s \in Servers |-> NoConf]
  /\ serving = [s \in Servers |-> {}]

\* A path gets its key.
Make(p) ==
  /\ key[p] = NoKey
  /\ \E k \in Keys : key' = [key EXCEPT ![p] = k]
  /\ UNCHANGED <<contested, active, serving>>

\* Two servers found nothing there.
Contend(p) ==
  /\ key[p] = NoKey
  /\ contested' = contested \cup {p}
  /\ UNCHANGED <<key, active, serving>>

Disturb(p) ==
  /\ p \in contested
  /\ \E k \in Keys \cup {NoKey} : key' = [key EXCEPT ![p] = k]
  /\ UNCHANGED <<contested, active, serving>>

\* The key an entry of the paths stands for: that of its path.
Fits(path, k) ==
  IF path = Empty THEN k = NoKey
  ELSE k \in Keys /\ (path \notin contested => k = key[path])

\* A server comes up with the keys of its paths, and makes one of its own only where
\* they name none.
Serve(s) ==
  \E c \in Confs : \E found \in [DOMAIN c.paths -> Keys \cup {NoKey}] :
    /\ c.kind # "keygen"
    /\ active' = [active EXCEPT ![s] = c]
    /\ \A i \in DOMAIN c.paths : Fits(c.paths[i], found[i])
    /\ \E own \in IF MakesOwn(c, found) THEN Keys ELSE {NoKey} :
         serving' = [serving EXCEPT ![s] = Served(c, found, own)]
    /\ UNCHANGED <<key, contested>>

Leave(s) ==
  /\ active' = [active EXCEPT ![s] = NoConf]
  /\ serving' = [serving EXCEPT ![s] = {}]
  /\ UNCHANGED <<key, contested>>

Next ==
  \/ \E p \in Paths : Make(p) \/ Contend(p) \/ Disturb(p)
  \/ \E s \in Servers : Leave(s) \/ Serve(s)

Spec == Init /\ [][Next]_storeVars
=============================================================================
