--------------------------- MODULE HostKeysProofs ---------------------------
(***************************************************************************)
(* Safety of HostKeys for any processes, paths and configurations, and     *)
(* that it implements KeyStore.  IInv is inductive.                        *)
(***************************************************************************)
EXTENDS HostKeys, TLAPS

Loading(s) == pc[s] \in {"load", "save", "write"}

\* A key that a process has for an entry of its list is the one saved there.
Matches(path, k) ==
  IF path = Empty THEN k = NoKey
  ELSE k \in Keys /\ (path \notin contested => file[path] = k)

InOrder(s) ==
  /\ ~Loading(s) => signers[s] = << >>
  /\ Loading(s) =>
    /\ conf[s] \in Confs
    /\ Len(signers[s]) <= Len(KeyPaths(conf[s]))
    /\ \A i \in 1..Len(signers[s]) : Matches(KeyPaths(conf[s])[i], signers[s][i])
    /\ pc[s] # "load" => HasEntry(s) /\ Path(s) # Empty /\ newKey[s] \in Keys

LoadsInOrder == \A s \in Servers : InOrder(s)

\* A process that is up is one that serves, and no keygen process is.
Stands(s) ==
  /\ pc[s] = "up" => active[s] # NoConf
  /\ pc[s] = "down" => active[s] = NoConf
  /\ active[s] # NoConf => active[s].kind # "keygen"
  /\ Loading(s) /\ active[s] # NoConf => conf[s].kind # "keygen"

Serves == \A s \in Servers : Stands(s)

\* Two processes that make a key for one path had both found nothing there.
OneMaker ==
  \A s, t \in Servers :
    s # t /\ pc[s] \in {"save", "write"} /\ Making(t, Path(s)) => Path(s) \in contested

\* What the only maker of a key knows of the file.
MakerKnows ==
  \A s \in Servers : pc[s] \in {"save", "write"} /\ Path(s) \notin contested =>
    file[Path(s)] = IF pc[s] = "save" THEN Absent ELSE Broken

\* The paths of a server that is up have a key.
HasStored(s) ==
  active[s] # NoConf =>
    \A i \in DOMAIN active[s].paths :
      active[s].paths[i] \in Paths \ contested => file[active[s].paths[i]] \in Keys

IInv ==
  /\ TypeOK
  /\ LoadsInOrder /\ Serves /\ OneMaker /\ MakerKnows
  /\ \A s \in Servers : HasStored(s)
  /\ ServedIsStored
  /\ BrokenOnlyByFault

LEMMA PathTypes ==
  ASSUME NEW c \in Confs
  PROVE  /\ KeyPaths(c) \in Seq(Paths \cup {Empty})
         /\ c.paths \in Seq(Paths \cup {Empty})
         /\ c.data \in Seq(Keys)
         /\ c.kind # "keygen" => KeyPaths(c) = c.paths
BY KeyAssumption, HostKeysAssumption DEF KeyPaths

LEMMA EntryTypes ==
  ASSUME TypeOK, NEW s \in Servers, conf[s] \in Confs, HasEntry(s)
  PROVE  /\ Entry(s) \in 1..Len(KeyPaths(conf[s]))
         /\ Path(s) = KeyPaths(conf[s])[Entry(s)]
         /\ Path(s) \in Paths \cup {Empty}
<1>1. signers[s] \in Seq(Keys \cup {NoKey})
  BY DEF TypeOK
<1>2. Len(signers[s]) \in Nat
  BY <1>1
<1> QED BY <1>2, PathTypes DEF HasEntry, Entry, Path

LEMMA OfferedAreKeys == ASSUME NEW ks PROVE Offered(ks) \subseteq Keys
BY DEF Offered, ValidateHostKey

LEMMA ServedAreKeys == ASSUME NEW c, NEW found, NEW own PROVE Served(c, found, own) \subseteq Keys
BY OfferedAreKeys DEF Served

LEMMA InitInvariant == Init => IInv
<1> SUFFICES ASSUME Init PROVE IInv
  OBVIOUS
<1> USE DEF Init
<1>1. TypeOK
  BY HostKeysAssumption DEF TypeOK
<1>2. LoadsInOrder /\ Serves /\ OneMaker /\ MakerKnows
  BY DEF LoadsInOrder, InOrder, Loading, Serves, Stands, OneMaker, MakerKnows, Making
<1>3. (\A s \in Servers : HasStored(s)) /\ ServedIsStored
  BY DEF HasStored, ServedIsStored, OffersStored
<1>4. BrokenOnlyByFault
  BY DEF BrokenOnlyByFault
<1> QED BY <1>1, <1>2, <1>3, <1>4 DEF IInv

----------------------------------------------------------------------------
\* Steps that change nothing but what process s knows itself.
Private(s) ==
  /\ UNCHANGED <<file, made, active, serving, contested>>
  /\ \A t \in Servers \ {s} : /\ pc'[t] = pc[t] /\ conf'[t] = conf[t]
                              /\ signers'[t] = signers[t] /\ newKey'[t] = newKey[t]

\* Keys that are saved stay, except at contested paths.
KeepsKeys ==
  /\ contested \subseteq contested'
  /\ \A p \in Paths \ contested' : file[p] \in Keys => file'[p] = file[p]

\* A server that keeps what it offers still offers what is saved.
LEMMA StillStored ==
  ASSUME IInv, KeepsKeys, TypeOK', NEW s \in Servers,
         active'[s] = active[s], serving'[s] = serving[s]
  PROVE  HasStored(s)' /\ OffersStored(s)'
<1> USE DEF IInv
<1>1. CASE active[s] = NoConf
  BY <1>1 DEF HasStored, OffersStored
<1>2. CASE active[s] # NoConf
  <2> DEFINE paths == active[s].paths
             saved == [i \in DOMAIN paths |-> IF paths[i] = Empty THEN NoKey ELSE StoredAt(paths[i])]
  <2>1. active[s] \in Confs
    BY <1>2 DEF TypeOK
  <2>2. paths \in Seq(Paths \cup {Empty}) /\ \A i \in DOMAIN paths : paths[i] \in Paths \cup {Empty}
    BY <2>1, PathTypes
  <2>3. HasStored(s)'
    BY <1>2, <2>2 DEF HasStored, KeepsKeys
  <2>4. ASSUME \A i \in DOMAIN paths : paths[i] \notin contested',
               \E i \in DOMAIN paths : paths[i] # Empty
        PROVE  serving'[s] = Served(active'[s], saved', NoKey)
    <3>1. \A i \in DOMAIN paths : paths[i] \notin contested
      BY <2>4 DEF KeepsKeys
    <3>2. serving[s] = Served(active[s], saved, NoKey)
      BY <1>2, <2>4, <3>1 DEF ServedIsStored, OffersStored
    <3>3. \A i \in DOMAIN paths : paths[i] # Empty => file[paths[i]] \in Keys
      BY <1>2, <2>2, <3>1 DEF HasStored
    <3>4. \A i \in DOMAIN paths : paths[i] # Empty => StoredAt(paths[i])' = StoredAt(paths[i])
      BY <2>2, <2>4, <3>3 DEF KeepsKeys, StoredAt
    <3>5. saved' = saved
      BY <3>4
    <3> QED BY <3>2, <3>5
  <2> QED BY <2>3, <2>4 DEF OffersStored
<1> QED BY <1>1, <1>2

LEMMA MatchesKept ==
  ASSUME KeepsKeys, NEW path \in Paths \cup {Empty}, NEW k, Matches(path, k)
  PROVE  (path = Empty => k = NoKey)
         /\ (path # Empty => k \in Keys /\ (path \notin contested' => file'[path] = k))
BY KeyAssumption DEF Matches, KeepsKeys

\* What a process that a step leaves alone has loaded remains in order.
LEMMA OthersInOrder ==
  ASSUME IInv, KeepsKeys, NEW t \in Servers, pc'[t] = pc[t], conf'[t] = conf[t],
         signers'[t] = signers[t], newKey'[t] = newKey[t]
  PROVE  InOrder(t)' /\ Path(t)' = Path(t) /\ HasEntry(t)' = HasEntry(t)
<1>1. Path(t)' = Path(t) /\ HasEntry(t)' = HasEntry(t)
  BY DEF Path, HasEntry, Entry
<1>2. InOrder(t)
  BY DEF IInv, LoadsInOrder
<1>3. ASSUME Loading(t), NEW i \in 1..Len(signers[t])
      PROVE  Matches(KeyPaths(conf[t])[i], signers[t][i])'
  <2>1. /\ conf[t] \in Confs /\ Len(signers[t]) <= Len(KeyPaths(conf[t]))
        /\ Matches(KeyPaths(conf[t])[i], signers[t][i])
    BY <1>2, <1>3 DEF InOrder
  <2>2. Len(signers[t]) \in Nat /\ KeyPaths(conf[t]) \in Seq(Paths \cup {Empty})
    BY <2>1, PathTypes DEF IInv, TypeOK
  <2>3. KeyPaths(conf[t])[i] \in Paths \cup {Empty}
    BY <2>1, <2>2
  <2> QED BY <2>1, <2>3, MatchesKept DEF Matches
<1> QED BY <1>1, <1>2, <1>3 DEF InOrder, Loading

\* An entry more.
LEMMA AppendInOrder ==
  ASSUME IInv, KeepsKeys, NEW s \in Servers, Loading(s), HasEntry(s),
         pc'[s] = "load", conf'[s] = conf[s],
         NEW k \in Keys \cup {NoKey}, signers'[s] = Append(signers[s], k),
         Path(s) = Empty => k = NoKey,
         Path(s) # Empty => k \in Keys /\ (Path(s) \notin contested' => file'[Path(s)] = k)
  PROVE  InOrder(s)'
<1> DEFINE paths == KeyPaths(conf[s])
<1>1. /\ conf[s] \in Confs /\ Len(signers[s]) <= Len(paths)
      /\ \A i \in 1..Len(signers[s]) : Matches(paths[i], signers[s][i])
  BY DEF IInv, LoadsInOrder, InOrder
<1>2. /\ signers[s] \in Seq(Keys \cup {NoKey}) /\ Len(signers[s]) \in Nat
      /\ paths \in Seq(Paths \cup {Empty})
  BY <1>1, PathTypes DEF IInv, TypeOK
<1>3. /\ Len(signers'[s]) = Len(signers[s]) + 1
      /\ \A i \in 1..Len(signers[s]) : signers'[s][i] = signers[s][i]
      /\ signers'[s][Len(signers[s]) + 1] = k
  BY <1>2
<1>4. Len(signers'[s]) <= Len(paths)
  BY <1>2, <1>3 DEF HasEntry, Entry
<1>5. ASSUME NEW i \in 1..Len(signers'[s]) PROVE Matches(paths[i], signers[s][i])'
  <2>0. paths' = paths
    OBVIOUS
  <2>1. CASE i = Len(signers[s]) + 1
    <3>1. paths[i] = Path(s)
      BY <2>1 DEF Path, Entry
    <3> QED BY <2>0, <2>1, <3>1, <1>3 DEF Matches
  <2>2. CASE i \in 1..Len(signers[s])
    <3>1. paths[i] \in Paths \cup {Empty} /\ Matches(paths[i], signers[s][i])
      BY <1>1, <1>2, <2>2
    <3> QED BY <2>0, <2>2, <3>1, <1>3, MatchesKept DEF Matches
  <2> QED BY <1>2, <1>3, <2>1, <2>2
<1> QED BY <1>1, <1>4, <1>5 DEF InOrder, Loading

LEMMA PrivatePreserves ==
  ASSUME IInv, NEW s \in Servers, Private(s), TypeOK', damaged' = damaged,
         pc[s] # "write", pc'[s] \in {"load", "up", "down"},
         InOrder(s)', Stands(s)'
  PROVE  IInv'
<1> USE DEF IInv, Private
<1>6. KeepsKeys
  BY DEF KeepsKeys
<1>1. \A t \in Servers \ {s} : Path(t)' = Path(t) /\ InOrder(t)'
  BY <1>6, OthersInOrder
<1>2. \A t \in Servers \ {s} : Stands(t)'
  BY DEF Serves, Stands, Loading
<1>3. LoadsInOrder' /\ Serves'
  BY <1>1, <1>2 DEF LoadsInOrder, Serves
<1>4. OneMaker'
  BY <1>1 DEF OneMaker, Making
<1>5. MakerKnows'
  BY <1>1 DEF MakerKnows
<1>7. (\A t \in Servers : HasStored(t)') /\ ServedIsStored'
  BY <1>6, StillStored DEF ServedIsStored
<1>8. BrokenOnlyByFault'
  BY <1>1 DEF BrokenOnlyByFault
<1> QED BY <1>3, <1>4, <1>5, <1>7, <1>8

LEMMA StartPreserves ==
  ASSUME IInv, NEW s \in Servers, Start(s) \/ Reload(s)
  PROVE  IInv'
<1> USE DEF IInv
<1>1. Private(s) /\ damaged' = damaged /\ pc[s] # "write" /\ pc'[s] = "load"
  BY DEF Start, Reload, Private, TypeOK
<1>2. TypeOK'
  BY DEF Start, Reload, TypeOK
<1>3. conf'[s] \in Confs /\ signers'[s] = << >>
  BY DEF Start, Reload, TypeOK, LoadsInOrder, InOrder, Loading
<1>4. InOrder(s)'
  BY <1>1, <1>3, PathTypes DEF InOrder
<1>5. Stands(s)'
  <2>1. active[s] = NoConf \/ conf'[s].kind = "server"
    BY DEF Start, Reload, Serves, Stands, TypeOK
  <2> QED BY <1>1, <2>1 DEF Private, Serves, Stands
<1> QED BY <1>1, <1>2, <1>4, <1>5, PrivatePreserves

LEMMA AppendPreserves ==
  ASSUME IInv, NEW s \in Servers, SkipEmpty(s) \/ ReadKey(s)
  PROVE  IInv'
<1> USE DEF IInv
<1>1. /\ Private(s) /\ damaged' = damaged /\ pc[s] = "load" /\ pc'[s] = "load"
      /\ conf'[s] = conf[s] /\ HasEntry(s) /\ KeepsKeys
  BY DEF SkipEmpty, ReadKey, Private, TypeOK, KeepsKeys
<1>2. PICK k \in Keys \cup {NoKey} :
        signers' = [signers EXCEPT ![s] = Append(signers[s], k)] /\ Matches(Path(s), k)
  BY DEF SkipEmpty, ReadKey, Matches
<1>3. signers'[s] = Append(signers[s], k) /\ Append(signers[s], k) \in Seq(Keys \cup {NoKey})
  BY <1>2 DEF TypeOK
<1>4. TypeOK'
  BY <1>2, <1>3 DEF SkipEmpty, ReadKey, TypeOK
<1>5. InOrder(s)'
  BY <1>1, <1>2, <1>3, AppendInOrder DEF Loading, Matches, Private
<1>6. Stands(s)'
  BY <1>1 DEF Private, Serves, Stands, Loading
<1> QED BY <1>1, <1>4, <1>5, <1>6, PrivatePreserves

\* Errors and the end of a keygen process: nothing is kept of what was loaded.
LEMMA GiveUpPreserves ==
  ASSUME IInv, NEW s \in Servers,
         ReadFails(s) \/ SaveFails(s) \/ NoValidKeys(s) \/ KeygenEnds(s)
  PROVE  IInv'
<1> USE DEF IInv
<1>1. /\ Private(s) /\ damaged' = damaged /\ pc[s] \in {"load", "save"}
      /\ signers'[s] = << >>
      /\ pc' = [pc EXCEPT ![s] = IF active[s] = NoConf THEN "down" ELSE "up"]
  <2>1. CASE KeygenEnds(s)
    <3>1. active[s] = NoConf
      BY <2>1 DEF KeygenEnds, Serves, Stands, Loading
    <3> QED BY <2>1, <3>1 DEF KeygenEnds, Forget, Private, TypeOK
  <2> QED BY <2>1 DEF ReadFails, SaveFails, NoValidKeys, Fail, Forget, Private, TypeOK
<1>2. TypeOK'
  <2>1. /\ signers' = [signers EXCEPT ![s] = << >>] /\ newKey' = [newKey EXCEPT ![s] = NoKey]
        /\ conf' = [conf EXCEPT ![s] = active[s]] \/ conf' = [conf EXCEPT ![s] = NoConf]
    BY DEF ReadFails, SaveFails, NoValidKeys, KeygenEnds, Fail, Forget
  <2>2. << >> \in Seq(Keys \cup {NoKey})
    OBVIOUS
  <2> QED BY <1>1, <2>1, <2>2 DEF TypeOK, Private
<1>3. pc'[s] = IF active[s] = NoConf THEN "down" ELSE "up"
  BY <1>1 DEF TypeOK
<1>4. InOrder(s)'
  BY <1>1, <1>3 DEF InOrder, Loading
<1>5. Stands(s)'
  BY <1>1, <1>3 DEF Private, Serves, Stands, Loading
<1> QED BY <1>1, <1>2, <1>3, <1>4, <1>5, PrivatePreserves

----------------------------------------------------------------------------
\* Steps of s that others can see.
Others(s) ==
  \A t \in Servers \ {s} :
    /\ pc'[t] = pc[t] /\ conf'[t] = conf[t] /\ signers'[t] = signers[t] /\ newKey'[t] = newKey[t]
    /\ active'[t] = active[t] /\ serving'[t] = serving[t]

LEMMA CommonPreserved ==
  ASSUME IInv, NEW s \in Servers, KeepsKeys, Others(s), TypeOK', InOrder(s)', Stands(s)',
         HasStored(s)', OffersStored(s)'
  PROVE  /\ LoadsInOrder' /\ Serves' /\ \A t \in Servers : HasStored(t)'
         /\ ServedIsStored'
         /\ \A t \in Servers \ {s} : Path(t)' = Path(t)
<1>1. ASSUME NEW t \in Servers \ {s}
      PROVE  InOrder(t)' /\ Stands(t)' /\ HasStored(t)' /\ OffersStored(t)' /\ Path(t)' = Path(t)
  <2>1. InOrder(t)' /\ Path(t)' = Path(t)
    BY OthersInOrder DEF Others
  <2>2. Stands(t)'
    BY DEF Others, IInv, Serves, Stands, Loading
  <2>3. HasStored(t)' /\ OffersStored(t)'
    BY StillStored DEF Others
  <2> QED BY <2>1, <2>2, <2>3
<1> QED BY <1>1 DEF LoadsInOrder, Serves, ServedIsStored

LEMMA GeneratePreserves ==
  ASSUME IInv, NEW s \in Servers, Generate(s)
  PROVE  IInv'
<1> USE DEF IInv
<1>1. /\ pc[s] = "load" /\ HasEntry(s) /\ Path(s) # Empty /\ file[Path(s)] = Absent
      /\ pc' = [pc EXCEPT ![s] = "save"]
      /\ contested' = IF \E t \in Servers \ {s} : Making(t, Path(s))
                      THEN contested \cup {Path(s)} ELSE contested
      /\ UNCHANGED <<file, conf, signers, active, serving, damaged>>
  BY DEF Generate
<1>2. PICK k \in Keys : newKey' = [newKey EXCEPT ![s] = k] /\ made' = made \cup {k}
  BY DEF Generate, Unused
<1>3. conf[s] \in Confs /\ InOrder(s)
  BY <1>1 DEF LoadsInOrder, InOrder, Loading
<1>4. Path(s) \in Paths
  BY <1>1, <1>3, EntryTypes
<1>5. TypeOK' /\ KeepsKeys /\ Others(s)
  BY <1>1, <1>2, <1>4 DEF TypeOK, KeepsKeys, Others
<1>6. Path(s)' = Path(s) /\ HasEntry(s)' = HasEntry(s) /\ pc'[s] = "save" /\ newKey'[s] = k
  BY <1>1, <1>2 DEF Path, HasEntry, Entry, TypeOK
<1>7. InOrder(s)'
  <2>1. ASSUME NEW i \in 1..Len(signers[s]) PROVE Matches(KeyPaths(conf[s])[i], signers[s][i])'
    <3>1. Matches(KeyPaths(conf[s])[i], signers[s][i]) /\ Len(signers[s]) <= Len(KeyPaths(conf[s]))
      BY <1>1, <1>3 DEF InOrder, Loading
    <3>2. Len(signers[s]) \in Nat /\ KeyPaths(conf[s]) \in Seq(Paths \cup {Empty})
      BY <1>3, PathTypes DEF TypeOK
    <3>3. KeyPaths(conf[s])[i] \in Paths \cup {Empty}
      BY <3>1, <3>2
    <3> QED BY <1>1, <1>5, <3>1, <3>3, MatchesKept DEF Matches
  <2> QED BY <1>1, <1>3, <1>6, <2>1 DEF InOrder, Loading
<1>8. Stands(s)'
  BY <1>1, <1>6 DEF Serves, Stands, Loading
<1>9. HasStored(s)' /\ OffersStored(s)'
  BY <1>1, <1>5, StillStored
<1>10. /\ LoadsInOrder' /\ Serves' /\ ServedIsStored' /\ \A t \in Servers : HasStored(t)'
       /\ \A t \in Servers \ {s} : Path(t)' = Path(t)
  BY <1>5, <1>7, <1>8, <1>9, CommonPreserved
<1>11. OneMaker'
  BY <1>1, <1>5, <1>6, <1>10 DEF OneMaker, Making, Others
<1>12. MakerKnows'
  BY <1>1, <1>5, <1>6, <1>10 DEF MakerKnows, KeepsKeys, Others
<1>13. BrokenOnlyByFault'
  BY <1>1, <1>5, <1>6, <1>10 DEF BrokenOnlyByFault, Others
<1> QED BY <1>5, <1>10, <1>11, <1>12, <1>13

\* A process that makes a key: its path, and what it may do to the file there.
LEMMA MakerTypes ==
  ASSUME IInv, NEW s \in Servers, pc[s] \in {"save", "write"}
  PROVE  /\ conf[s] \in Confs /\ HasEntry(s) /\ newKey[s] \in Keys
         /\ Path(s) \in Paths /\ Path(s) # Empty
         /\ Path(s) \in contested \/ file[Path(s)] \in {Absent, Broken}
         /\ signers[s] \in Seq(Keys \cup {NoKey})
<1>1. conf[s] \in Confs /\ HasEntry(s) /\ Path(s) # Empty /\ newKey[s] \in Keys
  BY DEF IInv, LoadsInOrder, InOrder, Loading
<1>2. Path(s) \in Paths
  BY <1>1, EntryTypes DEF IInv
<1> QED BY <1>1, <1>2 DEF IInv, MakerKnows, TypeOK

\* It writes to that file and nobody else is disturbed.
LEMMA MakerPreserves ==
  ASSUME IInv, NEW s \in Servers, pc[s] \in {"save", "write"}, TypeOK', Others(s),
         NEW left \in Keys \cup {Absent, Broken}, file' = [file EXCEPT ![Path(s)] = left],
         contested' = contested, active' = active, serving' = serving,
         InOrder(s)', Stands(s)',
         pc'[s] \in {"save", "write"} => pc'[s] = "write" /\ Path(s)' = Path(s) /\ left = Broken,
         damaged \subseteq damaged',
         left = Broken => Path(s) \in damaged' \/ pc'[s] = "write"
  PROVE  IInv'
<1> USE DEF IInv
<1>1. Path(s) \in Paths /\ (Path(s) \in contested \/ file[Path(s)] \in {Absent, Broken})
  BY MakerTypes
<1>2. /\ file'[Path(s)] = left
      /\ \A p \in Paths \ {Path(s)} : file'[p] = file[p]
  BY <1>1 DEF TypeOK
<1>3. KeepsKeys
  BY <1>1, <1>2, HostKeysAssumption DEF KeepsKeys
<1>4. HasStored(s)' /\ OffersStored(s)'
  BY <1>3, StillStored
<1>5. /\ LoadsInOrder' /\ Serves' /\ ServedIsStored' /\ \A t \in Servers : HasStored(t)'
      /\ \A t \in Servers \ {s} : Path(t)' = Path(t)
  BY <1>3, <1>4, CommonPreserved
<1>6. OneMaker'
  BY <1>5 DEF OneMaker, Making, Others
<1>7. MakerKnows'
  <2>1. ASSUME NEW t \in Servers \ {s}, pc[t] \in {"save", "write"}, Path(t) \notin contested
        PROVE  Path(t) \in Paths \ {Path(s)}
    BY <2>1, MakerTypes DEF OneMaker, Making
  <2>2. ASSUME NEW t \in Servers \ {s}, pc'[t] \in {"save", "write"}, Path(t)' \notin contested'
        PROVE  file'[Path(t)'] = IF pc'[t] = "save" THEN Absent ELSE Broken
    BY <1>2, <1>5, <2>1, <2>2 DEF MakerKnows, Others
  <2>3. ASSUME pc'[s] \in {"save", "write"}, Path(s)' \notin contested'
        PROVE  file'[Path(s)'] = IF pc'[s] = "save" THEN Absent ELSE Broken
    BY <1>2, <2>3
  <2> QED BY <2>2, <2>3 DEF MakerKnows
<1>8. BrokenOnlyByFault'
  <2> SUFFICES ASSUME NEW p \in Paths, file'[p] = Broken, p \notin damaged'
               PROVE  \E t \in Servers : pc'[t] = "write" /\ Path(t)' = p
    BY DEF BrokenOnlyByFault
  <2>1. CASE p = Path(s)
    BY <1>2, <2>1
  <2>2. CASE p # Path(s)
    <3>1. PICK t \in Servers : pc[t] = "write" /\ Path(t) = p
      BY <1>2, <2>2 DEF BrokenOnlyByFault
    <3>2. t \in Servers \ {s}
      BY <2>2, <3>1
    <3> QED BY <1>5, <3>1, <3>2 DEF Others
  <2> QED BY <2>1, <2>2
<1> QED BY <1>5, <1>6, <1>7, <1>8

LEMMA OpenFilePreserves ==
  ASSUME IInv, NEW s \in Servers, OpenFile(s)
  PROVE  IInv'
<1> USE DEF IInv
<1>1. /\ pc[s] = "save" /\ pc' = [pc EXCEPT ![s] = "write"]
      /\ file' = [file EXCEPT ![Path(s)] = Broken]
      /\ UNCHANGED <<made, conf, signers, newKey, active, serving, contested, damaged>>
  BY DEF OpenFile
<1>2. /\ conf[s] \in Confs /\ HasEntry(s) /\ Path(s) \in Paths /\ InOrder(s)
      /\ Path(s) \in contested \/ file[Path(s)] \in {Absent, Broken}
  BY <1>1, MakerTypes DEF LoadsInOrder
<1>3. TypeOK' /\ Others(s) /\ pc'[s] = "write"
  BY <1>1, <1>2 DEF TypeOK, Others
<1>4. Path(s)' = Path(s) /\ HasEntry(s)' = HasEntry(s)
  BY <1>1 DEF Path, HasEntry, Entry
<1>5. KeepsKeys
  BY <1>1, <1>2, HostKeysAssumption DEF KeepsKeys, TypeOK
<1>6. InOrder(s)'
  <2>1. ASSUME NEW i \in 1..Len(signers[s]) PROVE Matches(KeyPaths(conf[s])[i], signers[s][i])'
    <3>1. Matches(KeyPaths(conf[s])[i], signers[s][i]) /\ Len(signers[s]) <= Len(KeyPaths(conf[s]))
      BY <1>1, <1>2 DEF InOrder, Loading
    <3>2. Len(signers[s]) \in Nat /\ KeyPaths(conf[s]) \in Seq(Paths \cup {Empty})
      BY <1>2, PathTypes DEF TypeOK
    <3>3. KeyPaths(conf[s])[i] \in Paths \cup {Empty}
      BY <3>1, <3>2
    <3> QED BY <1>1, <1>5, <3>1, <3>3, MatchesKept DEF Matches
  <2> QED BY <1>1, <1>2, <1>3, <1>4, <2>1 DEF InOrder, Loading
<1>7. Stands(s)'
  BY <1>1, <1>3 DEF Serves, Stands, Loading
<1> QED BY <1>1, <1>3, <1>4, <1>6, <1>7, MakerPreserves

LEMMA WriteKeyPreserves ==
  ASSUME IInv, NEW s \in Servers, WriteKey(s)
  PROVE  IInv'
<1> USE DEF IInv
<1>1. /\ pc[s] = "write" /\ pc' = [pc EXCEPT ![s] = "load"]
      /\ file' = [file EXCEPT ![Path(s)] = newKey[s]]
      /\ signers' = [signers EXCEPT ![s] = Append(signers[s], newKey[s])]
      /\ newKey' = [newKey EXCEPT ![s] = NoKey]
      /\ UNCHANGED <<made, conf, active, serving, contested, damaged>>
  BY DEF WriteKey
<1>2. /\ conf[s] \in Confs /\ HasEntry(s) /\ newKey[s] \in Keys
      /\ Path(s) \in Paths /\ Path(s) # Empty /\ signers[s] \in Seq(Keys \cup {NoKey})
      /\ Path(s) \in contested \/ file[Path(s)] \in {Absent, Broken}
  BY <1>1, MakerTypes
<1>3. Append(signers[s], newKey[s]) \in Seq(Keys \cup {NoKey})
  BY <1>2
<1>4. TypeOK' /\ Others(s) /\ pc'[s] = "load"
  BY <1>1, <1>2, <1>3 DEF TypeOK, Others
<1>5. KeepsKeys /\ file'[Path(s)] = newKey[s]
  BY <1>1, <1>2, HostKeysAssumption DEF KeepsKeys, TypeOK
<1>6. signers'[s] = Append(signers[s], newKey[s])
  BY <1>1 DEF TypeOK
<1>7. InOrder(s)'
  BY <1>1, <1>2, <1>4, <1>5, <1>6, AppendInOrder DEF Loading
<1>8. Stands(s)'
  BY <1>1, <1>4 DEF Serves, Stands, Loading
<1> QED BY <1>1, <1>2, <1>4, <1>7, <1>8, HostKeysAssumption, MakerPreserves

LEMMA WriteFailsPreserves ==
  ASSUME IInv, NEW s \in Servers, WriteFails(s)
  PROVE  IInv'
<1> USE DEF IInv
<1>1. PICK left \in {file[Path(s)], Broken, newKey[s]} : file' = [file EXCEPT ![Path(s)] = left]
  BY DEF WriteFails
<1>2. /\ pc[s] = "write" /\ damaged' = damaged \cup {Path(s)}
      /\ pc' = [pc EXCEPT ![s] = IF active[s] = NoConf THEN "down" ELSE "up"]
      /\ conf' = [conf EXCEPT ![s] = active[s]]
      /\ signers' = [signers EXCEPT ![s] = << >>] /\ newKey' = [newKey EXCEPT ![s] = NoKey]
      /\ UNCHANGED <<made, active, serving, contested>>
  BY DEF WriteFails, Fail, Forget
<1>3. Path(s) \in Paths /\ newKey[s] \in Keys
  BY <1>2, MakerTypes
<1>4. left \in Keys \cup {Absent, Broken}
  BY <1>1, <1>3 DEF TypeOK
<1>5. << >> \in Seq(Keys \cup {NoKey})
  OBVIOUS
<1>6. /\ TypeOK' /\ Others(s) /\ signers'[s] = << >>
      /\ pc'[s] = IF active[s] = NoConf THEN "down" ELSE "up"
  BY <1>1, <1>2, <1>3, <1>4, <1>5 DEF TypeOK, Others
<1>7. InOrder(s)' /\ Stands(s)'
  BY <1>2, <1>6 DEF InOrder, Serves, Stands, Loading
<1>8. pc[s] \in {"save", "write"} /\ pc'[s] \notin {"save", "write"}
  BY <1>2, <1>6
<1>9. damaged \subseteq damaged' /\ Path(s) \in damaged' /\ contested' = contested
      /\ active' = active /\ serving' = serving
  BY <1>2
<1> QED BY <1>1, <1>4, <1>6, <1>7, <1>8, <1>9, MakerPreserves

LEMMA LoadEndsPreserves ==
  ASSUME IInv, NEW s \in Servers, LoadEnds(s)
  PROVE  IInv' /\ active'[s] = conf[s]
<1> USE DEF IInv
<1> DEFINE c == conf[s]
<1>1. /\ pc[s] = "load" /\ ~HasEntry(s) /\ c.kind # "keygen"
      /\ active' = [active EXCEPT ![s] = c] /\ pc' = [pc EXCEPT ![s] = "up"]
      /\ signers' = [signers EXCEPT ![s] = << >>] /\ newKey' = [newKey EXCEPT ![s] = NoKey]
      /\ UNCHANGED <<file, conf, contested, damaged>>
  BY DEF LoadEnds, Forget
<1>2. PICK own \in IF MakesOwn(c, signers[s]) THEN Unused ELSE {NoKey} :
        /\ serving' = [serving EXCEPT ![s] = Served(c, signers[s], own)]
        /\ made' = made \cup Served(c, signers[s], own)
  BY DEF LoadEnds
<1>3. c \in Confs /\ InOrder(s) /\ signers[s] \in Seq(Keys \cup {NoKey}) /\ Len(signers[s]) \in Nat
  BY <1>1 DEF LoadsInOrder, InOrder, Loading, TypeOK
<1>4. c # NoConf
  BY <1>3, HostKeysAssumption
<1>5. Served(c, signers[s], own) \subseteq Keys /\ << >> \in Seq(Keys \cup {NoKey})
  BY ServedAreKeys
<1>6. /\ active'[s] = c /\ pc'[s] = "up" /\ signers'[s] = << >>
      /\ serving'[s] = Served(c, signers[s], own) /\ Others(s) /\ KeepsKeys
  BY <1>1, <1>2 DEF TypeOK, Others, KeepsKeys
<1>7. TypeOK'
  BY <1>1, <1>2, <1>3, <1>5 DEF TypeOK
<1>8. InOrder(s)' /\ Stands(s)'
  BY <1>1, <1>4, <1>6 DEF InOrder, Stands, Loading
<1>9. /\ KeyPaths(c) = c.paths /\ c.paths \in Seq(Paths \cup {Empty})
      /\ Len(c.paths) \in Nat /\ DOMAIN c.paths = 1..Len(c.paths)
  BY <1>1, <1>3, PathTypes
<1>10. Len(signers[s]) = Len(c.paths) /\ DOMAIN signers[s] = DOMAIN c.paths
  BY <1>1, <1>3, <1>9 DEF InOrder, Loading, HasEntry, Entry
<1>11. \A i \in DOMAIN c.paths : c.paths[i] \in Paths \cup {Empty} /\ Matches(c.paths[i], signers[s][i])
  BY <1>1, <1>3, <1>9, <1>10 DEF InOrder, Loading
<1>12. HasStored(s)'
  <2>1. \A i \in DOMAIN c.paths : c.paths[i] \in Paths \ contested => file[c.paths[i]] \in Keys
    BY <1>11, KeyAssumption DEF Matches
  <2> QED BY <1>1, <1>6, <2>1 DEF HasStored
<1>13. OffersStored(s)'
  <2> DEFINE saved == [i \in DOMAIN c.paths |-> IF c.paths[i] = Empty THEN NoKey ELSE StoredAt(c.paths[i])]
  <2>1. ASSUME \A i \in DOMAIN c.paths : c.paths[i] \notin contested,
               NEW j \in DOMAIN c.paths, c.paths[j] # Empty
        PROVE  serving'[s] = Served(c, saved, NoKey)
    <3>1. \A i \in DOMAIN c.paths : signers[s][i] = saved[i]
      BY <1>11, <2>1 DEF Matches, StoredAt
    <3>2. signers[s] = saved
      <4>1. signers[s] = [i \in 1..Len(signers[s]) |-> signers[s][i]]
        BY <1>3
      <4> QED BY <1>9, <1>10, <3>1, <4>1
    <3>3. signers[s][j] # NoKey
      BY <1>11, <2>1, KeyAssumption DEF Matches
    <3>4. ~MakesOwn(c, signers[s])
      BY <1>10, <2>1, <3>3 DEF MakesOwn
    <3> QED BY <1>2, <1>6, <3>2, <3>4
  <2>2. saved' = saved
    BY <1>1 DEF StoredAt
  <2> QED BY <1>1, <1>6, <2>1, <2>2 DEF OffersStored
<1>14. /\ LoadsInOrder' /\ Serves' /\ ServedIsStored' /\ \A t \in Servers : HasStored(t)'
       /\ \A t \in Servers \ {s} : Path(t)' = Path(t)
  BY <1>6, <1>7, <1>8, <1>12, <1>13, CommonPreserved
<1>15. OneMaker' /\ MakerKnows' /\ BrokenOnlyByFault'
  BY <1>1, <1>6, <1>14 DEF OneMaker, Making, MakerKnows, BrokenOnlyByFault, Others
<1> QED BY <1>6, <1>7, <1>14, <1>15

LEMMA CrashPreserves ==
  ASSUME IInv, NEW s \in Servers, Crash(s)
  PROVE  IInv'
<1> USE DEF IInv
<1>1. /\ pc[s] # "down" /\ pc' = [pc EXCEPT ![s] = "down"]
      /\ conf' = [conf EXCEPT ![s] = NoConf] /\ active' = [active EXCEPT ![s] = NoConf]
      /\ serving' = [serving EXCEPT ![s] = {}]
      /\ damaged' = IF pc[s] = "write" THEN damaged \cup {Path(s)} ELSE damaged
      /\ signers' = [signers EXCEPT ![s] = << >>] /\ newKey' = [newKey EXCEPT ![s] = NoKey]
      /\ UNCHANGED <<file, made, contested>>
  BY DEF Crash, Forget
<1>2. << >> \in Seq(Keys \cup {NoKey}) /\ (pc[s] = "write" => Path(s) \in Paths)
  BY MakerTypes
<1>3. TypeOK'
  BY <1>1, <1>2 DEF TypeOK
<1>4. /\ pc'[s] = "down" /\ active'[s] = NoConf /\ signers'[s] = << >>
      /\ Others(s) /\ KeepsKeys
  BY <1>1 DEF TypeOK, Others, KeepsKeys
<1>5. InOrder(s)' /\ Stands(s)' /\ HasStored(s)' /\ OffersStored(s)'
  BY <1>4 DEF InOrder, Stands, Loading, HasStored, OffersStored
<1>6. /\ LoadsInOrder' /\ Serves' /\ ServedIsStored' /\ \A t \in Servers : HasStored(t)'
      /\ \A t \in Servers \ {s} : Path(t)' = Path(t)
  BY <1>3, <1>4, <1>5, CommonPreserved
<1>7. OneMaker' /\ MakerKnows'
  BY <1>1, <1>4, <1>6 DEF OneMaker, Making, MakerKnows, Others
<1>8. BrokenOnlyByFault'
  BY <1>1, <1>4, <1>6 DEF BrokenOnlyByFault, Others
<1> QED BY <1>3, <1>6, <1>7, <1>8

LEMMA RepairPreserves ==
  ASSUME IInv, NEW p \in Paths, Repair(p)
  PROVE  IInv'
<1> USE DEF IInv
<1>1. /\ file[p] = Broken /\ file' = [file EXCEPT ![p] = Absent] /\ damaged' = damaged \ {p}
      /\ \A s \in Servers : ~Making(s, p)
      /\ UNCHANGED <<made, pc, conf, signers, newKey, active, serving, contested>>
  BY DEF Repair, local
<1>2. TypeOK' /\ KeepsKeys
  BY <1>1, HostKeysAssumption DEF TypeOK, KeepsKeys
<1>3. ASSUME NEW s \in Servers
      PROVE  /\ InOrder(s)' /\ Stands(s)' /\ HasStored(s)' /\ OffersStored(s)'
             /\ Path(s)' = Path(s)
  <2>1. InOrder(s)' /\ Path(s)' = Path(s)
    BY <1>1, <1>2, OthersInOrder
  <2>2. HasStored(s)' /\ OffersStored(s)'
    BY <1>1, <1>2, StillStored
  <2> QED BY <1>1, <2>1, <2>2 DEF Serves, Stands, Loading
<1>4. LoadsInOrder' /\ Serves' /\ ServedIsStored' /\ \A s \in Servers : HasStored(s)'
  BY <1>3 DEF LoadsInOrder, Serves, ServedIsStored
<1>5. OneMaker'
  BY <1>1, <1>3 DEF OneMaker, Making
<1>6. MakerKnows'
  <2>1. \A s \in Servers : pc[s] \in {"save", "write"} => Path(s) \in Paths \ {p}
    BY <1>1, MakerTypes DEF Making
  <2> QED BY <1>1, <1>3, <2>1 DEF MakerKnows, TypeOK
<1>7. BrokenOnlyByFault'
  BY <1>1, <1>3, HostKeysAssumption DEF BrokenOnlyByFault, TypeOK
<1> QED BY <1>2, <1>4, <1>5, <1>6, <1>7

LEMMA NextInvariant == IInv /\ [Next]_vars => IInv'
<1> SUFFICES ASSUME IInv, [Next]_vars PROVE IInv'
  OBVIOUS
<1>1. ASSUME NEW s \in Servers, Step(s) PROVE IInv'
  BY <1>1, StartPreserves, AppendPreserves, GiveUpPreserves, GeneratePreserves, OpenFilePreserves,
     WriteKeyPreserves, WriteFailsPreserves, LoadEndsPreserves, CrashPreserves DEF Step
<1>2. CASE UNCHANGED vars
  <2> USE <1>2 DEF vars, IInv
  <2>1. TypeOK' /\ KeepsKeys
    BY DEF TypeOK, KeepsKeys
  <2>2. \A s \in Servers : InOrder(s)' /\ Path(s)' = Path(s) /\ HasStored(s)' /\ OffersStored(s)'
    BY <2>1, OthersInOrder, StillStored
  <2>3. LoadsInOrder' /\ ServedIsStored' /\ Serves'
    BY <2>2 DEF LoadsInOrder, ServedIsStored, Serves, Stands, Loading
  <2>4. OneMaker' /\ MakerKnows' /\ BrokenOnlyByFault'
    BY <2>2 DEF OneMaker, Making, MakerKnows, BrokenOnlyByFault
  <2> QED BY <2>1, <2>2, <2>3, <2>4
<1> QED BY <1>1, <1>2, RepairPreserves DEF Next

THEOREM Invariant == Spec => []IInv
BY InitInvariant, NextInvariant, PTL DEF Spec

\* The variables of HostKeys keep their types.
THEOREM TypeCorrect == Spec => []TypeOK
BY Invariant, PTL DEF IInv

\* Any number of processes, of crashes and of reloads: who offers a key for a path that
\* was not contested offers the saved one.
THEOREM Persistent == Spec => []ServedIsStored
BY Invariant, PTL DEF IInv

\* No interleaving of starts by itself leaves a file that does not parse.
THEOREM OnlyFaultsBreak == Spec => []BrokenOnlyByFault
BY Invariant, PTL DEF IInv

----------------------------------------------------------------------------
(* The refinement.                                                         *)

LEMMA InitRefines == Init => Store!Init
<1> SUFFICES ASSUME Init PROVE Store!Init
  OBVIOUS
<1>1. [p \in Paths |-> StoredAt(p)] \in [Paths -> Keys \cup {NoKey}]
  BY DEF StoredAt
<1> QED BY <1>1 DEF Init, Store!Init

\* A file changes by the hand of the process that makes its key.
LEMMA MakerRefines ==
  ASSUME IInv, NEW s \in Servers, pc[s] \in {"save", "write"},
         NEW left \in Keys \cup {Absent, Broken}, file' = [file EXCEPT ![Path(s)] = left],
         UNCHANGED <<contested, active, serving>>
  PROVE  [Store!Next]_Store!storeVars
<1> DEFINE key == [p \in Paths |-> StoredAt(p)]
           k == IF left \in Keys THEN left ELSE NoKey
<1>1. Path(s) \in Paths /\ (Path(s) \in contested \/ file[Path(s)] \in {Absent, Broken})
  BY MakerTypes
<1>2. key' = [key EXCEPT ![Path(s)] = k]
  BY <1>1 DEF IInv, TypeOK, StoredAt
<1>3. CASE Path(s) \in contested
  BY <1>1, <1>2, <1>3 DEF Store!Next, Store!Disturb
<1>4. CASE Path(s) \notin contested
  <2>1. key[Path(s)] = NoKey
    BY <1>1, <1>4, HostKeysAssumption DEF StoredAt
  <2>2. CASE left \in Keys
    BY <1>1, <1>2, <2>1, <2>2 DEF Store!Next, Store!Make
  <2>3. CASE left \notin Keys
    <3>1. key' = key
      BY <1>2, <2>1, <2>3
    <3> QED BY <3>1 DEF Store!storeVars
  <2> QED BY <2>2, <2>3
<1> QED BY <1>3, <1>4

LEMMA GenerateRefines ==
  ASSUME IInv, NEW s \in Servers, Generate(s)
  PROVE  [Store!Next]_Store!storeVars
<1> DEFINE key == [p \in Paths |-> StoredAt(p)]
<1>1. /\ pc[s] = "load" /\ HasEntry(s) /\ Path(s) # Empty /\ file[Path(s)] = Absent
      /\ contested' = contested \/ contested' = contested \cup {Path(s)}
      /\ UNCHANGED <<file, active, serving>>
  BY DEF Generate
<1>2. Path(s) \in Paths
  BY <1>1, EntryTypes DEF IInv, LoadsInOrder, InOrder, Loading
<1>3. key' = key
  BY <1>1 DEF StoredAt
<1>4. key[Path(s)] = NoKey
  BY <1>1, <1>2, HostKeysAssumption DEF StoredAt
<1> QED BY <1>1, <1>2, <1>3, <1>4 DEF Store!Next, Store!Contend, Store!storeVars

\* The rules have the same meaning in both modules.
LEMMA SameRules ==
  ASSUME NEW c, NEW found, NEW own
  PROVE  /\ Store!MakesOwn(c, found) = MakesOwn(c, found)
         /\ Store!Served(c, found, own) = Served(c, found, own)
BY DEF Store!MakesOwn, MakesOwn, Store!Served, Served, Store!Offered, Offered,
       Store!ValidateHostKey, ValidateHostKey

LEMMA LoadEndsRefines ==
  ASSUME IInv, NEW s \in Servers, LoadEnds(s)
  PROVE  Store!Next
<1> DEFINE key == [p \in Paths |-> StoredAt(p)]
           c == conf[s]
<1>1. /\ pc[s] = "load" /\ ~HasEntry(s) /\ c.kind # "keygen" /\ UNCHANGED <<file, contested>>
      /\ active' = [active EXCEPT ![s] = c]
  BY DEF LoadEnds
<1>2. PICK own \in IF MakesOwn(c, signers[s]) THEN Keys ELSE {NoKey} :
        serving' = [serving EXCEPT ![s] = Served(c, signers[s], own)]
  BY DEF LoadEnds, Unused
<1>3. c \in Confs /\ InOrder(s) /\ signers[s] \in Seq(Keys \cup {NoKey}) /\ Len(signers[s]) \in Nat
  BY <1>1 DEF IInv, LoadsInOrder, InOrder, Loading, TypeOK
<1>4. /\ KeyPaths(c) = c.paths /\ c.paths \in Seq(Paths \cup {Empty})
      /\ Len(c.paths) \in Nat /\ DOMAIN c.paths = 1..Len(c.paths)
  BY <1>1, <1>3, PathTypes
<1>5. Len(signers[s]) = Len(c.paths)
  BY <1>1, <1>3, <1>4 DEF InOrder, Loading, HasEntry, Entry
<1>6. signers[s] \in [DOMAIN c.paths -> Keys \cup {NoKey}]
  BY <1>3, <1>4, <1>5
<1>7. ASSUME NEW i \in DOMAIN c.paths PROVE Store!Fits(c.paths[i], signers[s][i])
  <2>1. c.paths[i] \in Paths \cup {Empty} /\ Matches(c.paths[i], signers[s][i])
    BY <1>1, <1>3, <1>4, <1>5 DEF InOrder, Loading
  <2> QED BY <2>1 DEF Matches, StoredAt, Store!Fits
<1>8. key' = key
  BY <1>1 DEF StoredAt
<1>9. /\ own \in IF Store!MakesOwn(c, signers[s]) THEN Keys ELSE {NoKey}
      /\ serving' = [serving EXCEPT ![s] = Store!Served(c, signers[s], own)]
  BY <1>2, SameRules
<1>10. Store!Serve(s)
  <2>1. \E found \in [DOMAIN c.paths -> Keys \cup {NoKey}] :
          /\ c.kind # "keygen" /\ active' = [active EXCEPT ![s] = c]
          /\ \A i \in DOMAIN c.paths : Store!Fits(c.paths[i], found[i])
          /\ \E k \in IF Store!MakesOwn(c, found) THEN Keys ELSE {NoKey} :
               serving' = [serving EXCEPT ![s] = Store!Served(c, found, k)]
          /\ UNCHANGED <<key, contested>>
    <3> WITNESS signers[s] \in [DOMAIN c.paths -> Keys \cup {NoKey}]
    <3> QED BY <1>1, <1>7, <1>8, <1>9
  <2> QED BY <1>3, <2>1 DEF Store!Serve
<1> QED BY <1>10 DEF Store!Next

LEMMA StepRefines == IInv /\ [Next]_vars => [Store!Next]_Store!storeVars
<1> SUFFICES ASSUME IInv, [Next]_vars PROVE [Store!Next]_Store!storeVars
  OBVIOUS
<1>1. ASSUME NEW s \in Servers, Step(s) PROVE [Store!Next]_Store!storeVars
  <2>1. CASE OpenFile(s)
    BY <2>1, MakerRefines DEF OpenFile
  <2>2. CASE WriteKey(s)
    <3>1. newKey[s] \in Keys
      BY <2>2, MakerTypes DEF WriteKey
    <3> QED BY <2>2, <3>1, MakerRefines DEF WriteKey
  <2>3. CASE WriteFails(s)
    <3>1. PICK left \in {file[Path(s)], Broken, newKey[s]} : file' = [file EXCEPT ![Path(s)] = left]
      BY <2>3 DEF WriteFails
    <3>2. pc[s] = "write" /\ UNCHANGED <<contested, active, serving>>
      BY <2>3 DEF WriteFails, Fail
    <3>3. left \in Keys \cup {Absent, Broken}
      BY <3>1, <3>2, MakerTypes DEF IInv, TypeOK
    <3> QED BY <3>1, <3>2, <3>3, MakerRefines
  <2>4. CASE Crash(s)
    <3>1. /\ UNCHANGED <<file, contested>> /\ serving' = [serving EXCEPT ![s] = {}]
          /\ active' = [active EXCEPT ![s] = NoConf]
      BY <2>4 DEF Crash
    <3>2. Store!Leave(s)
      BY <3>1 DEF Store!Leave, StoredAt
    <3> QED BY <3>2 DEF Store!Next
  <2>5. CASE UNCHANGED <<file, active, serving, contested>>
    BY <2>5 DEF Store!storeVars, StoredAt
  <2>6. CASE Start(s) \/ Reload(s) \/ SkipEmpty(s) \/ ReadKey(s) \/ ReadFails(s) \/ SaveFails(s)
             \/ KeygenEnds(s) \/ NoValidKeys(s)
    BY <2>5, <2>6 DEF Start, Reload, SkipEmpty, ReadKey, ReadFails, SaveFails, KeygenEnds,
                      NoValidKeys, Fail
  <2> QED BY <1>1, <2>1, <2>2, <2>3, <2>4, <2>6, GenerateRefines, LoadEndsRefines DEF Step
<1>2. ASSUME NEW p \in Paths, Repair(p) PROVE [Store!Next]_Store!storeVars
  <2>1. file[p] = Broken /\ file' = [file EXCEPT ![p] = Absent] /\ UNCHANGED <<active, serving, contested>>
    BY <1>2 DEF Repair
  <2>2. \A q \in Paths : StoredAt(q)' = StoredAt(q)
    BY <2>1, HostKeysAssumption DEF StoredAt, IInv, TypeOK
  <2> QED BY <2>1, <2>2 DEF Store!storeVars
<1>3. CASE UNCHANGED vars
  BY <1>3 DEF vars, Store!storeVars, StoredAt
<1> QED BY <1>1, <1>2, <1>3 DEF Next

\* For any processes, paths and configurations, HostKeys implements the write-once store.
THEOREM Refinement == Spec => ImplementsStore
BY InitRefines, StepRefines, Invariant, PTL DEF Spec, ImplementsStore, Store!Spec
=============================================================================
