---------------------------- MODULE HostKeyRules ----------------------------
(***************************************************************************)
(* What a host key is, and which of the keys it has a server offers: the   *)
(* part of pkg/crypto/hostkey.go and its callers that keeps no state.      *)
(***************************************************************************)
EXTENDS Naturals, Sequences

CONSTANTS
  Keys, NoKey,
  Algo,        \* algorithm of each key
  Small,       \* keys whose modulus is too small
  Paths, Empty, \* paths of key files, and the empty string
  Words,       \* for each path, the names of algorithms its file name contains
  DefaultPaths \* list of paths GenerateHostKeys falls back to

Algorithms == {"rsa", "ecdsa", "ed25519", "dsa"}

ASSUME KeyAssumption ==
  /\ Algo \in [Keys -> Algorithms]
  /\ Small \subseteq Keys
  /\ NoKey \notin Keys
  /\ Empty \notin Paths
  /\ Words \in [Paths -> SUBSET Algorithms]
  /\ DefaultPaths \in Seq(Paths)

\* The algorithm generated for a path.  A name with "ecdsa" contains "dsa" as well;
\* "dsa" and names that say nothing get the default.
keyTypeFromPath(p) ==
  IF "ed25519" \in Words[p] THEN "ed25519"
  ELSE IF "ecdsa" \in Words[p] THEN "ecdsa"
  ELSE IF "rsa" \in Words[p] THEN "rsa"
  ELSE "ed25519"

ValidateHostKey(k) ==
  /\ k \in Keys
  /\ Algo[k] # "dsa"
  /\ Algo[k] = "rsa" => k \notin Small

\* AddHostKey of gliderlabs/ssh: a key replaces the one of its algorithm.
Offered(ks) ==
  LET valid == {i \in DOMAIN ks : ValidateHostKey(ks[i])}
  IN {ks[i] : i \in {j \in valid : \A l \in valid : l > j => Algo[ks[l]] # Algo[ks[j]]}}

\* Whether a server configured with c makes a key for itself, when found has its key for
\* every path that is not empty.
MakesOwn(c, found) ==
  /\ c.paths # << >> \/ c.auto
  /\ \A i \in DOMAIN found : found[i] = NoKey

\* Keys it then offers; own is the one it makes.
Served(c, found, own) ==
  Offered(c.data \o IF MakesOwn(c, found) THEN << own >> ELSE found)
=============================================================================
