----------------------------- MODULE MCHostKeys -----------------------------
(***************************************************************************)
(* Two processes, two paths whose generated keys have the same algorithm   *)
(* (one of them by way of the deprecated name), and lists of paths that    *)
(* differ, have an empty entry, or are empty.                              *)
(***************************************************************************)
EXTENDS HostKeys, TLC

CONSTANTS
  NewKeys, \* keys to generate: interchangeable
  SmallRsa, MemoryKey

MCKeys == NewKeys \cup {SmallRsa, MemoryKey}
MCAlgo == [k \in MCKeys |-> CASE k = SmallRsa -> "rsa" [] k = MemoryKey -> "ecdsa"
                            [] OTHER -> "ed25519"]
MCWords == [p \in Paths |-> IF p = "ed25519_key" THEN {"ed25519"} ELSE {"dsa"}]
MCDefaultPaths == << "dsa_key", "ed25519_key" >>
Conf(kind, paths, data, auto) == [kind |-> kind, paths |-> paths, data |-> data, auto |-> auto]
MCConfs == {Conf("server", << "dsa_key", "", "ed25519_key" >>, << >>, TRUE),
            Conf("server", << "ed25519_key" >>, << >>, TRUE),
            Conf("keygen", << >>, << >>, TRUE),
            Conf("embedded", << "" >>, << >>, FALSE),
            Conf("embedded", << >>, << MemoryKey >>, FALSE)}
Interchangeable == Permutations(NewKeys) \cup Permutations(Servers)
=============================================================================
