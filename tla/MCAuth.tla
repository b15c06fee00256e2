------------------------------- MODULE MCAuth -------------------------------
(***************************************************************************)
(* Small policies and files for Auth.                                      *)
(***************************************************************************)
EXTENDS Auth

CONSTANTS k1, k2, c1

\* Who the user is and what PermitRootLogin says.
MCRoots == {[root |-> FALSE, permitRoot |-> "no"]} \cup
           [root : {TRUE}, permitRoot : {"yes", "no", "prohibit-password",
                                         "forced-commands-only", "unknown"}]

\* The four lists: each pair in every combination, beside empty ones.
MCAccess ==
  [denyUsers : ListMatch, allowUsers : ListMatch, groupsFound : BOOLEAN,
   denyGroups : {"empty"}, allowGroups : {"empty"}] \cup
  [denyUsers : {"empty"}, allowUsers : {"empty"}, groupsFound : BOOLEAN,
   denyGroups : ListMatch, allowGroups : ListMatch]

MCOpen == {a \in MCAccess : {a.denyUsers, a.allowUsers, a.denyGroups, a.allowGroups} = {"empty"}
                            /\ a.groupsFound}

MCCertSets == [trusted : {{}, {c1}}, current : {{}, {c1}}, revoked : {{}, {c1}}]
MCGoodCert == {s \in MCCertSets : s.trusted = {c1} /\ s.current = {c1} /\ s.revoked = {}}

MCMake(r, a, s, m) ==
  [root |-> r.root, permitRoot |-> r.permitRoot, methods |-> m,
   denyUsers |-> a.denyUsers, allowUsers |-> a.allowUsers, groupsFound |-> a.groupsFound,
   denyGroups |-> a.denyGroups, allowGroups |-> a.allowGroups,
   trusted |-> s.trusted, current |-> s.current, revoked |-> s.revoked]

MCPolicies ==
  {MCMake(r, a, s, Methods) : r \in MCRoots, a \in MCOpen, s \in MCCertSets}
  \cup {MCMake(r, a, s, Methods) : r \in {[root |-> FALSE, permitRoot |-> "no"]},
                                   a \in MCAccess, s \in MCGoodCert}
  \cup {MCMake(r, a, s, {m}) : r \in MCRoots, a \in MCOpen, s \in MCGoodCert, m \in Methods}

\* At most two lines, of which one key has all kinds; a line may list the certificate.
MCLines == [key : {k1}, command : BOOLEAN, from : ListMatch] \cup
           [key : {k2}, command : BOOLEAN, from : {"empty"}] \cup
           [key : {c1}, command : {FALSE}, from : {"empty", "other"}]
MCFiles == {<<>>} \cup {<<a>> : a \in MCLines} \cup {<<a, b>> : a, b \in MCLines}
=============================================================================
