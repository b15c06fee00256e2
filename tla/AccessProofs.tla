---------------------------- MODULE AccessProofs ----------------------------
(***************************************************************************)
(* Who gets in, and with whose credentials that is served.  Safety of Auth *)
(* for any keys, certificates, policies and files: what the cache of       *)
(* crypto/ssh and the context hold together justifies a login.  Safety of  *)
(* Privileges for any sessions, commands and users.  Either has its        *)
(* inductive invariant, AuthIInv and IInv.                                 *)
(***************************************************************************)
EXTENDS Auth, Privileges, TLAPS

\* The stored options are those of the line that admits k, and are enough for root.
LineFor(k) ==
  /\ options \in DOMAIN file
  /\ StopsAt(file, k, options)
  /\ Admitting(file, k) # {}
  /\ ForcedCommandOK(policy, file, options)

\* What makes a key or a certificate good enough.
Justified(k) ==
  /\ Authorized(policy, "publickey")
  /\ ValidateCertificate(policy, k) \/ LineFor(k)

\* A cached yes is still justified by the options in the context, which any other
\* key asked about would have replaced together with the cache.
CacheJustified == cache.ok => Justified(cache.key)

\* Who is in was admitted by a handler.
LoginJustified ==
  phase = "in" =>
    \/ login.method = "publickey" /\ Justified(login.key)
    \/ /\ login.method \in {"password", "keyboard-interactive"}
       /\ login.key = NoKey
       /\ Authorized(policy, login.method)

AuthIInv == AuthTypeOK /\ CacheJustified /\ LoginJustified

----------------------------------------------------------------------------
(* The handler for public keys.                                            *)

\* A scan leaves the options as they were, or stores those of a line.
LEMMA OptionsAreLines ==
  ASSUME NEW p, NEW k, NEW f, NEW old \in {NoOptions} \cup DOMAIN f,
         NEW stored \in OptionsAfter(p, f, k, old)
  PROVE  stored \in {NoOptions} \cup DOMAIN f
  BY DEF OptionsAfter, StoredOptions

\* When the handler says yes and no certificate is the reason, the options it left
\* are those of the first line that admits the key.
LEMMA HandlerStoresItsLine ==
  ASSUME NEW p, NEW k, NEW f, NEW old, NEW stored \in OptionsAfter(p, f, k, old),
         PublicKeyOK(p, f, k, stored), ~ValidateCertificate(p, k)
  PROVE  /\ Authorized(p, "publickey")
         /\ stored \in DOMAIN f /\ StopsAt(f, k, stored)
         /\ Admitting(f, k) # {}
         /\ ForcedCommandOK(p, f, stored)
<1>1. Authorized(p, "publickey") /\ Admitting(f, k) # {} /\ ForcedCommandOK(p, f, stored)
  BY DEF PublicKeyOK
<1>2. Matching(f, k) # {}
  BY <1>1 DEF Admitting
<1>3. stored \in {i \in DOMAIN f : StopsAt(f, k, i)}
  BY <1>1, <1>2 DEF OptionsAfter, StoredOptions
<1> QED BY <1>1, <1>3

\* The handler's answer is a truth value.
LEMMA AnswerIsBoolean ==
  ASSUME NEW p, NEW k, NEW f, NEW stored
  PROVE  PublicKeyOK(p, f, k, stored) \in BOOLEAN
  BY Zenon DEF PublicKeyOK

\* Asking keeps the types and leaves a justified cache, whether the handler runs
\* or the cache answers.
LEMMA AskPreserves ==
  ASSUME AuthIInv, NEW k \in Credentials, AskHandler(k), UNCHANGED <<policy, file>>
  PROVE  /\ options' \in {NoOptions} \cup DOMAIN file
         /\ cache' \in [key : Credentials \cup {NoKey}, ok : BOOLEAN]
         /\ cache'.key = k
         /\ CacheJustified'
<1>1. CASE cache.key = k
  BY <1>1 DEF AskHandler, AuthIInv, AuthTypeOK, CacheJustified, Justified, LineFor
<1>2. CASE cache.key # k
  <2>1. PICK stored \in OptionsAfter(policy, file, k, options) :
          /\ options' = stored
          /\ cache' = [key |-> k, ok |-> PublicKeyOK(policy, file, k, stored)]
    BY <1>2 DEF AskHandler
  <2>2. options' \in {NoOptions} \cup DOMAIN file
    BY <2>1, OptionsAreLines DEF AuthIInv, AuthTypeOK
  <2>3. PublicKeyOK(policy, file, k, stored) \in BOOLEAN
    BY AnswerIsBoolean
  <2>4. /\ cache' \in [key : Credentials \cup {NoKey}, ok : BOOLEAN]
        /\ cache'.key = k
        /\ cache'.ok = PublicKeyOK(policy, file, k, stored)
    BY <2>1, <2>3
  <2>5. CacheJustified'
    <3> SUFFICES ASSUME cache'.ok PROVE Justified(k)'
      BY <2>4 DEF CacheJustified
    <3>1. PublicKeyOK(policy, file, k, stored)
      BY <2>4
    <3>2. Authorized(policy, "publickey")
      BY <3>1 DEF PublicKeyOK
    <3>3. CASE ValidateCertificate(policy, k)
      BY <3>2, <3>3 DEF Justified
    <3>4. CASE ~ValidateCertificate(policy, k)
      BY <3>1, <3>4, <2>1, HandlerStoresItsLine DEF Justified, LineFor
    <3> QED BY <3>3, <3>4
  <2> QED BY <2>2, <2>4, <2>5
<1> QED BY <1>1, <1>2

----------------------------------------------------------------------------
(* The inductive invariant.                                                *)

LEMMA AuthInitInvariant == AuthInit => AuthIInv
  BY AuthAssumption DEF AuthInit, AuthIInv, AuthTypeOK, CacheJustified, LoginJustified

LEMMA AuthNextInvariant == AuthIInv /\ [AuthNext]_authVars => AuthIInv'
<1> SUFFICES ASSUME AuthIInv, [AuthNext]_authVars PROVE AuthIInv'
  OBVIOUS
<1>1. ASSUME NEW k \in Credentials, Query(k) PROVE AuthIInv'
  <2>1. UNCHANGED <<policy, file, phase, login>> /\ phase = "auth" /\ tries' \in 0..MaxTries
    BY <1>1, AuthAssumption DEF Query, Attempt, AuthIInv, AuthTypeOK
  <2>2. /\ options' \in {NoOptions} \cup DOMAIN file
        /\ cache' \in [key : Credentials \cup {NoKey}, ok : BOOLEAN]
        /\ CacheJustified'
    BY <1>1, <2>1, AskPreserves DEF Query
  <2> QED BY <2>1, <2>2 DEF AuthIInv, AuthTypeOK, LoginJustified
<1>2. ASSUME NEW k \in Credentials, Sign(k) PROVE AuthIInv'
  <2>1. UNCHANGED <<policy, file>> /\ phase = "auth" /\ tries' \in 0..MaxTries
    BY <1>2, AuthAssumption DEF Sign, Attempt, AuthIInv, AuthTypeOK
  <2>2. /\ options' \in {NoOptions} \cup DOMAIN file
        /\ cache' \in [key : Credentials \cup {NoKey}, ok : BOOLEAN]
        /\ cache'.key = k
        /\ CacheJustified'
    BY <1>2, <2>1, AskPreserves DEF Sign
  <2>3. CASE cache'.ok /\ LogIn("publickey", k)
    <3>1. phase' = "in" /\ login' = [method |-> "publickey", key |-> k]
      BY <2>3 DEF LogIn
    <3>2. Justified(k)'
      BY <2>2, <2>3 DEF CacheJustified
    <3> QED BY <2>1, <2>2, <3>1, <3>2 DEF AuthIInv, AuthTypeOK, LoginJustified, Methods
  <2>4. CASE UNCHANGED <<phase, login>>
    BY <2>1, <2>2, <2>4 DEF AuthIInv, AuthTypeOK, LoginJustified
  <2> QED BY <1>2, <2>3, <2>4 DEF Sign
<1>3. ASSUME NEW method \in {"password", "keyboard-interactive"}, AskPAM(method) PROVE AuthIInv'
  <2>1. /\ UNCHANGED <<policy, file, options, cache>>
        /\ phase = "auth" /\ tries' \in 0..MaxTries
    BY <1>3, AuthAssumption DEF AskPAM, Attempt, AuthIInv, AuthTypeOK
  <2>2. CacheJustified'
    BY <2>1 DEF AuthIInv, CacheJustified, Justified, LineFor
  <2>3. CASE Authorized(policy, method) /\ LogIn(method, NoKey)
    <3>1. phase' = "in" /\ login' = [method |-> method, key |-> NoKey]
      BY <2>3 DEF LogIn
    <3> QED BY <2>1, <2>2, <2>3, <3>1 DEF AuthIInv, AuthTypeOK, LoginJustified, Methods
  <2>4. CASE UNCHANGED <<phase, login>>
    BY <2>1, <2>2, <2>4 DEF AuthIInv, AuthTypeOK, LoginJustified
  <2> QED BY <1>3, <2>3, <2>4 DEF AskPAM
<1>4. CASE UNCHANGED authVars
  BY <1>4 DEF authVars, AuthIInv, AuthTypeOK, CacheJustified, LoginJustified, Justified, LineFor
<1> QED BY <1>1, <1>2, <1>3, <1>4 DEF AuthNext

THEOREM AuthInvariance == AuthSpec => []AuthIInv
  BY AuthInitInvariant, AuthNextInvariant, PTL DEF AuthSpec

----------------------------------------------------------------------------
(* The properties.                                                         *)

\* The options always name a line of the file, or none, and the cache holds one
\* answer, for any keys, policies and files.
THEOREM AuthTypeCorrect == AuthSpec => []AuthTypeOK
<1>1. AuthIInv => AuthTypeOK
  BY DEF AuthIInv
<1> QED BY AuthInvariance, <1>1, PTL

\* What the handlers check suffices for sshd_config's rules.
LEMMA AuthorizedObeysPolicy ==
  ASSUME NEW p \in Policy, NEW m, Authorized(p, m)
  PROVE  /\ m \in p.methods
         /\ "match" \notin {p.denyUsers, p.denyGroups}
         /\ "other" \notin {p.allowUsers, p.allowGroups}
         /\ p.groupsFound \/ {p.denyGroups, p.allowGroups} = {"empty"}
         /\ p.root => /\ p.permitRoot # "no"
                      /\ m # "publickey" => p.permitRoot = "yes"
  BY DEF Authorized, IsUserAllowed, IsGroupAllowed, IsRootLoginAllowed, Policy

\* Nobody is in whom the Deny and Allow lists, the enabled methods or
\* PermitRootLogin keep out, for any policy and any order of attempts.
THEOREM OnlyAuthorized == AuthSpec => []LoginAuthorized
<1>1. AuthIInv => LoginAuthorized
  <2> SUFFICES ASSUME AuthIInv, phase = "in" PROVE LoginAuthorized
    BY DEF LoginAuthorized
  <2>1. Authorized(policy, login.method)
    BY DEF AuthIInv, LoginJustified, Justified
  <2>2. policy \in Policy
    BY AuthAssumption DEF AuthIInv, AuthTypeOK
  <2> QED BY <2>1, <2>2, AuthorizedObeysPolicy DEF LoginAuthorized
<1> QED BY AuthInvariance, <1>1, PTL

\* Who is in by a line has that line's options in the context.
LEMMA InByItsLine ==
  ASSUME AuthIInv, InByLine
  PROVE  LineFor(login.key)
  BY DEF AuthIInv, LoginJustified, InByLine, Valid, Justified, ValidateCertificate

\* A session enforces the options of the line that admitted the key that signed,
\* for any file and any sequence of queries and signatures before it.
THEOREM LineOfTheKey == AuthSpec => []KeyLoginHasItsLine
<1>1. AuthIInv => KeyLoginHasItsLine
  <2> SUFFICES ASSUME AuthIInv, InByLine PROVE KeyLoginHasItsLine
    BY DEF KeyLoginHasItsLine
  <2>1. LineFor(login.key)
    BY InByItsLine
  <2>2. file \in Seq(Line)
    BY AuthAssumption DEF AuthIInv, AuthTypeOK
  <2> QED BY <2>1, <2>2 DEF KeyLoginHasItsLine, LineFor, StopsAt, Matching, Admitting, NoOptions
<1> QED BY AuthInvariance, <1>1, PTL

\* Under forced-commands-only no line without command= lets root in.
THEOREM RootCommand == AuthSpec => []RootKeyHasCommand
<1>1. AuthIInv => RootKeyHasCommand
  <2> SUFFICES ASSUME AuthIInv, InByLine PROVE RootKeyHasCommand
    BY DEF RootKeyHasCommand
  <2>1. LineFor(login.key)
    BY InByItsLine
  <2> QED BY <2>1 DEF RootKeyHasCommand, LineFor, ForcedCommandOK, IsRootForcedCommandsRequired
<1> QED BY AuthInvariance, <1>1, PTL

\* A certificate on no line is trusted, current and not revoked when it lets in.
THEOREM CertValid == AuthSpec => []CertLoginValid
<1>1. AuthIInv => CertLoginValid
  <2> SUFFICES ASSUME AuthIInv, phase = "in", login.key \in Certs,
                      \A i \in DOMAIN file : file[i].key # login.key
               PROVE  Valid(login.key)
    BY DEF CertLoginValid
  <2>1. login.method = "publickey"
    BY AuthAssumption DEF AuthIInv, LoginJustified, Credentials
  <2>2. ~LineFor(login.key)
    BY DEF LineFor, StopsAt, Matching
  <2> QED BY <2>1, <2>2, InByItsLine DEF InByLine
<1> QED BY AuthInvariance, <1>1, PTL

----------------------------------------------------------------------------
(* Privileges.                                                             *)

\* Between the first call of the drop and the last of the restore.
Switching == {"groups", "gid", "uid", "restoreUid", "restoreGid", "stuck"}

\* Only a daemon run as root looks a user up, and only after that is the user's
\* credential used; any other daemon is never root.
RootOnly ==
  /\ RunAsRoot => cred.savedGid = Root
  /\ ~RunAsRoot => cred.uid # Root
  /\ \A a \in Actors : pc[a] = "lookup" \/ mode[a] = "user" => RunAsRoot
  /\ \A a \in Actors : pc[a] \in {"idle", "lookup"} => mode[a] = "daemon"
  /\ \A s \in Sessions : pc[s] \in Switching => mode[s] = "user"

\* While a session that overlaps no other is under way, no other session is; nor is
\* one while such a command is.
AloneMeansAlone ==
  \A a \in Actors \ overlapped : UnderWay(a) =>
    \A s \in Sessions \ {a} : ~UnderWay(s)

\* The drop of a session that overlaps no other, call by call.
AloneDrops ==
  \A s \in Sessions \ overlapped :
    /\ pc[s] \in {"gid", "uid"} => cred.groups = userOf[s]
    /\ pc[s] = "uid" => cred.gid = userOf[s]

\* A command that overlaps no session was given its user's credential, if the daemon
\* has any to give.
AloneHasCredential ==
  RunAsRoot => \A c \in Commands \ overlapped : pc[c] = "start" => mode[c] = "user"

IInv ==
  /\ TypeOK
  /\ RootOnly /\ RestoreSucceeds /\ RootAtRest
  /\ AloneMeansAlone /\ AloneDrops /\ AloneServedAsUser
  /\ AloneHasCredential /\ AloneRunsAsUser

LEMMA InitInvariant == Init => IInv
<1> SUFFICES ASSUME Init PROVE IInv
  OBVIOUS
<1>1. PICK d \in DaemonIds : cred = [uid |-> d, savedUid |-> d, gid |-> d,
                                     savedGid |-> d, groups |-> d]
  BY DEF Init
<1>2. d \in Ids
  BY PrivilegesAssumption DEF Ids
<1>3. /\ pc = [a \in Actors |-> "idle"] /\ mode = [a \in Actors |-> "daemon"]
      /\ ranAs = [c \in Commands |-> "none"] /\ overlapped = {} /\ userOf \in [Actors -> Ids]
  BY DEF Init
<1>4. Sessions \subseteq Actors /\ Commands \subseteq Actors
  BY DEF Actors
<1>5. TypeOK
  BY <1>1, <1>2, <1>3, <1>4 DEF TypeOK, SessionPcs, CommandPcs
<1>6. RootOnly /\ RestoreSucceeds /\ RootAtRest
  BY <1>1, <1>3, <1>4 DEF RootOnly, RunAsRoot, RestoreSucceeds, RootAtRest, Switching
<1>7. AloneMeansAlone /\ AloneDrops /\ AloneServedAsUser /\ AloneHasCredential /\ AloneRunsAsUser
  BY <1>3, <1>4 DEF AloneMeansAlone, UnderWay, AloneDrops, AloneServedAsUser, Dropped,
                    AloneHasCredential, AloneRunsAsUser
<1> QED BY <1>5, <1>6, <1>7 DEF IInv

----------------------------------------------------------------------------
(* Steps that leave the process's credential alone.                        *)

LEMMA StartPreserves ==
  ASSUME IInv, NEW a \in Actors, Start(a)
  PROVE  IInv'
<1> USE DEF IInv
<1>1. /\ pc[a] = "idle" /\ overlapped' = overlapped \cup Overlaps(a)
      /\ UNCHANGED <<cred, userOf, mode, ranAs>>
  BY DEF Start
<1>2. /\ pc' = [pc EXCEPT ![a] = IF canDropPrivileges THEN "lookup"
                                 ELSE IF a \in Sessions THEN "serving" ELSE "start"]
      /\ \A b \in Actors \ {a} : pc'[b] = pc[b]
      /\ pc'[a] = IF canDropPrivileges THEN "lookup"
                  ELSE IF a \in Sessions THEN "serving" ELSE "start"
  BY DEF Start, Goto, TypeOK
<1>3. Overlaps(a) \subseteq Actors
  BY DEF Overlaps
<1>4. TypeOK'
  BY <1>1, <1>2, <1>3, PrivilegesAssumption DEF TypeOK, SessionPcs, CommandPcs, Actors
<1>5. RootOnly'
  BY <1>1, <1>2 DEF RootOnly, RunAsRoot, canDropPrivileges, Switching, Actors
<1>6. RestoreSucceeds'
  BY <1>1, <1>2 DEF RestoreSucceeds, Actors
<1>7. RootAtRest'
  BY <1>1, <1>2 DEF RootAtRest, RunAsRoot, Dropped, Actors
<1>8. AloneMeansAlone'
  BY <1>1, <1>2 DEF AloneMeansAlone, Overlaps, UnderWay, Actors
<1>9. AloneDrops'
  BY <1>1, <1>2 DEF AloneDrops, Actors
<1>10. AloneServedAsUser'
  <2>1. mode'[a] = "daemon"
    BY <1>1 DEF RootOnly
  <2> QED BY <1>1, <1>2, <2>1 DEF AloneServedAsUser, Dropped, Actors
<1>11. AloneHasCredential'
  <2> SUFFICES ASSUME RunAsRoot, a \in Commands, a \notin overlapped', pc'[a] = "start"
               PROVE  FALSE
    BY <1>1, <1>2 DEF AloneHasCredential, RunAsRoot, Actors
  <2>1. cred.uid # Root
    BY <1>2, PrivilegesAssumption DEF canDropPrivileges
  <2>2. PICK s \in Sessions : UnderWay(s)
    BY <2>1 DEF RootAtRest, Dropped, UnderWay
  <2>3. a \in Overlaps(a)
    BY <1>1, <2>2, PrivilegesAssumption DEF Overlaps, UnderWay, Actors
  <2> QED BY <1>1, <2>3
<1>12. AloneRunsAsUser'
  BY <1>1 DEF AloneRunsAsUser, RunAsRoot
<1> QED BY <1>4, <1>5, <1>6, <1>7, <1>8, <1>9, <1>10, <1>11, <1>12

\* A step that takes an actor under way to another label.
LEMMA MoveKeepsAlone ==
  ASSUME TypeOK, AloneMeansAlone, NEW a \in Actors, NEW label,
         UnderWay(a), Goto(a, label), UNCHANGED overlapped
  PROVE  /\ pc'[a] = label /\ \A b \in Actors \ {a} : pc'[b] = pc[b]
         /\ AloneMeansAlone'
<1>1. pc'[a] = label /\ \A b \in Actors \ {a} : pc'[b] = pc[b]
  BY DEF Goto, TypeOK
<1> QED BY <1>1 DEF AloneMeansAlone, UnderWay, Actors

LEMMA LookupFailsPreserves ==
  ASSUME IInv, NEW a \in Actors, LookupFails(a)
  PROVE  IInv'
<1> USE DEF IInv
<1>1. pc[a] = "lookup" /\ UNCHANGED <<cred, userOf, mode, ranAs, overlapped>>
  BY DEF LookupFails
<1>2. Goto(a, IF a \in Sessions THEN "serving" ELSE "failed")
  BY DEF LookupFails
<1>3. a \in Actors /\ UnderWay(a)
  BY <1>1 DEF Actors, UnderWay
<1>4. /\ pc'[a] = IF a \in Sessions THEN "serving" ELSE "failed"
      /\ \A b \in Actors \ {a} : pc'[b] = pc[b]
      /\ AloneMeansAlone'
  BY <1>1, <1>2, <1>3, MoveKeepsAlone
<1>5. TypeOK'
  BY <1>1, <1>2, <1>3, PrivilegesAssumption DEF TypeOK, Goto, SessionPcs, CommandPcs, Actors
<1>6. RootOnly'
  BY <1>1, <1>3, <1>4, PrivilegesAssumption DEF RootOnly, RunAsRoot, Switching, Actors
<1>7. RestoreSucceeds' /\ RootAtRest'
  BY <1>1, <1>3, <1>4 DEF RestoreSucceeds, RootOnly, RootAtRest, RunAsRoot, Dropped, Actors
<1>8. AloneDrops' /\ AloneServedAsUser'
  BY <1>1, <1>3, <1>4 DEF RootOnly, AloneDrops, AloneServedAsUser, Dropped, Actors
<1>9. AloneHasCredential' /\ AloneRunsAsUser'
  BY <1>1, <1>3, <1>4, PrivilegesAssumption
     DEF AloneHasCredential, AloneRunsAsUser, RunAsRoot, Actors
<1> QED BY <1>4, <1>5, <1>6, <1>7, <1>8, <1>9

LEMMA DropFailsPreserves ==
  ASSUME IInv, NEW s \in Sessions, DropFails(s)
  PROVE  IInv'
<1> USE DEF IInv
<1>1. pc[s] \in {"groups", "gid", "uid"} /\ UNCHANGED <<cred, userOf, mode, ranAs, overlapped>>
  BY DEF DropFails
<1>2. Goto(s, "failed")
  BY DEF DropFails
<1>3. s \in Actors /\ UnderWay(s)
  BY <1>1 DEF Actors, UnderWay
<1>4. /\ pc'[s] = "failed"
      /\ \A b \in Actors \ {s} : pc'[b] = pc[b]
      /\ AloneMeansAlone'
  BY <1>1, <1>2, <1>3, MoveKeepsAlone
<1>5. TypeOK'
  BY <1>1, <1>2, <1>3, PrivilegesAssumption DEF TypeOK, Goto, SessionPcs, CommandPcs, Actors
<1>6. RootOnly'
  BY <1>1, <1>3, <1>4, PrivilegesAssumption DEF RootOnly, RunAsRoot, Switching, Actors
<1>7. RestoreSucceeds' /\ RootAtRest'
  BY <1>1, <1>3, <1>4 DEF RestoreSucceeds, RootOnly, RootAtRest, RunAsRoot, Dropped, Actors
<1>8. AloneDrops' /\ AloneServedAsUser'
  BY <1>1, <1>3, <1>4 DEF RootOnly, AloneDrops, AloneServedAsUser, Dropped, Actors
<1>9. AloneHasCredential' /\ AloneRunsAsUser'
  BY <1>1, <1>3, <1>4, PrivilegesAssumption
     DEF AloneHasCredential, AloneRunsAsUser, RunAsRoot, Actors
<1> QED BY <1>4, <1>5, <1>6, <1>7, <1>8, <1>9

LEMMA EndServePreserves ==
  ASSUME IInv, NEW s \in Sessions, EndServe(s)
  PROVE  IInv'
<1> USE DEF IInv
<1>1. pc[s] = "serving" /\ UNCHANGED <<cred, userOf, mode, ranAs, overlapped>>
  BY DEF EndServe
<1>2. Goto(s, IF mode[s] = "user" THEN "restoreUid" ELSE "done")
  BY DEF EndServe
<1>3. s \in Actors /\ UnderWay(s)
  BY <1>1 DEF Actors, UnderWay
<1>4. /\ pc'[s] = IF mode[s] = "user" THEN "restoreUid" ELSE "done"
      /\ \A b \in Actors \ {s} : pc'[b] = pc[b]
      /\ AloneMeansAlone'
  BY <1>1, <1>2, <1>3, MoveKeepsAlone
<1>5. TypeOK'
  BY <1>1, <1>2, <1>3, PrivilegesAssumption DEF TypeOK, Goto, SessionPcs, CommandPcs, Actors
<1>6. RootOnly'
  BY <1>1, <1>3, <1>4, PrivilegesAssumption DEF RootOnly, RunAsRoot, Switching, Actors
<1>7. RestoreSucceeds' /\ RootAtRest'
  BY <1>1, <1>3, <1>4 DEF RestoreSucceeds, RootOnly, RootAtRest, RunAsRoot, Dropped, Actors
<1>8. AloneDrops' /\ AloneServedAsUser'
  BY <1>1, <1>3, <1>4 DEF RootOnly, AloneDrops, AloneServedAsUser, Dropped, Actors
<1>9. AloneHasCredential' /\ AloneRunsAsUser'
  BY <1>1, <1>3, <1>4, PrivilegesAssumption
     DEF AloneHasCredential, AloneRunsAsUser, RunAsRoot, Actors
<1> QED BY <1>4, <1>5, <1>6, <1>7, <1>8, <1>9

LEMMA LookupSessionPreserves ==
  ASSUME IInv, NEW s \in Sessions, LookupSession(s)
  PROVE  IInv'
<1> USE DEF IInv
<1> DEFINE label == IF canDropPrivileges THEN "groups" ELSE "serving"
<1>1. pc[s] = "lookup" /\ UNCHANGED <<cred, userOf, ranAs, overlapped>>
  BY DEF LookupSession
<1>2. Goto(s, label) /\ mode' = [mode EXCEPT ![s] = IF canDropPrivileges THEN "user" ELSE @]
  BY DEF LookupSession, TypeOK
<1>3. s \in Actors /\ UnderWay(s)
  BY <1>1 DEF Actors, UnderWay
<1>4. /\ pc'[s] = label
      /\ \A b \in Actors \ {s} : pc'[b] = pc[b]
      /\ AloneMeansAlone'
  BY <1>1, <1>2, <1>3, MoveKeepsAlone
<1>5. /\ mode'[s] = IF canDropPrivileges THEN "user" ELSE "daemon"
      /\ \A b \in Actors \ {s} : mode'[b] = mode[b]
  BY <1>1, <1>2, <1>3 DEF TypeOK, RootOnly
<1>6. TypeOK'
  BY <1>1, <1>2, <1>3, PrivilegesAssumption DEF TypeOK, Goto, SessionPcs, CommandPcs, Actors
<1>7. RootOnly'
  BY <1>1, <1>3, <1>4, <1>5, PrivilegesAssumption
     DEF RootOnly, RunAsRoot, canDropPrivileges, Switching, Actors
<1>8. RestoreSucceeds' /\ RootAtRest'
  BY <1>1, <1>3, <1>4, <1>5 DEF RestoreSucceeds, RootAtRest, RunAsRoot, Dropped, Actors
<1>9. AloneDrops' /\ AloneServedAsUser'
  BY <1>1, <1>3, <1>4, <1>5 DEF AloneDrops, AloneServedAsUser, Dropped, Actors
<1>10. AloneHasCredential' /\ AloneRunsAsUser'
  BY <1>1, <1>3, <1>4, <1>5, PrivilegesAssumption
     DEF AloneHasCredential, AloneRunsAsUser, RunAsRoot, Actors
<1> QED BY <1>4, <1>6, <1>7, <1>8, <1>9, <1>10

LEMMA LookupCommandPreserves ==
  ASSUME IInv, NEW c \in Commands, LookupCommand(c)
  PROVE  IInv'
<1> USE DEF IInv
<1>1. /\ pc[c] = "lookup" /\ mode' = [mode EXCEPT ![c] = "user"] /\ Goto(c, "start")
      /\ UNCHANGED <<cred, userOf, ranAs, overlapped>>
  BY DEF LookupCommand
<1>2. c \in Actors /\ c \notin Sessions /\ UnderWay(c)
  BY <1>1, PrivilegesAssumption DEF Actors, UnderWay
<1>3. /\ pc'[c] = "start"
      /\ \A b \in Actors \ {c} : pc'[b] = pc[b]
      /\ AloneMeansAlone'
  BY <1>1, <1>2, MoveKeepsAlone
<1>4. mode'[c] = "user" /\ \A b \in Actors \ {c} : mode'[b] = mode[b]
  BY <1>1, <1>2 DEF TypeOK
<1>5. TypeOK'
  BY <1>1, <1>2, PrivilegesAssumption DEF TypeOK, Goto, SessionPcs, CommandPcs, Actors
<1>6. RootOnly'
  BY <1>1, <1>2, <1>3, <1>4 DEF RootOnly, RunAsRoot, Switching, Actors
<1>7. RestoreSucceeds' /\ RootAtRest'
  BY <1>1, <1>2, <1>3, <1>4 DEF RestoreSucceeds, RootAtRest, RunAsRoot, Dropped, Actors
<1>8. AloneDrops' /\ AloneServedAsUser'
  BY <1>1, <1>2, <1>3, <1>4 DEF AloneDrops, AloneServedAsUser, Dropped, Actors
<1>9. AloneHasCredential' /\ AloneRunsAsUser'
  BY <1>1, <1>2, <1>3, <1>4 DEF AloneHasCredential, AloneRunsAsUser, RunAsRoot, Actors
<1> QED BY <1>3, <1>5, <1>6, <1>7, <1>8, <1>9

LEMMA StartCommandPreserves ==
  ASSUME IInv, NEW c \in Commands, StartCommand(c)
  PROVE  IInv'
<1> USE DEF IInv
<1> DEFINE label == IF mode[c] = "user" /\ ~Privileged THEN "failed" ELSE "done"
<1>1. pc[c] = "start" /\ UNCHANGED <<cred, userOf, mode, overlapped>>
  BY DEF StartCommand
<1>2. Goto(c, label)
  BY DEF StartCommand
<1>3. \/ ranAs' = ranAs
      \/ mode[c] = "user" /\ ranAs' = [ranAs EXCEPT ![c] = userOf[c]]
      \/ mode[c] # "user" /\ ranAs' = [ranAs EXCEPT ![c] = cred.uid]
  BY DEF StartCommand
<1>4. c \in Actors /\ c \notin Sessions /\ UnderWay(c)
  BY <1>1, PrivilegesAssumption DEF Actors, UnderWay
<1>5. /\ pc'[c] = label
      /\ \A b \in Actors \ {c} : pc'[b] = pc[b]
      /\ AloneMeansAlone'
  BY <1>1, <1>2, <1>4, MoveKeepsAlone
<1>6. TypeOK'
  <2>1. ranAs' \in [Commands -> Ids \cup {"none"}]
    BY <1>3, <1>4 DEF TypeOK
  <2> QED BY <2>1, <1>1, <1>2, <1>4 DEF TypeOK, Goto, SessionPcs, CommandPcs, Actors
<1>7. RootOnly'
  BY <1>1, <1>4, <1>5 DEF RootOnly, RunAsRoot, Switching, Actors
<1>8. RestoreSucceeds' /\ RootAtRest'
  BY <1>1, <1>4, <1>5 DEF RestoreSucceeds, RootAtRest, RunAsRoot, Dropped, Actors
<1>9. AloneDrops' /\ AloneServedAsUser'
  BY <1>1, <1>4, <1>5 DEF AloneDrops, AloneServedAsUser, Dropped, Actors
<1>10. AloneHasCredential'
  BY <1>1, <1>4, <1>5 DEF AloneHasCredential, RunAsRoot, Actors
<1>11. AloneRunsAsUser'
  <2> SUFFICES ASSUME RunAsRoot, NEW d \in Commands \ overlapped
               PROVE  ranAs'[d] \in {userOf[d], "none"}
    BY <1>1 DEF AloneRunsAsUser, RunAsRoot
  <2>1. CASE d # c
    BY <2>1, <1>3 DEF TypeOK, AloneRunsAsUser
  <2>2. CASE d = c
    BY <2>2, <1>1, <1>3 DEF TypeOK, AloneRunsAsUser, AloneHasCredential
  <2> QED BY <2>1, <2>2
<1> QED BY <1>5, <1>6, <1>7, <1>8, <1>9, <1>10, <1>11

----------------------------------------------------------------------------
(* Steps that change the process's credential.                             *)

\* Any such step: a session that uses its user's credential goes on to the next
\* label, and the daemon stays one that can become root again.
CredStep(s, label) ==
  /\ mode[s] = "user" /\ UnderWay(s) /\ Goto(s, label)
  /\ cred' \in [uid : Ids, savedUid : Ids, gid : Ids, savedGid : Ids, groups : Ids]
  /\ cred'.savedUid = Root /\ cred'.savedGid = Root
  /\ UNCHANGED <<userOf, mode, ranAs, overlapped>>

\* What any such step keeps.
LEMMA CredStepPreserves ==
  ASSUME IInv, NEW s \in Sessions, NEW label \in SessionPcs \ {"idle", "lookup", "stuck"},
         CredStep(s, label)
  PROVE  /\ TypeOK' /\ RootOnly' /\ RestoreSucceeds'
         /\ AloneMeansAlone' /\ AloneHasCredential' /\ AloneRunsAsUser'
         /\ RunAsRoot
         /\ pc'[s] = label /\ \A t \in Sessions \ {s} : pc'[t] = pc[t]
         /\ \A t \in Sessions \ {s} : t \notin overlapped => ~UnderWay(t)
<1> USE DEF IInv
<1>1. s \in Actors /\ s \notin Commands /\ RunAsRoot
  BY PrivilegesAssumption DEF CredStep, RootOnly, Actors
<1>2. /\ pc'[s] = label
      /\ \A b \in Actors \ {s} : pc'[b] = pc[b]
      /\ AloneMeansAlone'
  BY <1>1, MoveKeepsAlone DEF CredStep
<1>3. TypeOK'
  BY <1>1 DEF CredStep, TypeOK, Goto
<1>4. RootOnly' /\ RestoreSucceeds'
  BY <1>1, <1>2 DEF CredStep, RootOnly, RunAsRoot, RestoreSucceeds, Actors
<1>5. AloneHasCredential' /\ AloneRunsAsUser'
  BY <1>1, <1>2 DEF CredStep, AloneHasCredential, AloneRunsAsUser, RunAsRoot, Actors
<1>6. \A t \in Sessions \ {s} : t \notin overlapped => ~UnderWay(t)
  BY <1>1 DEF AloneMeansAlone, CredStep, Actors
<1> QED BY <1>1, <1>2, <1>3, <1>4, <1>5, <1>6 DEF Actors

LEMMA SetGroupsPreserves ==
  ASSUME IInv, NEW s \in Sessions, SetGroups(s)
  PROVE  IInv'
<1> USE DEF IInv
<1>1. pc[s] = "groups" /\ mode[s] = "user" /\ RunAsRoot /\ cred.savedGid = Root
  BY DEF SetGroups, RootOnly, Switching, Actors
<1>2. /\ cred' = [cred EXCEPT !.groups = userOf[s]]
      /\ Goto(s, "gid")
      /\ UNCHANGED <<userOf, mode, ranAs, overlapped>>
  BY <1>1 DEF SetGroups
<1>3. cred'.groups = userOf[s] /\ cred'.uid = cred.uid /\ cred'.savedUid = cred.savedUid /\ cred'.gid = cred.gid /\ cred'.savedGid = cred.savedGid
  BY <1>2 DEF TypeOK
<1>4. CredStep(s, "gid")
  BY <1>1, <1>2, <1>3 DEF CredStep, UnderWay, RunAsRoot, TypeOK, Ids, Actors
<1>5. /\ TypeOK' /\ RootOnly' /\ RestoreSucceeds'
      /\ AloneMeansAlone' /\ AloneHasCredential' /\ AloneRunsAsUser'
      /\ pc'[s] = "gid" /\ \A t \in Sessions \ {s} : pc'[t] = pc[t]
      /\ \A t \in Sessions \ {s} : t \notin overlapped => ~UnderWay(t)
  BY <1>4, CredStepPreserves DEF SessionPcs
<1>6. RootAtRest'
  BY <1>1, <1>2, <1>3, <1>5 DEF RootAtRest, RunAsRoot, Dropped
<1>7. AloneDrops' /\ AloneServedAsUser'
  BY <1>1, <1>2, <1>3, <1>5 DEF AloneDrops, AloneServedAsUser, Dropped, UnderWay
<1> QED BY <1>5, <1>6, <1>7

LEMMA SetGidPreserves ==
  ASSUME IInv, NEW s \in Sessions, SetGid(s)
  PROVE  IInv'
<1> USE DEF IInv
<1>1. pc[s] = "gid" /\ mode[s] = "user" /\ RunAsRoot /\ cred.savedGid = Root
  BY DEF SetGid, RootOnly, Switching, Actors
<1>2. /\ cred' = [cred EXCEPT !.gid = userOf[s], !.savedGid = Root]
      /\ Goto(s, "uid")
      /\ UNCHANGED <<userOf, mode, ranAs, overlapped>>
  BY <1>1 DEF SetGid
<1>3. cred'.gid = userOf[s] /\ cred'.savedGid = Root /\ cred'.uid = cred.uid /\ cred'.savedUid = cred.savedUid /\ cred'.groups = cred.groups
  BY <1>2 DEF TypeOK
<1>4. CredStep(s, "uid")
  BY <1>1, <1>2, <1>3 DEF CredStep, UnderWay, RunAsRoot, TypeOK, Ids, Actors
<1>5. /\ TypeOK' /\ RootOnly' /\ RestoreSucceeds'
      /\ AloneMeansAlone' /\ AloneHasCredential' /\ AloneRunsAsUser'
      /\ pc'[s] = "uid" /\ \A t \in Sessions \ {s} : pc'[t] = pc[t]
      /\ \A t \in Sessions \ {s} : t \notin overlapped => ~UnderWay(t)
  BY <1>4, CredStepPreserves DEF SessionPcs
<1>6. RootAtRest'
  BY <1>1, <1>2, <1>3, <1>5 DEF RootAtRest, RunAsRoot, Dropped
<1>7. AloneDrops' /\ AloneServedAsUser'
  BY <1>1, <1>2, <1>3, <1>5 DEF AloneDrops, AloneServedAsUser, Dropped, UnderWay
<1> QED BY <1>5, <1>6, <1>7

LEMMA SetUidPreserves ==
  ASSUME IInv, NEW s \in Sessions, SetUid(s)
  PROVE  IInv'
<1> USE DEF IInv
<1>1. pc[s] = "uid" /\ mode[s] = "user" /\ RunAsRoot /\ cred.savedGid = Root
  BY DEF SetUid, RootOnly, Switching, Actors
<1>2. /\ cred' = [cred EXCEPT !.uid = userOf[s], !.savedUid = Root]
      /\ Goto(s, "serving")
      /\ UNCHANGED <<userOf, mode, ranAs, overlapped>>
  BY <1>1 DEF SetUid
<1>3. cred'.uid = userOf[s] /\ cred'.savedUid = Root /\ cred'.gid = cred.gid /\ cred'.savedGid = cred.savedGid /\ cred'.groups = cred.groups
  BY <1>2 DEF TypeOK
<1>4. CredStep(s, "serving")
  BY <1>1, <1>2, <1>3 DEF CredStep, UnderWay, RunAsRoot, TypeOK, Ids, Actors
<1>5. /\ TypeOK' /\ RootOnly' /\ RestoreSucceeds'
      /\ AloneMeansAlone' /\ AloneHasCredential' /\ AloneRunsAsUser'
      /\ pc'[s] = "serving" /\ \A t \in Sessions \ {s} : pc'[t] = pc[t]
      /\ \A t \in Sessions \ {s} : t \notin overlapped => ~UnderWay(t)
  BY <1>4, CredStepPreserves DEF SessionPcs
<1>6. RootAtRest'
  BY <1>1, <1>2, <1>3, <1>5 DEF RootAtRest, RunAsRoot, Dropped
<1>7. AloneDrops' /\ AloneServedAsUser'
  BY <1>1, <1>2, <1>3, <1>5 DEF AloneDrops, AloneServedAsUser, Dropped, UnderWay
<1> QED BY <1>5, <1>6, <1>7

LEMMA RestoreUidPreserves ==
  ASSUME IInv, NEW s \in Sessions, RestoreUid(s)
  PROVE  IInv'
<1> USE DEF IInv
<1>1. pc[s] = "restoreUid" /\ mode[s] = "user" /\ RunAsRoot /\ cred.savedGid = Root
  BY DEF RestoreUid, RootOnly, Switching, Actors
<1>2. /\ cred' = [cred EXCEPT !.uid = Root, !.savedUid = Root]
      /\ Goto(s, "restoreGid")
      /\ UNCHANGED <<userOf, mode, ranAs, overlapped>>
  BY <1>1 DEF RestoreUid, RootOnly, RunAsRoot, MaySetUid, Privileged
<1>3. cred'.uid = Root /\ cred'.savedUid = Root /\ cred'.gid = cred.gid /\ cred'.savedGid = cred.savedGid /\ cred'.groups = cred.groups
  BY <1>2 DEF TypeOK
<1>4. CredStep(s, "restoreGid")
  BY <1>1, <1>2, <1>3 DEF CredStep, UnderWay, RunAsRoot, TypeOK, Ids, Actors
<1>5. /\ TypeOK' /\ RootOnly' /\ RestoreSucceeds'
      /\ AloneMeansAlone' /\ AloneHasCredential' /\ AloneRunsAsUser'
      /\ pc'[s] = "restoreGid" /\ \A t \in Sessions \ {s} : pc'[t] = pc[t]
      /\ \A t \in Sessions \ {s} : t \notin overlapped => ~UnderWay(t)
  BY <1>4, CredStepPreserves DEF SessionPcs
<1>6. RootAtRest'
  BY <1>1, <1>2, <1>3, <1>5 DEF RootAtRest, RunAsRoot, Dropped
<1>7. AloneDrops' /\ AloneServedAsUser'
  BY <1>1, <1>2, <1>3, <1>5 DEF AloneDrops, AloneServedAsUser, Dropped, UnderWay
<1> QED BY <1>5, <1>6, <1>7

LEMMA RestoreGidPreserves ==
  ASSUME IInv, NEW s \in Sessions, RestoreGid(s)
  PROVE  IInv'
<1> USE DEF IInv
<1>1. pc[s] = "restoreGid" /\ mode[s] = "user" /\ RunAsRoot /\ cred.savedGid = Root
  BY DEF RestoreGid, RootOnly, Switching, Actors
<1>2. /\ cred' = [cred EXCEPT !.gid = Root, !.savedGid = Root]
      /\ Goto(s, "done")
      /\ UNCHANGED <<userOf, mode, ranAs, overlapped>>
  BY <1>1 DEF RestoreGid, RootOnly, RunAsRoot, MaySetGid, Privileged
<1>3. cred'.gid = Root /\ cred'.savedGid = Root /\ cred'.uid = cred.uid /\ cred'.savedUid = cred.savedUid /\ cred'.groups = cred.groups
  BY <1>2 DEF TypeOK
<1>4. CredStep(s, "done")
  BY <1>1, <1>2, <1>3 DEF CredStep, UnderWay, RunAsRoot, TypeOK, Ids, Actors
<1>5. /\ TypeOK' /\ RootOnly' /\ RestoreSucceeds'
      /\ AloneMeansAlone' /\ AloneHasCredential' /\ AloneRunsAsUser'
      /\ pc'[s] = "done" /\ \A t \in Sessions \ {s} : pc'[t] = pc[t]
      /\ \A t \in Sessions \ {s} : t \notin overlapped => ~UnderWay(t)
  BY <1>4, CredStepPreserves DEF SessionPcs
<1>6. RootAtRest'
  BY <1>1, <1>2, <1>3, <1>5 DEF RootAtRest, RunAsRoot, Dropped
<1>7. AloneDrops' /\ AloneServedAsUser'
  BY <1>1, <1>2, <1>3, <1>5 DEF AloneDrops, AloneServedAsUser, Dropped, UnderWay
<1> QED BY <1>5, <1>6, <1>7

----------------------------------------------------------------------------
(* The inductive invariant and the properties.                             *)

LEMMA NextInvariant == IInv /\ [Next]_vars => IInv'
<1> SUFFICES ASSUME IInv, [Next]_vars PROVE IInv'
  OBVIOUS
<1>1. ASSUME NEW a \in Actors, Start(a) \/ LookupFails(a) PROVE IInv'
  BY <1>1, StartPreserves, LookupFailsPreserves
<1>2. ASSUME NEW s \in Sessions, LookupSession(s) \/ DropFails(s) \/ EndServe(s) PROVE IInv'
  BY <1>2, LookupSessionPreserves, DropFailsPreserves, EndServePreserves
<1>3. ASSUME NEW s \in Sessions,
             SetGroups(s) \/ SetGid(s) \/ SetUid(s) \/ RestoreUid(s) \/ RestoreGid(s)
      PROVE  IInv'
  BY <1>3, SetGroupsPreserves, SetGidPreserves, SetUidPreserves, RestoreUidPreserves,
     RestoreGidPreserves
<1>4. ASSUME NEW c \in Commands, LookupCommand(c) \/ StartCommand(c) PROVE IInv'
  BY <1>4, LookupCommandPreserves, StartCommandPreserves
<1>5. CASE UNCHANGED vars
  BY <1>5 DEF vars, IInv, TypeOK, RootOnly, RunAsRoot, RestoreSucceeds, RootAtRest, Dropped,
              AloneMeansAlone, UnderWay, AloneDrops, AloneServedAsUser,
              AloneHasCredential, AloneRunsAsUser
<1> QED BY <1>1, <1>2, <1>3, <1>4, <1>5 DEF Next

THEOREM Invariance == Spec => []IInv
  BY InitInvariant, NextInvariant, PTL DEF Spec

\* The credential, labels and outcomes keep their types for any sessions and users.
THEOREM TypeCorrect == Spec => []TypeOK
<1>1. IInv => TypeOK
  BY DEF IInv
<1> QED BY Invariance, <1>1, PTL

\* No restore ever fails, however many sessions share the credential, so no thread
\* is left pinned (the error returns of withDroppedPrivileges are never taken).
THEOREM NeverPinned == Spec => []RestoreSucceeds
<1>1. IInv => RestoreSucceeds
  BY DEF IInv
<1> QED BY Invariance, <1>1, PTL

\* However drops and restores interleave, the daemon's uid and gid are away from
\* root only while some session is there to restore them, or a drop has failed.
THEOREM RestoredAtRest == Spec => []RootAtRest
<1>1. IInv => RootAtRest
  BY DEF IInv
<1> QED BY Invariance, <1>1, PTL

\* A session that overlaps no other is served with its user's uid, gid and groups.
THEOREM AloneIsConfined == Spec => []AloneServedAsUser
<1>1. IInv => AloneServedAsUser
  BY DEF IInv
<1> QED BY Invariance, <1>1, PTL

\* A command that overlaps no SFTP session runs as its user or not at all.
THEOREM CommandAlone == Spec => []AloneRunsAsUser
<1>1. IInv => AloneRunsAsUser
  BY DEF IInv
<1> QED BY Invariance, <1>1, PTL
=============================================================================
