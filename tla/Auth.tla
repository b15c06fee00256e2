-------------------------------- MODULE Auth --------------------------------
(***************************************************************************)
(* pkg/handlers AuthHandler, UserAuthorizer and CertificateValidator for   *)
(* the authentication phase of one connection.  The handlers keep nothing  *)
(* between calls except the authorized_keys options they put into the      *)
(* connection's context; the client decides which are called, and in which *)
(* order, until one attempt succeeds.  crypto/ssh runs them one at a time, *)
(* so a call is one step.  Patterns, keys and certificates are abstracted  *)
(* to the outcome of matching them for this user and address.              *)
(***************************************************************************)
EXTENDS Naturals, Sequences

CONSTANTS
  Keys,     \* public keys
  Certs,    \* certificates
  Policies, \* configurations, as they apply to the user of the connection
  Files,    \* contents of the user's AuthorizedKeysFile list, in file order
  MaxTries  \* bound: attempts in one connection

Credentials == Keys \cup Certs
NoKey == "none"

\* How a list of patterns (AllowUsers, DenyGroups, ...) applies to the user.
ListMatch == {"empty", "match", "other"}

\* An authorized_keys line that parses: its key, whether it has command=, and how
\* from= applies to the client's address.
Line == [key : Credentials, command : BOOLEAN, from : ListMatch]

Policy ==
  [root : BOOLEAN,      \* the user is root
   permitRoot : {"yes", "no", "prohibit-password", "forced-commands-only", "unknown"},
   methods : SUBSET {"password", "publickey", "keyboard-interactive"} \ {{}},
   denyUsers : ListMatch, allowUsers : ListMatch,
   groupsFound : BOOLEAN, \* the system knows the user's groups
   denyGroups : ListMatch, allowGroups : ListMatch,
   trusted : SUBSET Certs, \* user certificates signed by a loaded CA
   current : SUBSET Certs, \* those CheckCert accepts, revocation aside
   revoked : SUBSET Certs] \* those whose serials are in a revocation file
                           \* that could be read

\* With no method enabled no handler is installed and gliderlabs/ssh asks for no
\* authentication: such a configuration has no behaviour here.
ASSUME AuthAssumption ==
  /\ Policies \subseteq Policy
  /\ Files \subseteq Seq(Line)
  /\ Keys \cap Certs = {}
  /\ NoKey \notin Credentials
  /\ MaxTries \in Nat

VARIABLES
  policy,  \* the configuration
  file,    \* the lines of the authorized_keys files
  phase,   \* "auth", "in"
  login,   \* method and credential of the attempt that succeeded
  options, \* context value "authorized-key-options": a line, or NoOptions
  cache,   \* the key that crypto/ssh last asked about, and the answer
  tries    \* attempts so far

authVars == <<policy, file, phase, login, options, cache, tries>>

NoOptions == 0
Methods == {"password", "publickey", "keyboard-interactive"}

AuthTypeOK ==
  /\ policy \in Policies
  /\ file \in Files
  /\ phase \in {"auth", "in"}
  /\ login \in [method : Methods \cup {"none"}, key : Credentials \cup {NoKey}]
  /\ options \in {NoOptions} \cup DOMAIN file
  /\ cache \in [key : Credentials \cup {NoKey}, ok : BOOLEAN]
  /\ tries \in 0..MaxTries

AuthInit ==
  /\ policy \in Policies
  /\ file \in Files
  /\ phase = "auth"
  /\ login = [method |-> "none", key |-> NoKey]
  /\ options = NoOptions
  /\ cache = [key |-> NoKey, ok |-> FALSE]
  /\ tries = 0

----------------------------------------------------------------------------
(* UserAuthorizer.                                                         *)

\* DenyUsers first, then AllowUsers unless it is empty.
IsUserAllowed(p) == p.denyUsers # "match" /\ p.allowUsers # "other"

\* Regression: a failed group lookup lets the user in.
IsGroupAllowedOnError(p) ==
  IF p.groupsFound THEN p.denyGroups # "match" /\ p.allowGroups # "other" ELSE TRUE

\* When the groups cannot be found, any group restriction denies.
IsGroupAllowed(p) ==
  IF p.groupsFound
    THEN p.denyGroups # "match" /\ p.allowGroups # "other"
    ELSE p.denyGroups = "empty" /\ p.allowGroups = "empty"

\* Values other than "yes" and "no" behave alike here.
IsRootLoginAllowed(p, method) ==
  p.root => /\ p.permitRoot # "no"
            /\ p.permitRoot = "yes" \/ method = "publickey"

IsRootForcedCommandsRequired(p) == p.root /\ p.permitRoot = "forced-commands-only"

Authorized(p, method) ==
  /\ method \in p.methods
  /\ IsUserAllowed(p) /\ IsGroupAllowed(p) /\ IsRootLoginAllowed(p, method)

----------------------------------------------------------------------------
(* CertificateValidator.                                                   *)

\* Regression: the authority is left to CheckCert, which does not check it.
ValidateCertificateNoCA(p, c) == c \in p.current \ p.revoked

\* ValidateCertificate: user certificate of a trusted CA, then CheckCert.
ValidateCertificate(p, c) == c \in p.trusted /\ c \in p.current \ p.revoked

----------------------------------------------------------------------------
(* scanAuthorizedKeysFile.                                                 *)

\* Lines whose key is k; those of them whose from= admits the client.
Matching(f, k) == {i \in DOMAIN f : f[i].key = k}
Admitting(f, k) == {i \in Matching(f, k) : f[i].from # "other"}

\* The scan stops at the first line that admits the client; without one it reads
\* on to the end, so the last line of the key that it looks at is the last there is.
StopsAt(f, k, i) ==
  /\ i \in Matching(f, k)
  /\ IF Admitting(f, k) = {}
       THEN \A j \in Matching(f, k) : j <= i
       ELSE i \in Admitting(f, k) /\ \A j \in Admitting(f, k) : i <= j

\* Regression: options are stored only if there is a restriction among them.
StoredOptionsRestricted(f, k, old) ==
  IF Matching(f, k) = {} THEN {old}
  ELSE {IF f[i].command \/ f[i].from # "empty" THEN i ELSE old :
          i \in {j \in DOMAIN f : StopsAt(f, k, j)}}

\* The options in the context after a scan (one value): every line of the key that
\* is looked at replaces them, before its from= is checked.
StoredOptions(f, k, old) ==
  IF Matching(f, k) = {} THEN {old} ELSE {i \in DOMAIN f : StopsAt(f, k, i)}

\* Regression: command= is looked for in every line of the key.
ForcedCommandOKAnyLine(p, f, stored) ==
  IsRootForcedCommandsRequired(p) =>
    stored # NoOptions /\ \E i \in Matching(f, f[stored].key) : f[i].command

\* validateRootForcedCommand looks at what the scan has just stored.
ForcedCommandOK(p, f, stored) ==
  IsRootForcedCommandsRequired(p) => stored # NoOptions /\ f[stored].command

----------------------------------------------------------------------------
(* The handlers, called by crypto/ssh.                                     *)

\* CreatePublicKeyHandler: a valid certificate is enough, and is not subject to the
\* check for a forced command; any other key, or certificate, must have a line.
PublicKeyOK(p, f, k, stored) ==
  /\ Authorized(p, "publickey")
  /\ \/ ValidateCertificate(p, k)
     \/ Admitting(f, k) # {} /\ ForcedCommandOK(p, f, stored)

\* The options in the context after the handler: no line is read for a user who is
\* not authorized, or for a valid certificate.
OptionsAfter(p, f, k, old) ==
  IF Authorized(p, "publickey") /\ ~ValidateCertificate(p, k)
    THEN StoredOptions(f, k, old) ELSE {old}

\* crypto/ssh calls the handler unless k is the key it asked about last.
AskHandler(k) ==
  IF cache.key = k
    THEN UNCHANGED <<options, cache>>
    ELSE \E stored \in OptionsAfter(policy, file, k, options) :
           /\ options' = stored
           /\ cache' = [key |-> k, ok |-> PublicKeyOK(policy, file, k, stored)]

Attempt ==
  /\ phase = "auth"
  /\ tries < MaxTries
  /\ tries' = tries + 1
  /\ UNCHANGED <<policy, file>>

LogIn(method, k) ==
  /\ phase' = "in"
  /\ login' = [method |-> method, key |-> k]

\* A publickey request without a signature asks whether the key would do.
Query(k) ==
  /\ Attempt
  /\ AskHandler(k)
  /\ UNCHANGED <<phase, login>>

\* A request with a signature, which the client can make or not.
Sign(k) ==
  /\ Attempt
  /\ AskHandler(k)
  /\ \/ cache'.ok /\ LogIn("publickey", k)
     \/ UNCHANGED <<phase, login>>

\* CreatePasswordHandler and CreateKeyboardInteractiveHandler: PAM is asked when
\* the user is authorized, and may refuse.
AskPAM(method) ==
  /\ Attempt
  /\ \/ Authorized(policy, method) /\ LogIn(method, NoKey)
     \/ UNCHANGED <<phase, login>>
  /\ UNCHANGED <<options, cache>>

AuthNext ==
  \/ \E k \in Credentials : Query(k) \/ Sign(k)
  \/ \E method \in {"password", "keyboard-interactive"} : AskPAM(method)

AuthSpec == AuthInit /\ [][AuthNext]_authVars

----------------------------------------------------------------------------
(* Properties.                                                             *)

\* Whatever the order of attempts, a user who is in is one the Deny and Allow
\* lists admit, lookup failures included, by a method that is enabled, and root
\* by a method that PermitRootLogin admits (sshd_config's rules).
LoginAuthorized ==
  phase = "in" =>
    LET p == policy
    IN /\ login.method \in p.methods
       /\ "match" \notin {p.denyUsers, p.denyGroups}
       /\ "other" \notin {p.allowUsers, p.allowGroups}
       /\ p.groupsFound \/ {p.denyGroups, p.allowGroups} = {"empty"}
       /\ p.root => /\ p.permitRoot # "no"
                    /\ login.method # "publickey" => p.permitRoot = "yes"

\* A user certificate of a loaded CA, current and in no revocation file read.
Valid(k) == k \in (policy.trusted \cap policy.current) \ policy.revoked

\* A key, or a certificate that is not valid, got in.
InByLine == phase = "in" /\ login.method = "publickey" /\ ~Valid(login.key)

\* The options a session will enforce are those of the line that admitted the
\* key that signed: the first of that key whose from= holds, whatever other keys
\* and lines were tried before (GetAuthorizedKeyOptions).
KeyLoginHasItsLine ==
  InByLine =>
    /\ options # NoOptions
    /\ file[options].key = login.key /\ file[options].from # "other"
    /\ \A i \in DOMAIN file :
         i < options /\ file[i].key = login.key => file[i].from = "other"

\* Under forced-commands-only a key lets root in only with a command= that the
\* session will enforce.
RootKeyHasCommand ==
  InByLine /\ policy.root /\ policy.permitRoot = "forced-commands-only"
    => options # NoOptions /\ file[options].command

\* A certificate that no authorized_keys line lists lets in only if a loaded CA
\* signed it, it is current and its serial is in no revocation file that was read.
CertLoginValid ==
  phase = "in" /\ login.key \in Certs /\ (\A i \in DOMAIN file : file[i].key # login.key)
    => Valid(login.key)
=============================================================================
