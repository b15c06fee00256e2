----------------------------- MODULE Privileges -----------------------------
(***************************************************************************)
(* pkg/handlers/privilege.go and its two users: SFTP sessions, served      *)
(* between a drop and a restore of the daemon's credentials, and commands, *)
(* started with a credential of their own.  Go's syscall.Setgroups,        *)
(* Setresgid and Setresuid change every thread of the process (since Go    *)
(* 1.16), so there is one credential, which all sessions read and change;  *)
(* a step of a session is what it does between two looks at it.            *)
(***************************************************************************)
EXTENDS Naturals, FiniteSets

CONSTANTS
  Sessions, \* SFTP sessions
  Commands, \* shells and forced commands
  Users,    \* accounts, other than root, with a group list of their own each
  Root,
  DaemonIds \* identities the daemon may be run under

ASSUME PrivilegesAssumption ==
  /\ Root \notin Users
  /\ DaemonIds \subseteq Users \cup {Root}
  /\ Sessions \cap Commands = {}

Actors == Sessions \cup Commands
Ids == Users \cup {Root}

VARIABLES
  cred,      \* credential of the process; an id stands for the account's uid,
             \* its primary gid or its supplementary groups
  userOf,    \* user that authenticated
  pc,        \* where a session or command stands
  mode,      \* "daemon": as it is; "user": with the user's credential
  ranAs,     \* uid a command was started with
  overlapped \* those that ran while some SFTP session was under way

vars == <<cred, userOf, pc, mode, ranAs, overlapped>>

SessionPcs == {"idle", "lookup", "groups", "gid", "uid", "serving", "restoreUid",
               "restoreGid", "stuck", "failed", "done"}
CommandPcs == {"idle", "lookup", "start", "failed", "done"}

TypeOK ==
  /\ cred \in [uid : Ids, savedUid : Ids, gid : Ids, savedGid : Ids, groups : Ids]
  /\ userOf \in [Actors -> Ids]
  /\ pc \in [Actors -> SessionPcs \cup CommandPcs]
  /\ \A c \in Commands : pc[c] \in CommandPcs
  /\ mode \in [Actors -> {"daemon", "user"}]
  /\ ranAs \in [Commands -> Ids \cup {"none"}]
  /\ overlapped \subseteq Actors

Init ==
  /\ \E d \in DaemonIds : cred = [uid |-> d, savedUid |-> d, gid |-> d,
                                  savedGid |-> d, groups |-> d]
  /\ userOf \in [Actors -> Ids]
  /\ pc = [a \in Actors |-> "idle"]
  /\ mode = [a \in Actors |-> "daemon"]
  /\ ranAs = [c \in Commands |-> "none"]
  /\ overlapped = {}

----------------------------------------------------------------------------
(* The kernel.                                                             *)

\* CAP_SETUID and CAP_SETGID come with effective uid 0.
Privileged == cred.uid = Root

\* setresuid(id, id, 0) and setresgid(id, id, 0): without them, only for ids that the
\* process has.
MaySetUid(id) == Privileged \/ {id, Root} \subseteq {cred.uid, cred.savedUid}
MaySetGid(id) == Privileged \/ {id, Root} \subseteq {cred.gid, cred.savedGid}

Goto(a, label) == pc' = [pc EXCEPT ![a] = label]

----------------------------------------------------------------------------
(* canDropPrivileges and lookupUserCredential.                             *)

canDropPrivileges == cred.uid = Root

UnderWay(s) == pc[s] \notin {"idle", "failed", "done"}

\* Others whose time overlaps that of a, which starts now, if one is a session.
Overlaps(a) ==
  LET others == {b \in Actors \ {a} : UnderWay(b)}
  IN IF a \in Sessions
       THEN IF others = {} THEN {} ELSE others \cup {a}
       ELSE IF others \cap Sessions = {} THEN {} ELSE {a}

\* serveWithUserPrivileges and applyUserCredential: without root nothing is looked
\* up, and the session or command goes on as the process is.
Start(a) ==
  /\ pc[a] = "idle"
  /\ overlapped' = overlapped \cup Overlaps(a)
  /\ Goto(a, IF canDropPrivileges THEN "lookup"
             ELSE IF a \in Sessions THEN "serving" ELSE "start")
  /\ UNCHANGED <<cred, userOf, mode, ranAs>>

\* Regression: a command is started as the daemon, as a session is served.
LookupFailsOpen(a) ==
  /\ pc[a] = "lookup"
  /\ Goto(a, IF a \in Sessions THEN "serving" ELSE "start")
  /\ UNCHANGED <<cred, userOf, mode, ranAs, overlapped>>

\* A user whose credential cannot be resolved gets no command, but is served as the
\* daemon.
LookupFails(a) ==
  /\ pc[a] = "lookup"
  /\ Goto(a, IF a \in Sessions THEN "serving" ELSE "failed")
  /\ UNCHANGED <<cred, userOf, mode, ranAs, overlapped>>

\* Regression: the supplementary groups are left alone.
LookupSessionNoGroups(s) ==
  /\ pc[s] = "lookup"
  /\ IF canDropPrivileges
       THEN Goto(s, "gid") /\ mode' = [mode EXCEPT ![s] = "user"]
       ELSE Goto(s, "serving") /\ UNCHANGED mode
  /\ UNCHANGED <<cred, userOf, ranAs, overlapped>>

\* withDroppedPrivileges asks canDropPrivileges again; no means serving as it is.
LookupSession(s) ==
  /\ pc[s] = "lookup"
  /\ IF canDropPrivileges
       THEN Goto(s, "groups") /\ mode' = [mode EXCEPT ![s] = "user"]
       ELSE Goto(s, "serving") /\ UNCHANGED mode
  /\ UNCHANGED <<cred, userOf, ranAs, overlapped>>

LookupCommand(c) ==
  /\ pc[c] = "lookup"
  /\ mode' = [mode EXCEPT ![c] = "user"]
  /\ Goto(c, "start")
  /\ UNCHANGED <<cred, userOf, ranAs, overlapped>>

----------------------------------------------------------------------------
(* dropThreadPrivileges.                                                   *)

\* A call that is refused, or fails for want of memory, ends the session with what
\* was already changed left in place.
DropFails(s) ==
  /\ pc[s] \in {"groups", "gid", "uid"}
  /\ Goto(s, "failed")
  /\ UNCHANGED <<cred, userOf, mode, ranAs, overlapped>>

SetGroups(s) ==
  /\ pc[s] = "groups"
  /\ Privileged
  /\ cred' = [cred EXCEPT !.groups = userOf[s]]
  /\ Goto(s, "gid")
  /\ UNCHANGED <<userOf, mode, ranAs, overlapped>>

SetGid(s) ==
  /\ pc[s] = "gid"
  /\ MaySetGid(userOf[s])
  /\ cred' = [cred EXCEPT !.gid = userOf[s], !.savedGid = Root]
  /\ Goto(s, "uid")
  /\ UNCHANGED <<userOf, mode, ranAs, overlapped>>

\* Regression: setresuid(uid, uid, uid).
SetUidSaved(s) ==
  /\ pc[s] = "uid"
  /\ MaySetUid(userOf[s])
  /\ cred' = [cred EXCEPT !.uid = userOf[s], !.savedUid = userOf[s]]
  /\ Goto(s, "serving")
  /\ UNCHANGED <<userOf, mode, ranAs, overlapped>>

SetUid(s) ==
  /\ pc[s] = "uid"
  /\ MaySetUid(userOf[s])
  /\ cred' = [cred EXCEPT !.uid = userOf[s], !.savedUid = Root]
  /\ Goto(s, "serving")
  /\ UNCHANGED <<userOf, mode, ranAs, overlapped>>

----------------------------------------------------------------------------
(* The end of a session, and restoreRootPrivileges.                        *)

\* Regression: an error of the server returns at once.
EndServeError(s) ==
  /\ pc[s] = "serving"
  /\ \/ Goto(s, IF mode[s] = "user" THEN "restoreUid" ELSE "done")
     \/ Goto(s, "done")
  /\ UNCHANGED <<cred, userOf, mode, ranAs, overlapped>>

EndServe(s) ==
  /\ pc[s] = "serving"
  /\ Goto(s, IF mode[s] = "user" THEN "restoreUid" ELSE "done")
  /\ UNCHANGED <<cred, userOf, mode, ranAs, overlapped>>

\* When a restore fails the goroutine ends with its thread.
RestoreUid(s) ==
  /\ pc[s] = "restoreUid"
  /\ IF MaySetUid(Root)
       THEN cred' = [cred EXCEPT !.uid = Root, !.savedUid = Root] /\ Goto(s, "restoreGid")
       ELSE UNCHANGED cred /\ Goto(s, "stuck")
  /\ UNCHANGED <<userOf, mode, ranAs, overlapped>>

\* The supplementary groups stay the user's.
RestoreGid(s) ==
  /\ pc[s] = "restoreGid"
  /\ IF MaySetGid(Root)
       THEN cred' = [cred EXCEPT !.gid = Root, !.savedGid = Root] /\ Goto(s, "done")
       ELSE UNCHANGED cred /\ Goto(s, "stuck")
  /\ UNCHANGED <<userOf, mode, ranAs, overlapped>>

----------------------------------------------------------------------------
(* Commands.                                                               *)

\* cmd.Start: the child takes the credential it was given, which needs root, or the
\* one the process has when it forks.
StartCommand(c) ==
  /\ pc[c] = "start"
  /\ IF mode[c] = "user" /\ ~Privileged
       THEN Goto(c, "failed") /\ UNCHANGED ranAs
       ELSE /\ Goto(c, "done")
            /\ ranAs' = [ranAs EXCEPT ![c] = IF mode[c] = "user" THEN userOf[c] ELSE cred.uid]
  /\ UNCHANGED <<cred, userOf, mode, overlapped>>

----------------------------------------------------------------------------

Next ==
  \/ \E a \in Actors : Start(a) \/ LookupFails(a)
  \/ \E s \in Sessions :
       \/ LookupSession(s) \/ SetGroups(s) \/ SetGid(s) \/ SetUid(s) \/ DropFails(s)
       \/ EndServe(s) \/ RestoreUid(s) \/ RestoreGid(s)
  \/ \E c \in Commands : LookupCommand(c) \/ StartCommand(c)

Spec == Init /\ [][Next]_vars

----------------------------------------------------------------------------
(* Properties.                                                             *)

\* A daemon run as root can always become root again: only one that is not has a
\* saved uid other than 0.
RunAsRoot == cred.savedUid = Root

\* Serving with the user's credential.
Dropped(s) == mode[s] = "user" /\ pc[s] = "serving"

\* restoreRootPrivileges never fails, whatever other sessions did to the credential
\* in the meantime, so no thread is left pinned with an unknown credential.
RestoreSucceeds == \A s \in Sessions : pc[s] # "stuck"

\* The daemon's uid is only away from root while a session that dropped it is being
\* served or about to restore it, and its gid while one may still restore that, or
\* after a drop that failed half-way (withDroppedPrivileges returns to root).
RootAtRest ==
  RunAsRoot =>
    /\ cred.uid # Root => \E s \in Sessions : Dropped(s) \/ pc[s] = "restoreUid"
    /\ cred.gid # Root =>
         \E s \in Sessions : Dropped(s) \/ pc[s] \in {"uid", "restoreUid", "restoreGid", "failed"}

\* A session whose time overlaps no other is served with its user's uid, gid and
\* groups, whatever sessions came before it (withDroppedPrivileges).
AloneServedAsUser ==
  \A s \in Sessions :
    Dropped(s) /\ s \notin overlapped =>
      /\ cred.uid = userOf[s] /\ cred.gid = userOf[s] /\ cred.groups = userOf[s]

\* A command whose time overlaps no SFTP session runs as the user who authenticated
\* or not at all, whatever sessions came before it (applyUserCredential).
AloneRunsAsUser ==
  RunAsRoot =>
    \A c \in Commands \ overlapped : ranAs[c] \in {userOf[c], "none"}

\* "It is used to confine an entire SFTP session's file operations to the
\* authenticated user's privilege level": true of sessions that overlap others too.
ServedAsUser == \A s \in Sessions : Dropped(s) => cred.uid = userOf[s]
=============================================================================
