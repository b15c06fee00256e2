-------------------------------- MODULE Sftp --------------------------------
(***************************************************************************)
(* pkg/handlers secureSFTPHandlers: requests of several SFTP sessions that *)
(* share a root directory.  pkg/sftp serves the commands of a session one  *)
(* at a time; those of other sessions come between the check of a path and *)
(* its use, and between the calls that use it.  Every use names its path   *)
(* again.                                                                  *)
(***************************************************************************)
EXTENDS FileTree

CONSTANTS
  Sessions,
  Requested,   \* paths that clients name, seen from the root directory
  Methods,     \* requests that they make, members of Ops
  Asked,       \* sets of attributes for a Setstat
  Trees,       \* what may be on the system at first
  Username, SFTPRootDir, HomeDir, \* None when there is no such directory
  Sensitive, Protected, \* the system's directories
  MaxRequests  \* bound

VARIABLES
  tree,     \* the objects at the paths that exist
  attrs,    \* of files: who last set each attribute
  pc,       \* per session: idle, or the next call of its request
  req,      \* its request
  applied,  \* attributes its Setstat has set, in order
  result,   \* of its last Setstat
  requests,
  touched,  \* (history) what the last call read or changed; see Touch
  raced     \* (history) sessions whose request saw a change by another session

vars == <<tree, attrs, pc, req, applied, result, requests, touched, raced>>
requestVars == <<req, applied, result, requests>>

Attributes == {"permissions", "owner", "size", "times"}
WriteOps == {"Rename", "Remove", "Rmdir", "Mkdir", "Symlink", "Link", "Setstat", "write"}
TwoPaths == {"Rename", "Symlink", "Link"}
Ops == WriteOps \cup {"read", "Stat", "List", "Readlink"}

ASSUME SftpAssumption ==
  /\ Requested \subseteq Paths /\ {SFTPRootDir, HomeDir} \subseteq Paths \cup {None}
  /\ Methods \subseteq Ops /\ Asked \subseteq SUBSET Attributes
  /\ \A t \in Trees : IsTree(t)

----------------------------------------------------------------------------
(* The root and the checks.                                                *)

\* ConfigureChroot: without a directory for the user, everything.
Root == IF SFTPRootDir # None THEN SFTPRootDir
        ELSE IF Username = "root" \/ HomeDir = None THEN << >> ELSE HomeDir

Inside(p) == IsPrefix(Root, p)

\* Links below the root that hold a path out of it.
LeadsOut(t) == {p \in DOMAIN t : Inside(p) /\ IsA(t, "link", p) /\ ~Inside(Aim(t, p))}

\* There are directories on the way to the root, and no link leads out of it.
OnWay(t) == \A p \in Above(Root) : IsA(t, "dir", p)
Closed(t) == OnWay(t) /\ LeadsOut(t) = {}

\* Regression: only the text of the path is checked.
ResolvesText(p) == Inside(Root \o p)

\* resolvePath.  A path with ".." in it has been refused before, so the text always
\* stays inside; what exists must lead inside as well.
Resolves(p) ==
  Root # << >> =>
    LET real == Leads(tree, Root \o p) IN real # None => Inside(real)

\* ValidateFileOperation, by the text of the path.
ValidateFileOperation(p, op) ==
  /\ Username # "root" => ~\E s \in Sensitive : IsPrefix(s, p)
  /\ op \in WriteOps => ~\E s \in Protected : IsStrictPrefix(s, p)

Untouched == [places |-> {}, known |-> FALSE]
NoRequest == [op |-> "none", path |-> << >>, target |-> << >>, parts |-> {}, known |-> FALSE]

Init ==
  /\ tree \in Trees
  /\ attrs = [i \in Inodes |-> [a \in Attributes |-> None]]
  /\ pc = [w \in Sessions |-> "idle"]
  /\ req = [w \in Sessions |-> NoRequest]
  /\ applied = [w \in Sessions |-> << >>]
  /\ result = [w \in Sessions |-> "none"]
  /\ requests = 0
  /\ touched = Untouched
  /\ raced = {}

----------------------------------------------------------------------------
(* A request: Fileread, Filewrite, Filecmd and Filelist up to their first  *)
(* system call.  A refused one changes nothing and is not a step.          *)

Check(w, op, p, t) ==
  /\ pc[w] = "idle" /\ requests < MaxRequests
  /\ Resolves(p) /\ ValidateFileOperation(Root \o p, op)
  /\ op \in TwoPaths => Resolves(t) /\ ValidateFileOperation(Root \o t, op)
  /\ \E parts \in IF op = "Setstat" THEN Asked ELSE {{}} :
       req' = [req EXCEPT ![w] = [op |-> op, path |-> Root \o p, target |-> Root \o t,
                                  parts |-> parts, known |-> Leads(tree, Root \o p) # None]]
  /\ pc' = [pc EXCEPT ![w] = IF op = "write" THEN "parents" ELSE op]
  /\ requests' = requests + 1
  /\ applied' = [applied EXCEPT ![w] = << >>]
  /\ result' = [result EXCEPT ![w] = "none"]
  /\ raced' = raced \ {w}
  /\ touched' = Untouched
  /\ UNCHANGED <<tree, attrs>>

\* A call of w reads or changes these places.  known: it follows links, its path led
\* somewhere when it was checked, and nobody else has changed anything since.
Touch(w, places) ==
  touched' = [places |-> places \ {None},
              known |-> /\ req[w].op \in {"read", "Stat", "List", "write", "Setstat"}
                        /\ req[w].known /\ w \notin raced]

\* A call of w that changes something: the requests of the others are now raced.
Interfere(w) ==
  raced' = raced \cup {v \in Sessions \ {w} : pc[v] # "idle" \/ result[v] = "ok"}

\* The request has been served and is forgotten.
Finish(w) ==
  /\ pc' = [pc EXCEPT ![w] = "idle"]
  /\ req' = [req EXCEPT ![w] = NoRequest]

\* The last call of a request, which leaves tree t behind.
Change(w, t, places) ==
  /\ tree' = t
  /\ Touch(w, places) /\ Interfere(w) /\ Finish(w)
  /\ UNCHANGED <<attrs, applied, result, requests>>

Path(w) == req[w].path
Target(w) == req[w].target

\* os.Open for a read or a directory, os.Stat; os.Readlink does not follow the link.
Look(w) ==
  /\ pc[w] \in {"read", "Stat", "List", "Readlink"}
  /\ Touch(w, {IF pc[w] = "Readlink" THEN Place(tree, Path(w)) ELSE Leads(tree, Path(w))})
  /\ Finish(w)
  /\ UNCHANGED <<tree, attrs, applied, result, requests, raced>>

\* Directories above the path that are not there.
MissingParents(w) == {q \in Above(Path(w)) : Leads(tree, q) = None}

\* ensureParentDirectory: os.MkdirAll makes one after the other, topmost first.
MakeParent(w) ==
  /\ pc[w] = "parents"
  /\ \E q \in MissingParents(w) :
       /\ \A r \in MissingParents(w) : IsPrefix(q, r)
       /\ Place(tree, q) # None /\ Place(tree, q) \notin DOMAIN tree
       /\ tree' = With(tree, Place(tree, q), Dir)
       /\ Touch(w, {Place(tree, q)})
  /\ Interfere(w)
  /\ UNCHANGED <<attrs, pc, requestVars>>

HaveParents(w) ==
  /\ pc[w] = "parents" /\ MissingParents(w) = {}
  /\ pc' = [pc EXCEPT ![w] = "write"]
  /\ touched' = Untouched
  /\ UNCHANGED <<tree, attrs, requestVars, raced>>

\* os.OpenFile of a file that is there.
OpenFile(w) ==
  /\ pc[w] = "write" /\ Leads(tree, Path(w)) # None /\ IsA(tree, "file", Leads(tree, Path(w)))
  /\ Change(w, tree, {Leads(tree, Path(w))})

Used == {tree[p].ino : p \in DOMAIN tree}

\* os.OpenFile with O_CREATE of one that is not: links are followed to the last name too.
CreateFile(w) ==
  /\ pc[w] = "write" /\ Leads(tree, Path(w)) = None
  /\ LET place == Final(tree, Path(w))
     IN /\ place # None /\ IsA(tree, "dir", Front(place))
        /\ Inodes \ Used # {}
        /\ LET i == CHOOSE i \in Inodes \ Used : TRUE
           IN /\ tree' = With(tree, place, File(i))
              /\ attrs' = [attrs EXCEPT ![i] = [a \in Attributes |-> None]]
        /\ Touch(w, {place})
  /\ Interfere(w) /\ Finish(w)
  /\ UNCHANGED <<applied, result, requests>>

Rename(w) ==
  /\ pc[w] = "Rename"
  /\ LET from == Place(tree, Path(w))
         to == Place(tree, Target(w))
     IN MayMove(tree, from, to) /\ Change(w, Moved(tree, from, to), {from, to})

\* os.Remove, for Remove and for Rmdir.
RemoveEntry(w) ==
  /\ pc[w] \in {"Remove", "Rmdir"}
  /\ LET place == Place(tree, Path(w))
     IN place \in DOMAIN tree /\ Children(tree, place) = {} /\ Change(w, Without(tree, place), {place})

New(w, place, object) ==
  /\ place # None /\ place \notin DOMAIN tree
  /\ Change(w, With(tree, place, object), {place})

Mkdir(w) == pc[w] = "Mkdir" /\ New(w, Place(tree, Path(w)), Dir)

\* Regression: the link gets the path as the client wrote it.
SymlinkRaw(w) ==
  pc[w] = "Symlink" /\ New(w, Place(tree, Target(w)), LinkTo(SubSeq(Path(w), Len(Root) + 1, Len(Path(w)))))

\* The link at the target leads to the resolved path.
Symlink(w) == pc[w] = "Symlink" /\ New(w, Place(tree, Target(w)), LinkTo(Path(w)))

Link(w) ==
  /\ pc[w] = "Link"
  /\ Place(tree, Path(w)) \in DOMAIN tree /\ ~IsA(tree, "dir", Place(tree, Path(w)))
  /\ New(w, Place(tree, Target(w)), tree[Place(tree, Path(w))])

\* What handleSetstat sets, in its order, and what of that it has not set yet.
InOrder(parts) ==
  LET If(a) == IF a \in parts THEN << a >> ELSE << >>
  IN If("permissions") \o If("owner") \o If("size") \o If("times")
ToSetYet(w) ==
  SubSeq(InOrder(req[w].parts), Len(applied[w]) + 1, Len(InOrder(req[w].parts)))

\* os.Chmod, os.Chown, os.Truncate or os.Chtimes.
SetAttribute(w) ==
  /\ pc[w] = "Setstat" /\ ToSetYet(w) # << >>
  /\ LET a == Head(ToSetYet(w))
         real == Leads(tree, Path(w))
     IN /\ real # None
        /\ attrs' = IF IsA(tree, "file", real) THEN [attrs EXCEPT ![tree[real].ino][a] = w] ELSE attrs
        /\ applied' = [applied EXCEPT ![w] = Append(@, a)]
        /\ Touch(w, {real})
  /\ Interfere(w)
  /\ UNCHANGED <<tree, pc, req, result, requests>>

SetstatEnds(w) ==
  /\ pc[w] = "Setstat" /\ ToSetYet(w) = << >>
  /\ result' = [result EXCEPT ![w] = "ok"]
  /\ pc' = [pc EXCEPT ![w] = "idle"]
  /\ touched' = Untouched
  /\ UNCHANGED <<tree, attrs, req, applied, requests, raced>>

\* Regression: handleSetstat returns nil when one of its calls fails.
SetstatFailsUnseen(w) ==
  /\ pc[w] = "Setstat" /\ ToSetYet(w) # << >>
  /\ result' = [result EXCEPT ![w] = "ok"]
  /\ pc' = [pc EXCEPT ![w] = "idle"]
  /\ touched' = Untouched
  /\ UNCHANGED <<tree, attrs, req, applied, requests, raced>>

\* handleSetstat returns at the first call that fails.
SetstatFails(w) ==
  /\ pc[w] = "Setstat" /\ ToSetYet(w) # << >>
  /\ result' = [result EXCEPT ![w] = "error"]
  /\ pc' = [pc EXCEPT ![w] = "idle"]
  /\ touched' = Untouched
  /\ UNCHANGED <<tree, attrs, req, applied, requests, raced>>

\* A call of another request returns an error, for what it finds or for want of
\* permission, and the request with it.
CallFails(w) ==
  /\ pc[w] \notin {"idle", "Setstat"}
  /\ Finish(w)
  /\ touched' = Untouched
  /\ UNCHANGED <<tree, attrs, applied, result, requests, raced>>

Next ==
  \E w \in Sessions :
    \/ \E op \in Methods, p \in Requested :
         \E t \in IF op \in TwoPaths THEN Requested ELSE {<< >>} : Check(w, op, p, t)
    \/ Look(w) \/ MakeParent(w) \/ HaveParents(w) \/ OpenFile(w) \/ CreateFile(w)
    \/ Rename(w) \/ RemoveEntry(w) \/ Mkdir(w) \/ Symlink(w) \/ Link(w)
    \/ SetAttribute(w) \/ SetstatEnds(w) \/ SetstatFails(w) \/ CallFails(w)

Spec == Init /\ [][Next]_vars

----------------------------------------------------------------------------

\* While no link below the root leads out of it and none stands on the way to it, no call
\* of any session reads or changes anything outside the root, whatever the others did
\* since its path was checked.  A call may end that in one way only: Rename or Link gives
\* a relative link another place, from which it leads out.  resolvePath looks at neither
\* what a link holds nor what is in a directory that is renamed.
StaysInside ==
  Closed(tree) =>
    /\ \A p \in touched'.places : Inside(p)
    /\ OnWay(tree')
    /\ \A p \in LeadsOut(tree') :
         /\ tree'[p].up # None
         /\ \E w \in Sessions :
              /\ pc[w] \in {"Rename", "Link"} /\ pc'[w] = "idle"
              /\ IsPrefix(Place(tree, Target(w)), p)
Confined == [][StaysInside]_vars

\* Whatever links there are: a path that led somewhere when it was checked leads inside
\* when a call follows it, as long as no other session changes anything in between.
CheckedIsInside == touched.known => \A p \in touched.places : Inside(p)

\* Setstat reports success only if the file at its path has every attribute that was
\* asked for, and an error only after a first part of them, in handleSetstat's order.
SetstatTruth ==
  \A w \in Sessions :
    LET asked == InOrder(req[w].parts)
        real == Leads(tree, Path(w))
    IN /\ result[w] = "ok" => applied[w] = asked
       /\ result[w] = "ok" /\ w \notin raced /\ real # None /\ IsA(tree, "file", real) =>
            \A a \in req[w].parts : attrs[tree[real].ino][a] = w
       /\ result[w] = "error" => IsPrefix(applied[w], asked)
=============================================================================
