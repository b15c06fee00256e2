------------------------------ MODULE FileTree ------------------------------
(***************************************************************************)
(* The file system below pkg/handlers secureSFTPHandlers: trees of         *)
(* directories, files and symbolic links, where a path leads, and what the *)
(* system calls do to a tree.  A path is the sequence of its names.  A     *)
(* link holds a path from the top, or one that starts with so many ".." at *)
(* the directory that the link is in.  A tree is a function from the paths *)
(* of what exists.                                                         *)
(***************************************************************************)
EXTENDS Naturals, FiniteSets, SequencesExt

CONSTANTS
  Names,   \* of files and directories
  Inodes,  \* of files
  MaxHops, \* bound: links that one path may lead through
  None

Paths == Seq(Names)

ASSUME FileTreeAssumption == MaxHops \in Nat /\ None \notin Paths

\* up: the ".." that a relative link starts with; None for a path from the top.
Objects ==
  [type : {"dir", "file", "link"}, ino : Inodes \cup {None}, up : Nat \cup {None}, to : Paths]
Dir == [type |-> "dir", ino |-> None, up |-> None, to |-> << >>]
File(i) == [type |-> "file", ino |-> i, up |-> None, to |-> << >>]
LinkTo(p) == [type |-> "link", ino |-> None, up |-> None, to |-> p]
RelativeLink(u, p) == [LinkTo(p) EXCEPT !.up = u]

IsA(t, type, p) == p \in DOMAIN t /\ t[p].type = type

\* The directories that path p goes through.
Above(p) == {SubSeq(p, 1, k) : k \in 0 .. Len(p) - 1}

\* What exists has directories above it.
IsTree(t) ==
  /\ t \in [DOMAIN t -> Objects] /\ DOMAIN t \subseteq Paths
  /\ << >> \in DOMAIN t
  /\ \A p \in DOMAIN t :
       /\ \A q \in Above(p) : IsA(t, "dir", q)
       /\ t[p].type = "file" => t[p].ino \in Inodes

----------------------------------------------------------------------------
(* Where a path leads.                                                     *)

\* The directory u levels above the one that p is in; there is nothing above the top.
Ancestor(p, u) == SubSeq(p, 1, IF u < Len(p) THEN Len(p) - 1 - u ELSE 0)

\* The path that the link at p stands for: a relative one depends on where the link is.
Aim(t, p) == IF t[p].up = None THEN t[p].to ELSE Ancestor(p, t[p].up) \o t[p].to

\* How far along path p there are links.
LinksOn(t, p) == {k \in 1 .. Len(p) : IsA(t, "link", SubSeq(p, 1, k))}

\* p with what its first link leads to in the link's place.
Follow(t, p) ==
  IF LinksOn(t, p) = {} THEN p
  ELSE LET k == Min(LinksOn(t, p)) IN Aim(t, SubSeq(p, 1, k)) \o SubSeq(p, k + 1, Len(p))

\* p after the first links on it.
Followed(t, p) ==
  LET after[n \in 0 .. MaxHops] == IF n = 0 THEN p ELSE Follow(t, after[n - 1])
  IN after

\* The path without links that p stands for; None if there are too many.
Final(t, p) ==
  LET q == Followed(t, p)[MaxHops] IN IF LinksOn(t, q) = {} THEN q ELSE None

\* What p leads to, as filepath.EvalSymlinks gives it; None if there is nothing.
Leads(t, p) == IF Final(t, p) \in DOMAIN t THEN Final(t, p) ELSE None

\* The directory entry that p names, there or not; None if its directory is not there.
Place(t, p) ==
  IF p # << >> /\ IsA(t, "dir", Leads(t, Front(p))) THEN Append(Leads(t, Front(p)), Last(p)) ELSE None

----------------------------------------------------------------------------
(* What the system calls do.                                               *)

With(t, p, object) == [q \in DOMAIN t \cup {p} |-> IF q = p THEN object ELSE t[q]]
Without(t, p) == [q \in DOMAIN t \ {p} |-> t[q]]
Children(t, p) == {q \in DOMAIN t : IsStrictPrefix(p, q)}

\* rename(2) of entry p, with all that is below it, to r.  What a link holds is not
\* rewritten, so that a relative one leads elsewhere from its new place.
Moved(t, p, r) ==
  LET old == {q \in DOMAIN t : IsPrefix(p, q)}
      New(q) == r \o SubSeq(q, Len(p) + 1, Len(q))
      kept == DOMAIN t \ (old \cup {r})
  IN [q \in kept \cup {New(o) : o \in old} |->
        IF q \in kept THEN t[q] ELSE t[p \o SubSeq(q, Len(r) + 1, Len(q))]]

\* os.Rename refuses to replace a directory.
MayMove(t, p, r) ==
  /\ p \in DOMAIN t /\ r # None
  /\ ~IsStrictPrefix(p, r) /\ ~IsA(t, "dir", r)
  /\ IsA(t, "dir", p) => r \notin DOMAIN t
=============================================================================
