------------------------------- MODULE MCSftp -------------------------------
(***************************************************************************)
(* A root directory with two names in it, on two levels, and a directory   *)
(* beside it.  The last tree has a relative link, from /srv/a/b to /srv/b, *)
(* that leads to /b when it is moved up to /srv/b.                         *)
(***************************************************************************)
EXTENDS Sftp, TLC

CONSTANTS i1, i2, i3

Srv(p) == << "srv" >> \o p
Base == (<< >> :> Dir) @@ (<< "srv" >> :> Dir) @@ (<< "a" >> :> Dir) @@ (<< "a", "b" >> :> File(i1))
MCRequested == {<< "a" >>, << "b" >>, << "a", "b" >>}
MCSensitive == {<< "a" >>}
\* Stat and List are like read, and Rmdir like Remove.
MCMethods == Ops \ {"Stat", "List", "Rmdir"}
MCAsked == {{"permissions", "size"}}
MCHomeDir == << "srv" >>
MCTrees ==
  {Base @@ (Srv(<< "a" >>) :> Dir) @@ (Srv(<< "a", "b" >>) :> File(i2)),
   Base @@ (Srv(<< "b" >>) :> LinkTo(Srv(<< "a" >>))),
   Base @@ (Srv(<< "a" >>) :> LinkTo(<< "a" >>)) @@ (Srv(<< "b" >>) :> File(i2)),
   Base @@ (Srv(<< "a" >>) :> Dir) @@ (Srv(<< "a", "b" >>) :> RelativeLink(1, << "b" >>))}
Interchangeable == Permutations(Sessions)
=============================================================================
