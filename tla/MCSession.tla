----------------------------- MODULE MCSession -----------------------------
(***************************************************************************)
(* Values of the functions and sequences that Session takes as constants.  *)
(***************************************************************************)
EXTENDS Session

\* The account has its own line with a shell that was removed.
MCAccounts == [git |-> 1]
MCPasswd ==
  <<[uid |-> 0, shell |-> "/bin/zsh"], [uid |-> 1, shell |-> "/bin/fish"]>>
=============================================================================
