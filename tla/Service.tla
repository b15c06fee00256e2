------------------------------ MODULE Service ------------------------------
(***************************************************************************)
(* What pkg/server.Server promises to the program that calls Start and to  *)
(* its clients, whatever reloads and shutdowns do to each other: a line of *)
(* servers, each newer than the one it replaces and with one result.  The  *)
(* result of the current server is what Start returns, that of a replaced  *)
(* one is dropped; Start returns nil only when a shutdown was asked for;   *)
(* and only then does the current server cut its clients.  One that was   *)
(* replaced may cut all of its own.                                        *)
(***************************************************************************)
EXTENDS Naturals

CONSTANTS
  Gens,    \* of servers, a set of numbers
  NoGen,
  Conns

VARIABLES
  current, \* the server in use
  result,  \* of each server: "none", then what it ended with, "taken" at last
  answer,  \* what Start returned, "none" before
  asked,   \* a shutdown was asked for
  client   \* the server of each connection, or NoGen

serviceVars == <<current, result, answer, asked, client>>

Init ==
  /\ current \in Gens /\ \A g \in Gens : current <= g
  /\ result = [g \in Gens |-> "none"]
  /\ answer = "none"
  /\ asked = FALSE
  /\ client = [c \in Conns |-> NoGen]

\* A newer server takes over.
Replace ==
  /\ \E g \in Gens : g > current /\ result[g] = "none" /\ current' = g
  /\ UNCHANGED <<result, answer, asked, client>>

\* A server ends by itself: it cannot listen, or cannot accept any longer.
Fail(g) ==
  /\ result[g] = "none"
  /\ \E e \in {"bind", "accept"} : result' = [result EXCEPT ![g] = e]
  /\ UNCHANGED <<current, answer, asked, client>>

\* A server that nobody needs cuts its clients and ends, unless it does not listen yet.
Close(g) ==
  /\ g < current \/ asked
  /\ result' = result \/ (result[g] = "none" /\ result' = [result EXCEPT ![g] = "nil"])
  /\ client' = [c \in Conns |-> IF client[c] = g THEN NoGen ELSE client[c]]
  /\ UNCHANGED <<current, answer, asked>>

\* Start takes the result of server g, once it is there.
Take(g) == result[g] \notin {"none", "taken"} /\ result' = [result EXCEPT ![g] = "taken"]

Drop(g) ==
  /\ Take(g) /\ g < current
  /\ UNCHANGED <<current, answer, asked, client>>

Return(g) ==
  /\ Take(g) /\ answer = "none"
  /\ \/ g = current /\ answer' = result[g] /\ (result[g] = "nil" => asked)
     \/ asked /\ answer' = "nil"
  /\ UNCHANGED <<current, asked, client>>

\* Start refuses before any server has run.
Refuse ==
  /\ answer = "none" /\ \A g \in Gens : result[g] = "none"
  /\ answer' = "metrics"
  /\ UNCHANGED <<current, result, asked, client>>

Ask == asked' = TRUE /\ UNCHANGED <<current, result, answer, client>>

Connect(c) ==
  /\ client[c] = NoGen
  /\ \E g \in Gens : result[g] = "none" /\ client' = [client EXCEPT ![c] = g]
  /\ UNCHANGED <<current, result, answer, asked>>

Disconnect(c) ==
  /\ client' = [client EXCEPT ![c] = NoGen]
  /\ UNCHANGED <<current, result, answer, asked>>

Next ==
  \/ Replace \/ Refuse \/ Ask
  \/ \E g \in Gens : Fail(g) \/ Close(g) \/ Drop(g) \/ Return(g)
  \/ \E c \in Conns : Connect(c) \/ Disconnect(c)

Spec == Init /\ [][Next]_serviceVars
=============================================================================
