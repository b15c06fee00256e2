--------------------------- MODULE SessionProofs ---------------------------
(***************************************************************************)
(* Theorems about Session for any number of channels, any accounts and any *)
(* passwd file.  Phases says what has been set up and what is still due at *)
(* each point of the handler; the three safety properties follow from it.  *)
(***************************************************************************)
EXTENDS Session, TLAPS

Before == {"requests", "options", "agent"}
After == {"cleanup", "returned", "ended"}

\* The answer: given on every path before the handler cleans up, and true.
Answered ==
  \A s \in Sessions :
    /\ pc[s] \in After => told[s]
    /\ pc[s] \notin After => status[s] = NoStatus
    /\ status[s] = 0 => proc[s] = "reaped" /\ code[s] = 0 /\ ~copyErr[s]

\* The process: it exists from Start to Wait, with what the key demands.
Spawned ==
  \A s \in Sessions :
    /\ pc[s] \in Before \cup {"start"} => proc[s] = "none"
    /\ pc[s] \in After => proc[s] \in {"none", "reaped"}
    /\ proc[s] \in {"none", "reaped"} => copies[s] = {}
    /\ policy.command /\ proc[s] # "none" => argv[s].cmd = "forced"
    /\ policy.noPTY /\ req[s].pty =>
         /\ proc[s] = "none" /\ sock[s] = "none"
         /\ pc[s] \notin {"agent", "start", "wait"}

\* The socket: listening whenever the environment names it, until the cleanup.
Listening ==
  \A s \in Sessions :
    /\ pc[s] \in Before => sock[s] = "none"
    /\ pc[s] \in {"start", "wait"} /\ "SSH_AUTH_SOCK" \in env[s] => sock[s] = "listening"
    /\ pc[s] \in {"returned", "ended"} => sock[s] # "listening"

IInv == TypeOK /\ Answered /\ Spawned /\ Listening

\* The shell is always one that exists, or bash (getUserShell).
LEMMA ShellInstalled == getUserShell(User) \in Installed \cup {Bash}
  BY DEF getUserShell

\* A request only changes fields of the record of its own channel.
LEMMA RequestUpdate ==
  ASSUME NEW r \in [pty : BOOLEAN, command : BOOLEAN], NEW b \in BOOLEAN
  PROVE  /\ [r EXCEPT !.pty = b] \in [pty : BOOLEAN, command : BOOLEAN]
         /\ [r EXCEPT !.command = b] \in [pty : BOOLEAN, command : BOOLEAN]
  OBVIOUS

\* NewShellHandler and a fresh connection.
LEMMA InitIInv == Init => IInv
  <1> SUFFICES ASSUME Init PROVE IInv
    OBVIOUS
  <1> USE DEF Init
  <1>1. TypeOK
    <2>1. argv \in [Sessions -> [shell : Installed \cup {Bash},
                                cmd : {"none", "forced", "login", "requested"}]]
      BY DEF Unset
    <2>2. env \in [Sessions -> SUBSET {"SSH_AUTH_SOCK", "SSH_ORIGINAL_COMMAND"}]
      OBVIOUS
    <2>3. copies \in [Sessions -> SUBSET {"stdin", "stdout"}]
      OBVIOUS
    <2>4. code \in [Sessions -> -1..1] /\ windows \in [Sessions -> 0..1]
      OBVIOUS
    <2>5. status \in [Sessions -> (-1..1) \cup {NoStatus}]
      OBVIOUS
    <2>6. req \in [Sessions -> [pty : BOOLEAN, command : BOOLEAN]]
      OBVIOUS
    <2> QED BY <2>1, <2>2, <2>3, <2>4, <2>5, <2>6 DEF TypeOK
  <1>2. Answered
    <2> SUFFICES ASSUME NEW s \in Sessions
                 PROVE  pc[s] \notin After /\ status[s] = NoStatus /\ status[s] # 0
      BY DEF Answered
    <2>1. pc[s] \notin After
      BY DEF After
    <2>2. status[s] = NoStatus /\ status[s] # 0
      BY DEF NoStatus
    <2> QED BY <2>1, <2>2
  <1>3. Spawned
    BY DEF Spawned, Before, After
  <1>4. Listening
    BY DEF Listening, Before
  <1> QED BY <1>1, <1>2, <1>3, <1>4 DEF IInv

----------------------------------------------------------------------------
(* Every step preserves it.                                                *)

\* Every action keeps the types.
LEMMA TypeStep ==
  ASSUME IInv, [Next]_vars
  PROVE  TypeOK'
  <1> USE DEF client, process, window
  <1> USE DEF IInv, TypeOK
  <1>1. ASSUME NEW s \in Sessions, RequestPty(s) PROVE TypeOK'
    <2>1. req' \in [Sessions -> [pty : BOOLEAN, command : BOOLEAN]]
      <3>0. req[s] \in [pty : BOOLEAN, command : BOOLEAN]
        OBVIOUS
      <3>1. [req[s] EXCEPT !.pty = TRUE] \in [pty : BOOLEAN, command : BOOLEAN]
        BY <3>0, RequestUpdate, Zenon
      <3>2. req' = [req EXCEPT ![s] = [req[s] EXCEPT !.pty = TRUE]]
        BY <1>1 DEF RequestPty
      <3> QED BY <3>1, <3>2
    <2>2. pc' \in [Sessions -> {"requests", "options", "agent", "start", "wait",
                               "cleanup", "returned", "ended"}]
      BY <1>1 DEF RequestPty
    <2>3. windows' \in [Sessions -> 0..1]
      BY <1>1 DEF RequestPty
    <2> QED BY <1>1, <2>1, <2>2, <2>3 DEF RequestPty
  <1>2. ASSUME NEW s \in Sessions, ChangeWindow(s) PROVE TypeOK'
    BY <1>2 DEF ChangeWindow
  <1>3. ASSUME NEW s \in Sessions, RequestCommand(s) PROVE TypeOK'
    <2>1. req' \in [Sessions -> [pty : BOOLEAN, command : BOOLEAN]]
      <3>1. PICK command \in BOOLEAN :
              req' = [req EXCEPT ![s] = [req[s] EXCEPT !.command = command]]
        BY <1>3 DEF RequestCommand
      <3>0. req[s] \in [pty : BOOLEAN, command : BOOLEAN]
        OBVIOUS
      <3>2. [req[s] EXCEPT !.command = command] \in [pty : BOOLEAN, command : BOOLEAN]
        BY <3>0, RequestUpdate, Zenon
      <3> QED BY <3>1, <3>2
    <2>2. pc' \in [Sessions -> {"requests", "options", "agent", "start", "wait",
                               "cleanup", "returned", "ended"}]
      BY <1>3 DEF RequestCommand
    <2>3. windows' \in [Sessions -> 0..1]
      BY <1>3 DEF RequestCommand
    <2> QED BY <1>3, <2>1, <2>2, <2>3 DEF RequestCommand
  <1>4. ASSUME NEW s \in Sessions, RequestAgent(s) PROVE TypeOK'
    BY <1>4 DEF RequestAgent
  <1>5. CASE AgentRequest
    BY <1>5 DEF AgentRequest
  <1>6. ASSUME NEW s \in Sessions, SendEOF(s) PROVE TypeOK'
    BY <1>6 DEF SendEOF
  <1>7. ASSUME NEW s \in Sessions, CloseChannel(s) PROVE TypeOK'
    BY <1>7 DEF CloseChannel
  <1>8. CASE Disconnect
    BY <1>8 DEF Disconnect
  <1>9. ASSUME NEW s \in Sessions, TypeAfterExit(s) PROVE TypeOK'
    BY <1>9 DEF TypeAfterExit
  <1>10. ASSUME NEW s \in Sessions, ProcessExits(s) PROVE TypeOK'
    BY <1>10 DEF ProcessExits
  <1>11. ASSUME NEW s \in Sessions, CopyInEnds(s) PROVE TypeOK'
    BY <1>11 DEF CopyInEnds
  <1>12. ASSUME NEW s \in Sessions, CopyOutEnds(s) PROVE TypeOK'
    BY <1>12 DEF CopyOutEnds
  <1>13. ASSUME NEW s \in Sessions, DenyPty(s) PROVE TypeOK'
    BY <1>13 DEF DenyPty, Exit, NoStatus
  <1>14. ASSUME NEW s \in Sessions, CheckOptions(s) PROVE TypeOK'
    BY <1>14 DEF CheckOptions
  <1>15. ASSUME NEW s \in Sessions, setupAgentForwarding(s) PROVE TypeOK'
    BY <1>15 DEF setupAgentForwarding
  <1>16. ASSUME NEW s \in Sessions, handlePTYSession(s) PROVE TypeOK'
    BY <1>16, ShellInstalled DEF handlePTYSession, Start
  <1>17. ASSUME NEW s \in Sessions, handleNonPTYSession(s) PROVE TypeOK'
    BY <1>17, ShellInstalled DEF handleNonPTYSession, Start
  <1>18. ASSUME NEW s \in Sessions, StartFails(s) PROVE TypeOK'
    BY <1>18 DEF StartFails, Exit, NoStatus
  <1>19. ASSUME NEW s \in Sessions, waitForShellCompletion(s) PROVE TypeOK'
    BY <1>19 DEF waitForShellCompletion, Exit, NoStatus
  <1>20. ASSUME NEW s \in Sessions, cleanupAgent(s) PROVE TypeOK'
    BY <1>20 DEF cleanupAgent
  <1>21. ASSUME NEW s \in Sessions, HandlerReturned(s) PROVE TypeOK'
    BY <1>21 DEF HandlerReturned, Exit, NoStatus
  <1>22. ASSUME NEW s \in Sessions, SendWinch(s) PROVE TypeOK'
    BY <1>22 DEF SendWinch
  <1>23. ASSUME NEW s \in Sessions, WatchEnds(s) PROVE TypeOK'
    BY <1>23 DEF WatchEnds
  <1>24. CASE UNCHANGED vars
    BY <1>24 DEF vars
  <1> QED BY <1>1, <1>2, <1>3, <1>4, <1>5, <1>6, <1>7, <1>8, <1>9, <1>10, <1>11, <1>12, <1>13, <1>14, <1>15, <1>16, <1>17, <1>18, <1>19, <1>20, <1>21, <1>22, <1>23, <1>24 DEF Next, Client, Handler

\* Answers are given once and are true.
LEMMA AnsweredStep ==
  ASSUME IInv, [Next]_vars
  PROVE  Answered'
  <1> USE DEF client, process, window
  <1> USE DEF IInv, TypeOK, Answered, Spawned, After
  <1>1. ASSUME NEW s \in Sessions, RequestPty(s) PROVE Answered'
    BY <1>1 DEF RequestPty
  <1>2. ASSUME NEW s \in Sessions, ChangeWindow(s) PROVE Answered'
    BY <1>2 DEF ChangeWindow
  <1>3. ASSUME NEW s \in Sessions, RequestCommand(s) PROVE Answered'
    BY <1>3 DEF RequestCommand
  <1>4. ASSUME NEW s \in Sessions, RequestAgent(s) PROVE Answered'
    BY <1>4 DEF RequestAgent
  <1>5. CASE AgentRequest
    BY <1>5 DEF AgentRequest
  <1>6. ASSUME NEW s \in Sessions, SendEOF(s) PROVE Answered'
    BY <1>6 DEF SendEOF
  <1>7. ASSUME NEW s \in Sessions, CloseChannel(s) PROVE Answered'
    BY <1>7 DEF CloseChannel
  <1>8. CASE Disconnect
    BY <1>8 DEF Disconnect
  <1>9. ASSUME NEW s \in Sessions, TypeAfterExit(s) PROVE Answered'
    BY <1>9 DEF TypeAfterExit
  <1>10. ASSUME NEW s \in Sessions, ProcessExits(s) PROVE Answered'
    BY <1>10 DEF ProcessExits
  <1>11. ASSUME NEW s \in Sessions, CopyInEnds(s) PROVE Answered'
    BY <1>11 DEF CopyInEnds
  <1>12. ASSUME NEW s \in Sessions, CopyOutEnds(s) PROVE Answered'
    BY <1>12 DEF CopyOutEnds
  <1>13. ASSUME NEW s \in Sessions, DenyPty(s) PROVE Answered'
    BY <1>13 DEF DenyPty, Exit, NoStatus
  <1>14. ASSUME NEW s \in Sessions, CheckOptions(s) PROVE Answered'
    BY <1>14 DEF CheckOptions
  <1>15. ASSUME NEW s \in Sessions, setupAgentForwarding(s) PROVE Answered'
    BY <1>15 DEF setupAgentForwarding
  <1>16. ASSUME NEW s \in Sessions, handlePTYSession(s) PROVE Answered'
    BY <1>16 DEF handlePTYSession, Start
  <1>17. ASSUME NEW s \in Sessions, handleNonPTYSession(s) PROVE Answered'
    BY <1>17 DEF handleNonPTYSession, Start
  <1>18. ASSUME NEW s \in Sessions, StartFails(s) PROVE Answered'
    BY <1>18 DEF StartFails, Exit, NoStatus
  <1>19. ASSUME NEW s \in Sessions, waitForShellCompletion(s) PROVE Answered'
    BY <1>19 DEF waitForShellCompletion, Exit, NoStatus
  <1>20. ASSUME NEW s \in Sessions, cleanupAgent(s) PROVE Answered'
    BY <1>20 DEF cleanupAgent
  <1>21. ASSUME NEW s \in Sessions, HandlerReturned(s) PROVE Answered'
    BY <1>21 DEF HandlerReturned, Exit, NoStatus
  <1>22. ASSUME NEW s \in Sessions, SendWinch(s) PROVE Answered'
    BY <1>22 DEF SendWinch
  <1>23. ASSUME NEW s \in Sessions, WatchEnds(s) PROVE Answered'
    BY <1>23 DEF WatchEnds
  <1>24. CASE UNCHANGED vars
    BY <1>24 DEF vars
  <1> QED BY <1>1, <1>2, <1>3, <1>4, <1>5, <1>6, <1>7, <1>8, <1>9, <1>10, <1>11, <1>12, <1>13, <1>14, <1>15, <1>16, <1>17, <1>18, <1>19, <1>20, <1>21, <1>22, <1>23, <1>24 DEF Next, Client, Handler

\* Processes start in one place.
LEMMA SpawnedStep ==
  ASSUME IInv, [Next]_vars
  PROVE  Spawned'
  <1> USE DEF client, process, window
  <1> USE DEF IInv, TypeOK, Spawned, Listening, Before, After
  <1>1. ASSUME NEW s \in Sessions, RequestPty(s) PROVE Spawned'
    BY <1>1 DEF RequestPty
  <1>2. ASSUME NEW s \in Sessions, ChangeWindow(s) PROVE Spawned'
    BY <1>2 DEF ChangeWindow
  <1>3. ASSUME NEW s \in Sessions, RequestCommand(s) PROVE Spawned'
    BY <1>3 DEF RequestCommand
  <1>4. ASSUME NEW s \in Sessions, RequestAgent(s) PROVE Spawned'
    BY <1>4 DEF RequestAgent
  <1>5. CASE AgentRequest
    BY <1>5 DEF AgentRequest
  <1>6. ASSUME NEW s \in Sessions, SendEOF(s) PROVE Spawned'
    BY <1>6 DEF SendEOF
  <1>7. ASSUME NEW s \in Sessions, CloseChannel(s) PROVE Spawned'
    BY <1>7 DEF CloseChannel
  <1>8. CASE Disconnect
    BY <1>8 DEF Disconnect
  <1>9. ASSUME NEW s \in Sessions, TypeAfterExit(s) PROVE Spawned'
    BY <1>9 DEF TypeAfterExit
  <1>10. ASSUME NEW s \in Sessions, ProcessExits(s) PROVE Spawned'
    BY <1>10 DEF ProcessExits
  <1>11. ASSUME NEW s \in Sessions, CopyInEnds(s) PROVE Spawned'
    BY <1>11 DEF CopyInEnds
  <1>12. ASSUME NEW s \in Sessions, CopyOutEnds(s) PROVE Spawned'
    BY <1>12 DEF CopyOutEnds
  <1>13. ASSUME NEW s \in Sessions, DenyPty(s) PROVE Spawned'
    BY <1>13 DEF DenyPty, Exit, NoStatus
  <1>14. ASSUME NEW s \in Sessions, CheckOptions(s) PROVE Spawned'
    BY <1>14 DEF CheckOptions
  <1>15. ASSUME NEW s \in Sessions, setupAgentForwarding(s) PROVE Spawned'
    BY <1>15 DEF setupAgentForwarding
  <1>16. ASSUME NEW s \in Sessions, handlePTYSession(s) PROVE Spawned'
    BY <1>16 DEF handlePTYSession, Start
  <1>17. ASSUME NEW s \in Sessions, handleNonPTYSession(s) PROVE Spawned'
    BY <1>17 DEF handleNonPTYSession, Start
  <1>18. ASSUME NEW s \in Sessions, StartFails(s) PROVE Spawned'
    BY <1>18 DEF StartFails, Exit, NoStatus
  <1>19. ASSUME NEW s \in Sessions, waitForShellCompletion(s) PROVE Spawned'
    BY <1>19 DEF waitForShellCompletion, Exit, NoStatus
  <1>20. ASSUME NEW s \in Sessions, cleanupAgent(s) PROVE Spawned'
    BY <1>20 DEF cleanupAgent
  <1>21. ASSUME NEW s \in Sessions, HandlerReturned(s) PROVE Spawned'
    BY <1>21 DEF HandlerReturned, Exit, NoStatus
  <1>22. ASSUME NEW s \in Sessions, SendWinch(s) PROVE Spawned'
    BY <1>22 DEF SendWinch
  <1>23. ASSUME NEW s \in Sessions, WatchEnds(s) PROVE Spawned'
    BY <1>23 DEF WatchEnds
  <1>24. CASE UNCHANGED vars
    BY <1>24 DEF vars
  <1> QED BY <1>1, <1>2, <1>3, <1>4, <1>5, <1>6, <1>7, <1>8, <1>9, <1>10, <1>11, <1>12, <1>13, <1>14, <1>15, <1>16, <1>17, <1>18, <1>19, <1>20, <1>21, <1>22, <1>23, <1>24 DEF Next, Client, Handler

\* Sockets are opened before the start and closed after the wait.
LEMMA ListeningStep ==
  ASSUME IInv, [Next]_vars
  PROVE  Listening'
  <1> USE DEF client, process, window
  <1> USE DEF IInv, TypeOK, Spawned, Listening, Before, After
  <1>1. ASSUME NEW s \in Sessions, RequestPty(s) PROVE Listening'
    BY <1>1 DEF RequestPty
  <1>2. ASSUME NEW s \in Sessions, ChangeWindow(s) PROVE Listening'
    BY <1>2 DEF ChangeWindow
  <1>3. ASSUME NEW s \in Sessions, RequestCommand(s) PROVE Listening'
    BY <1>3 DEF RequestCommand
  <1>4. ASSUME NEW s \in Sessions, RequestAgent(s) PROVE Listening'
    BY <1>4 DEF RequestAgent
  <1>5. CASE AgentRequest
    BY <1>5 DEF AgentRequest
  <1>6. ASSUME NEW s \in Sessions, SendEOF(s) PROVE Listening'
    BY <1>6 DEF SendEOF
  <1>7. ASSUME NEW s \in Sessions, CloseChannel(s) PROVE Listening'
    BY <1>7 DEF CloseChannel
  <1>8. CASE Disconnect
    BY <1>8 DEF Disconnect
  <1>9. ASSUME NEW s \in Sessions, TypeAfterExit(s) PROVE Listening'
    BY <1>9 DEF TypeAfterExit
  <1>10. ASSUME NEW s \in Sessions, ProcessExits(s) PROVE Listening'
    BY <1>10 DEF ProcessExits
  <1>11. ASSUME NEW s \in Sessions, CopyInEnds(s) PROVE Listening'
    BY <1>11 DEF CopyInEnds
  <1>12. ASSUME NEW s \in Sessions, CopyOutEnds(s) PROVE Listening'
    BY <1>12 DEF CopyOutEnds
  <1>13. ASSUME NEW s \in Sessions, DenyPty(s) PROVE Listening'
    BY <1>13 DEF DenyPty, Exit, NoStatus
  <1>14. ASSUME NEW s \in Sessions, CheckOptions(s) PROVE Listening'
    BY <1>14 DEF CheckOptions
  <1>15. ASSUME NEW s \in Sessions, setupAgentForwarding(s) PROVE Listening'
    BY <1>15 DEF setupAgentForwarding
  <1>16. ASSUME NEW s \in Sessions, handlePTYSession(s) PROVE Listening'
    BY <1>16 DEF handlePTYSession, Start
  <1>17. ASSUME NEW s \in Sessions, handleNonPTYSession(s) PROVE Listening'
    BY <1>17 DEF handleNonPTYSession, Start
  <1>18. ASSUME NEW s \in Sessions, StartFails(s) PROVE Listening'
    BY <1>18 DEF StartFails, Exit, NoStatus
  <1>19. ASSUME NEW s \in Sessions, waitForShellCompletion(s) PROVE Listening'
    BY <1>19 DEF waitForShellCompletion, Exit, NoStatus
  <1>20. ASSUME NEW s \in Sessions, cleanupAgent(s) PROVE Listening'
    BY <1>20 DEF cleanupAgent
  <1>21. ASSUME NEW s \in Sessions, HandlerReturned(s) PROVE Listening'
    BY <1>21 DEF HandlerReturned, Exit, NoStatus
  <1>22. ASSUME NEW s \in Sessions, SendWinch(s) PROVE Listening'
    BY <1>22 DEF SendWinch
  <1>23. ASSUME NEW s \in Sessions, WatchEnds(s) PROVE Listening'
    BY <1>23 DEF WatchEnds
  <1>24. CASE UNCHANGED vars
    BY <1>24 DEF vars
  <1> QED BY <1>1, <1>2, <1>3, <1>4, <1>5, <1>6, <1>7, <1>8, <1>9, <1>10, <1>11, <1>12, <1>13, <1>14, <1>15, <1>16, <1>17, <1>18, <1>19, <1>20, <1>21, <1>22, <1>23, <1>24 DEF Next, Client, Handler

LEMMA Inductive == Spec => []IInv
  <1>1. IInv /\ [Next]_vars => IInv'
    <2> SUFFICES ASSUME IInv, [Next]_vars PROVE IInv'
      OBVIOUS
    <2>1. TypeOK' /\ Answered' /\ Spawned' /\ Listening'
      BY TypeStep, AnsweredStep, SpawnedStep, ListeningStep
    <2> QED BY <2>1 DEF IInv
  <1> QED BY InitIInv, <1>1, PTL DEF Spec

----------------------------------------------------------------------------

\* Every variable keeps its type for any channels, accounts and passwd file; in
\* particular a session only ever starts a shell that exists, or bash.
THEOREM TypeCorrect == Spec => []TypeOK
  <1>1. IInv => TypeOK
    BY DEF IInv
  <1> QED BY Inductive, <1>1, PTL

\* Nobody is told 0 unless a process exited with 0 and its output was sent:
\* every return of the handler is preceded by a call of Exit of its own.
THEOREM TrueSuccess == Spec => []SuccessIsReal
  <1>1. IInv => SuccessIsReal
    BY DEF IInv, Answered, SuccessIsReal
  <1> QED BY Inductive, <1>1, PTL

\* The options command and no-pty hold on every way to a process.
THEOREM Restricted == Spec => []RestrictionsHold
  <1>1. IInv => RestrictionsHold
    BY DEF IInv, Spawned, RestrictionsHold
  <1> QED BY Inductive, <1>1, PTL

\* The agent socket lives as long as the process that knows it, and no longer
\* than the session.
THEOREM SocketScoped == Spec => []AgentSocketScope
  <1>1. IInv => AgentSocketScope
    <2> SUFFICES ASSUME IInv, NEW s \in Sessions
                 PROVE  /\ proc[s] \in {"running", "exited"} /\ "SSH_AUTH_SOCK" \in env[s]
                             => sock[s] = "listening"
                        /\ pc[s] \in {"returned", "ended"} => sock[s] # "listening"
      BY DEF AgentSocketScope
    <2>1. proc[s] \in {"running", "exited"} => pc[s] = "wait"
      BY DEF IInv, TypeOK, Spawned, Before, After
    <2> QED BY <2>1 DEF IInv, Listening
  <1> QED BY Inductive, <1>1, PTL
=============================================================================
