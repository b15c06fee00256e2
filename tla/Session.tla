------------------------------ MODULE Session ------------------------------
(***************************************************************************)
(* pkg/handlers ShellHandler and AgentHandler: the session channels of one *)
(* connection.  Each channel has gliderlabs' loop over its requests, the   *)
(* session handler that the shell or exec request starts, the process it   *)
(* runs with the two copies of os/exec, and with a terminal the goroutine  *)
(* that passes on window changes.  The channels share the connection's     *)
(* context: the options of its key and the flag set by agent requests.     *)
(***************************************************************************)
EXTENDS Integers, Sequences

CONSTANTS
  Sessions,   \* session channels of the connection
  User,       \* the account that logged in
  Accounts,   \* os/user: uid of each account it finds
  Passwd,     \* /etc/passwd: sequence of [uid, shell], shell "" if blank
  Installed   \* shells that exist

Bash == "/bin/bash"
NoStatus == 256   \* exit codes of processes are bytes, or -1
Unset == [shell |-> Bash, cmd |-> "none"]

ASSUME SessionAssumption ==
  /\ Passwd \in Seq([uid : Nat, shell : STRING])
  /\ Installed \subseteq STRING

VARIABLES
  policy,     \* options of the login's key, and config.AllowAgentForwarding
  agentFlag,  \* context value set by ssh.SetAgentRequested
  chan,       \* the client's side of the channel: "open", "eof", "closed"
  pc,         \* request loop until the shell or exec request, then its handler
  req,        \* what the client asked for: a terminal, a command of its own
  sock,       \* the session's agent socket: "none", "listening", "closed"
  argv,       \* shell of the process and what it runs
  env,        \* those of its variables that depend on the session
  proc,       \* the process: "none", "running", "exited", "reaped"
  code,       \* its exit code, -1 if a signal ended it
  copies,     \* copies of os/exec that go on
  copyErr,    \* whether the copy of its output failed
  told,       \* whether Exit was called
  status,     \* exit status the client was sent, NoStatus if none
  watch,      \* goroutine handleWindowChanges: "none", "watching", "ended"
  windows     \* sizes that wait in the channel it reads (capacity 1)

client == <<policy, agentFlag, chan, req>>
process == <<argv, env, proc, code, copies, copyErr>>
window == <<watch, windows>>
vars == <<client, pc, sock, process, told, status, window>>

TypeOK ==
  /\ policy \in [noPTY : BOOLEAN, command : BOOLEAN, allowAgent : BOOLEAN]
  /\ agentFlag \in BOOLEAN
  /\ chan \in [Sessions -> {"open", "eof", "closed"}]
  /\ pc \in [Sessions -> {"requests", "options", "agent", "start", "wait",
                          "cleanup", "returned", "ended"}]
  /\ req \in [Sessions -> [pty : BOOLEAN, command : BOOLEAN]]
  /\ sock \in [Sessions -> {"none", "listening", "closed"}]
  /\ argv \in [Sessions -> [shell : Installed \cup {Bash},
                            cmd : {"none", "forced", "login", "requested"}]]
  /\ env \in [Sessions -> SUBSET {"SSH_AUTH_SOCK", "SSH_ORIGINAL_COMMAND"}]
  /\ proc \in [Sessions -> {"none", "running", "exited", "reaped"}]
  /\ code \in [Sessions -> -1..1]
  /\ copies \in [Sessions -> SUBSET {"stdin", "stdout"}]
  /\ copyErr \in [Sessions -> BOOLEAN]
  /\ told \in [Sessions -> BOOLEAN]
  /\ status \in [Sessions -> (-1..1) \cup {NoStatus}]
  /\ watch \in [Sessions -> {"none", "watching", "ended"}]
  /\ windows \in [Sessions -> 0..1]

\* A login with any options of its key and either setting of the server.
Init ==
  /\ policy \in [noPTY : BOOLEAN, command : BOOLEAN, allowAgent : BOOLEAN]
  /\ agentFlag = FALSE
  /\ chan = [s \in Sessions |-> "open"]
  /\ pc = [s \in Sessions |-> "requests"]
  /\ req = [s \in Sessions |-> [pty |-> FALSE, command |-> FALSE]]
  /\ sock = [s \in Sessions |-> "none"]
  /\ argv = [s \in Sessions |-> Unset]
  /\ env = [s \in Sessions |-> {}]
  /\ proc = [s \in Sessions |-> "none"]
  /\ code = [s \in Sessions |-> 0]
  /\ copies = [s \in Sessions |-> {}]
  /\ copyErr = [s \in Sessions |-> FALSE]
  /\ told = [s \in Sessions |-> FALSE]
  /\ status = [s \in Sessions |-> NoStatus]
  /\ watch = [s \in Sessions |-> "none"]
  /\ windows = [s \in Sessions |-> 0]

----------------------------------------------------------------------------
(* The client and gliderlabs' loop over the requests of a channel.         *)

\* pty-req: refused once there is a terminal or a handler.  It brings a size.
RequestPty(s) ==
  /\ pc[s] = "requests" /\ chan[s] # "closed" /\ ~req[s].pty
  /\ req' = [req EXCEPT ![s].pty = TRUE]
  /\ windows' = [windows EXCEPT ![s] = 1]
  /\ UNCHANGED <<policy, agentFlag, chan, pc, sock, process, told, status, watch>>

\* window-change: the loop waits until the size fits into the channel.
ChangeWindow(s) ==
  /\ req[s].pty /\ chan[s] # "closed" /\ windows[s] = 0
  /\ windows' = [windows EXCEPT ![s] = 1]
  /\ UNCHANGED <<client, pc, sock, process, told, status, watch>>

\* shell (no command) or exec (a command): the handler's goroutine is started.
RequestCommand(s) ==
  /\ pc[s] = "requests" /\ chan[s] # "closed"
  /\ \E command \in BOOLEAN : req' = [req EXCEPT ![s].command = command]
  /\ pc' = [pc EXCEPT ![s] = "options"]
  /\ UNCHANGED <<policy, agentFlag, chan, sock, process, told, status, window>>

\* auth-agent-req@openssh.com as a request of the channel: the library answers
\* it alone and sets the flag.
RequestAgent(s) ==
  /\ chan[s] # "closed"
  /\ agentFlag' = TRUE
  /\ UNCHANGED <<policy, chan, req, pc, sock, process, told, status, window>>

\* CreateAgentRequestHandler, the same as a global request.  No login sets the
\* extension that isAgentForwardingAllowed also looks for.
AgentRequest ==
  /\ policy.allowAgent
  /\ agentFlag' = TRUE
  /\ UNCHANGED <<policy, chan, req, pc, sock, process, told, status, window>>

SendEOF(s) ==
  /\ chan[s] = "open"
  /\ chan' = [chan EXCEPT ![s] = "eof"]
  /\ UNCHANGED <<policy, agentFlag, req, pc, sock, process, told, status, window>>

CloseChannel(s) ==
  /\ chan[s] # "closed"
  /\ chan' = [chan EXCEPT ![s] = "closed"]
  /\ UNCHANGED <<policy, agentFlag, req, pc, sock, process, told, status, window>>

Disconnect ==
  /\ \E s \in Sessions : chan[s] # "closed"
  /\ chan' = [s \in Sessions |-> "closed"]
  /\ UNCHANGED <<policy, agentFlag, req, pc, sock, process, told, status, window>>

\* The client types after the process has gone: the copy's write fails.
TypeAfterExit(s) ==
  /\ chan[s] = "open" /\ proc[s] = "exited" /\ "stdin" \in copies[s]
  /\ copies' = [copies EXCEPT ![s] = @ \ {"stdin"}]
  /\ UNCHANGED <<client, pc, sock, argv, env, proc, code, copyErr, told, status, window>>

----------------------------------------------------------------------------
(* The process and the copies of os/exec.                                  *)

ProcessExits(s) ==
  /\ proc[s] = "running"
  /\ proc' = [proc EXCEPT ![s] = "exited"]
  /\ \E c \in -1..1 : code' = [code EXCEPT ![s] = c]
  /\ UNCHANGED <<client, pc, sock, argv, env, copies, copyErr, told, status, window>>

CopyInEnds(s) ==
  /\ "stdin" \in copies[s] /\ chan[s] # "open"
  /\ copies' = [copies EXCEPT ![s] = @ \ {"stdin"}]
  /\ UNCHANGED <<client, pc, sock, argv, env, proc, code, copyErr, told, status, window>>

\* Output ends when nobody holds the pipe any more, which children of the
\* process may do for long, or with a failed write to a closed channel.
CopyOutEnds(s) ==
  /\ "stdout" \in copies[s]
  /\ copies' = [copies EXCEPT ![s] = @ \ {"stdout"}]
  /\ \/ proc[s] = "exited" /\ UNCHANGED copyErr
     \/ chan[s] = "closed" /\ copyErr' = [copyErr EXCEPT ![s] = TRUE]
  /\ UNCHANGED <<client, pc, sock, argv, env, proc, code, told, status, window>>

----------------------------------------------------------------------------
(* CreateSessionHandler and what it calls.                                 *)

\* scanPasswdForUID: the shell of the first line with the uid.
ShellFromPasswd(uid) ==
  LET own == SelectSeq(Passwd, LAMBDA line : line.uid = uid)
  IN IF own = <<>> \/ Head(own).shell = "" THEN Bash ELSE Head(own).shell

\* getUserShell: whatever is unknown, blank or missing becomes bash.
getUserShell(u) ==
  IF u \in DOMAIN Accounts /\ ShellFromPasswd(Accounts[u]) \in Installed
    THEN ShellFromPasswd(Accounts[u]) ELSE Bash

\* Session.Exit: the first call counts; it reaches an open channel only.
Exit(s, c) ==
  /\ told' = [told EXCEPT ![s] = TRUE]
  /\ status' = [status EXCEPT ![s] =
                  IF told[s] \/ chan[s] = "closed" THEN @ ELSE c]

\* no-pty: the handler returns before it has set anything up.
DenyPty(s) ==
  /\ pc[s] = "options"
  /\ req[s].pty /\ policy.noPTY
  /\ Exit(s, 1)
  /\ pc' = [pc EXCEPT ![s] = "returned"]
  /\ UNCHANGED <<client, sock, process, window>>

CheckOptions(s) ==
  /\ pc[s] = "options"
  /\ ~(req[s].pty /\ policy.noPTY)
  /\ pc' = [pc EXCEPT ![s] = "agent"]
  /\ UNCHANGED <<client, sock, process, told, status, window>>

\* Regression: the cleanup runs when setupAgentForwarding is done.
setupAgentClosed(s) ==
  /\ pc[s] = "agent"
  /\ \E made \in BOOLEAN :
       /\ made => agentFlag
       /\ sock' = [sock EXCEPT ![s] = IF made THEN "closed" ELSE "none"]
       /\ env' = [env EXCEPT ![s] = IF made THEN {"SSH_AUTH_SOCK"} ELSE {}]
  /\ pc' = [pc EXCEPT ![s] = "start"]
  /\ UNCHANGED <<client, argv, proc, code, copies, copyErr, told, status, window>>

\* With the flag the session gets a socket, unless it cannot be made; its path
\* goes into the environment.
setupAgentForwarding(s) ==
  /\ pc[s] = "agent"
  /\ \E made \in BOOLEAN :
       /\ made => agentFlag
       /\ sock' = [sock EXCEPT ![s] = IF made THEN "listening" ELSE "none"]
       /\ env' = [env EXCEPT ![s] = IF made THEN {"SSH_AUTH_SOCK"} ELSE {}]
  /\ pc' = [pc EXCEPT ![s] = "start"]
  /\ UNCHANGED <<client, argv, proc, code, copies, copyErr, told, status, window>>

\* cmd.Start succeeds: the process runs, its copies with it.
Start(s, what) ==
  /\ pc[s] = "start"
  /\ argv' = [argv EXCEPT ![s] = [shell |-> getUserShell(User), cmd |-> what]]
  /\ proc' = [proc EXCEPT ![s] = "running"]
  /\ copies' = [copies EXCEPT ![s] = {"stdin", "stdout"}]
  /\ pc' = [pc EXCEPT ![s] = "wait"]
  /\ UNCHANGED <<client, sock, code, copyErr, told, status, windows>>

\* Regression: a terminal always gets a login shell.
handlePTYSessionLogin(s) ==
  /\ req[s].pty
  /\ Start(s, "login")
  /\ watch' = [watch EXCEPT ![s] = "watching"]
  /\ UNCHANGED env

\* handlePTYSession: the forced command or a login shell, whatever command the
\* client named, and a goroutine for its window changes.
handlePTYSession(s) ==
  /\ req[s].pty
  /\ Start(s, IF policy.command THEN "forced" ELSE "login")
  /\ watch' = [watch EXCEPT ![s] = "watching"]
  /\ UNCHANGED env

\* handleNonPTYSession: a forced command is told what the client asked for.
handleNonPTYSession(s) ==
  /\ ~req[s].pty
  /\ Start(s, IF policy.command THEN "forced" ELSE "requested")
  /\ env' = [env EXCEPT ![s] = IF policy.command /\ req[s].command
                                 THEN @ \cup {"SSH_ORIGINAL_COMMAND"} ELSE @]
  /\ UNCHANGED watch

\* Regression: an error before the start returns without an Exit.
StartFailsQuietly(s) ==
  /\ pc[s] = "start"
  /\ pc' = [pc EXCEPT ![s] = "cleanup"]
  /\ UNCHANGED <<client, sock, process, told, status, window>>

\* applyUserCredential or cmd.Start fails, with and without a terminal.
StartFails(s) ==
  /\ pc[s] = "start"
  /\ Exit(s, 1)
  /\ pc' = [pc EXCEPT ![s] = "cleanup"]
  /\ UNCHANGED <<client, sock, process, window>>

\* Regression: the window goroutine is waited for as well.
WaitForAll(s) ==
  /\ pc[s] = "wait"
  /\ proc[s] = "exited" /\ copies[s] = {} /\ watch[s] # "watching"
  /\ proc' = [proc EXCEPT ![s] = "reaped"]
  /\ Exit(s, IF code[s] = 0 /\ copyErr[s] THEN 1 ELSE code[s])
  /\ pc' = [pc EXCEPT ![s] = "cleanup"]
  /\ UNCHANGED <<client, sock, argv, env, code, copies, copyErr, window>>

\* waitForShellCompletion: cmd.Wait reaps the process and waits for the copies.
\* An exit code other than 0 comes first, then the error of a copy; -1 is sent
\* as the 32 bits 16#ffffffff.
waitForShellCompletion(s) ==
  /\ pc[s] = "wait"
  /\ proc[s] = "exited" /\ copies[s] = {}
  /\ proc' = [proc EXCEPT ![s] = "reaped"]
  /\ Exit(s, IF code[s] = 0 /\ copyErr[s] THEN 1 ELSE code[s])
  /\ pc' = [pc EXCEPT ![s] = "cleanup"]
  /\ UNCHANGED <<client, sock, argv, env, code, copies, copyErr, window>>

\* The deferred cleanupAgent closes the listener, if there is one.
cleanupAgent(s) ==
  /\ pc[s] = "cleanup"
  /\ sock' = [sock EXCEPT ![s] = IF @ = "listening" THEN "closed" ELSE @]
  /\ pc' = [pc EXCEPT ![s] = "returned"]
  /\ UNCHANGED <<client, process, told, status, window>>

\* gliderlabs calls Exit(0) after every handler.
HandlerReturned(s) ==
  /\ pc[s] = "returned"
  /\ Exit(s, 0)
  /\ pc' = [pc EXCEPT ![s] = "ended"]
  /\ UNCHANGED <<client, sock, process, window>>

\* handleWindowChanges: SIGWINCH to the group of the process, reaped or not.
SendWinch(s) ==
  /\ watch[s] = "watching" /\ windows[s] > 0
  /\ windows' = [windows EXCEPT ![s] = 0]
  /\ UNCHANGED <<client, pc, sock, process, told, status, watch>>

\* Its loop ends with the requests of the channel, when nothing is left in it.
WatchEnds(s) ==
  /\ watch[s] = "watching" /\ windows[s] = 0 /\ chan[s] = "closed"
  /\ watch' = [watch EXCEPT ![s] = "ended"]
  /\ UNCHANGED <<client, pc, sock, process, told, status, windows>>

----------------------------------------------------------------------------

Handler(s) ==
  \/ DenyPty(s) \/ CheckOptions(s) \/ setupAgentForwarding(s)
  \/ handlePTYSession(s) \/ handleNonPTYSession(s) \/ StartFails(s)
  \/ waitForShellCompletion(s) \/ cleanupAgent(s) \/ HandlerReturned(s)

Client(s) ==
  \/ RequestPty(s) \/ ChangeWindow(s) \/ RequestCommand(s) \/ RequestAgent(s)
  \/ SendEOF(s) \/ CloseChannel(s) \/ TypeAfterExit(s)

Next ==
  \/ AgentRequest \/ Disconnect
  \/ \E s \in Sessions :
       \/ Client(s) \/ Handler(s)
       \/ ProcessExits(s) \/ CopyInEnds(s) \/ CopyOutEnds(s)
       \/ SendWinch(s) \/ WatchEnds(s)

\* The daemon's goroutines run when they can.  A copy may be stuck in a write
\* while the process lives.  Clients, processes and their children owe nothing.
Fairness ==
  \A s \in Sessions :
    WF_vars(Handler(s)) /\ WF_vars(proc[s] = "exited" /\ CopyInEnds(s))

Spec == Init /\ [][Next]_vars /\ Fairness

----------------------------------------------------------------------------
(* Properties.                                                             *)

\* A client that is told 0 had a process that exited with 0 and whose output
\* was all sent: no path of the handler leaves the answer to the Exit(0) that
\* follows it, and no failed copy passes for success (waitForShellCompletion).
SuccessIsReal ==
  \A s \in Sessions :
    status[s] = 0 => proc[s] = "reaped" /\ code[s] = 0 /\ ~copyErr[s]

\* Through every way to a process, a key with a command runs only that one, and
\* a key with no-pty gets neither a process nor an agent socket for a terminal.
RestrictionsHold ==
  \A s \in Sessions :
    /\ policy.command /\ proc[s] # "none" => argv[s].cmd = "forced"
    /\ policy.noPTY /\ req[s].pty => proc[s] = "none" /\ sock[s] = "none"

\* A process that was given SSH_AUTH_SOCK has its socket as long as it lives,
\* whatever fails or disconnects meanwhile, and no session leaves one behind
\* (setupAgentForwarding and the deferred cleanup).
AgentSocketScope ==
  \A s \in Sessions :
    /\ proc[s] \in {"running", "exited"} /\ "SSH_AUTH_SOCK" \in env[s]
         => sock[s] = "listening"
    /\ pc[s] \in {"returned", "ended"} => sock[s] # "listening"

\* A session ends once its process has, the client has no more input for it and
\* nobody else holds its output; the window goroutine does not keep it.
SessionEnds ==
  \A s \in Sessions :
    (proc[s] = "exited" /\ chan[s] # "open" /\ "stdout" \notin copies[s])
      ~> (pc[s] = "ended")
=============================================================================
