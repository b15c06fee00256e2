-------------------------- MODULE ServerLifecycle --------------------------
(***************************************************************************)
(* pkg/server.Server between New and the end of Start: the goroutine in    *)
(* Start (main), the one in handleSignals (sig), one runSSHServer goroutine *)
(* per generation of the gliderlabs server, and a caller of Stop.          *)
(*                                                                         *)
(* A generation is one ssh.Server value: New builds the first, every       *)
(* successful reload builds another.  Critical sections of Server.mu are   *)
(* single steps; everything a goroutine does outside the mutex is a step   *)
(* of its own, so a reload, a shutdown and a Stop interleave freely.       *)
(***************************************************************************)
EXTENDS Naturals, SignalHandler

CONSTANTS
  MaxGens,   \* bound: generations built, the first one and successful reloads
  Ports,     \* the values the Port directive takes as the operator edits the file
  InitPort,  \* Port in the configuration given to New
  Conns      \* connections that clients may open

ASSUME LifecycleAssumption ==
  /\ MaxGens \in Nat \ {0}
  /\ InitPort \in Ports

Gens == 1..MaxGens
NoGen == 0          \* a nil channel or server

VARIABLES
  \* Server fields, guarded by Server.mu
  ssh,        \* Server.ssh: the current generation (config and logger change with it)
  errCh,      \* Server.sshErrCh: the generation it was made for, or NoGen
  \* the generations and their error channels
  state,      \* what runSSHServer of each generation is doing
  port,       \* the Port of the configuration each generation was built from
  ch,         \* the channel each runSSHServer reports on
  errBuf,     \* contents of each error channel (capacity 1)
  last,       \* generations built so far
  \* goroutines
  \* (locals that have gone out of scope are reset to NoGen or "none")
  mainPc, mainCh, mainSsh, mainErr, ret,   \* Start / runServerLoop
  sigPc, sigNew, sigOld,                   \* handleSignals / reloadConfiguration
  stopPc, stopSsh,                         \* Stop
  \* the rest
  metricsUp,  \* the metrics listener runs
  conn,       \* the generation that tracks each connection, or NoGen
  hupUnread   \* a SIGHUP was sent and the file has not been read since

fields == <<ssh, errCh>>
gens == <<state, port, ch, errBuf, last>>
mainVars == <<mainPc, mainCh, mainSsh, mainErr, ret>>
reloadVars == <<sigPc, sigNew, sigOld>>
stopVars == <<stopPc, stopSsh>>
vars == <<fields, gens, mainVars, reloadVars, stopVars, metricsUp, conn, hupUnread, sigVars>>

\* Return values of ListenAndServe as they travel through an error channel.
Errors == {"bind", "accept"}
Results == {"nil"} \cup Errors
\* A generation in a state of Results is about to send that result.
GenStates == {"unused", "built", "spawned", "serving", "done"} \cup Results
MainStates ==
  {"idle", "publish", "loop", "select", "compare", "shutdown", "close", "wait", "returned"}
SigStates == {"off", "wait", "load", "swap", "spawn", "closeOld", "exited"}
StopStates == {"idle", "get", "close", "release", "done"}

FlagsOK == SigTypeOK /\ metricsUp \in BOOLEAN /\ hupUnread \in BOOLEAN

TypeOK ==
  /\ FlagsOK
  /\ ssh \in Gens /\ errCh \in Gens \cup {NoGen}
  /\ state \in [Gens -> GenStates]
  /\ port \in [Gens -> Ports]
  /\ ch \in [Gens -> Gens \cup {NoGen}]
  /\ errBuf \in [Gens -> Results \cup {"empty"}]
  /\ last \in Gens
  /\ mainPc \in MainStates /\ mainCh \in Gens \cup {NoGen}
  /\ mainSsh \in Gens \cup {NoGen}
  /\ mainErr \in Results \cup {"none"} /\ ret \in Results \cup {"none", "metrics"}
  /\ sigPc \in SigStates /\ sigNew \in Gens \cup {NoGen} /\ sigOld \in Gens \cup {NoGen}
  /\ stopPc \in StopStates /\ stopSsh \in Gens \cup {NoGen}
  /\ conn \in [Conns -> Gens \cup {NoGen}]

----------------------------------------------------------------------------
(* New: the configuration has been loaded and the first generation built.  *)

Init ==
  /\ SigInit
  /\ ssh = 1 /\ errCh = NoGen
  /\ state = [g \in Gens |-> IF g = 1 THEN "built" ELSE "unused"]
  /\ port = [g \in Gens |-> InitPort]
  /\ ch = [g \in Gens |-> NoGen]
  /\ errBuf = [g \in Gens |-> "empty"]
  /\ last = 1
  /\ mainPc = "idle" /\ mainCh = NoGen /\ mainSsh = NoGen
  /\ mainErr = "none" /\ ret = "none"
  /\ sigPc = "off" /\ sigNew = NoGen /\ sigOld = NoGen
  /\ stopPc = "idle" /\ stopSsh = NoGen
  /\ metricsUp = FALSE
  /\ conn = [c \in Conns |-> NoGen]
  /\ hupUnread = FALSE

----------------------------------------------------------------------------
(* The gliderlabs server.                                                  *)

\* A port is taken from net.Listen until the listener is closed.
PortBusy(p) == \E g \in Gens : state[g] = "serving" /\ port[g] = p

\* ssh.Server.Close: closes the listener, on which Accept and then
\* ListenAndServe return ErrServerClosed, and cuts every tracked connection.  A
\* server that has not registered its listener yet has nothing to close, and
\* trackListener then resets the done channel: such a Close is lost.
CloseGen(g) ==
  /\ state' = IF state[g] = "serving" THEN [state EXCEPT ![g] = "nil"] ELSE state
  /\ conn' = [c \in Conns |-> IF conn[c] = g THEN NoGen ELSE conn[c]]
  /\ UNCHANGED <<port, ch, errBuf, last>>

\* ListenAndServe up to its accept loop: net.Listen, refused while another
\* listener has the port, and trackListener.
Listen(g) ==
  /\ state[g] = "spawned"
  /\ state' = [state EXCEPT ![g] = IF PortBusy(port[g]) THEN "bind" ELSE "serving"]
  /\ UNCHANGED <<fields, port, ch, errBuf, last, mainVars, reloadVars, stopVars,
                 metricsUp, conn, hupUnread, sigVars>>

\* Accept fails though nobody called Close.
AcceptFails(g) ==
  /\ state[g] = "serving"
  /\ state' = [state EXCEPT ![g] = "accept"]
  /\ UNCHANGED <<fields, port, ch, errBuf, last, mainVars, reloadVars, stopVars,
                 metricsUp, conn, hupUnread, sigVars>>

\* The send in runSSHServer: it blocks while the channel is full.
Report(g) ==
  /\ state[g] \in Results
  /\ errBuf[ch[g]] = "empty"
  /\ errBuf' = [errBuf EXCEPT ![ch[g]] = state[g]]
  /\ state' = [state EXCEPT ![g] = "done"]
  /\ UNCHANGED <<fields, port, ch, last, mainVars, reloadVars, stopVars,
                 metricsUp, conn, hupUnread, sigVars>>

\* A connection is accepted, handshaken and tracked; its client ends it.
Connect(c) ==
  /\ conn[c] = NoGen
  /\ \E g \in Gens : state[g] = "serving" /\ conn' = [conn EXCEPT ![c] = g]
  /\ UNCHANGED <<fields, gens, mainVars, reloadVars, stopVars, metricsUp, hupUnread, sigVars>>

Disconnect(c) ==
  /\ conn[c] # NoGen
  /\ conn' = [conn EXCEPT ![c] = NoGen]
  /\ UNCHANGED <<fields, gens, mainVars, reloadVars, stopVars, metricsUp, hupUnread, sigVars>>

----------------------------------------------------------------------------
(* Start and runServerLoop.                                                *)

\* startMetricsServer, whose failure ends Start before any goroutine exists, and
\* go handleSignals: from here on a reload may run, before Start goes on.
StartMetrics ==
  /\ mainPc = "idle"
  /\ \/ metricsUp' = TRUE /\ mainPc' = "publish" /\ sigPc' = "wait" /\ UNCHANGED ret
     \/ mainPc' = "returned" /\ ret' = "metrics" /\ UNCHANGED <<metricsUp, sigPc>>
  /\ UNCHANGED <<fields, gens, mainCh, mainSsh, mainErr, sigNew, sigOld, stopVars, conn,
                 hupUnread, sigVars>>

\* Regression: Start uses the server it saw before the signal goroutine ran.
PublishErrChStale ==
  /\ mainPc = "publish"
  /\ errCh' = 1
  /\ ch' = [ch EXCEPT ![1] = 1]
  /\ state' = [state EXCEPT ![1] = "spawned"]
  /\ mainPc' = "loop"
  /\ UNCHANGED <<ssh, port, errBuf, last, mainCh, mainSsh, mainErr, ret, reloadVars,
                 stopVars, metricsUp, conn, hupUnread, sigVars>>

\* The critical section of Start and the go statement after it.
PublishErrCh ==
  /\ mainPc = "publish"
  /\ errCh' = ssh
  /\ ch' = [ch EXCEPT ![ssh] = ssh]
  /\ state' = [state EXCEPT ![ssh] = "spawned"]
  /\ mainPc' = "loop"
  /\ UNCHANGED <<ssh, port, errBuf, last, mainCh, mainSsh, mainErr, ret, reloadVars,
                 stopVars, metricsUp, conn, hupUnread, sigVars>>

ReadErrCh ==
  /\ mainPc = "loop"
  /\ mainCh' = errCh
  /\ mainPc' = "select"
  /\ UNCHANGED <<fields, gens, mainSsh, mainErr, ret, reloadVars, stopVars, metricsUp,
                 conn, hupUnread, sigVars>>

SelectDone ==
  /\ mainPc = "select"
  /\ ctxDone
  /\ mainPc' = "shutdown"
  /\ UNCHANGED <<fields, gens, mainCh, mainSsh, mainErr, ret, reloadVars, stopVars,
                 metricsUp, conn, hupUnread, sigVars>>

SelectErr ==
  /\ mainPc = "select"
  /\ errBuf[mainCh] # "empty"
  /\ mainErr' = errBuf[mainCh]
  /\ errBuf' = [errBuf EXCEPT ![mainCh] = "empty"]
  /\ mainPc' = "compare"
  /\ UNCHANGED <<fields, state, port, ch, last, mainCh, mainSsh, ret, reloadVars, stopVars,
                 metricsUp, conn, hupUnread, sigVars>>

\* Regression: the comparison with the current channel is forgotten.
CompareErrUnchecked ==
  /\ mainPc = "compare"
  /\ mainCh' = NoGen /\ mainErr' = "none"
  /\ mainPc' = "returned"
  /\ ret' = mainErr
  /\ metricsUp' = (metricsUp /\ mainErr = "nil")
  /\ UNCHANGED <<fields, gens, mainSsh, reloadVars, stopVars, conn, hupUnread,
                 sigVars>>

\* Regression: the metrics listener is left running when the server fails.
CompareErrKeepsMetrics ==
  /\ mainPc = "compare"
  /\ mainCh' = NoGen /\ mainErr' = "none"
  /\ \/ errCh # mainCh /\ mainPc' = "loop" /\ UNCHANGED ret
     \/ errCh = mainCh /\ mainPc' = "returned" /\ ret' = mainErr
  /\ UNCHANGED <<fields, gens, mainSsh, reloadVars, stopVars, metricsUp,
                 conn, hupUnread, sigVars>>

\* A result of the current generation ends Start, a superseded one's does not.
CompareErr ==
  /\ mainPc = "compare"
  /\ mainCh' = NoGen /\ mainErr' = "none"
  /\ \/ /\ errCh # mainCh
        /\ mainPc' = "loop"
        /\ UNCHANGED <<metricsUp, ret>>
     \/ /\ errCh = mainCh
        /\ mainPc' = "returned"
        /\ ret' = mainErr
        /\ metricsUp' = (metricsUp /\ mainErr = "nil")
  /\ UNCHANGED <<fields, gens, mainSsh, reloadVars, stopVars, conn, hupUnread,
                 sigVars>>

\* handleShutdown: getSSH, Close, stopMetricsServer, then wait for the
\* generation that runServerLoop was listening to.
ShutdownGetSSH ==
  /\ mainPc = "shutdown"
  /\ mainSsh' = ssh
  /\ mainPc' = "close"
  /\ UNCHANGED <<fields, gens, mainCh, mainErr, ret, reloadVars, stopVars, metricsUp, conn,
                 hupUnread, sigVars>>

\* Regression: handleShutdown waits for a server that it has not closed.
ShutdownCloseSkipped ==
  /\ mainPc = "close"
  /\ mainSsh' = NoGen
  /\ metricsUp' = FALSE
  /\ mainPc' = "wait"
  /\ UNCHANGED <<fields, gens, mainCh, mainErr, ret, reloadVars, stopVars, conn, hupUnread,
                 sigVars>>

ShutdownClose ==
  /\ mainPc = "close"
  /\ CloseGen(mainSsh)
  /\ mainSsh' = NoGen
  /\ metricsUp' = FALSE
  /\ mainPc' = "wait"
  /\ UNCHANGED <<fields, mainCh, mainErr, ret, reloadVars, stopVars, hupUnread, sigVars>>

ShutdownWait ==
  /\ mainPc = "wait"
  /\ errBuf[mainCh] # "empty"
  /\ errBuf' = [errBuf EXCEPT ![mainCh] = "empty"]
  /\ mainPc' = "returned"
  /\ ret' = "nil"
  /\ mainCh' = NoGen
  /\ UNCHANGED <<fields, state, port, ch, last, mainSsh, mainErr, reloadVars,
                 stopVars, metricsUp, conn, hupUnread, sigVars>>

----------------------------------------------------------------------------
(* handleSignals and reloadConfiguration.                                  *)

TakeReload ==
  /\ sigPc = "wait"
  /\ WaitForReloadSignal
  /\ sigPc' = "load"
  /\ UNCHANGED <<fields, gens, mainVars, sigNew, sigOld, stopVars, metricsUp, conn, hupUnread>>

SignalsExit ==
  /\ sigPc = "wait"
  /\ WaitForReloadNil
  /\ sigPc' = "exited"
  /\ UNCHANGED <<fields, gens, mainVars, sigNew, sigOld, stopVars, metricsUp, conn, hupUnread>>

\* config.Load, NewLogger and initializeSSHServer on the throwaway builder;
\* any of them may fail, and then the live server has not been touched.
LoadConfig ==
  /\ sigPc = "load"
  /\ hupUnread' = FALSE
  /\ \/ sigPc' = "wait" /\ UNCHANGED <<state, port, last, sigNew>>
     \/ /\ last < MaxGens
        /\ last' = last + 1
        /\ sigNew' = last + 1
        /\ state' = [state EXCEPT ![last + 1] = "built"]
        /\ \E p \in Ports : port' = [port EXCEPT ![last + 1] = p]
        /\ sigPc' = "swap"
  /\ UNCHANGED <<fields, ch, errBuf, mainVars, sigOld, stopVars, metricsUp, conn, sigVars>>

\* Regression: the new generation reports on the old channel.
SwapServerSameCh ==
  /\ sigPc = "swap"
  /\ ssh' = sigNew
  /\ UNCHANGED errCh
  /\ \/ errCh = NoGen /\ sigPc' = "wait" /\ UNCHANGED ch
     \/ errCh # NoGen /\ sigPc' = "spawn" /\ ch' = [ch EXCEPT ![sigNew] = errCh]
  /\ IF errCh = NoGen THEN sigNew' = NoGen /\ UNCHANGED sigOld
                      ELSE sigOld' = ssh /\ UNCHANGED sigNew
  /\ UNCHANGED <<state, port, errBuf, last, mainVars, stopVars, metricsUp, conn, hupUnread,
                 sigVars>>

\* The critical section of reloadConfiguration.
SwapServer ==
  /\ sigPc = "swap"
  /\ ssh' = sigNew
  /\ \/ /\ errCh = NoGen
        /\ sigNew' = NoGen
        /\ sigPc' = "wait"
        /\ UNCHANGED <<errCh, ch, sigOld>>
     \/ /\ errCh # NoGen
        /\ errCh' = sigNew
        /\ ch' = [ch EXCEPT ![sigNew] = sigNew]
        /\ sigOld' = ssh
        /\ sigPc' = "spawn"
        /\ UNCHANGED sigNew
  /\ UNCHANGED <<state, port, errBuf, last, mainVars, stopVars, metricsUp, conn, hupUnread,
                 sigVars>>

\* The new generation is started first, the old one closed second.
SpawnNew ==
  /\ sigPc = "spawn"
  /\ state' = [state EXCEPT ![sigNew] = "spawned"]
  /\ sigPc' = "closeOld"
  /\ UNCHANGED <<fields, port, ch, errBuf, last, mainVars, sigNew, sigOld, stopVars,
                 metricsUp, conn, hupUnread, sigVars>>

CloseOld ==
  /\ sigPc = "closeOld"
  /\ CloseGen(sigOld)
  /\ sigPc' = "wait" /\ sigNew' = NoGen /\ sigOld' = NoGen
  /\ UNCHANGED <<fields, mainVars, stopVars, metricsUp, hupUnread, sigVars>>

----------------------------------------------------------------------------
(* Stop.                                                                   *)

StopCall ==
  /\ stopPc = "idle"
  /\ CancelContext
  /\ stopPc' = "get"
  /\ UNCHANGED <<fields, gens, mainVars, reloadVars, stopSsh, metricsUp, conn, hupUnread>>

StopGetSSH ==
  /\ stopPc = "get"
  /\ stopSsh' = ssh
  /\ stopPc' = "close"
  /\ UNCHANGED <<fields, gens, mainVars, reloadVars, metricsUp, conn, hupUnread, sigVars>>

StopClose ==
  /\ stopPc = "close"
  /\ CloseGen(stopSsh)
  /\ stopSsh' = NoGen
  /\ stopPc' = "release"
  /\ UNCHANGED <<fields, mainVars, reloadVars, metricsUp, hupUnread, sigVars>>

\* The metrics listener is stopped before the signal handler.
StopRelease ==
  /\ stopPc = "release"
  /\ metricsUp' = FALSE
  /\ StopHandler
  /\ stopPc' = "done"
  /\ UNCHANGED <<fields, gens, mainVars, reloadVars, stopSsh, conn, hupUnread>>

----------------------------------------------------------------------------
(* The operator edits the file (LoadConfig reads any Port) and sends SIGHUP. *)

\* Regression: an unbuffered channel, so a signal needs a waiting receiver.
SighupUnbuffered ==
  /\ hupUnread' = TRUE
  /\ \/ sigPc = "wait" /\ DeliverHup
     \/ sigPc # "wait" /\ ~sigStopped /\ UNCHANGED sigVars
  /\ UNCHANGED <<fields, gens, mainVars, reloadVars, stopVars, metricsUp, conn>>

Sighup ==
  /\ hupUnread' = TRUE
  /\ DeliverHup
  /\ UNCHANGED <<fields, gens, mainVars, reloadVars, stopVars, metricsUp, conn>>

----------------------------------------------------------------------------

MainStep ==
  \/ StartMetrics \/ PublishErrCh
  \/ ReadErrCh \/ SelectDone \/ SelectErr \/ CompareErr
  \/ ShutdownGetSSH \/ ShutdownClose \/ ShutdownWait

ReloadStep ==
  TakeReload \/ SignalsExit \/ LoadConfig \/ SwapServer \/ SpawnNew \/ CloseOld

StopStep == StopGetSSH \/ StopClose \/ StopRelease

GenStep(g) == Listen(g) \/ AcceptFails(g) \/ Report(g)

ConnStep(c) == Connect(c) \/ Disconnect(c)

Next ==
  \/ MainStep
  \/ ReloadStep
  \/ StopCall \/ StopStep
  \/ \E g \in Gens : GenStep(g)
  \/ \E c \in Conns : ConnStep(c)
  \/ Sighup

\* The Go scheduler runs every goroutine that can run; nothing is assumed of
\* the clients, the operator, or the caller of Stop before it calls.  A broken
\* listener is not obliged to break.
Fairness ==
  /\ WF_vars(MainStep)
  /\ WF_vars(ReloadStep)
  /\ WF_vars(StopStep)
  /\ \A g \in Gens : WF_vars(Listen(g) \/ Report(g))

Spec == Init /\ [][Next]_vars /\ Fairness

----------------------------------------------------------------------------
(* Properties.                                                             *)

\* What a generation ended with, on its way from runSSHServer to runServerLoop.
ResultOf(g) ==
  IF state[g] \in Results THEN state[g]
  ELSE IF errBuf[g] # "empty" THEN errBuf[g]
  ELSE IF mainPc = "compare" /\ mainCh = g THEN mainErr
  ELSE IF state[g] = "done" THEN "taken" ELSE "none"

\* Whatever reloads, shutdowns, Stop and failing listeners do to each other, Start and
\* the clients see a line of servers with one result each: no result is lost or taken
\* twice, only that of the current generation ends Start (runServerLoop's comparison of
\* current with errCh), and nil only after a shutdown was requested (swap before close
\* in the reload).  A reload cuts every client of the server it replaced, those that its
\* comment lets run on included, and none of the server that took over (oldSSHServer is
\* read before ssh is replaced).
Promised == INSTANCE Service WITH
  current <- ssh, result <- [g \in Gens |-> ResultOf(g)], answer <- ret, asked <- ctxDone,
  client <- conn
ImplementsService == Promised!Spec

\* The send that ends runSSHServer finds its channel empty: no generation can
\* be stuck for ever behind the result of another one (the channel made anew
\* for every generation).
ReportNeverBlocks == \A g \in Gens : state[g] \in Results => errBuf[ch[g]] = "empty"

\* The metrics listener does not outlive the server: when Start has returned
\* and no Stop is half way, it is down, whichever of Start's exits was taken and
\* however Stop and Start overlapped (startMetricsServer, stopMetricsServer).
MetricsDownAfterReturn ==
  (mainPc = "returned" /\ stopPc \in {"idle", "done"}) => ~metricsUp

\* Whatever generation is current gets started, a reload that ran between
\* "go handleSignals" and the publication of sshErrCh included (wasRunning).
CurrentGenerationStarts ==
  \A g \in Gens :
    (ssh = g) ~> (ssh # g \/ state[g] \notin {"unused", "built"} \/ mainPc = "returned")

\* Shutdown of a server that is serving its current generation completes, unless
\* a reload supersedes that generation before main has closed it; then Close may
\* meet a generation that does not listen yet, and handleShutdown waits for ever.
ShutdownCompletes ==
  \A g \in Gens :
    (ctxDone /\ mainPc = "select" /\ mainCh = g /\ ssh = g /\ state[g] = "serving")
       ~> (mainPc = "returned" \/ ssh # g)

\* A SIGHUP is never lost, though the channel holds one: config.Load runs after
\* it, however busy the handler was, unless the server shuts down (the signal is
\* taken from the channel before the file is read).
HupNotLost == (hupUnread /\ sigPc # "off") ~> (~hupUnread \/ ctxDone)

\* What handleSignals' comment promises, "while keeping the server running":
\* with no other program on the port, Start never fails to bind.
ReloadKeepsServerRunning == ret # "bind"
=============================================================================
