----------------------------- MODULE CliServer -----------------------------
(***************************************************************************)
(* internal/cli runStandardServerMode, which cmd/sshd and cmd/garlicsshd   *)
(* run: the goroutine that selects, the goroutine that runs Start of the   *)
(* embedded server, and the goroutine that turns SIGHUPs into requests to  *)
(* reload.  The select's case for a cancelled context is left out: nothing *)
(* cancels the context before the deferred handler.Stop.                   *)
(***************************************************************************)
EXTENDS EmbeddedServer, SignalHandler

VARIABLES
  mainPc,     \* runStandardServerMode
  cfg,        \* its cfg: the version of the configuration
  srvPc,      \* goroutine that runs Start
  serverErr,  \* channel of capacity 1 holds the result of Start
  monPc,      \* goroutine that monitors SIGHUP
  reloadReq,  \* reloadRequested (capacity 1) holds a request
  metricsUp   \* the metrics listener is open

server == <<settings, starter, stopping, network>>
program == <<mainPc, cfg, srvPc, serverErr, monPc, reloadReq, metricsUp>>
cliVars == <<server, sigVars, program>>

CliTypeOK ==
  /\ TypeOK
  /\ SigTypeOK
  /\ mainPc \in {"metrics", "select", "load", "configure", "exited"}
  /\ cfg \in Versions
  /\ srvPc \in {"none", "run", "sent"}
  /\ serverErr \in BOOLEAN
  /\ monPc \in {"none", "wait", "offer", "ended"}
  /\ reloadReq \in BOOLEAN
  /\ metricsUp \in BOOLEAN

\* createListener and createEmbeddedServer have succeeded.
CliInit ==
  /\ Init
  /\ SigInit
  /\ mainPc = "metrics" /\ cfg = 1
  /\ srvPc = "none" /\ serverErr = FALSE
  /\ monPc = "none" /\ reloadReq = FALSE
  /\ metricsUp = FALSE

----------------------------------------------------------------------------
(* The goroutine of main.                                                  *)

\* The metrics server, if configured, the signal handler and the goroutines.
StartMonitors ==
  /\ mainPc = "metrics"
  /\ mainPc' = "select" /\ srvPc' = "run" /\ monPc' = "wait"
  /\ metricsUp' \in BOOLEAN
  /\ UNCHANGED <<server, sigVars, cfg, serverErr, reloadReq>>

\* The metrics address cannot be listened on: the program's listener, which is the
\* one it gave to the server, is closed on return.
MetricsFail ==
  /\ mainPc = "metrics"
  /\ mainPc' = "exited"
  /\ open' = open \ {listener}
  /\ UNCHANGED <<settings, starter, stopping, closed, sigVars, cfg, srvPc,
                 serverErr, monPc, reloadReq, metricsUp>>

\* case err := <-serverErr: return it; the deferred calls stop the handler and
\* the metrics server and close the listener.
TakeServerErr ==
  /\ mainPc = "select"
  /\ serverErr
  /\ serverErr' = FALSE
  /\ mainPc' = "exited"
  /\ StopHandler
  /\ metricsUp' = FALSE
  /\ open' = open \ {listener}
  /\ UNCHANGED <<settings, starter, stopping, closed, cfg, srvPc, monPc, reloadReq>>

\* case <-reloadRequested.
TakeReload ==
  /\ mainPc = "select"
  /\ reloadReq
  /\ reloadReq' = FALSE
  /\ mainPc' = "load"
  /\ UNCHANGED <<server, sigVars, cfg, srvPc, serverErr, monPc, metricsUp>>

\* config.Load succeeds, or the loop continues.
Load ==
  /\ mainPc = "load"
  /\ \/ last < MaxConfigs /\ mainPc' = "configure"
     \/ mainPc' = "select"
  /\ UNCHANGED <<server, sigVars, cfg, srvPc, serverErr, monPc, reloadReq, metricsUp>>

\* Regression: cfg is updated before Configure is tried.
ReconfigureCfgFirst ==
  /\ mainPc = "configure"
  /\ mainPc' = "select"
  /\ \/ /\ \/ \E fwd \in SUBSET Forwardings : Configure(fwd, listener)
           \/ ConfigureFails(listener)
        /\ cfg' = last'
     \/ started /\ cfg' = last + 1 /\ UNCHANGED server
  /\ UNCHANGED <<sigVars, srvPc, serverErr, monPc, reloadReq, metricsUp>>

\* srv.Configure with the new options and the same listener; cfg follows only a
\* nil result.  Once Start has run it is always the third case.
Reconfigure ==
  /\ mainPc = "configure"
  /\ mainPc' = "select"
  /\ \/ (\E fwd \in SUBSET Forwardings : Configure(fwd, listener)) /\ cfg' = last'
     \/ ConfigureFails(listener) /\ UNCHANGED cfg
     \/ started /\ UNCHANGED <<server, cfg>>
  /\ UNCHANGED <<sigVars, srvPc, serverErr, monPc, reloadReq, metricsUp>>

----------------------------------------------------------------------------
(* The other goroutines and the environment.                               *)

\* Start of the embedded server ...
RunStart ==
  /\ srvPc = "run"
  /\ Start \/ Serve \/ ServeReturns
  /\ UNCHANGED <<sigVars, program>>

\* Regression: nobody is told that Start has returned.
SendServerErrDropped ==
  /\ srvPc = "run"
  /\ startPc = "returned"
  /\ srvPc' = "sent"
  /\ UNCHANGED <<server, sigVars, mainPc, cfg, serverErr, monPc, reloadReq, metricsUp>>

\* ... and its result into the buffer.
SendServerErr ==
  /\ srvPc = "run"
  /\ startPc = "returned"
  /\ ~serverErr
  /\ serverErr' = TRUE
  /\ srvPc' = "sent"
  /\ UNCHANGED <<server, sigVars, mainPc, cfg, monPc, reloadReq, metricsUp>>

\* WaitForReload returns a signal.
MonitorTakes ==
  /\ monPc = "wait"
  /\ WaitForReloadSignal
  /\ monPc' = "offer"
  /\ UNCHANGED <<server, mainPc, cfg, srvPc, serverErr, reloadReq, metricsUp>>

\* Regression: reloadRequested has no buffer, so a busy main loses the request.
MonitorOffersUnbuffered ==
  /\ monPc = "offer"
  /\ monPc' = "wait"
  /\ reloadReq' = (mainPc = "select")
  /\ UNCHANGED <<server, sigVars, mainPc, cfg, srvPc, serverErr, metricsUp>>

\* The request is sent, or dropped because one is waiting already.
MonitorOffers ==
  /\ monPc = "offer"
  /\ monPc' = "wait"
  /\ reloadReq' = TRUE
  /\ UNCHANGED <<server, sigVars, mainPc, cfg, srvPc, serverErr, metricsUp>>

\* WaitForReload returns nil once the handler has been stopped.
MonitorEnds ==
  /\ monPc = "wait"
  /\ WaitForReloadNil
  /\ monPc' = "ended"
  /\ UNCHANGED <<server, mainPc, cfg, srvPc, serverErr, reloadReq, metricsUp>>

\* Signals reach the program once NewHandler has registered them.
Signal ==
  /\ mainPc \notin {"metrics", "exited"}
  /\ DeliverHup \/ DeliverTerm
  /\ UNCHANGED <<server, program>>

\* The listener breaks.
ListenerBreaks ==
  /\ mainPc # "exited"
  /\ \E l \in Listeners : ListenerCloses(l)
  /\ UNCHANGED <<sigVars, program>>

----------------------------------------------------------------------------

Server == RunStart \/ SendServerErr
Monitor == MonitorTakes \/ MonitorOffers \/ MonitorEnds

CliNext ==
  \/ StartMonitors \/ MetricsFail \/ TakeServerErr \/ TakeReload \/ Load \/ Reconfigure
  \/ Server \/ Monitor
  \/ Signal \/ ListenerBreaks

\* Goroutines run on, and a select whose case is ready again and again takes it
\* (Go chooses among ready cases at random).
CliFairness ==
  /\ WF_cliVars(StartMonitors \/ MetricsFail) /\ WF_cliVars(Load) /\ WF_cliVars(Reconfigure)
  /\ SF_cliVars(TakeServerErr) /\ SF_cliVars(TakeReload)
  /\ WF_cliVars(Server) /\ WF_cliVars(Monitor)

CliSpec == CliInit /\ [][CliNext]_cliVars /\ CliFairness

----------------------------------------------------------------------------
(* Properties.                                                             *)

\* main's cfg is the configuration of the server it runs, on the listener that
\* server was made with, after any sequence of reloads that succeeded, failed
\* half-way or came too late (each passes the one listener of the program, so that
\* none can leave the server on another).
CfgMatchesServer ==
  mainPc \in {"select", "load"} =>
    /\ ssh.v = cfg
    /\ startPc # "idle" => served.v = cfg /\ servedLis = served.addr

\* A SIGHUP is followed by a config.Load that begins after it, however the two
\* buffers and the drop between them interleave with a reload under way.
HupReloads == hupPending ~> (mainPc \in {"load", "exited"})

\* When Start returns, the program does, also while reloads keep coming.
StartResultEndsMain == (startPc = "returned") ~> (mainPc = "exited")
=============================================================================
