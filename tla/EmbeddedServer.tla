--------------------------- MODULE EmbeddedServer ---------------------------
(***************************************************************************)
(* pkg/embedded StandardEmbeddedSSHServer.  Goroutines of the embedding    *)
(* application call Configure, Start, Stop and Cleanup in any order; a     *)
(* call's critical sections under s.mu are single steps.  The gliderlabs   *)
(* server that Start serves with is external and modelled by its use.      *)
(***************************************************************************)
EXTENDS Naturals

CONSTANTS
  Listeners,   \* the net.Listeners that the application has
  NoListener,  \* nil
  Stoppers,    \* goroutines that call Stop
  Forwardings, \* channel types of the forwardings that options may enable
  MaxConfigs   \* bound: Configure calls, the constructor's included

ASSUME EmbeddedAssumption ==
  /\ MaxConfigs \in Nat \ {0}
  /\ "session" \notin Forwardings
  /\ NoListener \notin Listeners

MaybeListeners == Listeners \cup {NoListener}

Versions == 1..MaxConfigs

\* An ssh.Server: the options it was made from, its ChannelHandlers, and the
\* listener whose address is its Addr.
Servers == [v : Versions, types : SUBSET (Forwardings \cup {"session"}), addr : Listeners]
NilServer == [v |-> 0, types |-> {}, addr |-> NoListener]

VARIABLES
  last,      \* version of the options last passed to Configure
  opts,      \* StandardEmbeddedSSHServer.opts: their version
  logger,    \* .logger: version of the options it was made from
  ssh,       \* .ssh, NilServer for nil
  listener,  \* .listener
  good,      \* version of the last Configure that returned nil (history)
  started,   \* .started
  startPc,   \* Start: idle, to call Serve, in Serve, returned
  served,    \* Start's sshServer
  servedLis, \* Start's listener
  startErr,  \* what Start returned
  once,      \* .stopOnce
  stop,      \* Stop, per caller
  closer,    \* executeShutdown's goroutine
  done,      \* its channel holds a result (capacity 1)
  open,      \* the listeners that have not been closed
  closed     \* the served ssh.Server's doneChan is closed

vars == <<last, opts, logger, ssh, listener, good, started, startPc, served,
          servedLis, startErr, once, stop, closer, done, open, closed>>
settings == <<last, opts, logger, ssh, listener, good>>
starter == <<started, startPc, served, servedLis, startErr>>
stopping == <<once, stop, closer, done>>
network == <<open, closed>>

TypeOK ==
  /\ last \in Versions
  /\ opts \in Versions
  /\ logger \in Versions
  /\ ssh \in Servers \cup {NilServer}
  /\ listener \in MaybeListeners
  /\ good \in Versions
  /\ started \in BOOLEAN
  /\ startPc \in {"idle", "serve", "accepting", "returned"}
  /\ served \in Servers \cup {NilServer}
  /\ servedLis \in MaybeListeners
  /\ startErr \in {"none", "ErrServerClosed", "accept"}
  /\ once \in {"fresh", "running", "done"}
  /\ stop \in [Stoppers -> {"idle", "once", "wait", "nil", "timeout"}]
  /\ closer \in {"none", "closing", "send", "ended"}
  /\ done \in BOOLEAN
  /\ open \subseteq Listeners
  /\ closed \in BOOLEAN

----------------------------------------------------------------------------
(* Configure.                                                              *)

\* configureForwarding creates the ChannelHandlers map for the forwardings it
\* enables; Serve fills in the defaults ("session") only when there is no map.
ChannelTypes(fwd) == IF fwd = {} THEN {"session"} ELSE fwd

\* NewStandardEmbeddedSSHServer has configured version 1.
Init ==
  /\ last = 1 /\ opts = 1 /\ logger = 1 /\ good = 1
  /\ listener \in Listeners
  /\ \E fwd \in SUBSET Forwardings :
       ssh = [v |-> 1, types |-> ChannelTypes(fwd), addr |-> listener]
  /\ started = FALSE /\ startPc = "idle" /\ startErr = "none"
  /\ served = NilServer /\ servedLis = NoListener
  /\ once = "fresh" /\ closer = "none" /\ done = FALSE
  /\ stop = [k \in Stoppers |-> "idle"]
  /\ open = Listeners /\ closed = FALSE

\* validateAndSetListener: the listener of the options, when they carry one,
\* replaces the server's at once; without either Configure returns an error.
SetListener(given) ==
  /\ listener' = IF given # NoListener THEN given ELSE listener
  /\ listener' # NoListener

\* Configure with new options returns nil.  Without any listener, and once the
\* server has been started, it returns an error and changes nothing.
Configure(fwd, given) ==
  /\ ~started
  /\ last < MaxConfigs
  /\ SetListener(given)
  /\ last' = last + 1 /\ opts' = last' /\ logger' = last' /\ good' = last'
  /\ ssh' = [v |-> last', types |-> ChannelTypes(fwd), addr |-> listener']
  /\ UNCHANGED <<starter, stopping, network>>

\* Regression: s.ssh is assigned before the host keys are loaded.
ConfigureFailsAssigned(given) ==
  /\ ~started
  /\ last < MaxConfigs
  /\ SetListener(given)
  /\ last' = last + 1 /\ opts' = last'
  /\ logger' \in {logger, last'}
  /\ ssh' = [v |-> last', types |-> {}, addr |-> listener']
  /\ UNCHANGED <<good, starter, stopping, network>>

\* Configure returns an error of initLogger or, with the logger replaced, of
\* initSSHServer: the listener and the options stay replaced, ssh does not.  Start
\* then serves the earlier ssh.Server on the listener of the options refused.
ConfigureFails(given) ==
  /\ ~started
  /\ last < MaxConfigs
  /\ SetListener(given)
  /\ last' = last + 1 /\ opts' = last'
  /\ logger' \in {logger, last'}
  /\ UNCHANGED <<ssh, good, starter, stopping, network>>

----------------------------------------------------------------------------
(* Start.                                                                  *)

\* Start under the mutex.  A server that was started once never starts again,
\* one that was cleaned up is "not configured".
Start ==
  /\ ~started
  /\ ssh # NilServer
  /\ started' = TRUE
  /\ served' = ssh
  /\ servedLis' = listener
  /\ startPc' = "serve"
  /\ UNCHANGED <<settings, startErr, stopping, network>>

\* Serve tracks the listener.  It resets doneChan: a Close that came earlier
\* has left no trace.
Serve ==
  /\ startPc = "serve"
  /\ startPc' = "accepting"
  /\ closed' = FALSE
  /\ UNCHANGED <<settings, started, served, servedLis, startErr, stopping, open>>

\* Accept fails on the closed listener and Serve returns.
ServeReturns ==
  /\ startPc = "accepting"
  /\ servedLis \notin open
  /\ startPc' = "returned"
  /\ startErr' = IF closed THEN "ErrServerClosed" ELSE "accept"
  /\ UNCHANGED <<settings, started, served, servedLis, stopping, network>>

\* The owner of a listener closes it, or it breaks.
ListenerCloses(l) ==
  /\ l \in open
  /\ open' = open \ {l}
  /\ UNCHANGED <<settings, starter, stopping, closed>>

----------------------------------------------------------------------------
(* Stop and Cleanup.                                                       *)

\* validateStopPreconditions; otherwise Stop returns an error and no more.
Stop(k) ==
  /\ stop[k] = "idle"
  /\ started
  /\ ssh # NilServer
  /\ stop' = [stop EXCEPT ![k] = "once"]
  /\ UNCHANGED <<settings, starter, once, closer, done, network>>

\* The first caller runs executeShutdown, which spawns the closer.
ExecuteShutdown(k) ==
  /\ stop[k] = "once"
  /\ once = "fresh"
  /\ once' = "running"
  /\ closer' = "closing"
  /\ stop' = [stop EXCEPT ![k] = "wait"]
  /\ UNCHANGED <<settings, starter, done, network>>

\* Regression: a flag instead of sync.Once, so later callers do not wait.
SkipShutdownEarly(k) ==
  /\ stop[k] = "once"
  /\ once # "fresh"
  /\ stop' = [stop EXCEPT ![k] = "nil"]
  /\ UNCHANGED <<settings, starter, once, closer, done, network>>

\* Later callers wait for the first and return nil, whatever it returned.
SkipShutdown(k) ==
  /\ stop[k] = "once"
  /\ once = "done"
  /\ stop' = [stop EXCEPT ![k] = "nil"]
  /\ UNCHANGED <<settings, starter, once, closer, done, network>>

\* sshServer.Close: doneChan, and the listener if Serve has tracked it.
CloseServer ==
  /\ closer = "closing"
  /\ closer' = "send"
  /\ closed' = TRUE
  /\ open' = IF startPc = "accepting" THEN open \ {servedLis} ELSE open
  /\ UNCHANGED <<settings, starter, once, stop, done>>

\* Regression: the closer drops the result of Close.
SendDoneDropped ==
  /\ closer = "send"
  /\ closer' = "ended"
  /\ UNCHANGED <<settings, starter, once, stop, done, network>>

\* done <- result, into the buffer.
SendDone ==
  /\ closer = "send"
  /\ ~done
  /\ done' = TRUE
  /\ closer' = "ended"
  /\ UNCHANGED <<settings, starter, once, stop, network>>

\* waitForShutdown receives the result of Close ...
ShutdownCompletes(k) ==
  /\ stop[k] = "wait"
  /\ done
  /\ done' = FALSE
  /\ once' = "done"
  /\ stop' = [stop EXCEPT ![k] = "nil"]
  /\ UNCHANGED <<settings, starter, closer, network>>

\* ... or the context ends first, whose deadline the caller chose.
ShutdownTimesOut(k) ==
  /\ stop[k] = "wait"
  /\ once' = "done"
  /\ stop' = [stop EXCEPT ![k] = "timeout"]
  /\ UNCHANGED <<settings, starter, closer, done, network>>

\* Cleanup, which nothing ties to a Stop.
Cleanup ==
  /\ ssh # NilServer \/ listener # NoListener
  /\ ssh' = NilServer
  /\ listener' = NoListener
  /\ UNCHANGED <<last, opts, logger, good, starter, stopping, network>>

----------------------------------------------------------------------------

StopStep(k) == ExecuteShutdown(k) \/ SkipShutdown(k) \/ ShutdownCompletes(k)

Next ==
  \/ \E given \in MaybeListeners :
       \/ \E fwd \in SUBSET Forwardings : Configure(fwd, given)
       \/ ConfigureFails(given)
  \/ Start \/ Serve \/ ServeReturns
  \/ \E l \in Listeners : ListenerCloses(l)
  \/ \E k \in Stoppers : Stop(k) \/ StopStep(k) \/ ShutdownTimesOut(k)
  \/ CloseServer \/ SendDone
  \/ Cleanup

\* Goroutines inside the package run on; the application owes no call, and a
\* context may have no deadline.
Fairness ==
  /\ WF_vars(Serve) /\ WF_vars(ServeReturns)
  /\ WF_vars(CloseServer) /\ WF_vars(SendDone)
  /\ \A k \in Stoppers : WF_vars(StopStep(k))

Spec == Init /\ [][Next]_vars /\ Fairness

----------------------------------------------------------------------------
(* Properties.                                                             *)

\* Whatever Configure calls failed half-way, the server that is served was made
\* from the options of the last one that returned nil, and it is served on the
\* listener that it was made with.  Only one that failed since can have replaced
\* that listener (SetListener comes first, s.ssh = sshServer last).
ServedIsConfigured ==
  /\ ssh # NilServer => ssh.v = good
  /\ startPc # "idle" => /\ served.v = good
                         /\ servedLis = served.addr \/ last # good

\* Start never finds a server without a listener (it calls listener.Addr),
\* also after a Cleanup and a new Configure, or a failed one.
ServesWithListener == startPc # "idle" => servedLis # NoListener

\* Stop returns nil only when Close has been called, or to a caller that comes
\* after one that was told of the timeout.
StopNilMeansClosed ==
  \A k \in Stoppers : stop[k] = "nil" =>
    \/ closer \in {"send", "ended"}
    \/ \E j \in Stoppers : stop[j] = "timeout"

\* Every Stop that passes its preconditions returns, without a deadline too.
StopReturns ==
  \A k \in Stoppers : (stop[k] = "once") ~> (stop[k] \in {"nil", "timeout"})
=============================================================================
