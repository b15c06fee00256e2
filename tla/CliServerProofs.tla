-------------------------- MODULE CliServerProofs --------------------------
(***************************************************************************)
(* Safety of EmbeddedServer for any number of goroutines that call Stop,   *)
(* any forwardings, listeners and number of Configure calls.  CliServer is *)
(* built of its operations, so all of this holds in the program too, and   *)
(* main's cfg is that of the server it runs, on the program's listener.    *)
(***************************************************************************)
EXTENDS CliServer, TLAPS

\* The flags, whose type is a matter of propositional logic.
FlagsOK == started \in BOOLEAN /\ done \in BOOLEAN /\ closed \in BOOLEAN

\* The rest of TypeOK.
DataOK ==
  /\ last \in Versions
  /\ opts \in Versions
  /\ logger \in Versions
  /\ ssh \in Servers \cup {NilServer}
  /\ listener \in MaybeListeners /\ servedLis \in MaybeListeners /\ open \subseteq Listeners
  /\ good \in Versions
  /\ startPc \in {"idle", "serve", "accepting", "returned"}
  /\ served \in Servers \cup {NilServer}
  /\ startErr \in {"none", "ErrServerClosed", "accept"}
  /\ once \in {"fresh", "running", "done"}
  /\ stop \in [Stoppers -> {"idle", "once", "wait", "nil", "timeout"}]
  /\ closer \in {"none", "closing", "send", "ended"}

\* A configured server has a listener: only Cleanup clears it, and it clears
\* ssh with it.  It is the one the server was made with, unless a Configure has
\* failed since.
ConfiguredHasListener ==
  ssh # NilServer => listener # NoListener /\ (listener = ssh.addr \/ last # good)

\* A Configure that returned nil is one of those that came so far.
GoodNotNewer == good <= last

\* started is the gate that keeps Configure from replacing what is served.
StartedGate == startPc # "idle" => started

\* The phases of sync.Once and of the goroutine it runs once.
OncePhase ==
  /\ once = "fresh" => /\ closer = "none"
                       /\ \A j \in Stoppers : stop[j] \in {"idle", "once"}
  /\ done => closer = "ended"
  /\ once = "done" => \/ closer \in {"send", "ended"}
                      \/ \E j \in Stoppers : stop[j] = "timeout"

IInv ==
  /\ FlagsOK /\ DataOK
  /\ ConfiguredHasListener /\ GoodNotNewer /\ StartedGate /\ OncePhase
  /\ ServedIsConfigured /\ ServesWithListener /\ StopNilMeansClosed

----------------------------------------------------------------------------

\* The constructor returns a configured server that nobody has started.
LEMMA InitIInv == Init => IInv
<1> SUFFICES ASSUME Init PROVE IInv
  OBVIOUS
<1> USE EmbeddedAssumption DEF Init
<1>1. FlagsOK
  BY Zenon DEF FlagsOK
<1>2. DataOK
  <2>1. \A fwd \in SUBSET Forwardings : ChannelTypes(fwd) \subseteq Forwardings \cup {"session"}
    BY DEF ChannelTypes
  <2>2. 1 \in Versions
    BY DEF Versions
  <2>3. ssh \in Servers
    BY <2>1, <2>2 DEF Servers
  <2> QED BY <2>2, <2>3 DEF DataOK, MaybeListeners
<1>3. ConfiguredHasListener /\ GoodNotNewer /\ StartedGate /\ OncePhase
  BY DEF ConfiguredHasListener, GoodNotNewer, StartedGate, OncePhase
<1>4. ServedIsConfigured /\ ServesWithListener /\ StopNilMeansClosed
  BY DEF ServedIsConfigured, ServesWithListener, StopNilMeansClosed
<1> QED BY <1>1, <1>2, <1>3, <1>4 DEF IInv

\* The flags stay Boolean.
LEMMA NextFlags ==
  ASSUME FlagsOK, [Next]_vars PROVE FlagsOK'
<1> USE DEF FlagsOK, settings, starter, stopping, network
<1>1. ASSUME NEW fwd \in SUBSET Forwardings, NEW given \in MaybeListeners, Configure(fwd, given)
      PROVE  FlagsOK'
  BY <1>1, Zenon DEF Configure
<1>2. ASSUME NEW given \in MaybeListeners, ConfigureFails(given) PROVE FlagsOK'
  BY <1>2, Zenon DEF ConfigureFails
<1>3. CASE Start
  BY <1>3, Zenon DEF Start
<1>4. CASE Serve
  BY <1>4, Zenon DEF Serve
<1>5. CASE ServeReturns
  BY <1>5, Zenon DEF ServeReturns
<1>6. ASSUME NEW l \in Listeners, ListenerCloses(l) PROVE FlagsOK'
  BY <1>6, Zenon DEF ListenerCloses
<1>7. ASSUME NEW k \in Stoppers, Stop(k) \/ StopStep(k) \/ ShutdownTimesOut(k)
      PROVE  FlagsOK'
  BY <1>7, Zenon DEF Stop, StopStep, ShutdownTimesOut, ExecuteShutdown, SkipShutdown,
                     ShutdownCompletes
<1>8. CASE CloseServer
  BY <1>8, Zenon DEF CloseServer
<1>9. CASE SendDone
  BY <1>9, Zenon DEF SendDone
<1>10. CASE Cleanup
  BY <1>10, Zenon DEF Cleanup
<1>11. CASE UNCHANGED vars
  BY <1>11 DEF vars
<1> QED BY <1>1, <1>2, <1>3, <1>4, <1>5, <1>6, <1>7, <1>8, <1>9, <1>10, <1>11 DEF Next

\* Every step of the package and of the application preserves the invariant.
LEMMA NextIInv == IInv /\ [Next]_vars => IInv'
<1> SUFFICES ASSUME IInv, [Next]_vars PROVE IInv'
  OBVIOUS
<1>0. FlagsOK'
  BY NextFlags DEF IInv
<1> USE EmbeddedAssumption
    DEF IInv, ConfiguredHasListener, GoodNotNewer, StartedGate, OncePhase, ServedIsConfigured,
        ServesWithListener, StopNilMeansClosed, settings, starter, stopping, network
<1>1. ASSUME NEW fwd \in SUBSET Forwardings, NEW given \in MaybeListeners, Configure(fwd, given)
      PROVE  IInv'
  <2>1. ChannelTypes(fwd) \subseteq Forwardings \cup {"session"}
    BY DEF ChannelTypes
  <2>2. last' \in Versions
    BY <1>1 DEF Configure, DataOK, Versions
  <2>3. listener' \in Listeners
    BY <1>1 DEF Configure, SetListener, DataOK, MaybeListeners
  <2>4. ssh' \in Servers
    BY <1>1, <2>1, <2>2, <2>3 DEF Configure, Servers
  <2>5. DataOK'
    BY <1>1, <2>2, <2>3, <2>4 DEF Configure, DataOK, MaybeListeners
  <2>6. ssh'.addr = listener' /\ ssh'.v = good' /\ good' <= last'
    BY <1>1, <2>2 DEF Configure, Versions
  <2> QED BY <1>0, <1>1, <2>3, <2>5, <2>6 DEF Configure
<1>2. ASSUME NEW given \in MaybeListeners, ConfigureFails(given) PROVE IInv'
  <2>1. last' \in Versions /\ listener' \in Listeners
    BY <1>2 DEF ConfigureFails, SetListener, DataOK, Versions, MaybeListeners
  <2>2. DataOK'
    BY <1>2, <2>1 DEF ConfigureFails, DataOK, MaybeListeners
  <2>3. good' <= last' /\ last' # good'
    BY <1>2 DEF ConfigureFails, DataOK, Versions
  <2> QED BY <1>0, <1>2, <2>1, <2>2, <2>3 DEF ConfigureFails
<1>3. CASE Start
  BY <1>0, <1>3 DEF Start, DataOK
<1>4. CASE Serve
  BY <1>0, <1>4 DEF Serve, DataOK
<1>5. CASE ServeReturns
  BY <1>0, <1>5 DEF ServeReturns, DataOK
<1>6. ASSUME NEW l \in Listeners, ListenerCloses(l) PROVE IInv'
  BY <1>0, <1>6 DEF ListenerCloses, DataOK
<1>7. ASSUME NEW k \in Stoppers, Stop(k) PROVE IInv'
  BY <1>0, <1>7 DEF Stop, DataOK
<1>8. ASSUME NEW k \in Stoppers, ExecuteShutdown(k) PROVE IInv'
  BY <1>0, <1>8 DEF ExecuteShutdown, DataOK
<1>9. ASSUME NEW k \in Stoppers, SkipShutdown(k) PROVE IInv'
  BY <1>0, <1>9 DEF SkipShutdown, DataOK
<1>10. ASSUME NEW k \in Stoppers, ShutdownCompletes(k) PROVE IInv'
  BY <1>0, <1>10 DEF ShutdownCompletes, DataOK
<1>11. ASSUME NEW k \in Stoppers, ShutdownTimesOut(k) PROVE IInv'
  BY <1>0, <1>11 DEF ShutdownTimesOut, DataOK
<1>12. CASE CloseServer
  BY <1>0, <1>12 DEF CloseServer, DataOK
<1>13. CASE SendDone
  BY <1>0, <1>13 DEF SendDone, DataOK
<1>14. CASE Cleanup
  BY <1>0, <1>14 DEF Cleanup, DataOK, MaybeListeners
<1>15. CASE UNCHANGED vars
  BY <1>0, <1>15 DEF vars, DataOK
<1> QED BY <1>1, <1>2, <1>3, <1>4, <1>5, <1>6, <1>7, <1>8, <1>9, <1>10, <1>11, <1>12,
           <1>13, <1>14, <1>15 DEF Next, StopStep

\* The invariant is the state of every behaviour of the package.
LEMMA Invariance == Spec => []IInv
  BY InitIInv, NextIInv, PTL DEF Spec

----------------------------------------------------------------------------

\* Every field keeps its type.
THEOREM TypeCorrect == Spec => []TypeOK
<1>1. IInv => TypeOK
  BY DEF IInv, FlagsOK, DataOK, TypeOK
<1> QED BY Invariance, <1>1, PTL

\* The server that is served comes from the last successful Configure, and so does
\* its listener unless a Configure has failed since.
THEOREM ServedConfiguration == Spec => []ServedIsConfigured
<1>1. IInv => ServedIsConfigured
  BY DEF IInv
<1> QED BY Invariance, <1>1, PTL

\* Start never dereferences a nil listener.
THEOREM StartHasListener == Spec => []ServesWithListener
<1>1. IInv => ServesWithListener
  BY DEF IInv
<1> QED BY Invariance, <1>1, PTL

\* No Stop returns nil before Close was called, timeouts aside.
THEOREM StopWaits == Spec => []StopNilMeansClosed
<1>1. IInv => StopNilMeansClosed
  BY DEF IInv
<1> QED BY Invariance, <1>1, PTL

----------------------------------------------------------------------------
(* The program.                                                            *)

\* cfg follows the configured server, whose listener is the program's, and once
\* Start has taken it the gate is shut.  The program never cleans up, so there
\* always is a server.
CfgInv ==
  /\ ssh.v = cfg
  /\ ssh # NilServer
  /\ listener = ssh.addr
  /\ startPc # "idle" => started /\ served.v = cfg /\ servedLis = served.addr

\* CliTypeOK without the embedded server: control and Booleans.
ControlOK ==
  /\ mainPc \in {"metrics", "select", "load", "configure", "exited"}
  /\ srvPc \in {"none", "run", "sent"}
  /\ monPc \in {"none", "wait", "offer", "ended"}
CliFlagsOK == SigTypeOK /\ serverErr \in BOOLEAN /\ reloadReq \in BOOLEAN /\ metricsUp \in BOOLEAN

----------------------------------------------------------------------------

\* Every step of the program is an operation of the embedded server or of the
\* listener's owner, or touches neither: so it keeps their invariant.
LEMMA StepSimulation ==
  ASSUME IInv, [CliNext]_cliVars PROVE [Next]_vars
<1>1. CASE MetricsFail \/ TakeServerErr
  <2>1. CASE listener \in open
    <3>1. listener \in Listeners
      BY <2>1 DEF IInv, DataOK
    <3>2. ListenerCloses(listener)
      BY <1>1, <2>1 DEF MetricsFail, TakeServerErr, settings, starter, stopping, ListenerCloses
    <3> QED BY <3>1, <3>2 DEF Next
  <2>2. CASE listener \notin open
    BY <1>1, <2>2 DEF MetricsFail, TakeServerErr, settings, starter, stopping, vars
  <2> QED BY <2>1, <2>2
<1>2. CASE Reconfigure
  <2>1. listener \in MaybeListeners
    BY DEF IInv, DataOK
  <2>2. CASE \E fwd \in SUBSET Forwardings : Configure(fwd, listener)
    BY <2>1, <2>2 DEF Next
  <2>3. CASE ConfigureFails(listener)
    BY <2>1, <2>3 DEF Next
  <2>4. CASE UNCHANGED server
    BY <2>4 DEF server, settings, starter, stopping, network, vars
  <2> QED BY <1>2, <2>2, <2>3, <2>4 DEF Reconfigure
<1>3. CASE RunStart
  BY <1>3 DEF RunStart, Next
<1>4. CASE ListenerBreaks
  BY <1>4 DEF ListenerBreaks, Next
<1>5. CASE UNCHANGED server
  BY <1>5 DEF server, settings, starter, stopping, network, vars
<1> QED BY <1>1, <1>2, <1>3, <1>4, <1>5
        DEF CliNext, cliVars, Server, SendServerErr, StartMonitors, TakeReload, Load, Monitor,
            MonitorTakes, MonitorOffers, MonitorEnds, Signal

\* cfg and the server change together.
LEMMA CfgNext == CfgInv /\ [CliNext]_cliVars => CfgInv'
<1> SUFFICES ASSUME CfgInv, [CliNext]_cliVars PROVE CfgInv'
  OBVIOUS
<1> USE DEF CfgInv, server, settings, starter, stopping, program, network
<1>1. CASE Reconfigure
  <2>1. ASSUME NEW fwd \in SUBSET Forwardings, Configure(fwd, listener), cfg' = last'
        PROVE  CfgInv'
    <3>1. ssh'.v = cfg' /\ ssh'.addr = listener' /\ startPc = "idle" /\ UNCHANGED startPc
      BY <2>1 DEF Configure
    <3>2. ssh' = [v |-> last', types |-> ChannelTypes(fwd), addr |-> listener']
      BY <2>1 DEF Configure
    <3>3. ChannelTypes(fwd) # {}
      BY DEF ChannelTypes
    <3>4. ssh' # NilServer
      BY <3>2, <3>3 DEF NilServer
    <3> QED BY <3>1, <3>4
  <2>2. CASE ConfigureFails(listener) /\ UNCHANGED cfg
    BY <2>2 DEF ConfigureFails, SetListener
  <2>3. CASE UNCHANGED <<server, cfg>>
    BY <2>3
  <2> QED BY <1>1, <2>1, <2>2, <2>3 DEF Reconfigure
<1>2. CASE RunStart
  BY <1>2 DEF RunStart, Start, Serve, ServeReturns
<1>3. CASE ListenerBreaks
  BY <1>3 DEF ListenerBreaks, ListenerCloses
<1>4. CASE UNCHANGED <<ssh, listener, startPc, started, served, servedLis, cfg>>
  BY <1>4
<1>5. ASSUME MetricsFail \/ TakeServerErr \/ SendServerErr \/ StartMonitors \/ TakeReload
             \/ Load \/ Monitor \/ Signal \/ UNCHANGED cliVars
      PROVE  UNCHANGED <<ssh, listener, startPc, started, served, servedLis, cfg>>
  BY <1>5 DEF MetricsFail, TakeServerErr, SendServerErr, StartMonitors, TakeReload, Load,
              Monitor, MonitorTakes, MonitorOffers, MonitorEnds, Signal, cliVars
<1> QED BY <1>1, <1>2, <1>3, <1>4, <1>5 DEF CliNext, Server

\* The program starts with a configured server and its listener.
LEMMA CliInitInv == CliInit => CfgInv
<1> SUFFICES ASSUME CliInit PROVE CfgInv
  OBVIOUS
<1>1. PICK fwd \in SUBSET Forwardings :
        ssh = [v |-> 1, types |-> ChannelTypes(fwd), addr |-> listener]
  BY DEF CliInit, Init
<1>2. ssh # NilServer
  BY <1>1 DEF ChannelTypes, NilServer
<1> QED BY <1>1, <1>2 DEF CliInit, Init, CfgInv

----------------------------------------------------------------------------

\* No sequence of reloads separates cfg from the server that runs, or that server
\* from the listener it was made with.
THEOREM CfgFollowsServer == CliSpec => []CfgMatchesServer
<1>1. CfgInv => CfgMatchesServer
  BY DEF CfgInv, CfgMatchesServer
<1> QED BY <1>1, CliInitInv, CfgNext, PTL DEF CliSpec

----------------------------------------------------------------------------

\* The program keeps the invariant of the embedded server.
LEMMA EmbeddedInvariance == CliSpec => []IInv
<1>1. CliInit => IInv
  BY InitIInv DEF CliInit
<1>2. IInv /\ [CliNext]_cliVars => IInv'
  BY StepSimulation, NextIInv
<1> QED BY <1>1, <1>2, PTL DEF CliSpec

\* In the program Start always finds its listener, what is served is what was configured
\* last, and every Stop keeps its word: the theorems of the embedded server hold in it.
THEOREM EmbeddedPromises ==
  CliSpec => [](ServedIsConfigured /\ ServesWithListener /\ StopNilMeansClosed)
<1>1. IInv => ServedIsConfigured /\ ServesWithListener /\ StopNilMeansClosed
  BY DEF IInv
<1> QED BY <1>1, EmbeddedInvariance, PTL

\* The goroutines follow their control, and the channels stay Boolean.
LEMMA ProgramTypes == ControlOK /\ CliFlagsOK /\ [CliNext]_cliVars => (ControlOK /\ CliFlagsOK)'
<1> SUFFICES ASSUME ControlOK, CliFlagsOK, [CliNext]_cliVars PROVE ControlOK' /\ CliFlagsOK'
  OBVIOUS
<1>1. ControlOK'
  BY DEF ControlOK, cliVars, program, CliNext, Server, Monitor, StartMonitors, MetricsFail,
         TakeServerErr, TakeReload, Load, Reconfigure, RunStart, SendServerErr, MonitorTakes,
         MonitorOffers, MonitorEnds, Signal, ListenerBreaks
<1>2. CliFlagsOK'
  <2> USE DEF CliFlagsOK, SigTypeOK, sigVars, program
  <2>1. CASE StartMonitors \/ MetricsFail \/ TakeServerErr \/ TakeReload \/ Load \/ Reconfigure
    BY <2>1, Zenon DEF StartMonitors, MetricsFail, TakeServerErr, TakeReload, Load, Reconfigure,
                       StopHandler
  <2>2. CASE Server \/ ListenerBreaks \/ UNCHANGED cliVars
    BY <2>2, Zenon DEF Server, RunStart, SendServerErr, ListenerBreaks, cliVars
  <2>3. CASE Monitor
    BY <2>3, Zenon DEF Monitor, MonitorTakes, MonitorOffers, MonitorEnds, WaitForReloadSignal,
                       WaitForReloadNil
  <2>4. CASE Signal
    BY <2>4, Zenon DEF Signal, DeliverHup, DeliverTerm
  <2> QED BY <2>1, <2>2, <2>3, <2>4 DEF CliNext
<1> QED BY <1>1, <1>2

\* Every variable of the program keeps its type, those of the embedded server included.
THEOREM CliTypeCorrect == CliSpec => []CliTypeOK
<1>1. CliInit => ControlOK /\ CliFlagsOK
  <2>1. CliInit => ControlOK
    BY DEF CliInit, ControlOK
  <2>2. CliInit => CliFlagsOK
    BY Zenon DEF CliInit, CliFlagsOK, SigInit, SigTypeOK
  <2> QED BY <2>1, <2>2
<1>2. IInv => TypeOK
  BY DEF IInv, FlagsOK, DataOK, TypeOK
<1>3. TypeOK /\ CfgInv => cfg \in Versions
  BY DEF TypeOK, CfgInv, Servers
<1>4. TypeOK /\ CfgInv /\ ControlOK /\ CliFlagsOK => CliTypeOK
  BY <1>3 DEF ControlOK, CliFlagsOK, CliTypeOK
<1> QED BY <1>1, <1>2, <1>4, EmbeddedInvariance, CliInitInv, CfgNext, ProgramTypes, PTL DEF CliSpec
=============================================================================
