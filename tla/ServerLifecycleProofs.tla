----------------------- MODULE ServerLifecycleProofs -----------------------
(***************************************************************************)
(* Safety of ServerLifecycle for any number of generations, ports and      *)
(* connections: IInv is inductive and implies the invariants the runs      *)
(* check.                                                                  *)
(***************************************************************************)
EXTENDS ServerLifecycle, TLAPS

\* Before main publishes errCh nothing runs; from then on errCh is the channel
\* of the current generation.
ChannelOfCurrent ==
  /\ errCh \in {NoGen, ssh}
  /\ (errCh = NoGen) <=> (mainPc \in {"idle", "publish"} \/ ret = "metrics")
  /\ (errCh = NoGen) => \A g \in Gens : state[g] \in {"unused", "built"}

\* The locals of a goroutine are set where it uses them.
Locals ==
  /\ mainPc # "returned" => ret = "none"
  /\ mainPc \in {"select", "compare", "shutdown", "close", "wait"} =>
       mainCh \in Gens /\ mainCh <= ssh
  /\ mainPc = "close" => mainSsh \in Gens
  /\ mainPc = "compare" => /\ mainErr \in Results /\ state[mainCh] = "done"
                           /\ errBuf[mainCh] = "empty"
  /\ stopPc = "close" => stopSsh \in Gens

\* Progress of a reload: the generation being installed is the newest, and the one
\* about to be closed has been superseded.
ReloadPhase ==
  /\ sigPc = "swap" => /\ sigNew \in Gens /\ ssh < sigNew /\ sigNew = last
                       /\ state[sigNew] = "built"
  /\ sigPc \in {"spawn", "closeOld"} => /\ errCh # NoGen
                                        /\ sigNew = ssh
                                        /\ sigOld \in Gens /\ sigOld < ssh
  /\ sigPc = "spawn" => state[ssh] = "built"

\* Generations are numbered in the order they are built.
Numbering == ssh <= last /\ \A g \in Gens : g > last => state[g] = "unused"

\* A generation that runs reports once, on the channel made for it.
OwnChannel ==
  /\ \A g \in Gens : state[g] \notin {"unused", "built"} => ch[g] = g
  /\ sigPc = "spawn" => ch[ssh] = ssh
  /\ \A g \in Gens : errBuf[g] # "empty" => state[g] = "done"

\* Goroutines that close the current server have cancelled the context.
ShutdownRequested ==
  /\ stopPc # "idle" => ctxDone
  /\ mainPc \in {"shutdown", "close", "wait"} => ctxDone

\* The nil result of generation g is on its way to main.
ClosedUnderMain(g) ==
  \/ state[g] = "nil"
  \/ errBuf[g] = "nil"
  \/ mainPc = "compare" /\ mainErr = "nil" /\ mainCh = g

\* If the current generation was closed, a shutdown did it; unless main itself
\* did, Stop did and has the metrics listener still to stop, or has stopped it.
CurrentClosed ==
  ClosedUnderMain(ssh) =>
    /\ ctxDone
    /\ \/ mainPc \in {"wait", "returned"}
       \/ stopPc = "release"
       \/ stopPc = "done" /\ ~metricsUp

MetricsPhase ==
  /\ mainPc = "idle" => ~metricsUp
  /\ mainPc = "wait" => ~metricsUp
  /\ mainPc = "returned" /\ metricsUp => stopPc = "release"

IInv ==
  /\ TypeOK
  /\ ChannelOfCurrent /\ Locals /\ ReloadPhase /\ Numbering /\ OwnChannel
  /\ ShutdownRequested /\ CurrentClosed /\ MetricsPhase
----------------------------------------------------------------------------
(* Proofs.                                                                 *)

\* New establishes the invariant.
LEMMA InitIInv == Init => IInv
<1> SUFFICES ASSUME Init PROVE IInv
  OBVIOUS
<1> USE LifecycleAssumption DEF Init, SigInit, Gens, NoGen, Results, Errors
<1>0. FlagsOK
  BY Zenon DEF FlagsOK, SigTypeOK
<1>1. TypeOK
  BY <1>0 DEF TypeOK, GenStates, MainStates, SigStates, StopStates
<1>2. ChannelOfCurrent /\ Locals /\ ReloadPhase /\ OwnChannel
  BY DEF ChannelOfCurrent, Locals, ReloadPhase, OwnChannel
<1>3. Numbering
  BY DEF Numbering
<1>4. ShutdownRequested /\ CurrentClosed /\ MetricsPhase
  BY DEF ShutdownRequested, CurrentClosed, ClosedUnderMain, MetricsPhase
<1> QED
  BY <1>1, <1>2, <1>3, <1>4 DEF IInv

\* The flags of the signal handler and of the server stay Booleans.
LEMMA NextFlags == ASSUME FlagsOK, [Next]_vars PROVE FlagsOK'
<1> USE DEF FlagsOK, SigTypeOK, vars, sigVars
<1>1. CASE MainStep
  BY Zenon, <1>1 DEF MainStep, StartMetrics, PublishErrCh, ReadErrCh, SelectDone, SelectErr,
                     CompareErr, ShutdownGetSSH, ShutdownClose, ShutdownWait
<1>2. CASE ReloadStep
  BY Zenon, <1>2 DEF ReloadStep, TakeReload, WaitForReloadSignal, SignalsExit,
                     WaitForReloadNil, LoadConfig, SwapServer, SpawnNew, CloseOld
<1>3. CASE StopCall \/ StopStep
  BY Zenon, <1>3 DEF StopCall, CancelContext, StopStep, StopGetSSH, StopClose, StopRelease,
                     StopHandler
<1>4. CASE Sighup
  BY Zenon, <1>4 DEF Sighup, DeliverHup
<1>5. ASSUME NEW g \in Gens, GenStep(g) PROVE FlagsOK'
  BY Zenon, <1>5 DEF GenStep, Listen, AcceptFails, Report
<1>6. ASSUME NEW c \in Conns, ConnStep(c) PROVE FlagsOK'
  BY Zenon, <1>6 DEF ConnStep, Connect, Disconnect
<1>7. CASE UNCHANGED vars
  BY Zenon, <1>7
<1> QED
  BY <1>1, <1>2, <1>3, <1>4, <1>5, <1>6, <1>7 DEF Next

\* Every step of a goroutine, of the operator or of a client preserves it.
LEMMA NextIInv == ASSUME IInv, [Next]_vars PROVE IInv'
<1> USE LifecycleAssumption
    DEF Gens, NoGen, Results, Errors, GenStates, MainStates, SigStates, StopStates,
        vars, fields, gens, mainVars, reloadVars, stopVars, sigVars,
        IInv, TypeOK, ChannelOfCurrent, Locals, ReloadPhase, Numbering,
        OwnChannel, ShutdownRequested, CurrentClosed, ClosedUnderMain, MetricsPhase
<1> FlagsOK'
  BY NextFlags
<1>1. ASSUME StartMetrics PROVE IInv'
  BY <1>1 DEF StartMetrics
<1>2. ASSUME PublishErrCh PROVE IInv'
  <2>1. TypeOK'
    BY <1>2 DEF PublishErrCh
  <2>2. ChannelOfCurrent'
    BY <1>2 DEF PublishErrCh
  <2>3. Locals'
    BY <1>2 DEF PublishErrCh
  <2>4. ReloadPhase'
    BY <1>2 DEF PublishErrCh
  <2>5. Numbering'
    BY <1>2 DEF PublishErrCh
  <2>6. OwnChannel'
    BY <1>2 DEF PublishErrCh
  <2>7. ShutdownRequested'
    BY <1>2 DEF PublishErrCh
  <2>8. CurrentClosed'
    BY <1>2 DEF PublishErrCh
  <2>9. MetricsPhase'
    BY <1>2 DEF PublishErrCh
  <2> QED
    BY <2>1, <2>2, <2>3, <2>4, <2>5, <2>6, <2>7, <2>8, <2>9
<1>3. ASSUME ReadErrCh PROVE IInv'
  BY <1>3 DEF ReadErrCh
<1>4. ASSUME SelectDone PROVE IInv'
  BY <1>4 DEF SelectDone
<1>5. ASSUME SelectErr PROVE IInv'
  BY <1>5 DEF SelectErr
<1>6. ASSUME CompareErr PROVE IInv'
  <2>1. TypeOK'
    BY <1>6 DEF CompareErr
  <2>2. ChannelOfCurrent'
    BY <1>6 DEF CompareErr
  <2>3. Locals'
    BY <1>6 DEF CompareErr
  <2>4. ReloadPhase'
    BY <1>6 DEF CompareErr
  <2>5. Numbering'
    BY <1>6 DEF CompareErr
  <2>6. OwnChannel'
    BY <1>6 DEF CompareErr
  <2>7. ShutdownRequested'
    BY <1>6 DEF CompareErr
  <2>8. CurrentClosed'
    BY <1>6 DEF CompareErr
  <2>9. MetricsPhase'
    BY <1>6 DEF CompareErr
  <2> QED
    BY <2>1, <2>2, <2>3, <2>4, <2>5, <2>6, <2>7, <2>8, <2>9
<1>7. ASSUME ShutdownGetSSH PROVE IInv'
  BY <1>7 DEF ShutdownGetSSH
<1>8. ASSUME ShutdownClose PROVE IInv'
  <2>1. TypeOK'
    BY <1>8 DEF ShutdownClose, CloseGen
  <2>2. ChannelOfCurrent'
    BY <1>8 DEF ShutdownClose, CloseGen
  <2>3. Locals'
    BY <1>8 DEF ShutdownClose, CloseGen
  <2>4. ReloadPhase'
    BY <1>8 DEF ShutdownClose, CloseGen
  <2>5. Numbering'
    BY <1>8 DEF ShutdownClose, CloseGen
  <2>6. OwnChannel'
    BY <1>8 DEF ShutdownClose, CloseGen
  <2>7. ShutdownRequested'
    BY <1>8 DEF ShutdownClose, CloseGen
  <2>8. CurrentClosed'
    BY <1>8 DEF ShutdownClose, CloseGen
  <2>9. MetricsPhase'
    BY <1>8 DEF ShutdownClose, CloseGen
  <2> QED
    BY <2>1, <2>2, <2>3, <2>4, <2>5, <2>6, <2>7, <2>8, <2>9
<1>9. ASSUME ShutdownWait PROVE IInv'
  BY <1>9 DEF ShutdownWait
<1>10. ASSUME TakeReload PROVE IInv'
  BY <1>10 DEF TakeReload, WaitForReloadSignal
<1>11. ASSUME SignalsExit PROVE IInv'
  BY <1>11 DEF SignalsExit, WaitForReloadNil
<1>12. ASSUME LoadConfig PROVE IInv'
  <2>1. TypeOK'
    <3>1. CASE sigPc' = "wait" /\ UNCHANGED <<state, port, last, sigNew>>
      BY <1>12, <3>1 DEF LoadConfig
    <3>2. CASE sigPc' = "swap"
      <4>1. PICK p \in Ports : port' = [port EXCEPT ![last + 1] = p]
        BY <1>12, <3>2 DEF LoadConfig
      <4>2. last' = last + 1 /\ last + 1 \in 1..MaxGens
            /\ state' = [state EXCEPT ![last + 1] = "built"] /\ sigPc' = "swap"
        BY <1>12, <3>2 DEF LoadConfig
      <4>3. port' \in [1..MaxGens -> Ports]
        BY <4>1, <4>2
      <4> QED BY <1>12, <3>2, <4>2, <4>3 DEF LoadConfig
    <3> QED BY <1>12, <3>1, <3>2 DEF LoadConfig
  <2>2. ChannelOfCurrent'
    BY <1>12 DEF LoadConfig
  <2>3. Locals'
    BY <1>12 DEF LoadConfig
  <2>4. ReloadPhase'
    BY <1>12 DEF LoadConfig
  <2>5. Numbering'
    BY <1>12 DEF LoadConfig
  <2>6. OwnChannel'
    BY <1>12 DEF LoadConfig
  <2>7. ShutdownRequested'
    BY <1>12 DEF LoadConfig
  <2>8. CurrentClosed'
    BY <1>12 DEF LoadConfig
  <2>9. MetricsPhase'
    BY <1>12 DEF LoadConfig
  <2> QED
    BY <2>1, <2>2, <2>3, <2>4, <2>5, <2>6, <2>7, <2>8, <2>9
<1>13. ASSUME SwapServer PROVE IInv'
  <2>1. TypeOK'
    BY <1>13 DEF SwapServer
  <2>2. ChannelOfCurrent'
    BY <1>13 DEF SwapServer
  <2>3. Locals'
    BY <1>13 DEF SwapServer
  <2>4. ReloadPhase'
    BY <1>13 DEF SwapServer
  <2>5. Numbering'
    BY <1>13 DEF SwapServer
  <2>6. OwnChannel'
    BY <1>13 DEF SwapServer
  <2>7. ShutdownRequested'
    BY <1>13 DEF SwapServer
  <2>8. CurrentClosed'
    BY <1>13 DEF SwapServer
  <2>9. MetricsPhase'
    BY <1>13 DEF SwapServer
  <2> QED
    BY <2>1, <2>2, <2>3, <2>4, <2>5, <2>6, <2>7, <2>8, <2>9
<1>14. ASSUME SpawnNew PROVE IInv'
  BY <1>14 DEF SpawnNew
<1>15. ASSUME CloseOld PROVE IInv'
  BY <1>15 DEF CloseOld, CloseGen
<1>16. ASSUME StopCall PROVE IInv'
  BY <1>16 DEF StopCall, CancelContext
<1>17. ASSUME StopGetSSH PROVE IInv'
  BY <1>17 DEF StopGetSSH
<1>18. ASSUME StopClose PROVE IInv'
  BY <1>18 DEF StopClose, CloseGen
<1>19. ASSUME StopRelease PROVE IInv'
  BY <1>19 DEF StopRelease, StopHandler
<1>20. ASSUME Sighup PROVE IInv'
  BY <1>20 DEF Sighup, DeliverHup
<1>21. ASSUME NEW g \in Gens, Listen(g) PROVE IInv'
  BY <1>21 DEF Listen, PortBusy
<1>22. ASSUME NEW g \in Gens, AcceptFails(g) PROVE IInv'
  BY <1>22 DEF AcceptFails
<1>23. ASSUME NEW g \in Gens, Report(g) PROVE IInv'
  BY <1>23 DEF Report
<1>24. ASSUME NEW c \in Conns, Connect(c) PROVE IInv'
  BY <1>24 DEF Connect
<1>25. ASSUME NEW c \in Conns, Disconnect(c) PROVE IInv'
  BY <1>25 DEF Disconnect
<1>26. ASSUME UNCHANGED vars PROVE IInv'
  BY <1>26
<1> QED
  BY <1>1, <1>2, <1>3, <1>4, <1>5, <1>6, <1>7, <1>8, <1>9, <1>10,
     <1>11, <1>12, <1>13, <1>14, <1>15, <1>16, <1>17, <1>18, <1>19, <1>20,
     <1>21, <1>22, <1>23, <1>24, <1>25, <1>26
  DEF Next, MainStep, ReloadStep, StopStep, GenStep, ConnStep

\* The invariant holds in every reachable state.
LEMMA InvariantHolds == Spec => []IInv
<1>1. Init => IInv
  BY InitIInv
<1>2. IInv /\ [Next]_vars => IInv'
  BY NextIInv
<1> QED
  BY <1>1, <1>2, PTL DEF Spec

\* Type correctness; in particular Server.ssh is never nil once New returned.
THEOREM TypeCorrect == Spec => []TypeOK
<1>1. IInv => TypeOK
  BY DEF IInv
<1> QED
  BY <1>1, InvariantHolds, PTL

\* No runSSHServer goroutine ever blocks in its final send.
THEOREM ReportsDelivered == Spec => []ReportNeverBlocks
<1>1. IInv => ReportNeverBlocks
  <2> SUFFICES ASSUME IInv, NEW g \in Gens, state[g] \in Results
               PROVE  errBuf[ch[g]] = "empty"
    BY DEF ReportNeverBlocks
  <2>1. ch[g] = g
    BY DEF IInv, OwnChannel, Results, Errors
  <2>2. state[g] # "done"
    BY DEF Results, Errors
  <2> QED
    BY <2>1, <2>2 DEF IInv, OwnChannel
<1> QED
  BY <1>1, InvariantHolds, PTL

\* Start and Stop between them never leave the metrics listener running.
THEOREM MetricsStopped == Spec => []MetricsDownAfterReturn
<1>1. IInv => MetricsDownAfterReturn
  BY DEF IInv, MetricsPhase, MetricsDownAfterReturn
<1> QED
  BY <1>1, InvariantHolds, PTL

----------------------------------------------------------------------------
(* The refinement.                                                         *)

LEMMA InitKept == Init => Promised!Init
<1> SUFFICES ASSUME Init PROVE Promised!Init
  OBVIOUS
<1>1. \A g \in Gens : ResultOf(g) = "none"
  BY DEF Init, ResultOf, Results, Errors
<1>2. [g \in Gens |-> ResultOf(g)] = [g \in Gens |-> "none"]
  BY <1>1
<1>3. ssh \in Gens /\ \A g \in Gens : ssh <= g
  BY LifecycleAssumption DEF Init, Gens
<1> QED BY <1>2, <1>3 DEF Init, SigInit, Promised!Init

\* The step of a result from one holder to the next is none of the service.
LEMMA SameResults ==
  ASSUME IInv, \/ UNCHANGED <<state, errBuf, mainPc, mainCh, mainErr>>
               \/ StartMetrics \/ PublishErrCh \/ ReadErrCh \/ SelectDone \/ SelectErr \/ ShutdownGetSSH
               \/ LoadConfig \/ SpawnNew \/ \E g \in Gens : Report(g)
  PROVE  \A g \in Gens : ResultOf(g)' = ResultOf(g)
<1> USE DEF IInv, TypeOK, Locals, OwnChannel, ResultOf, Results, Errors
<1>1. CASE UNCHANGED <<state, errBuf, mainPc, mainCh, mainErr>>
  BY <1>1
<1>2. CASE StartMetrics
  BY <1>2 DEF StartMetrics, gens
<1>3. CASE PublishErrCh
  BY <1>3 DEF PublishErrCh, ChannelOfCurrent
<1>4. CASE ReadErrCh
  BY <1>4 DEF ReadErrCh, gens
<1>5. CASE SelectDone \/ ShutdownGetSSH
  BY <1>5 DEF SelectDone, ShutdownGetSSH, gens
<1>6. CASE SelectErr
  BY <1>6 DEF SelectErr
<1>7. CASE LoadConfig
  <2>1. CASE sigPc' = "wait"
    BY <1>7, <2>1 DEF LoadConfig, mainVars
  <2>2. CASE sigPc' = "swap"
    <3>1. /\ last \in Nat /\ last < MaxGens /\ state' = [state EXCEPT ![last + 1] = "built"]
          /\ UNCHANGED <<errBuf, mainPc, mainCh, mainErr>>
      BY <1>7, <2>2 DEF LoadConfig, mainVars, Gens
    <3>2. last + 1 \in Gens /\ last + 1 > last
      BY <3>1, LifecycleAssumption DEF Gens
    <3>3. state[last + 1] = "unused"
      BY <3>2 DEF Numbering
    <3> QED BY <3>1, <3>2, <3>3
  <2> QED BY <1>7, <2>1, <2>2 DEF LoadConfig
<1>8. CASE SpawnNew
  BY <1>8 DEF SpawnNew, mainVars, ReloadPhase, NoGen, ChannelOfCurrent
<1>9. ASSUME NEW h \in Gens, Report(h) PROVE \A g \in Gens : ResultOf(g)' = ResultOf(g)
  BY <1>9 DEF Report, mainVars
<1> QED BY <1>1, <1>2, <1>3, <1>4, <1>5, <1>6, <1>7, <1>8, <1>9

\* A server that is closed ends, if it listens.
LEMMA Closes ==
  ASSUME IInv, NEW g \in Gens, CloseGen(g), g < ssh \/ ctxDone,
         UNCHANGED <<ssh, ret, ctxDone, mainCh, mainErr>>,
         mainPc' = mainPc \/ (mainPc # "compare" /\ mainPc' # "compare")
  PROVE  Promised!Close(g)
<1> DEFINE r == [h \in Gens |-> ResultOf(h)]
<1>1. ASSUME state[g] = "serving" PROVE ResultOf(g) = "none" /\ r' = [r EXCEPT ![g] = "nil"]
  <2>1. errBuf[g] = "empty" /\ ~(mainPc = "compare" /\ mainCh = g)
    BY <1>1 DEF IInv, Locals, OwnChannel
  <2>2. ResultOf(g) = "none"
    BY <1>1, <2>1 DEF ResultOf, Results, Errors
  <2>3. state \in [Gens -> GenStates]
    BY DEF IInv, TypeOK
  <2>4. state' = [state EXCEPT ![g] = "nil"] /\ errBuf' = errBuf
    BY <1>1 DEF CloseGen
  <2>5. ResultOf(g)' = "nil"
    BY <2>3, <2>4 DEF ResultOf, Results, Errors
  <2>6. \A h \in Gens \ {g} : ResultOf(h)' = ResultOf(h)
    BY <2>3, <2>4 DEF ResultOf
  <2> QED BY <2>2, <2>5, <2>6
<1>2. ASSUME state[g] # "serving" PROVE r' = r
  BY <1>2 DEF CloseGen, ResultOf
<1> QED BY <1>1, <1>2 DEF CloseGen, Promised!Close

LEMMA StepKept ==
  ASSUME IInv, [Next]_vars PROVE [Promised!Next]_Promised!serviceVars
<1> DEFINE r == [h \in Gens |-> ResultOf(h)]
<1> USE DEF fields, gens, mainVars, reloadVars, stopVars, sigVars
<1>1. ASSUME \A g \in Gens : ResultOf(g)' = ResultOf(g) PROVE r' = r
  BY <1>1
<1>2. CASE StartMetrics
  <2>1. CASE UNCHANGED ret
    BY <1>1, <1>2, <2>1, SameResults DEF StartMetrics, Promised!serviceVars
  <2>2. CASE ret' = "metrics"
    <3>1. mainPc = "idle" /\ r' = r /\ UNCHANGED <<ssh, ctxDone, conn>>
      BY <1>1, <1>2, SameResults DEF StartMetrics
    <3>2. ret = "none" /\ \A g \in Gens : state[g] \in {"unused", "built"}
      BY <3>1 DEF IInv, Locals, ChannelOfCurrent
    <3>3. \A g \in Gens : r[g] = "none"
      BY <3>1, <3>2 DEF IInv, TypeOK, OwnChannel, ResultOf, Results, Errors
    <3> QED BY <2>2, <3>1, <3>2, <3>3 DEF Promised!Next, Promised!Refuse
  <2> QED BY <1>2, <2>1, <2>2 DEF StartMetrics
<1>3. CASE PublishErrCh \/ ReadErrCh \/ SelectDone \/ SelectErr \/ ShutdownGetSSH
  BY <1>1, <1>3, SameResults
  DEF PublishErrCh, ReadErrCh, SelectDone, SelectErr, ShutdownGetSSH, Promised!serviceVars
<1>4. CASE CompareErr
  <2>1. /\ mainPc = "compare" /\ mainCh \in Gens /\ mainCh <= ssh /\ errCh = ssh /\ ret = "none"
        /\ r[mainCh] = mainErr /\ mainErr \in Results /\ ssh \in Gens
    BY <1>4 DEF CompareErr, IInv, TypeOK, Locals, ChannelOfCurrent, ResultOf, Results, Errors,
                Gens, NoGen
  <2>2. r' = [r EXCEPT ![mainCh] = "taken"]
    BY <1>4 DEF CompareErr, IInv, TypeOK, Locals, OwnChannel, ResultOf, Results, Errors
  <2>3. Promised!Take(mainCh)
    BY <2>1, <2>2 DEF Promised!Take, Results, Errors
  <2>4. UNCHANGED <<ssh, ctxDone, conn>>
    BY <1>4 DEF CompareErr
  <2>5. CASE errCh # mainCh
    <3>1. mainCh < ssh /\ ret' = ret
      BY <1>4, <2>1, <2>5 DEF CompareErr, Gens
    <3> QED BY <2>1, <2>3, <2>4, <3>1 DEF Promised!Next, Promised!Drop
  <2>6. CASE errCh = mainCh
    <3>1. ret' = r[mainCh] /\ mainCh = ssh
      BY <1>4, <2>1, <2>6 DEF CompareErr
    <3>2. r[mainCh] = "nil" => ctxDone
      BY <2>1, <3>1 DEF IInv, CurrentClosed, ClosedUnderMain
    <3> QED BY <2>1, <2>3, <2>4, <3>1, <3>2 DEF Promised!Next, Promised!Return
  <2> QED BY <2>5, <2>6
<1>5. CASE ShutdownClose
  <2>1. mainSsh \in Gens /\ ctxDone
    BY <1>5 DEF ShutdownClose, IInv, Locals, ShutdownRequested
  <2>2. Promised!Close(mainSsh)
    BY <1>5, <2>1, Closes DEF ShutdownClose
  <2> QED BY <2>1, <2>2 DEF Promised!Next
<1>6. CASE ShutdownWait
  <2>1. /\ mainPc = "wait" /\ mainCh \in Gens /\ ret = "none" /\ ctxDone /\ errBuf[mainCh] # "empty"
        /\ state[mainCh] = "done"
    BY <1>6 DEF ShutdownWait, IInv, Locals, OwnChannel, ShutdownRequested
  <2>2. r' = [r EXCEPT ![mainCh] = "taken"]
    BY <1>6, <2>1 DEF ShutdownWait, IInv, TypeOK, ResultOf, Results, Errors
  <2>3. r[mainCh] \in Results
    BY <2>1 DEF IInv, TypeOK, ResultOf, Results, Errors
  <2>4. Promised!Take(mainCh)
    BY <2>2, <2>3 DEF Promised!Take, Results, Errors
  <2> QED BY <1>6, <2>1, <2>4 DEF ShutdownWait, Promised!Next, Promised!Return
<1>7. CASE TakeReload \/ SignalsExit
  BY <1>1, <1>7, SameResults
  DEF TakeReload, SignalsExit, WaitForReloadSignal, WaitForReloadNil, Promised!serviceVars
<1>8. CASE LoadConfig \/ SpawnNew
  BY <1>1, <1>8, SameResults DEF LoadConfig, SpawnNew, Promised!serviceVars
<1>9. CASE SwapServer
  <2>1. /\ sigNew \in Gens /\ ssh < sigNew /\ state[sigNew] = "built" /\ ssh' = sigNew
        /\ UNCHANGED <<state, errBuf, mainPc, mainCh, mainErr, ret, ctxDone, conn>>
    BY <1>9 DEF SwapServer, IInv, ReloadPhase
  <2>2. r[sigNew] = "none" /\ r' = r
    <3>1. r' = r
      BY <1>1, <2>1, SameResults
    <3>2. r[sigNew] = "none"
      BY <2>1 DEF IInv, TypeOK, Locals, OwnChannel, ResultOf, Results, Errors
    <3> QED BY <3>1, <3>2
  <2> QED BY <2>1, <2>2 DEF Promised!Next, Promised!Replace
<1>10. CASE CloseOld
  <2>1. sigOld \in Gens /\ sigOld < ssh
    BY <1>10 DEF CloseOld, IInv, ReloadPhase
  <2>2. Promised!Close(sigOld)
    BY <1>10, <2>1, Closes DEF CloseOld
  <2> QED BY <2>1, <2>2 DEF Promised!Next
<1>11. CASE StopCall
  BY <1>1, <1>11, SameResults DEF StopCall, CancelContext, Promised!Next, Promised!Ask
<1>12. CASE StopGetSSH \/ Sighup
  BY <1>1, <1>12, SameResults DEF StopGetSSH, Sighup, DeliverHup, Promised!serviceVars
<1>13. CASE StopClose
  <2>1. stopSsh \in Gens /\ ctxDone
    BY <1>13 DEF StopClose, IInv, Locals, ShutdownRequested
  <2>2. Promised!Close(stopSsh)
    BY <1>13, <2>1, Closes DEF StopClose
  <2> QED BY <2>1, <2>2 DEF Promised!Next
<1>14. CASE StopRelease
  BY <1>1, <1>14, SameResults DEF StopRelease, StopHandler, Promised!Next, Promised!Ask
<1>15. ASSUME NEW g \in Gens, Listen(g) \/ AcceptFails(g) PROVE [Promised!Next]_Promised!serviceVars
  <2>1. /\ state[g] \in {"spawned", "serving"}
        /\ state' \in {[state EXCEPT ![g] = s] : s \in {"bind", "accept", "serving"}}
        /\ (state' = [state EXCEPT ![g] = "serving"] => state[g] = "spawned")
        /\ UNCHANGED <<ssh, errBuf, mainPc, mainCh, mainErr, ret, ctxDone, conn>>
    BY <1>15 DEF Listen, AcceptFails, IInv, TypeOK
  <2>2. PICK s \in {"bind", "accept", "serving"} : state' = [state EXCEPT ![g] = s]
    BY <2>1
  <2>3. r[g] = "none"
    BY <2>1 DEF IInv, TypeOK, Locals, OwnChannel, ResultOf, Results, Errors
  <2>4. CASE s = "serving"
    <3>1. r' = r
      BY <2>1, <2>2, <2>4 DEF IInv, TypeOK, ResultOf, Results, Errors
    <3> QED BY <2>1, <3>1 DEF Promised!serviceVars
  <2>5. CASE s \in {"bind", "accept"}
    <3>1. r' = [r EXCEPT ![g] = s]
      BY <2>1, <2>2, <2>5 DEF IInv, TypeOK, ResultOf, Results, Errors
    <3> QED BY <2>1, <2>3, <2>5, <3>1 DEF Promised!Next, Promised!Fail
  <2> QED BY <2>4, <2>5
<1>16. ASSUME NEW g \in Gens, Report(g) PROVE [Promised!Next]_Promised!serviceVars
  BY <1>1, <1>16, SameResults DEF Report, Promised!serviceVars
<1>17. ASSUME NEW c \in Conns, Connect(c) PROVE [Promised!Next]_Promised!serviceVars
  <2>1. PICK g \in Gens : state[g] = "serving" /\ conn' = [conn EXCEPT ![c] = g]
    BY <1>17 DEF Connect
  <2>2. r[g] = "none"
    BY <2>1 DEF IInv, TypeOK, Locals, OwnChannel, ResultOf, Results, Errors
  <2>3. r' = r
    BY <1>1, <1>17, SameResults DEF Connect
  <2> QED BY <1>17, <2>1, <2>2, <2>3 DEF Connect, Promised!Next, Promised!Connect
<1>18. ASSUME NEW c \in Conns, Disconnect(c) PROVE [Promised!Next]_Promised!serviceVars
  BY <1>1, <1>18, SameResults DEF Disconnect, Promised!Next, Promised!Disconnect
<1>19. CASE UNCHANGED vars
  BY <1>1, <1>19, SameResults DEF vars, Promised!serviceVars
<1> QED
  BY <1>2, <1>3, <1>4, <1>5, <1>6, <1>7, <1>8, <1>9, <1>10, <1>11, <1>12, <1>13, <1>14, <1>15,
     <1>16, <1>17, <1>18, <1>19
  DEF Next, MainStep, ReloadStep, StopStep, GenStep, ConnStep

\* pkg/server.Server implements the Service: for any number of reloads, ports and
\* connections and however Start, reloads and Stop interleave, every result reaches Start
\* or belongs to a superseded server, Start returns the current server's or nil after a
\* shutdown request, and the current server cuts its clients only then.
THEOREM ServiceImplemented == Spec => ImplementsService
<1>1. Init => Promised!Init
  BY InitKept
<1>2. IInv /\ [Next]_vars => [Promised!Next]_Promised!serviceVars
  BY StepKept
<1> QED BY <1>1, <1>2, InvariantHolds, PTL DEF Spec, ImplementsService, Promised!Spec
=============================================================================
