--------------------------- MODULE SignalHandler ---------------------------
(***************************************************************************)
(* pkg/signals.Handler: two channels of capacity one filled by             *)
(* signal.Notify, and a context.  The operators are the method bodies;     *)
(* ServerLifecycle and CliServer conjoin them with what the calling        *)
(* goroutine does.                                                         *)
(***************************************************************************)

VARIABLES
  ctxDone,      \* Handler.ctx has been cancelled
  hupPending,   \* reloadSignals holds a signal (capacity 1)
  termPending,  \* shutdownSignals holds a signal (capacity 1)
  sigStopped    \* Handler.Stop has unregistered and closed both channels

sigVars == <<ctxDone, hupPending, termPending, sigStopped>>

SigTypeOK ==
  /\ ctxDone \in BOOLEAN
  /\ hupPending \in BOOLEAN
  /\ termPending \in BOOLEAN
  /\ sigStopped \in BOOLEAN

\* NewHandler: fresh channels, both signals registered.
SigInit ==
  /\ ctxDone = FALSE
  /\ hupPending = FALSE
  /\ termPending = FALSE
  /\ sigStopped = FALSE

\* os/signal delivers without blocking: a signal that finds its channel full
\* is dropped, so several SIGHUPs coalesce into the pending one.
DeliverHup ==
  /\ ~sigStopped
  /\ hupPending' = TRUE
  /\ UNCHANGED <<ctxDone, termPending, sigStopped>>

DeliverTerm ==
  /\ ~sigStopped
  /\ termPending' = TRUE
  /\ UNCHANGED <<ctxDone, hupPending, sigStopped>>

\* WaitForReload returns a signal ...
WaitForReloadSignal ==
  /\ hupPending
  /\ hupPending' = FALSE
  /\ UNCHANGED <<ctxDone, termPending, sigStopped>>

\* ... or nil, from a cancelled context or from the closed and drained channel.
WaitForReloadNil ==
  /\ ctxDone \/ (sigStopped /\ ~hupPending)
  /\ UNCHANGED sigVars

\* Shutdown cancels the context.
CancelContext ==
  /\ ctxDone' = TRUE
  /\ UNCHANGED <<hupPending, termPending, sigStopped>>

\* Stop unregisters, closes the channels and cancels.  Closing a closed channel
\* panics; the callers modelled here stop a handler once.
StopHandler ==
  /\ ~sigStopped
  /\ sigStopped' = TRUE
  /\ ctxDone' = TRUE
  /\ UNCHANGED <<hupPending, termPending>>
=============================================================================
