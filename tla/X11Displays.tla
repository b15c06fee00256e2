---------------------------- MODULE X11Displays ----------------------------
(***************************************************************************)
(* pkg/handlers X11Handler: one x11-req handler goroutine per connection,  *)
(* which gliderlabs feeds one request at a time; one handler goroutine per *)
(* x11 channel; and, per successful request, a goroutine that releases the *)
(* display when the connection's context ends.  All share the map displays *)
(* (under X11Handler.mu) and the values of the connection's context.       *)
(***************************************************************************)
EXTENDS Naturals, FiniteSets

CONSTANTS
  Sessions,    \* session identifiers, one per connection
  Chans,       \* x11 channels that clients may open
  Offset,      \* getDisplayOffset
  MaxDisplay,  \* bound: largest display number
  MaxReqs      \* bound: x11-req requests per session

ASSUME X11Assumption ==
  /\ Offset \in Nat \ {0}
  /\ MaxDisplay \in Nat /\ Offset <= MaxDisplay
  /\ MaxReqs \in Nat
  /\ IsFiniteSet(Sessions)

NoDisplay == 0
Displays == Offset..MaxDisplay

VARIABLES
  displays,  \* X11Handler.displays: display per session, NoDisplay if absent
  life,      \* of the connection: "new", "live", "gone" (context done)
  reqPc,     \* the x11-req handler of the connection
  reqDisp,   \* its local display
  reqs,      \* requests it has accepted
  cleanups,  \* release goroutines that wait for the context
  stored,    \* context value x11SessionStateKey: the display in it
  enabled,   \* context value "x11-forwarding-enabled"
  chan       \* x11 channels: handler state, session, display

vars == <<displays, life, reqPc, reqDisp, reqs, cleanups, stored, enabled, chan>>
request == <<reqPc, reqDisp, reqs>>
context == <<stored, enabled>>

ChanStates == {"none", "validated", "accepted", "open", "half"}

TypeOK ==
  /\ displays \in [Sessions -> Displays \cup {NoDisplay}]
  /\ life \in [Sessions -> {"new", "live", "gone"}]
  /\ reqPc \in [Sessions -> {"idle", "allocated", "stored"}]
  /\ reqDisp \in [Sessions -> Displays \cup {NoDisplay}]
  /\ reqs \in [Sessions -> 0..MaxReqs]
  /\ cleanups \in [Sessions -> 0..MaxReqs]
  /\ stored \in [Sessions -> Displays \cup {NoDisplay}]
  /\ enabled \in [Sessions -> BOOLEAN]
  /\ chan \in [Chans -> [pc : ChanStates, sess : Sessions,
                         disp : Displays \cup {NoDisplay}]]

Init ==
  /\ displays = [s \in Sessions |-> NoDisplay]
  /\ life = [s \in Sessions |-> "new"]
  /\ reqPc = [s \in Sessions |-> "idle"]
  /\ reqDisp = [s \in Sessions |-> NoDisplay]
  /\ reqs = [s \in Sessions |-> 0]
  /\ cleanups = [s \in Sessions |-> 0]
  /\ stored = [s \in Sessions |-> NoDisplay]
  /\ enabled = [s \in Sessions |-> FALSE]
  /\ \E s \in Sessions :
       chan = [c \in Chans |-> [pc |-> "none", sess |-> s, disp |-> NoDisplay]]

----------------------------------------------------------------------------
(* Connections.                                                            *)

Connect(s) ==
  /\ life[s] = "new"
  /\ life' = [life EXCEPT ![s] = "live"]
  /\ UNCHANGED <<displays, request, cleanups, context, chan>>

\* The connection ends and its context is cancelled, at any moment.
Disconnect(s) ==
  /\ life[s] = "live"
  /\ life' = [life EXCEPT ![s] = "gone"]
  /\ UNCHANGED <<displays, request, cleanups, context, chan>>

----------------------------------------------------------------------------
(* CreateX11RequestHandler.                                                *)

InUse(d) == \E s \in Sessions : displays[s] = d

\* Regression: the next display is computed from the size of the map.
AvailableBySize(d) ==
  d = Offset + Cardinality({s \in Sessions : displays[s] # NoDisplay})

\* Regression: numbers are handed out upwards, holes are never filled.
AvailableAboveAll(d) ==
  LET held == {displays[s] : s \in Sessions} \ {NoDisplay}
  IN /\ \A e \in held : e < d
     /\ \A e \in Offset..(d - 1) : \E h \in held : e <= h

\* findAvailableDisplay: the first number from Offset that no session holds.
Available(d) == ~InUse(d) /\ \A e \in Offset..(d - 1) : InUse(e)

\* Regression: nobody waits for the end of the session.
AllocateNoCleanup(s) ==
  /\ life[s] # "new"
  /\ reqPc[s] = "idle"
  /\ reqs[s] < MaxReqs
  /\ \E d \in Displays :
       /\ Available(d)
       /\ displays' = [displays EXCEPT ![s] = d]
       /\ reqDisp' = [reqDisp EXCEPT ![s] = d]
  /\ reqs' = [reqs EXCEPT ![s] = @ + 1]
  /\ reqPc' = [reqPc EXCEPT ![s] = "allocated"]
  /\ UNCHANGED <<life, cleanups, context, chan>>

\* An allowed, well-formed x11-req: AllocateDisplay under the mutex, and the
\* goroutine that will release it.  The map holds one display per session: a
\* second request of the session overwrites the first one's entry.  A request
\* that was already received is served also when the connection has just ended.
Allocate(s) ==
  /\ life[s] # "new"
  /\ reqPc[s] = "idle"
  /\ reqs[s] < MaxReqs
  /\ \E d \in Displays :
       /\ Available(d)
       /\ displays' = [displays EXCEPT ![s] = d]
       /\ reqDisp' = [reqDisp EXCEPT ![s] = d]
  /\ reqs' = [reqs EXCEPT ![s] = @ + 1]
  /\ cleanups' = [cleanups EXCEPT ![s] = @ + 1]
  /\ reqPc' = [reqPc EXCEPT ![s] = "allocated"]
  /\ UNCHANGED <<life, context, chan>>

\* Regression: forwarding is announced before the display is stored.
StoreStateLast(s) ==
  /\ reqPc[s] = "allocated"
  /\ enabled' = [enabled EXCEPT ![s] = TRUE]
  /\ reqPc' = [reqPc EXCEPT ![s] = "stored"]
  /\ UNCHANGED <<displays, life, reqDisp, reqs, cleanups, stored, chan>>

\* Regression: a display is stored once, for the first request.
StoreStateOnce(s) ==
  /\ reqPc[s] = "allocated"
  /\ stored' = [stored EXCEPT ![s] = IF @ = NoDisplay THEN reqDisp[s] ELSE @]
  /\ reqPc' = [reqPc EXCEPT ![s] = "stored"]
  /\ UNCHANGED <<displays, life, reqDisp, reqs, cleanups, enabled, chan>>

\* ctx.SetValue(x11SessionStateKey, ...) comes first ...
StoreState(s) ==
  /\ reqPc[s] = "allocated"
  /\ stored' = [stored EXCEPT ![s] = reqDisp[s]]
  /\ reqPc' = [reqPc EXCEPT ![s] = "stored"]
  /\ UNCHANGED <<displays, life, reqDisp, reqs, cleanups, enabled, chan>>

\* ... and ctx.SetValue("x11-forwarding-enabled", true) second; the handler
\* returns and the next request of the connection can be served.
StoreEnabled(s) ==
  /\ reqPc[s] = "stored"
  /\ enabled' = [enabled EXCEPT ![s] = TRUE]
  /\ reqPc' = [reqPc EXCEPT ![s] = "idle"]
  /\ reqDisp' = [reqDisp EXCEPT ![s] = NoDisplay]
  /\ UNCHANGED <<displays, life, reqs, cleanups, stored, chan>>

\* A release goroutine wakes on ctx.Done and deletes the session's entry.
Cleanup(s) ==
  /\ cleanups[s] > 0
  /\ life[s] = "gone"
  /\ cleanups' = [cleanups EXCEPT ![s] = @ - 1]
  /\ displays' = [displays EXCEPT ![s] = NoDisplay]
  /\ UNCHANGED <<life, request, context, chan>>

----------------------------------------------------------------------------
(* CreateX11ChannelHandler.                                                *)

\* validateX11Channel: the flag is read; a refused channel leaves no state.
ValidateChannel(c, s) ==
  /\ chan[c].pc = "none"
  /\ life[s] # "new"
  /\ enabled[s]
  /\ chan' = [chan EXCEPT ![c] = [pc |-> "validated", sess |-> s, disp |-> NoDisplay]]
  /\ UNCHANGED <<displays, life, request, cleanups, context>>

\* The display is read from the context later than the flag; a channel without
\* one is rejected.
ReadState(c) ==
  /\ chan[c].pc = "validated"
  /\ LET d == stored[chan[c].sess]
     IN chan' = IF d = NoDisplay
                  THEN [chan EXCEPT ![c].pc = "none"]
                  ELSE [chan EXCEPT ![c] = [pc |-> "accepted", sess |-> @.sess, disp |-> d]]
  /\ UNCHANGED <<displays, life, request, cleanups, context>>

\* connectToLocalX11 of that display; without an X server the channel is closed.
ConnectX11(c) ==
  /\ chan[c].pc = "accepted"
  /\ \E pc \in {"open", "none"} : chan' = [chan EXCEPT ![c].pc = pc]
  /\ UNCHANGED <<displays, life, request, cleanups, context>>

\* forwardX11Data returns when both of its copies have ended.
EndCopy(c) ==
  /\ chan[c].pc \in {"open", "half"}
  /\ chan' = [chan EXCEPT ![c].pc = IF @ = "open" THEN "half" ELSE "none"]
  /\ UNCHANGED <<displays, life, request, cleanups, context>>

----------------------------------------------------------------------------

SessionStep(s) == StoreState(s) \/ StoreEnabled(s) \/ Cleanup(s)

Next ==
  \/ \E s \in Sessions : Connect(s) \/ Disconnect(s) \/ Allocate(s) \/ SessionStep(s)
  \/ \E c \in Chans :
       \/ \E s \in Sessions : ValidateChannel(c, s)
       \/ ReadState(c) \/ ConnectX11(c) \/ EndCopy(c)

\* Goroutines that can run do; clients and the X server owe nothing.
Fairness == \A s \in Sessions : WF_vars(SessionStep(s)) /\ WF_vars(Cleanup(s))

Spec == Init /\ [][Next]_vars /\ Fairness

----------------------------------------------------------------------------
(* Properties.                                                             *)

\* No two sessions hold the same display, whatever sequence of requests and
\* releases led there (AllocateDisplay).
DisplaysDistinct ==
  \A s, t \in Sessions :
    s # t /\ displays[s] # NoDisplay => displays[s] # displays[t]

\* A channel handler that runs between the two SetValue calls of a request
\* never finds forwarding enabled and no display (the order of the calls).
EnabledHasDisplay ==
  /\ \A s \in Sessions : enabled[s] => stored[s] # NoDisplay
  /\ \A c \in Chans : chan[c].pc = "validated" => stored[chan[c].sess] # NoDisplay

\* New channels of a live session go to the display that the session holds,
\* after any number of requests (x11SessionState against the displays map).
StoredDisplayIsHeld ==
  \A s \in Sessions :
    life[s] # "gone" /\ reqPc[s] = "idle" => displays[s] = stored[s]

\* The displays of a session are given back for good once it has ended, also
\* when it ends while a request is being served.
DisplaysReleased == \A s \in Sessions : (life[s] = "gone") ~> [](displays[s] = NoDisplay)

\* Released numbers are used again: they stay within one more than there are
\* sessions (a session that asks again holds one and is given another).
NumbersReused ==
  \A s \in Sessions : displays[s] <= Offset + Cardinality(Sessions)
=============================================================================
