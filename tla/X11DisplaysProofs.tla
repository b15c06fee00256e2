------------------------- MODULE X11DisplaysProofs -------------------------
(***************************************************************************)
(* Safety of X11Displays for any sets of sessions and channels: IInv is    *)
(* inductive and implies the invariants the run checks.                    *)
(***************************************************************************)
EXTENDS X11Displays, FiniteSetTheorems, TLAPS

\* The handler has a display from its allocation to its return, and has stored
\* it by the time it sets the flag.
RequestPhase ==
  \A s \in Sessions :
    /\ reqPc[s] # "idle" => reqDisp[s] # NoDisplay
    /\ reqPc[s] = "stored" => stored[s] # NoDisplay

\* Until the connection ends the map follows the request being served.
HeldDisplay ==
  \A s \in Sessions : life[s] # "gone" =>
    /\ reqPc[s] = "idle" => displays[s] = stored[s]
    /\ reqPc[s] # "idle" => displays[s] = reqDisp[s]
    /\ reqPc[s] = "stored" => stored[s] = reqDisp[s]

\* No more goroutines wait than requests were accepted.
ReleasePerRequest == \A s \in Sessions : cleanups[s] <= reqs[s]

IInv ==
  /\ TypeOK
  /\ RequestPhase /\ HeldDisplay /\ ReleasePerRequest
  /\ DisplaysDistinct /\ EnabledHasDisplay /\ NumbersReused

----------------------------------------------------------------------------
(* The numbers findAvailableDisplay returns.                               *)

\* Displays are positive numbers.
LEMMA DisplayNumbers == /\ Displays \subseteq Nat
                        /\ NoDisplay \notin Displays
  BY X11Assumption DEF Displays, NoDisplay

\* findAvailableDisplay never returns a number above Offset plus the number of
\* sessions: each smaller one is held by a session of its own.
LEMMA AvailableBound ==
  ASSUME TypeOK, NEW d \in Displays, Available(d)
  PROVE  d <= Offset + Cardinality(Sessions)
<1> DEFINE Below == Offset..(d - 1)
           holder == [e \in Below |-> CHOOSE s \in Sessions : displays[s] = e]
<1> USE X11Assumption
<1>1. d \in Nat /\ Offset \in Nat /\ Offset <= d
  BY DEF Displays
<1>2. \A e \in Below : \E s \in Sessions : displays[s] = e
  BY DEF Available, InUse
<1>3. \A e \in Below : holder[e] \in Sessions /\ displays[holder[e]] = e
  BY <1>2
<1>4. holder \in [Below -> Sessions]
  BY <1>3
<1>5. Cardinality(Sessions) \in Nat
  BY FS_CardinalityType
<1>6. IsFiniteSet(Below) /\ Cardinality(Below) = d - Offset
  <2>1. Offset \in Int /\ d - 1 \in Int
    BY <1>1
  <2>2. /\ IsFiniteSet(Offset..(d - 1))
        /\ Cardinality(Offset..(d - 1)) =
             IF Offset > d - 1 THEN 0 ELSE (d - 1) - Offset + 1
    BY <2>1, FS_Interval
  <2> QED BY <2>2, <1>1
<1>7. ~(Cardinality(Sessions) < Cardinality(Below))
  <2> SUFFICES ASSUME Cardinality(Sessions) < Cardinality(Below) PROVE FALSE
    OBVIOUS
  <2> HIDE DEF holder, Below
  <2>1. \E x, y \in Below : x # y /\ holder[x] = holder[y]
    BY <1>4, <1>6, FS_PigeonHole
  <2> QED BY <2>1, <1>3
<1> QED BY <1>1, <1>5, <1>6, <1>7

----------------------------------------------------------------------------
(* The inductive invariant.                                                *)

\* NewX11Handler: nobody holds anything.
LEMMA InitIInv == Init => IInv
<1> SUFFICES ASSUME Init PROVE IInv
  OBVIOUS
<1> USE X11Assumption DEF Init, NoDisplay
<1>1. Cardinality(Sessions) \in Nat
  BY FS_CardinalityType
<1>2. enabled \in [Sessions -> BOOLEAN]
  BY Zenon
<1>3. TypeOK
  BY <1>2 DEF TypeOK, ChanStates
<1>4. RequestPhase /\ HeldDisplay /\ ReleasePerRequest /\ DisplaysDistinct /\ EnabledHasDisplay
  BY DEF RequestPhase, HeldDisplay, ReleasePerRequest, DisplaysDistinct, EnabledHasDisplay
<1>5. NumbersReused
  BY <1>1 DEF NumbersReused
<1> QED BY <1>3, <1>4, <1>5 DEF IInv

\* The flag stays a Boolean.
LEMMA EnabledType ==
  ASSUME IInv, [Next]_vars PROVE enabled' \in [Sessions -> BOOLEAN]
<1> enabled \in [Sessions -> BOOLEAN]
  BY DEF IInv, TypeOK
<1>1. CASE \E s \in Sessions : StoreEnabled(s)
  BY <1>1, Zenon DEF StoreEnabled
<1>2. CASE UNCHANGED enabled
  BY <1>2
<1> QED BY <1>1, <1>2 DEF Next, SessionStep, vars, context, Connect, Disconnect,
           Allocate, StoreState, Cleanup, ValidateChannel, ReadState, ConnectX11, EndCopy

\* Every step of the handlers and of the environment preserves the invariant.
LEMMA NextIInv == IInv /\ [Next]_vars => IInv'
<1> SUFFICES ASSUME IInv, [Next]_vars PROVE IInv'
  OBVIOUS
<1> USE X11Assumption, DisplayNumbers
    DEF IInv, RequestPhase, HeldDisplay, ReleasePerRequest, DisplaysDistinct, EnabledHasDisplay,
        request, context
<1>0. enabled' \in [Sessions -> BOOLEAN]
  BY EnabledType
<1>1. ASSUME NEW s \in Sessions, Connect(s) PROVE IInv'
  BY <1>0, <1>1 DEF Connect, TypeOK, NumbersReused
<1>2. ASSUME NEW s \in Sessions, Disconnect(s) PROVE IInv'
  BY <1>0, <1>2 DEF Disconnect, TypeOK, NumbersReused
<1>3. ASSUME NEW s \in Sessions, Allocate(s) PROVE IInv'
  <2>1. PICK d \in Displays : /\ Available(d)
                              /\ displays' = [displays EXCEPT ![s] = d]
                              /\ reqDisp' = [reqDisp EXCEPT ![s] = d]
    BY <1>3 DEF Allocate
  <2>2. d <= Offset + Cardinality(Sessions)
    BY <2>1, AvailableBound
  <2>3. TypeOK'
    <3>1. /\ displays' \in [Sessions -> Displays \cup {NoDisplay}]
          /\ reqDisp' \in [Sessions -> Displays \cup {NoDisplay}]
      BY <2>1 DEF TypeOK
    <3>2. /\ reqs' \in [Sessions -> 0..MaxReqs]
          /\ cleanups' \in [Sessions -> 0..MaxReqs]
      BY <1>3 DEF Allocate, TypeOK, ReleasePerRequest
    <3>3. /\ reqPc' \in [Sessions -> {"idle", "allocated", "stored"}]
          /\ UNCHANGED <<life, stored, chan>>
      BY <1>3 DEF Allocate, TypeOK
    <3> QED BY <1>0, <3>1, <3>2, <3>3 DEF TypeOK
  <2>4. RequestPhase' /\ HeldDisplay' /\ ReleasePerRequest'
    BY <1>3, <2>1 DEF Allocate, TypeOK
  <2>5. DisplaysDistinct'
    BY <1>3, <2>1 DEF Allocate, TypeOK, Available, InUse
  <2>6. EnabledHasDisplay'
    BY <1>3 DEF Allocate
  <2>7. NumbersReused'
    BY <2>1, <2>2 DEF NumbersReused, TypeOK
  <2> QED BY <2>3, <2>4, <2>5, <2>6, <2>7
<1>4. ASSUME NEW s \in Sessions, StoreState(s) PROVE IInv'
  BY <1>0, <1>4 DEF StoreState, TypeOK, NumbersReused
<1>5. ASSUME NEW s \in Sessions, StoreEnabled(s) PROVE IInv'
  BY <1>0, <1>5 DEF StoreEnabled, TypeOK, NumbersReused
<1>6. ASSUME NEW s \in Sessions, Cleanup(s) PROVE IInv'
  <2>1. TypeOK'
    BY <1>0, <1>6 DEF Cleanup, TypeOK
  <2>2. NumbersReused'
    <3>1. Cardinality(Sessions) \in Nat
      BY FS_CardinalityType
    <3> QED BY <1>6, <3>1 DEF Cleanup, NumbersReused, TypeOK, NoDisplay
  <2>3. RequestPhase' /\ HeldDisplay' /\ ReleasePerRequest' /\ DisplaysDistinct' /\ EnabledHasDisplay'
    BY <1>6 DEF Cleanup, TypeOK
  <2> QED BY <2>1, <2>2, <2>3
<1>7. ASSUME NEW c \in Chans, NEW s \in Sessions, ValidateChannel(c, s) PROVE IInv'
  BY <1>0, <1>7 DEF ValidateChannel, TypeOK, ChanStates, NumbersReused
<1>8. ASSUME NEW c \in Chans, ReadState(c) PROVE IInv'
  <2>1. /\ chan' \in [Chans -> [pc : ChanStates, sess : Sessions,
                               disp : Displays \cup {NoDisplay}]]
        /\ \A k \in Chans : chan'[k].pc = "validated" => chan'[k] = chan[k]
    <3> DEFINE d == stored[chan[c].sess]
    <3>1. d \in Displays \cup {NoDisplay}
      BY DEF TypeOK
    <3>2. CASE d = NoDisplay
      BY <1>8, <3>2 DEF ReadState, TypeOK, ChanStates
    <3>3. CASE d # NoDisplay
      <4>1. chan' = [chan EXCEPT ![c] =
                       [pc |-> "accepted", sess |-> chan[c].sess, disp |-> d]]
        BY <1>8, <3>3 DEF ReadState
      <4> HIDE DEF d
      <4> QED BY <3>1, <4>1 DEF TypeOK, ChanStates
    <3> QED BY <3>2, <3>3
  <2> QED BY <1>0, <1>8, <2>1 DEF ReadState, TypeOK, NumbersReused
<1>9. ASSUME NEW c \in Chans, ConnectX11(c) PROVE IInv'
  <2>1. /\ chan' \in [Chans -> [pc : ChanStates, sess : Sessions,
                               disp : Displays \cup {NoDisplay}]]
        /\ \A k \in Chans : chan'[k].pc = "validated" => chan'[k] = chan[k]
    BY <1>9 DEF ConnectX11, TypeOK, ChanStates
  <2> QED BY <1>0, <1>9, <2>1 DEF ConnectX11, TypeOK, NumbersReused
<1>10. ASSUME NEW c \in Chans, EndCopy(c) PROVE IInv'
  <2>1. /\ chan' \in [Chans -> [pc : ChanStates, sess : Sessions,
                               disp : Displays \cup {NoDisplay}]]
        /\ \A k \in Chans : chan'[k].pc = "validated" => chan'[k] = chan[k]
    BY <1>10 DEF EndCopy, TypeOK, ChanStates
  <2> QED BY <1>0, <1>10, <2>1 DEF EndCopy, TypeOK, NumbersReused
<1>11. CASE UNCHANGED vars
  BY <1>11 DEF vars, TypeOK, NumbersReused
<1> QED BY <1>1, <1>2, <1>3, <1>4, <1>5, <1>6, <1>7, <1>8, <1>9, <1>10, <1>11
        DEF Next, SessionStep

\* The invariant is the state of every behaviour of the handlers.
LEMMA Invariance == Spec => []IInv
  BY InitIInv, NextIInv, PTL DEF Spec

----------------------------------------------------------------------------
(* Theorems.                                                               *)

\* The map, the context values and the channels keep their types.
THEOREM TypeCorrect == Spec => []TypeOK
<1>1. IInv => TypeOK
  BY DEF IInv
<1> QED BY Invariance, <1>1, PTL

\* Two sessions never hold the same display, whatever was released before.
THEOREM DistinctDisplays == Spec => []DisplaysDistinct
<1>1. IInv => DisplaysDistinct
  BY DEF IInv
<1> QED BY Invariance, <1>1, PTL

\* A channel of a session with forwarding enabled always finds a display.
THEOREM ChannelsFindDisplay == Spec => []EnabledHasDisplay
<1>1. IInv => EnabledHasDisplay
  BY DEF IInv
<1> QED BY Invariance, <1>1, PTL

\* Between requests a live session's stored display is the one it holds.
THEOREM StoredIsHeld == Spec => []StoredDisplayIsHeld
<1>1. IInv => StoredDisplayIsHeld
  BY DEF IInv, HeldDisplay, StoredDisplayIsHeld
<1> QED BY Invariance, <1>1, PTL

\* Display numbers are bounded by the number of sessions, not by the number of
\* requests ever served.
THEOREM DisplaysBounded == Spec => []NumbersReused
<1>1. IInv => NumbersReused
  BY DEF IInv
<1> QED BY Invariance, <1>1, PTL
=============================================================================
