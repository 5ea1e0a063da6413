---------------------------- MODULE LifecycleProofs -----------------------------
(***************************************************************************)
(* Proofs about Lifecycle, for any number of connections and of requests   *)
(* on each.                                                                *)
(***************************************************************************)
EXTENDS Lifecycle, TLAPS

LEMMA RequestFacts ==
  /\ \A c \in Connections, s \in Streams : <<c, s>> \in Requests /\ <<c, s>>[1] = c
  /\ \A r \in Requests : r[1] \in Connections
  /\ \A r \in Requests, c \in Connections : r \in {c} \X Streams <=> r[1] = c
BY DEF Requests

\* That no request outlives its connection at the exit needs that serve has drained.
LEMMA TypeStep == TypeOK /\ ShutdownCutsNothing /\ [Next]_vars => TypeOK'
<1> SUFFICES ASSUME TypeOK, ShutdownCutsNothing, [Next]_vars PROVE TypeOK'
  OBVIOUS
<1> USE DEF TypeOK, ConnectionStates, RequestStates
<1>1. ASSUME NEW c \in Connections, Connect(c) \/ Accept(c) PROVE TypeOK'
  BY <1>1, RequestFacts DEF Connect, Accept, Becomes
<1>2. ASSUME NEW c \in Connections, CloseConnection(c) PROVE TypeOK'
  BY <1>2, RequestFacts, NullAssumption DEF CloseConnection, Dropped, Becomes
<1>3. ASSUME NEW r \in Requests, SendRequest(r) \/ AskRefresher(r) \/ Respond(r) PROVE TypeOK'
  BY <1>3 DEF SendRequest, AskRefresher, Respond, Turns
<1>4. ASSUME NEW r \in Requests, ResetStream(r) PROVE TypeOK'
  BY <1>4, NullAssumption DEF ResetStream, Dropped
<1>5. CASE StopAccepting \/ Drained \/ Signal
  BY <1>5 DEF StopAccepting, Drained, Signal
<1>6. CASE StartRefresh
  BY <1>6 DEF StartRefresh
<1>7. CASE EndRefresh
  <2>1. \A r \in Requests : request'[r] = IF r = serving THEN "told" ELSE request[r]
    BY <1>7 DEF EndRefresh
  <2>2. \A r \in Requests : request'[r] # "none" => request[r] # "none"
    BY <1>7, <2>1, NullAssumption DEF EndRefresh
  <2> QED
    BY <1>7, <2>2 DEF EndRefresh
<1>8. CASE StopRefresher
  BY <1>8 DEF StopRefresher
<1>9. CASE Exit
  BY <1>9 DEF Exit, ShutdownCutsNothing
<1>10. CASE UNCHANGED vars
  BY <1>10 DEF vars
<1> QED
  BY <1>1, <1>2, <1>3, <1>4, <1>5, <1>6, <1>7, <1>8, <1>9, <1>10 DEF Next

\* serve has no way back: what is open when it ends would have to be opened
\* after the loop stopped accepting, and without a connection there is no request.
LEMMA ShutdownStep == TypeOK /\ TypeOK' /\ ShutdownCutsNothing /\ [Next]_vars => ShutdownCutsNothing'
<1> SUFFICES ASSUME TypeOK, TypeOK', ShutdownCutsNothing, [Next]_vars, server' = "ended"
             PROVE  Open' = {}
  BY RequestFacts DEF ShutdownCutsNothing, TypeOK, Open
<1> USE DEF Open, TypeOK
<1>1. CASE Drained
  BY <1>1 DEF Drained
<1>2. CASE server = "ended"
  <2>1. \A c \in Connections : connection[c] # "open"
    BY <1>2 DEF ShutdownCutsNothing
  <2>2. ASSUME NEW c \in Connections, Connect(c) \/ CloseConnection(c) PROVE Open' = {}
    BY <1>2, <2>1, <2>2 DEF Becomes, Connect, CloseConnection
  <2>3. CASE UNCHANGED connection
    BY <2>1, <2>3
  <2>4. CASE Exit
    BY <2>4 DEF Exit
  <2>5. UNCHANGED connection \/ Exit \/ \E c \in Connections : Connect(c) \/ CloseConnection(c)
    BY <1>2 DEF Next, vars, Accept, SendRequest, ResetStream, AskRefresher, Respond, StopAccepting,
         Drained, StartRefresh, EndRefresh, StopRefresher, Signal
  <2> QED
    BY <2>2, <2>3, <2>4, <2>5
<1>3. Drained \/ server = "ended"
  BY DEF Next, vars, Connect, Accept, CloseConnection, SendRequest, ResetStream, AskRefresher,
       Respond,
     StopAccepting, StartRefresh, EndRefresh, StopRefresher, Signal, Exit
<1> QED
  BY <1>1, <1>2, <1>3

\* The refresher has no way back either: what asks when it has stopped would have
\* to have begun before, and is told as it stops.
LEMMA WaitStep == TypeOK /\ NoOneWaitsInVain /\ [Next]_vars => NoOneWaitsInVain'
<1> SUFFICES ASSUME TypeOK, NoOneWaitsInVain, [Next]_vars, refresher' = "stopped"
             PROVE  cancelled' /\ \A r \in Requests : request'[r] # "asking"
  BY DEF NoOneWaitsInVain
<1> USE DEF TypeOK
<1>1. CASE refresher # "stopped"
  <2>1. StopRefresher
    BY <1>1 DEF Next, vars, Connect, Accept, CloseConnection, SendRequest, ResetStream,
         AskRefresher,
         Respond, StopAccepting, Drained, StartRefresh, EndRefresh, Signal, Exit
  <2> QED
    BY <2>1 DEF StopRefresher
<1>2. CASE refresher = "stopped"
  <2>1. cancelled /\ \A r \in Requests : request[r] # "asking"
    BY <1>2 DEF NoOneWaitsInVain
  <2>2. ASSUME NEW r \in Requests, SendRequest(r) \/ ResetStream(r) \/ Respond(r)
        PROVE  cancelled' /\ \A q \in Requests : request'[q] # "asking"
    BY <2>1, <2>2 DEF Turns, SendRequest, ResetStream, Respond, Dropped
  <2>3. ASSUME NEW c \in Connections, CloseConnection(c)
        PROVE  cancelled' /\ \A q \in Requests : request'[q] # "asking"
    BY <2>1, <2>3 DEF CloseConnection, Dropped
  <2>4. CASE UNCHANGED request /\ (cancelled => cancelled')
    BY <2>1, <2>4
  <2>5. \/ UNCHANGED request /\ (cancelled => cancelled')
        \/ \E r \in Requests : SendRequest(r) \/ ResetStream(r) \/ Respond(r)
        \/ \E c \in Connections : CloseConnection(c)
    BY <1>2 DEF Next, vars, Connect, Accept, AskRefresher, StopAccepting, Drained, StartRefresh,
         EndRefresh, StopRefresher, Signal, Exit
  <2> QED
    BY <2>2, <2>3, <2>4, <2>5
<1> QED
  BY <1>1, <1>2

IInv == TypeOK /\ ShutdownCutsNothing /\ NoOneWaitsInVain

LEMMA LifecycleInv == Spec => []IInv
<1>1. Init => IInv
  BY DEF Init, TypeOK, ConnectionStates, RequestStates, ShutdownCutsNothing, NoOneWaitsInVain, IInv
<1>2. IInv /\ [Next]_vars => IInv'
  BY TypeStep, ShutdownStep, WaitStep DEF IInv
<1> QED
  BY <1>1, <1>2, PTL DEF Spec

\* Types, and: a request lives on an open connection, and the refresher only ever
\* serves one that waits for it.
THEOREM TypeCorrect == Spec => []TypeOK
<1> QED
  BY LifecycleInv, PTL DEF IInv

\* serve only ends, and so the process only exits, when no connection has a task
\* and no stream a request: a shutdown cuts no request off.
THEOREM NothingCut == Spec => []ShutdownCutsNothing
<1> QED
  BY LifecycleInv, PTL DEF IInv

\* When the refresher stops, no request is left waiting for it, nor ever waits for
\* it again; and it only stops after a signal.
THEOREM WaitersAreTold == Spec => []NoOneWaitsInVain
<1> QED
  BY LifecycleInv, PTL DEF IInv

-----------------------------------------------------------------------------
(***************************************************************************)
(* What ShutdownEnds rests on, besides the fairness and clients that       *)
(* leave: a shutdown goes one way.                                         *)
(***************************************************************************)
NoWayBack ==
  /\ cancelled => cancelled'
  /\ server # "accepting" => server' # "accepting" /\ Open' \subseteq Open
  /\ server = "ended" => server' = "ended"
  /\ refresher = "stopped" => refresher' = "stopped"
  /\ process = "exited" => process' = "exited"

\* Once serve drains, no connection gets a task any more, though clients go on
\* connecting: its tasks become fewer and never more; and neither serve nor the
\* refresher nor main goes back to what it has left.
THEOREM ShutdownGoesOneWay == Spec => [][NoWayBack]_vars
<1>1. ASSUME TypeOK, [Next]_vars PROVE NoWayBack
  <2> USE DEF NoWayBack, TypeOK, Open, ConnectionStates
  <2>1. ASSUME NEW c \in Connections, Connect(c) \/ Accept(c) \/ CloseConnection(c)
        PROVE  NoWayBack
    BY <1>1, <2>1 DEF Becomes, Connect, Accept, CloseConnection
  <2>2. ASSUME NEW r \in Requests,
               SendRequest(r) \/ ResetStream(r) \/ AskRefresher(r) \/ Respond(r)
        PROVE  NoWayBack
    BY <2>2 DEF SendRequest, ResetStream, AskRefresher, Respond
  <2>3. CASE StopAccepting \/ Drained \/ Signal \/ StartRefresh \/ EndRefresh \/ StopRefresher
    BY <2>3 DEF StopAccepting, Drained, Signal, StartRefresh, EndRefresh, StopRefresher
  <2>4. CASE Exit
    BY <2>4 DEF Exit
  <2>5. CASE UNCHANGED vars
    BY <2>5 DEF vars
  <2> QED
    BY <1>1, <2>1, <2>2, <2>3, <2>4, <2>5 DEF Next
<1> QED
  BY <1>1, TypeCorrect, PTL DEF Spec
==============================================================================
