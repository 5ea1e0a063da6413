------------------------------ MODULE Lifecycle ------------------------------
(***************************************************************************)
(* The life of a terrashine server from its start to its exit: main        *)
(* (src/main.rs), run_server and serve (src/lib.rs).                       *)
(*                                                                         *)
(* The accept loop and the refresher run side by side until a signal       *)
(* cancels both.  The loop then takes no more connections and waits for    *)
(* the tasks of those it has; the refresher ends between two refreshes;    *)
(* and the process exits once both are over.  Connections are kept alive:  *)
(* a connection's task lives until its client closes it, however many      *)
(* requests it carries, one at a time in HTTP/1 and any number in HTTP/2.  *)
(*                                                                         *)
(* Of the handlers only this is kept: a request is answered, for which it  *)
(* may first need the refresher (module Refresher).                        *)
(***************************************************************************)
CONSTANTS Connections,   \* clients' connections, used again when closed
          Streams,       \* the requests a connection carries at a time
          NULL

Requests == Connections \X Streams

ASSUME NullAssumption == NULL \notin Requests

VARIABLES
  connection,   \* state of each connection
  request,      \* state of the request on each stream of a connection
  server,       \* what serve is doing
  refresher,    \* what the refresher is doing
  serving,      \* the request it is refreshing for
  cancelled,    \* the token of main, and its children
  process

vars == <<connection, request, server, refresher, serving, cancelled, process>>

\* backlog: established and not accepted; asking: waits for the refresher; told:
\* and has its answer, or knows that there will be none.
ConnectionStates == {"closed", "backlog", "open"}
RequestStates    == {"none", "sent", "asking", "told"}

TypeOK ==
  /\ connection \in [Connections -> ConnectionStates]
  /\ request    \in [Requests -> RequestStates]
  /\ \A r \in Requests : request[r] # "none" => connection[r[1]] = "open"
  /\ server     \in {"accepting", "draining", "ended"}
  /\ refresher  \in {"select", "refreshing", "stopped"}
  /\ serving    \in Requests \cup {NULL}
  /\ serving # NULL => refresher = "refreshing" /\ request[serving] = "asking"
  /\ cancelled  \in BOOLEAN
  /\ process    \in {"running", "exited"}

Init ==
  /\ connection = [c \in Connections |-> "closed"]
  /\ request    = [r \in Requests |-> "none"]
  /\ server     = "accepting"
  /\ refresher  = "select"
  /\ serving    = NULL
  /\ cancelled  = FALSE
  /\ process    = "running"

Becomes(c, state) == connection' = [connection EXCEPT ![c] = state]
Turns(r, state)   == request' = [request EXCEPT ![r] = state]

\* The handlers of these requests are dropped, with the receivers they wait on.
Dropped(requests) ==
  /\ request' = [r \in Requests |-> IF r \in requests THEN "none" ELSE request[r]]
  /\ serving' = IF serving \in requests THEN NULL ELSE serving

(***************************************************************************)
(* Clients.                                                                *)
(***************************************************************************)

\* The listener lives as long as serve: it also takes connections that will
\* not be accepted any more.
Connect(c) ==
  /\ connection[c] = "closed"
  /\ server # "ended"
  /\ Becomes(c, "backlog")
  /\ UNCHANGED <<request, server, refresher, serving, cancelled, process>>

SendRequest(r) ==
  /\ connection[r[1]] = "open"
  /\ request[r] = "none"
  /\ Turns(r, "sent")
  /\ UNCHANGED <<connection, server, refresher, serving, cancelled, process>>

\* The reset of one stream of an HTTP/2 connection.
ResetStream(r) ==
  /\ request[r] # "none"
  /\ Dropped({r})
  /\ UNCHANGED <<connection, server, refresher, cancelled, process>>

\* With the connection its task ends, and the handlers of all its requests: those of
\* HTTP/2 are tasks of their own, and end with the reset of their streams.
CloseConnection(c) ==
  /\ connection[c] # "closed"
  /\ Becomes(c, "closed")
  /\ Dropped({c} \X Streams)
  /\ UNCHANGED <<server, refresher, cancelled, process>>

(***************************************************************************)
(* Handlers.                                                               *)
(***************************************************************************)
Respond(r) ==
  /\ request[r] \in {"sent", "told"}
  /\ Turns(r, "none")
  /\ UNCHANGED <<connection, server, refresher, serving, cancelled, process>>

\* Once the refresher has stopped, the handler finds its channel closed.
AskRefresher(r) ==
  /\ request[r] = "sent"
  /\ refresher # "stopped"
  /\ Turns(r, "asking")
  /\ UNCHANGED <<connection, server, refresher, serving, cancelled, process>>

(***************************************************************************)
(* serve.                                                                  *)
(***************************************************************************)
Accept(c) ==
  /\ server = "accepting"
  /\ connection[c] = "backlog"
  /\ Becomes(c, "open")
  /\ UNCHANGED <<request, server, refresher, serving, cancelled, process>>

StopAccepting ==
  /\ cancelled
  /\ server = "accepting"
  /\ server' = "draining"
  /\ UNCHANGED <<connection, request, refresher, serving, cancelled, process>>

\* The connections that have a task in join_set.
Open == {c \in Connections : connection[c] = "open"}

\* Mutant: the tasks are dropped with the set.
MutantDropTasks ==
  /\ server = "draining"
  /\ server' = "ended"
  /\ UNCHANGED <<connection, request, refresher, serving, cancelled, process>>

Drained ==
  /\ server = "draining"
  /\ Open = {}
  /\ server' = "ended"
  /\ UNCHANGED <<connection, request, refresher, serving, cancelled, process>>

(***************************************************************************)
(* refresher.                                                              *)
(***************************************************************************)

\* For a request, or for one that was answered already.
StartRefresh ==
  /\ refresher = "select"
  /\ refresher' = "refreshing"
  /\ serving' \in {r \in Requests : request[r] = "asking"} \cup {NULL}
  /\ UNCHANGED <<connection, request, server, cancelled, process>>

\* Mutant: the sender is not given up with the answer.
MutantKeepSender ==
  /\ refresher = "refreshing"
  /\ refresher' = "select"
  /\ request' = [r \in Requests |-> IF r = serving THEN "told" ELSE request[r]]
  /\ UNCHANGED <<connection, server, serving, cancelled, process>>

EndRefresh ==
  /\ refresher = "refreshing"
  /\ refresher' = "select"
  /\ serving' = NULL
  /\ request' = [r \in Requests |-> IF r = serving THEN "told" ELSE request[r]]
  /\ UNCHANGED <<connection, server, cancelled, process>>

\* Mutant: the refresher has a token that nothing cancels.
MutantTokenOfItsOwn ==
  /\ process = "exited"
  /\ refresher' = "stopped"
  /\ UNCHANGED <<connection, request, server, serving, cancelled, process>>

\* Mutant: the channel lives on in what started the refresher.
MutantKeepChannel ==
  /\ cancelled
  /\ refresher = "select"
  /\ refresher' = "stopped"
  /\ UNCHANGED <<connection, request, server, serving, cancelled, process>>

\* The channel goes with the refresher, and the handlers that wait are told.
StopRefresher ==
  /\ cancelled
  /\ refresher = "select"
  /\ refresher' = "stopped"
  /\ request' = [r \in Requests |-> IF request[r] = "asking" THEN "told" ELSE request[r]]
  /\ UNCHANGED <<connection, server, serving, cancelled, process>>

(***************************************************************************)
(* main.                                                                   *)
(***************************************************************************)

\* SIGTERM or SIGINT.  The task that waits for them ends with the first.
Signal ==
  /\ process = "running"
  /\ ~cancelled
  /\ cancelled' = TRUE
  /\ UNCHANGED <<connection, request, server, refresher, serving, process>>

\* What is left in the listener's backlog is reset.
Exit ==
  /\ process = "running"
  /\ server = "ended" /\ refresher = "stopped"
  /\ process' = "exited"
  /\ connection' = [c \in Connections |-> "closed"]
  /\ UNCHANGED <<request, server, refresher, serving, cancelled>>

Next ==
  \/ \E c \in Connections : Connect(c) \/ Accept(c) \/ CloseConnection(c)
  \/ \E r \in Requests : SendRequest(r) \/ ResetStream(r) \/ AskRefresher(r) \/ Respond(r)
  \/ StopAccepting \/ Drained
  \/ StartRefresh \/ EndRefresh \/ StopRefresher
  \/ Signal \/ Exit

Spec == Init /\ [][Next]_vars

(***************************************************************************)
(* Fairness.  Tasks that can proceed are polled, a refresh ends (the HTTP  *)
(* client and the pool have timeouts), the refresher takes up each message *)
(* in its turn, and a select! that finds the cancellation ready again and  *)
(* again takes it.  Nothing is assumed of clients.                         *)
(***************************************************************************)
TakesUp(r) == StartRefresh /\ serving' = r

Fairness ==
  /\ \A r \in Requests : WF_vars(Respond(r) \/ AskRefresher(r)) /\ SF_vars(TakesUp(r))
  /\ SF_vars(StopAccepting) /\ SF_vars(StopRefresher)
  /\ WF_vars(EndRefresh) /\ WF_vars(Drained) /\ WF_vars(Exit)

FairSpec == Spec /\ Fairness

-----------------------------------------------------------------------------
(***************************************************************************)
(* Properties.                                                             *)
(***************************************************************************)

\* A shutdown cuts no request off, on whichever of a connection's streams it is:
\* serve only ends, and so the process only exits, when none is left and none
\* can come.
ShutdownCutsNothing ==
  server = "ended" => Open = {} /\ \A r \in Requests : request[r] = "none"

\* The refresher stops for a signal only, and no handler is left with an answer
\* to wait for that nobody will send: the senders, those in the channel too, go
\* with it, and a request that comes later finds the channel closed.
NoOneWaitsInVain ==
  refresher = "stopped" => cancelled /\ \A r \in Requests : request[r] # "asking"

\* Every request is answered or given up by its client, also one that waits
\* for the refresher when the refresher ends.
RequestsAnswered == \A r \in Requests : request[r] = "sent" ~> request[r] = "none"

\* After a signal the process exits, if every client closes its connection in
\* the end; that clients go on connecting does not hold it up.
ClientsLeave == \A c \in Connections : SF_vars(CloseConnection(c))

ShutdownEnds == ClientsLeave => (cancelled ~> process = "exited")

\* src/lib.rs:92, on what serve does after the cancellation: "wait until all
\* requests are done".  Once there are none any more, the process exits.
RequestsDone == \A r \in Requests : request[r] = "none"

ExitsWhenRequestsDone == [](cancelled /\ []RequestsDone => <>(process = "exited"))
==============================================================================
