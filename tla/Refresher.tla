------------------------------ MODULE Refresher ------------------------------
(***************************************************************************)
(* GET /mirror/:hostname/:namespace/:type/index.json (src/http/index.rs)   *)
(* and the refresher task (src/refresh.rs) of one terrashine instance.     *)
(*                                                                         *)
(* A request for a provider with stored versions is answered from the      *)
(* database and leaves a message for the refresher behind; any other       *)
(* request sends a message with a oneshot channel and waits for the        *)
(* refresher's answer.  The refresher takes messages from a bounded mpsc   *)
(* channel one at a time, asks the upstream registry and stores what it    *)
(* lists, at most once per refresh interval and provider.                  *)
(*                                                                         *)
(* Around it: other instances store versions in the shared database, the   *)
(* registry serves any list at any time or fails, clients disconnect, the  *)
(* instance is told to shut down, and the process dies and starts again.   *)
(***************************************************************************)
EXTENDS Naturals, Sequences

CONSTANTS Requests,     \* slots for index requests in flight, used again
          Providers,    \* hostname, namespace and type
          Versions,     \* version numbers a registry lists
          QueueCap,     \* capacity of the mpsc channel (10000 in run_server)
          ListFaults,   \* whether the select of the stored versions may fail
          NULL

ASSUME QueueCapAssumption   == QueueCap \in Nat \ {0}
ASSUME ListFaultsAssumption == ListFaults \in BOOLEAN

VARIABLES
  db,            \* versions with rows in terraform_provider_version
  known,         \* providers with a row in terraform_provider
  queue,         \* the mpsc channel
  task,          \* what the refresher task is doing
  last_refresh,  \* age of each provider's entry in the task's map
  cancelled,     \* the instance's cancellation token
  pc,            \* where each request stands in index_handler
  prov,          \* the provider it asks for
  reply,         \* what its oneshot channel holds
  outcome,       \* how it ended
  index,         \* the versions listed in its answer, a member of Lists
  seen,          \* auxiliary: the stored versions when it arrived
  wasKnown       \* auxiliary: its provider had a row when it arrived

taskVars    == <<queue, task, last_refresh>>
requestVars == <<pc, prov, reply, outcome, index, seen, wasKnown>>
vars        == <<db, known, taskVars, cancelled, requestVars>>

\* What a registry lists at one time: versions, and which of them with platforms,
\* for only those get rows.
Lists == {list \in [versions : SUBSET Versions, packaged : SUBSET Versions] :
            list.packaged \subseteq list.versions}

Stored(versions) == [versions |-> versions, packaged |-> versions]
Nothing          == Stored({})

Message == [provider : Providers, response_channel : Requests \cup {NULL}]

\* RefreshResponse, and "closed" for a sender dropped unused.
Reply == [kind : {"performed", "failed", "not_stale", "closed"}, list : Lists]
ASSUME NullAssumption == NULL \notin Requests /\ NULL \notin Providers /\ NULL \notin Reply

Closed == [kind |-> "closed", list |-> Nothing]

Idle    == [phase |-> "select", provider |-> NULL, response_channel |-> NULL, result |-> Nothing]
Stopped == [Idle EXCEPT !.phase = "stopped"]

Outcomes == {"none", "index", "upstream_error", "concurrent_fetch", "too_many_requests",
             "broken_channel", "dropped"}

TypeOK ==
  /\ db    \in [Providers -> SUBSET Versions]
  /\ known \subseteq Providers
  /\ queue \in Seq(Message)
  /\ Len(queue) <= QueueCap
  /\ task \in [phase : {"select", "fetch", "store", "stored", "stopped"},
               provider : Providers \cup {NULL},
               response_channel : Requests \cup {NULL},
               result : Lists]
  /\ task.phase \in {"fetch", "store", "stored"} => task.provider \in Providers
  /\ last_refresh \in [Providers -> {"vacant", "fresh", "stale"}]
  /\ cancelled \in BOOLEAN
  /\ pc       \in [Requests -> {"idle", "list", "send", "await", "done"}]
  /\ prov     \in [Requests -> Providers]
  /\ reply    \in [Requests -> Reply \cup {NULL}]
  /\ outcome  \in [Requests -> Outcomes]
  /\ index    \in [Requests -> Lists]
  /\ seen     \in [Requests -> SUBSET Versions]
  /\ wasKnown \in [Requests -> BOOLEAN]

Init ==
  /\ db    = [p \in Providers |-> {}]
  /\ known = {}
  /\ queue = <<>>
  /\ task  = Idle
  /\ last_refresh = [p \in Providers |-> "vacant"]
  /\ cancelled = FALSE
  /\ pc       = [r \in Requests |-> "idle"]
  /\ prov     \in [Requests -> Providers]
  /\ reply    = [r \in Requests |-> NULL]
  /\ outcome  = [r \in Requests |-> "none"]
  /\ index    = [r \in Requests |-> Nothing]
  /\ seen     = [r \in Requests |-> {}]
  /\ wasKnown = [r \in Requests |-> FALSE]

\* Mutant: what the registry lists replaces the stored versions.
MutantReplace(p, list) ==
  /\ db'    = [db EXCEPT ![p] = list.packaged]
  /\ known' = known \cup {p}

(***************************************************************************)
(* store_provider_versions, as one transaction (CatalogStore has its       *)
(* steps): the provider's row is upserted and its listed versions are      *)
(* merged into the stored ones.  A version without platforms has no row.   *)
(***************************************************************************)
Merge(p, list) ==
  /\ db'    = [db EXCEPT ![p] = @ \cup list.packaged]
  /\ known' = known \cup {p}

OtherInstanceStores(p, list) ==
  /\ Merge(p, list)
  /\ UNCHANGED <<taskVars, cancelled, requestVars>>

(***************************************************************************)
(* index_handler.                                                          *)
(***************************************************************************)
Goto(r, l) == pc' = [pc EXCEPT ![r] = l]

Respond(r, o, list) ==
  /\ Goto(r, "done")
  /\ outcome'  = [outcome EXCEPT ![r] = o]
  /\ index'    = [index EXCEPT ![r] = list]
  /\ seen'     = [seen EXCEPT ![r] = {}]
  /\ wasKnown' = [wasKnown EXCEPT ![r] = FALSE]
  /\ UNCHANGED prov

Request(r, p) ==
  /\ pc[r] \in {"idle", "done"}
  /\ Goto(r, "list")
  /\ prov'     = [prov EXCEPT ![r] = p]
  /\ outcome'  = [outcome EXCEPT ![r] = "none"]
  /\ index'    = [index EXCEPT ![r] = Nothing]
  /\ seen'     = [seen EXCEPT ![r] = db[p]]
  /\ wasKnown' = [wasKnown EXCEPT ![r] = p \in known]
  /\ UNCHANGED <<db, known, taskVars, cancelled, reply>>

Sendable == task.phase # "stopped" /\ Len(queue) < QueueCap

\* Mutant: an unbounded channel.
MutantSendAlways(p) ==
  queue' = IF task.phase # "stopped"
           THEN Append(queue, [provider |-> p, response_channel |-> NULL]) ELSE queue

\* try_send: without waiting, and with the error ignored.
TrySend(p) ==
  queue' = IF Sendable THEN Append(queue, [provider |-> p, response_channel |-> NULL])
                       ELSE queue

\* Mutant: the message is sent with send, which waits for room.
MutantWaitForRoom(r) ==
  /\ pc[r] = "list"
  /\ db[prov[r]] # {}
  /\ Len(queue) < QueueCap \/ task.phase = "stopped"
  /\ TrySend(prov[r])
  /\ Respond(r, "index", Stored(db[prov[r]]))
  /\ UNCHANGED <<db, known, task, last_refresh, cancelled, reply>>

ListStored(r) ==
  /\ pc[r] = "list"
  /\ db[prov[r]] # {}
  /\ TrySend(prov[r])
  /\ Respond(r, "index", Stored(db[prov[r]]))
  /\ UNCHANGED <<db, known, task, last_refresh, cancelled, reply>>

\* No rows, or an error of the query: ask the refresher.
ListNothing(r) ==
  /\ pc[r] = "list"
  /\ db[prov[r]] = {} \/ ListFaults
  /\ Goto(r, "send")
  /\ UNCHANGED <<db, known, taskVars, cancelled, prov, reply, outcome, index, seen, wasKnown>>

SendMessage(r) ==
  /\ pc[r] = "send"
  /\ Sendable
  /\ queue' = Append(queue, [provider |-> prov[r], response_channel |-> r])
  /\ Goto(r, "await")
  /\ UNCHANGED <<db, known, task, last_refresh, cancelled, prov, reply, outcome, index, seen,
                 wasKnown>>

\* send_timeout gives up after a second during which the channel stayed full.
SendTimesOut(r) ==
  /\ pc[r] = "send"
  /\ task.phase # "stopped"
  /\ Len(queue) >= QueueCap
  /\ Respond(r, "too_many_requests", Nothing)
  /\ UNCHANGED <<db, known, taskVars, cancelled, reply>>

SendFindsClosed(r) ==
  /\ pc[r] = "send"
  /\ task.phase = "stopped"
  /\ Respond(r, "broken_channel", Nothing)
  /\ UNCHANGED <<db, known, taskVars, cancelled, reply>>

OutcomeOf(kind) ==
  CASE kind = "performed" -> "index"
    [] kind = "failed"    -> "upstream_error"
    [] kind = "not_stale" -> "concurrent_fetch"
    [] kind = "closed"    -> "broken_channel"

ReceiveReply(r) ==
  /\ pc[r] = "await"
  /\ reply[r] # NULL
  /\ Respond(r, OutcomeOf(reply[r].kind), reply[r].list)
  /\ reply' = [reply EXCEPT ![r] = NULL]
  /\ UNCHANGED <<db, known, taskVars, cancelled>>

\* The client goes away and the handler is dropped.  A message it has sent
\* stays; its sender, whose receiver is gone, does what no sender does.
Without(q, r) ==
  [i \in DOMAIN q |-> IF q[i].response_channel = r
                      THEN [q[i] EXCEPT !.response_channel = NULL] ELSE q[i]]

Disconnect(r) ==
  /\ pc[r] \in {"list", "send", "await"}
  /\ queue' = Without(queue, r)
  /\ task' = [task EXCEPT !.response_channel = IF @ = r THEN NULL ELSE @]
  /\ reply' = [reply EXCEPT ![r] = NULL]
  /\ Respond(r, "dropped", Nothing)
  /\ UNCHANGED <<db, known, last_refresh, cancelled>>

(***************************************************************************)
(* The refresher task.                                                     *)
(***************************************************************************)
Answer(channel, kind, list) ==
  reply' = IF channel = NULL THEN reply
           ELSE [reply EXCEPT ![channel] = [kind |-> kind, list |-> list]]

\* Mutant: nothing is sent when nothing is fetched, and the sender is leaked.
MutantSilent ==
  /\ task.phase = "select"
  /\ queue # <<>>
  /\ last_refresh[Head(queue).provider] = "fresh"
  /\ queue' = Tail(queue)
  /\ UNCHANGED <<db, known, task, last_refresh, cancelled, requestVars>>

\* An entry that has not aged past the interval: nothing is fetched.
ReceiveFresh ==
  /\ task.phase = "select"
  /\ queue # <<>>
  /\ last_refresh[Head(queue).provider] = "fresh"
  /\ queue' = Tail(queue)
  /\ Answer(Head(queue).response_channel, "not_stale", Nothing)
  /\ UNCHANGED <<db, known, task, last_refresh, cancelled, pc, prov, outcome, index, seen,
                 wasKnown>>

ReceiveStale ==
  /\ task.phase = "select"
  /\ queue # <<>>
  /\ last_refresh[Head(queue).provider] # "fresh"
  /\ queue' = Tail(queue)
  /\ task'  = [phase |-> "fetch", provider |-> Head(queue).provider,
               response_channel |-> Head(queue).response_channel, result |-> Nothing]
  /\ UNCHANGED <<db, known, last_refresh, cancelled, requestVars>>

\* Mutant: a failed first fetch gets an entry as well.
MutantClockAlways(p, ok) == last_refresh' = [last_refresh EXCEPT ![p] = "fresh"]

\* The clock of a provider the map has is restarted by a failure too.
RestartClock(p, ok) ==
  last_refresh' = [last_refresh EXCEPT ![p] = IF ok \/ @ # "vacant" THEN "fresh" ELSE @]

Finish(ok) ==
  /\ RestartClock(task.provider, ok)
  /\ Answer(task.response_channel, IF ok THEN "performed" ELSE "failed",
            IF ok THEN task.result ELSE Nothing)
  /\ task' = Idle
  /\ UNCHANGED <<queue, cancelled, pc, prov, outcome, index, seen, wasKnown>>

FetchSucceeds(list) ==
  /\ task.phase = "fetch"
  /\ task' = [task EXCEPT !.phase = "store", !.result = list]
  /\ UNCHANGED <<db, known, queue, last_refresh, cancelled, requestVars>>

\* The registry's error or refusal, or the client's timeout of 60 seconds.
FetchFails ==
  /\ task.phase = "fetch"
  /\ Finish(FALSE)
  /\ UNCHANGED <<db, known>>

StoreCommits ==
  /\ task.phase = "store"
  /\ Merge(task.provider, task.result)
  /\ task' = [task EXCEPT !.phase = "stored"]
  /\ UNCHANGED <<queue, last_refresh, cancelled, requestVars>>

StoreAnswered ==
  /\ task.phase = "stored"
  /\ Finish(TRUE)
  /\ UNCHANGED <<db, known>>

\* Mutant: the error of the transaction is logged and passed over.
MutantIgnoreError ==
  /\ task.phase \in {"store", "stored"}
  /\ Finish(TRUE)
  /\ UNCHANGED <<db, known>>

\* The transaction fails, or commits and the answer is lost.
StoreFails ==
  /\ task.phase \in {"store", "stored"}
  /\ Finish(FALSE)
  /\ UNCHANGED <<db, known>>

IntervalPasses(p) ==
  /\ last_refresh[p] = "fresh"
  /\ last_refresh' = [last_refresh EXCEPT ![p] = "stale"]
  /\ UNCHANGED <<db, known, queue, task, cancelled, requestVars>>

\* A message of q holds the sender of r's channel.
Carries(q, r)   == \E i \in DOMAIN q : q[i].response_channel = r

\* Mutant: the receiver outlives the task.
MutantKeepQueue ==
  /\ cancelled
  /\ task.phase = "select"
  /\ task' = Stopped
  /\ UNCHANGED <<db, known, queue, reply, last_refresh, cancelled, pc, prov, outcome, index, seen,
                 wasKnown>>

\* Mutant: a biased select! that empties the channel first.
MutantDrainFirst ==
  /\ cancelled
  /\ task.phase = "select"
  /\ queue = <<>>
  /\ task' = Stopped
  /\ UNCHANGED <<db, known, queue, reply, last_refresh, cancelled, pc, prov, outcome, index, seen,
                 wasKnown>>

\* select! takes the cancelled branch; the receiver goes with the function,
\* and the queued messages with the receiver.
Stop ==
  /\ cancelled
  /\ task.phase = "select"
  /\ task'  = Stopped
  /\ queue' = <<>>
  /\ reply' = [r \in Requests |->
                 IF Carries(queue, r) THEN Closed ELSE reply[r]]
  /\ UNCHANGED <<db, known, last_refresh, cancelled, pc, prov, outcome, index, seen, wasKnown>>

Cancel ==
  /\ ~cancelled
  /\ cancelled' = TRUE
  /\ UNCHANGED <<db, known, taskVars, requestVars>>

\* The process ends, by a crash or after a shutdown, and is started again:
\* only the database is left.
Restart ==
  /\ queue' = <<>>
  /\ task'  = Idle
  /\ last_refresh' = [p \in Providers |-> "vacant"]
  /\ cancelled' = FALSE
  /\ pc'      = [r \in Requests |-> IF pc[r] = "idle" THEN "idle" ELSE "done"]
  /\ outcome' = [r \in Requests |->
                   IF pc[r] \in {"list", "send", "await"} THEN "dropped" ELSE outcome[r]]
  /\ reply'   = [r \in Requests |-> NULL]
  /\ seen'    = [r \in Requests |-> {}]
  /\ wasKnown' = [r \in Requests |-> FALSE]
  /\ UNCHANGED <<db, known, prov, index>>

Handler(r) ==
  \/ ListStored(r) \/ ListNothing(r)
  \/ SendMessage(r) \/ SendTimesOut(r) \/ SendFindsClosed(r)
  \/ ReceiveReply(r)

Fetch == FetchFails \/ \E list \in Lists : FetchSucceeds(list)

Store == StoreCommits \/ StoreAnswered \/ StoreFails

Receive == ReceiveFresh \/ ReceiveStale

Next ==
  \/ \E p \in Providers, list \in Lists : OtherInstanceStores(p, list)
  \/ \E r \in Requests : (\E p \in Providers : Request(r, p)) \/ Handler(r) \/ Disconnect(r)
  \/ Receive \/ Fetch \/ Store
  \/ \E p \in Providers : IntervalPasses(p)
  \/ Cancel \/ Stop \/ Restart

Spec == Init /\ [][Next]_vars

(***************************************************************************)
(* Fairness.  The runtime polls every task that can proceed, and Postgres  *)
(* answers or the connection fails.  select! polls its ready branches in   *)
(* random order, so a cancellation seen ready again and again is taken.    *)
(* That the registry answers is an assumption of its own: the HTTP client  *)
(* gives up after 60 seconds, and what holds without it holds in an outage *)
(* in which every refresh takes its full time.                             *)
(***************************************************************************)
Fairness ==
  /\ \A r \in Requests : WF_vars(Handler(r))
  /\ WF_vars(Receive)
  /\ WF_vars(Store)
  /\ SF_vars(Stop)

FairSpec == Spec /\ Fairness

UpstreamAnswers == WF_vars(Fetch)

-----------------------------------------------------------------------------
(***************************************************************************)
(* Properties.                                                             *)
(***************************************************************************)
Pending(r) == pc[r] \notin {"idle", "done"}

Refusals == {"upstream_error", "concurrent_fetch", "too_many_requests", "broken_channel"}

\* What a client sees of an instance: who waits, for what, and the answers.
Call(state, p, list) == [state |-> state, provider |-> p, list |-> list]

CallOf(r) ==
  IF Pending(r) THEN Call("waiting", prov[r], Stored(seen[r]))
  ELSE CASE outcome[r] = "index"     -> Call("index", prov[r], index[r])
         [] outcome[r] \in Refusals  -> Call("refused", NULL, Nothing)
         [] OTHER                    -> Call("none", NULL, Nothing)

Service == INSTANCE IndexService WITH
  Faulty <- ListFaults,
  call   <- [r \in Requests |-> CallOf(r)]

\* The handler, its messages and the refresher are, to a client, an index that
\* is read and answered in one step: an answer goes to the request that waits
\* for it and for the provider it asked for, is backed by the database, keeps
\* what was stored when the request was made, and is refused only if that was
\* nothing, whatever was sent, overtaken, dropped or restarted in between.
ImplementsService == Service!Spec

NoDuplicates(q) ==
  \A i, j \in DOMAIN q :
    q[i].response_channel = q[j].response_channel /\ i # j => q[i].response_channel = NULL

Addressed(q, asked) ==
  \A i \in DOMAIN q :
    q[i].response_channel # NULL => q[i].provider = asked[q[i].response_channel]

InQueue(r) == Carries(queue, r)
InTask(r)  == task.response_channel = r

\* A waiting handler can always be woken: exactly one sender of its oneshot
\* channel exists, in one queued message or in the refresher's hands, or the
\* channel already holds its answer.  A handler that does not wait has none,
\* so no answer is for a request that another one has replaced.
WaiterHasOneSender ==
  /\ \A r \in Requests :
       /\ pc[r] = "await" <=> InQueue(r) \/ InTask(r) \/ reply[r] # NULL
       /\ ~(InQueue(r) /\ InTask(r))
       /\ reply[r] # NULL => ~InQueue(r) /\ ~InTask(r)
  /\ NoDuplicates(queue)
  /\ task.phase \in {"select", "stopped"} => task.response_channel = NULL
  /\ task.phase = "stopped" => queue = <<>>

\* Terraform is never shown a version it could not then ask for: every version
\* of an answered index is stored, also when it comes from the registry's
\* response and not from the database, except those it lists without a platform.
AnswerIsStored ==
  \A r \in Requests : outcome[r] = "index" => index[r].packaged \subseteq db[prov[r]]

\* The refresher only holds back providers that are mirrored: it has no entry
\* for, and refuses no request as a concurrent fetch of, a provider that was
\* never stored; a failed first fetch is retried by the next request.
HeldBackOnlyIfKnown ==
  /\ \A p \in Providers : last_refresh[p] # "vacant" => p \in known
  /\ \A r \in Requests : outcome[r] = "concurrent_fetch" => prov[r] \in known

\* The strengthening that makes the invariants above inductive: a message and
\* the task are for the provider their waiter asked for, and what the task is
\* about to answer, or has answered, is backed by the database already.
AnswersBacked ==
  /\ Addressed(queue, prov)
  /\ task.response_channel # NULL => task.provider = prov[task.response_channel]
  /\ task.phase = "stored" => /\ task.provider \in known
                             /\ task.result.packaged \subseteq db[task.provider]
  /\ \A r \in Requests : reply[r] # NULL =>
       /\ reply[r].kind = "performed" => reply[r].list.packaged \subseteq db[prov[r]]
       /\ reply[r].kind = "not_stale" => prov[r] \in known

IInv ==
  /\ TypeOK
  /\ WaiterHasOneSender
  /\ AnswersBacked
  /\ AnswerIsStored
  /\ HeldBackOnlyIfKnown

\* README.md:14, providers do not disappear when their source is deleted: an
\* index lists every version that was mirrored when it was asked for.
ListedStaysListed ==
  [][\A r \in Requests :
       Pending(r) /\ outcome'[r] = "index" => seen[r] \subseteq index'[r].versions]_vars

\* index.rs:66, on asking the refresher and waiting for it: "This path only
\* occurs when a brand new provider index is first encountered."
NewPathOnlyForNew ==
  \A r \in Requests : pc[r] \in {"send", "await"} => ~wasKnown[r]

\* docs/src/mirror-refreshing.md:8: an outage of the registry does not affect
\* requests for mirrored providers; they get their index unless their client
\* goes away or the process ends.  Without UpstreamAnswers: a refresh may hold
\* the refresher for ever, and the channel may stay full.
MirroredAnswered ==
  \A r \in Requests :
    (pc[r] = "list" /\ seen[r] # {}) ~> (pc[r] = "done" /\ outcome[r] \in {"index", "dropped"})

\* Every request ends: whatever the channel's state, and though one refresher
\* serves all providers and may stop or be overtaken by a disconnect.
EveryRequestAnswered ==
  UpstreamAnswers => \A r \in Requests : pc[r] = "list" ~> pc[r] = "done"

\* A shutdown ends the refresher, also while requests keep filling its queue.
CancelStops ==
  UpstreamAnswers => (cancelled ~> (task.phase = "stopped" \/ ~cancelled))
==============================================================================
