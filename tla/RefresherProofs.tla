--------------------------- MODULE RefresherProofs ---------------------------
(***************************************************************************)
(* Refresher for any number of requests, providers and versions and any    *)
(* capacity of the channel: the inductive invariant IInv and the safety    *)
(* properties it implies, the refinement of IndexService, and that no      *)
(* request is overtaken by a later one.                                    *)
(***************************************************************************)
EXTENDS Refresher, TLAPS

\* What the database lists, and nothing, are lists.
LEMMA StoredFacts ==
  /\ Nothing \in Lists /\ Nothing.versions = {} /\ Nothing.packaged = {}
  /\ \A versions \in SUBSET Versions :
       /\ Stored(versions) \in Lists
       /\ Stored(versions).versions = versions /\ Stored(versions).packaged = versions
  /\ \A list \in Lists : list.versions \subseteq Versions /\ list.packaged \subseteq Versions
BY DEF Nothing, Stored, Lists

\* Where the messages are after one is appended, and after the first is taken.
LEMMA AppendFacts ==
  ASSUME NEW q \in Seq(Message), NEW m \in Message
  PROVE  /\ Append(q, m) \in Seq(Message)
         /\ Len(Append(q, m)) = Len(q) + 1
         /\ DOMAIN Append(q, m) = DOMAIN q \cup {Len(q) + 1}
         /\ Len(q) + 1 \notin DOMAIN q
         /\ \A i \in DOMAIN q : Append(q, m)[i] = q[i]
         /\ Append(q, m)[Len(q) + 1] = m
OBVIOUS

LEMMA TailFacts ==
  ASSUME NEW q \in Seq(Message), q # <<>>
  PROVE  /\ Head(q) \in Message
         /\ Head(q) = q[1]
         /\ 1 \in DOMAIN q
         /\ Tail(q) \in Seq(Message)
         /\ Len(Tail(q)) = Len(q) - 1
         /\ \A i \in DOMAIN Tail(q) : i + 1 \in DOMAIN q /\ i + 1 # 1 /\ Tail(q)[i] = q[i + 1]
         /\ \A i \in DOMAIN q : i = 1 \/ (i - 1 \in DOMAIN Tail(q) /\ Tail(q)[i - 1] = q[i])
OBVIOUS

\* The same for the senders the messages hold.
LEMMA AppendQueue ==
  ASSUME NEW q \in Seq(Message), NEW m \in Message, NEW asked
  PROVE  /\ \A r \in Requests : Carries(Append(q, m), r) <=> Carries(q, r) \/ m.response_channel = r
         /\ NoDuplicates(q) /\ (m.response_channel = NULL \/ ~Carries(q, m.response_channel))
              => NoDuplicates(Append(q, m))
         /\ Addressed(q, asked) /\ (m.response_channel = NULL \/ m.provider = asked[m.response_channel])
              => Addressed(Append(q, m), asked)
BY AppendFacts DEF Carries, NoDuplicates, Addressed

LEMMA TailQueue ==
  ASSUME NEW q \in Seq(Message), NEW asked, q # <<>>, NoDuplicates(q), Addressed(q, asked)
  PROVE  /\ \A r \in Requests : Carries(q, r) <=> Carries(Tail(q), r) \/ Head(q).response_channel = r
         /\ \A r \in Requests : Head(q).response_channel = r => ~Carries(Tail(q), r)
         /\ NoDuplicates(Tail(q))
         /\ Addressed(Tail(q), asked)
         /\ Head(q).response_channel # NULL
              => Head(q).provider = asked[Head(q).response_channel]
<1>1. \A r \in Requests : Carries(q, r) <=> Carries(Tail(q), r) \/ Head(q).response_channel = r
  <2>1. ASSUME NEW r \in Requests, Carries(q, r)
        PROVE  Carries(Tail(q), r) \/ Head(q).response_channel = r
    <3>1. PICK i \in DOMAIN q : q[i].response_channel = r
      BY <2>1 DEF Carries
    <3>2. CASE i = 1
      BY <3>1, <3>2, TailFacts
    <3>3. CASE i # 1
      BY <3>1, <3>3, TailFacts DEF Carries
    <3>4. QED  BY <3>2, <3>3
  <2>2. ASSUME NEW r \in Requests, Carries(Tail(q), r) \/ Head(q).response_channel = r
        PROVE  Carries(q, r)
    BY <2>2, TailFacts DEF Carries
  <2>3. QED  BY <2>1, <2>2
<1>2. \A r \in Requests : Head(q).response_channel = r => ~Carries(Tail(q), r)
  BY TailFacts, NullAssumption DEF Carries, NoDuplicates
<1>3. NoDuplicates(Tail(q))
  BY TailFacts DEF NoDuplicates
<1>4. Addressed(Tail(q), asked)
  BY TailFacts DEF Addressed
<1>5. Head(q).response_channel # NULL => Head(q).provider = asked[Head(q).response_channel]
  BY TailFacts DEF Addressed
<1>6. QED  BY <1>1, <1>2, <1>3, <1>4, <1>5

\* A waiter that no message carries may be given another provider.
LEMMA AddressedElsewhere ==
  ASSUME NEW q \in Seq(Message), NEW asked, NEW now, Addressed(q, asked),
         \A r \in Requests : Carries(q, r) => now[r] = asked[r]
  PROVE  Addressed(q, now)
<1>1. \A i \in DOMAIN q : q[i] \in Message
  OBVIOUS
<1>2. QED  BY <1>1 DEF Addressed, Carries, Message

LEMMA WithoutFacts ==
  ASSUME NEW q \in Seq(Message), NEW r \in Requests
  PROVE  /\ Without(q, r) \in Seq(Message)
         /\ Len(Without(q, r)) = Len(q)
         /\ ~Carries(Without(q, r), r)
         /\ \A x \in Requests \ {r} : Carries(Without(q, r), x) <=> Carries(q, x)
         /\ NoDuplicates(q) => NoDuplicates(Without(q, r))
         /\ \A asked : Addressed(q, asked) => Addressed(Without(q, r), asked)
<1>1. \A i \in DOMAIN q : q[i] \in Message
  OBVIOUS
<1>2. DOMAIN Without(q, r) = DOMAIN q
  BY DEF Without
<1>3. \A i \in DOMAIN q : /\ Without(q, r)[i] \in Message
                        /\ Without(q, r)[i].provider = q[i].provider
                        /\ Without(q, r)[i].response_channel
                             = IF q[i].response_channel = r THEN NULL ELSE q[i].response_channel
  BY <1>1 DEF Without, Message
<1>4. Without(q, r) \in Seq(Message) /\ Len(Without(q, r)) = Len(q)
  <2>1. DOMAIN q = 1..Len(q) /\ Len(q) \in Nat
    OBVIOUS
  <2>2. Without(q, r) = [i \in 1..Len(q) |-> Without(q, r)[i]]
    BY <2>1 DEF Without
  <2>3. \A i \in 1..Len(q) : Without(q, r)[i] \in Message
    BY <1>3, <2>1
  <2>4. QED  BY <2>1, <2>2, <2>3
<1>5. ~Carries(Without(q, r), r)
  BY <1>2, <1>3, NullAssumption DEF Carries
<1>6. \A x \in Requests \ {r} : Carries(Without(q, r), x) <=> Carries(q, x)
  BY <1>2, <1>3, NullAssumption DEF Carries
<1>7. NoDuplicates(q) => NoDuplicates(Without(q, r))
  BY <1>2, <1>3 DEF NoDuplicates
<1>8. \A asked : Addressed(q, asked) => Addressed(Without(q, r), asked)
  BY <1>2, <1>3 DEF Addressed
<1>9. QED  BY <1>4, <1>5, <1>6, <1>7, <1>8

LEMMA EmptyQueue ==
  /\ <<>> \in Seq(Message) /\ Len(<<>>) = 0
  /\ \A r \in Requests : ~Carries(<<>>, r)
  /\ NoDuplicates(<<>>)
  /\ \A asked : Addressed(<<>>, asked)
BY DEF Carries, NoDuplicates, Addressed

LEMMA InitIInv == Init => IInv
<1>1. SUFFICES ASSUME Init PROVE IInv
  OBVIOUS
<1>2. TypeOK
  <2>1. queue \in Seq(Message) /\ Len(queue) <= QueueCap
    BY <1>1, QueueCapAssumption, EmptyQueue DEF Init
  <2>2. /\ task \in [phase : {"select", "fetch", "store", "stored", "stopped"},
                     provider : Providers \cup {NULL},
                     response_channel : Requests \cup {NULL},
                     result : Lists]
        /\ task.phase = "select"
    BY StoredFacts, <1>1 DEF Init, Idle
  <2>3. /\ db \in [Providers -> SUBSET Versions]
        /\ last_refresh \in [Providers -> {"vacant", "fresh", "stale"}]
        /\ reply \in [Requests -> Reply \cup {NULL}]
        /\ index \in [Requests -> Lists]
        /\ seen \in [Requests -> SUBSET Versions]
    BY StoredFacts, <1>1 DEF Init
  <2>4. QED  BY <1>1, <2>1, <2>2, <2>3 DEF Init, TypeOK, Outcomes
<1>3. WaiterHasOneSender
  BY <1>1, EmptyQueue, NullAssumption DEF Init, WaiterHasOneSender, InQueue, InTask, Idle
<1>4. AnswersBacked
  BY <1>1, EmptyQueue DEF Init, AnswersBacked, Idle
<1>5. AnswerIsStored /\ HeldBackOnlyIfKnown
  BY <1>1 DEF Init, AnswerIsStored, HeldBackOnlyIfKnown
<1>6. QED  BY <1>2, <1>3, <1>4, <1>5 DEF IInv

LEMMA Step_ListStored ==
  ASSUME IInv, NEW r \in Requests, ListStored(r)
  PROVE  IInv'
<1> DEFINE m == [provider |-> prov[r], response_channel |-> NULL]
<1>1. m \in Message
  BY DEF IInv, TypeOK, Message
<1>2. /\ queue' \in Seq(Message) /\ Len(queue') <= QueueCap
      /\ \A q \in Requests : Carries(queue', q) <=> Carries(queue, q)
      /\ NoDuplicates(queue')
      /\ Addressed(queue', prov)
      /\ task.phase = "stopped" => queue' = queue
  <2>1. CASE Sendable
    BY <1>1, <2>1, AppendFacts, AppendQueue, NullAssumption, QueueCapAssumption
    DEF IInv, TypeOK, WaiterHasOneSender, AnswersBacked, ListStored, TrySend, Sendable
  <2>2. CASE ~Sendable
    BY <2>2 DEF IInv, TypeOK, WaiterHasOneSender, AnswersBacked, ListStored, TrySend
  <2>3. QED  BY <2>1, <2>2
<1>3. TypeOK'
  BY StoredFacts, <1>2 DEF IInv, TypeOK, Outcomes, ListStored, Respond, Goto
<1>4. WaiterHasOneSender'
  BY <1>2 DEF IInv, TypeOK, WaiterHasOneSender, InQueue, InTask, ListStored, Respond, Goto
<1>5. AnswersBacked'
  BY <1>2 DEF IInv, TypeOK, AnswersBacked, ListStored, Respond
<1>6. AnswerIsStored' /\ HeldBackOnlyIfKnown'
  BY StoredFacts DEF IInv, TypeOK, AnswerIsStored, HeldBackOnlyIfKnown, ListStored, Respond
<1>7. QED  BY <1>3, <1>4, <1>5, <1>6 DEF IInv

LEMMA Step_Request ==
  ASSUME IInv, NEW r \in Requests, NEW p \in Providers, Request(r, p)
  PROVE  IInv'
<1>1. TypeOK'
  BY StoredFacts DEF IInv, TypeOK, Outcomes, Reply, Request, Goto, taskVars, requestVars
<1>2. WaiterHasOneSender'
  BY DEF IInv, TypeOK, WaiterHasOneSender, InQueue, InTask, Request, Goto, taskVars, requestVars
<1>3. AnswersBacked'
  <2>1. ~InQueue(r) /\ ~InTask(r) /\ reply[r] = NULL
    BY DEF IInv, WaiterHasOneSender, Request
  <2>2. Addressed(queue, prov')
    <3>1. \A q \in Requests : Carries(queue, q) => prov'[q] = prov[q]
      BY <2>1 DEF IInv, TypeOK, InQueue, Request
    <3>2. queue \in Seq(Message) /\ Addressed(queue, prov)
      BY DEF IInv, TypeOK, AnswersBacked
    <3>3. QED  BY <3>1, <3>2, AddressedElsewhere
  <2>3. QED
    BY <2>1, <2>2 DEF IInv, TypeOK, AnswersBacked, InTask, Request, taskVars
<1>4. AnswerIsStored' /\ HeldBackOnlyIfKnown'
  BY DEF IInv, TypeOK, AnswerIsStored, HeldBackOnlyIfKnown, AnswersBacked, Request, Goto,
     taskVars, requestVars
<1>5. QED  BY <1>1, <1>2, <1>3, <1>4 DEF IInv

LEMMA Step_ListNothing ==
  ASSUME IInv, NEW r \in Requests, ListNothing(r)
  PROVE  IInv'
<1>1. TypeOK'
  BY DEF IInv, TypeOK, Outcomes, Reply, ListNothing, Goto, taskVars, requestVars
<1>2. WaiterHasOneSender'
  BY DEF IInv, TypeOK, WaiterHasOneSender, InQueue, InTask, ListNothing, Goto, taskVars,
     requestVars
<1>3. AnswersBacked'
  BY DEF IInv, TypeOK, AnswersBacked, WaiterHasOneSender, InQueue, InTask, ListNothing, Goto,
     taskVars, requestVars
<1>4. AnswerIsStored' /\ HeldBackOnlyIfKnown'
  BY DEF IInv, TypeOK, AnswerIsStored, HeldBackOnlyIfKnown, AnswersBacked, ListNothing, Goto,
     taskVars, requestVars
<1>5. QED  BY <1>1, <1>2, <1>3, <1>4 DEF IInv

LEMMA Step_SendTimesOut ==
  ASSUME IInv, NEW r \in Requests, SendTimesOut(r)
  PROVE  IInv'
<1>1. TypeOK'
  BY StoredFacts DEF IInv, TypeOK, Outcomes, Reply, SendTimesOut, Goto, Respond, taskVars,
       requestVars
<1>2. WaiterHasOneSender'
  BY DEF IInv, TypeOK, WaiterHasOneSender, InQueue, InTask, SendTimesOut, Goto, Respond, taskVars,
     requestVars
<1>3. AnswersBacked'
  BY DEF IInv, TypeOK, AnswersBacked, WaiterHasOneSender, InQueue, InTask, SendTimesOut, Goto,
     Respond, taskVars, requestVars
<1>4. AnswerIsStored' /\ HeldBackOnlyIfKnown'
  BY DEF IInv, TypeOK, AnswerIsStored, HeldBackOnlyIfKnown, AnswersBacked, SendTimesOut, Goto,
     Respond, taskVars, requestVars
<1>5. QED  BY <1>1, <1>2, <1>3, <1>4 DEF IInv

LEMMA Step_SendFindsClosed ==
  ASSUME IInv, NEW r \in Requests, SendFindsClosed(r)
  PROVE  IInv'
<1>1. TypeOK'
  BY StoredFacts DEF IInv, TypeOK, Outcomes, Reply, SendFindsClosed, Goto, Respond, taskVars,
       requestVars
<1>2. WaiterHasOneSender'
  BY DEF IInv, TypeOK, WaiterHasOneSender, InQueue, InTask, SendFindsClosed, Goto, Respond,
     taskVars, requestVars
<1>3. AnswersBacked'
  BY DEF IInv, TypeOK, AnswersBacked, WaiterHasOneSender, InQueue, InTask, SendFindsClosed, Goto,
     Respond, taskVars, requestVars
<1>4. AnswerIsStored' /\ HeldBackOnlyIfKnown'
  BY DEF IInv, TypeOK, AnswerIsStored, HeldBackOnlyIfKnown, AnswersBacked, SendFindsClosed, Goto,
     Respond, taskVars, requestVars
<1>5. QED  BY <1>1, <1>2, <1>3, <1>4 DEF IInv

LEMMA Step_ReceiveReply ==
  ASSUME IInv, NEW r \in Requests, ReceiveReply(r)
  PROVE  IInv'
<1>1. TypeOK'
  BY DEF IInv, TypeOK, Outcomes, Reply, ReceiveReply, Goto, Respond, OutcomeOf, taskVars,
     requestVars
<1>2. WaiterHasOneSender'
  BY DEF IInv, TypeOK, WaiterHasOneSender, InQueue, InTask, ReceiveReply, Goto, Respond,
     OutcomeOf, taskVars, requestVars
<1>3. AnswersBacked'
  BY DEF IInv, TypeOK, AnswersBacked, WaiterHasOneSender, InQueue, InTask, ReceiveReply, Goto,
     Respond, OutcomeOf, taskVars, requestVars
<1>4. AnswerIsStored' /\ HeldBackOnlyIfKnown'
  <2>1. reply[r] \in Reply
    BY DEF IInv, TypeOK, ReceiveReply
  <2>2. /\ OutcomeOf(reply[r].kind) = "index" => reply[r].kind = "performed"
        /\ OutcomeOf(reply[r].kind) = "concurrent_fetch" => reply[r].kind = "not_stale"
    BY <2>1 DEF Reply, OutcomeOf
  <2>3. QED
    BY <2>2 DEF IInv, TypeOK, AnswerIsStored, HeldBackOnlyIfKnown, AnswersBacked, ReceiveReply,
       Respond, taskVars
<1>5. QED  BY <1>1, <1>2, <1>3, <1>4 DEF IInv

LEMMA Step_OtherInstanceStores ==
  ASSUME IInv, NEW p \in Providers, NEW list \in Lists, OtherInstanceStores(p, list)
  PROVE  IInv'
<1>1. TypeOK'
  BY StoredFacts DEF IInv, TypeOK, Outcomes, Reply, OtherInstanceStores, Merge, taskVars,
       requestVars
<1>2. WaiterHasOneSender'
  BY DEF IInv, TypeOK, WaiterHasOneSender, InQueue, InTask, OtherInstanceStores, Merge, taskVars,
     requestVars
<1>3. AnswersBacked'
  BY DEF IInv, TypeOK, AnswersBacked, WaiterHasOneSender, InQueue, InTask, OtherInstanceStores,
     Merge, taskVars, requestVars
<1>4. AnswerIsStored' /\ HeldBackOnlyIfKnown'
  BY DEF IInv, TypeOK, AnswerIsStored, HeldBackOnlyIfKnown, AnswersBacked, OtherInstanceStores,
     Merge, taskVars, requestVars
<1>5. QED  BY <1>1, <1>2, <1>3, <1>4 DEF IInv

LEMMA Step_IntervalPasses ==
  ASSUME IInv, NEW p \in Providers, IntervalPasses(p)
  PROVE  IInv'
<1>1. TypeOK'
  BY DEF IInv, TypeOK, Outcomes, Reply, IntervalPasses, taskVars, requestVars
<1>2. WaiterHasOneSender'
  BY DEF IInv, TypeOK, WaiterHasOneSender, InQueue, InTask, IntervalPasses, taskVars, requestVars
<1>3. AnswersBacked'
  BY DEF IInv, TypeOK, AnswersBacked, WaiterHasOneSender, InQueue, InTask, IntervalPasses,
     taskVars, requestVars
<1>4. AnswerIsStored' /\ HeldBackOnlyIfKnown'
  BY DEF IInv, TypeOK, AnswerIsStored, HeldBackOnlyIfKnown, AnswersBacked, IntervalPasses,
     taskVars, requestVars
<1>5. QED  BY <1>1, <1>2, <1>3, <1>4 DEF IInv

LEMMA Step_Cancel ==
  ASSUME IInv, Cancel
  PROVE  IInv'
<1>1. TypeOK'
  BY DEF IInv, TypeOK, Outcomes, Reply, Cancel, taskVars, requestVars
<1>2. WaiterHasOneSender'
  BY DEF IInv, TypeOK, WaiterHasOneSender, InQueue, InTask, Cancel, taskVars, requestVars
<1>3. AnswersBacked'
  BY DEF IInv, TypeOK, AnswersBacked, WaiterHasOneSender, InQueue, InTask, Cancel, taskVars,
     requestVars
<1>4. AnswerIsStored' /\ HeldBackOnlyIfKnown'
  BY DEF IInv, TypeOK, AnswerIsStored, HeldBackOnlyIfKnown, AnswersBacked, Cancel, taskVars,
     requestVars
<1>5. QED  BY <1>1, <1>2, <1>3, <1>4 DEF IInv

LEMMA Step_FetchSucceeds ==
  ASSUME IInv, NEW list \in Lists, FetchSucceeds(list)
  PROVE  IInv'
<1>1. TypeOK'
  BY DEF IInv, TypeOK, Outcomes, Reply, FetchSucceeds, taskVars, requestVars
<1>2. WaiterHasOneSender'
  BY DEF IInv, TypeOK, WaiterHasOneSender, InQueue, InTask, FetchSucceeds, taskVars, requestVars
<1>3. AnswersBacked'
  BY DEF IInv, TypeOK, AnswersBacked, WaiterHasOneSender, InQueue, InTask, FetchSucceeds,
     taskVars, requestVars
<1>4. AnswerIsStored' /\ HeldBackOnlyIfKnown'
  BY DEF IInv, TypeOK, AnswerIsStored, HeldBackOnlyIfKnown, AnswersBacked, FetchSucceeds,
     taskVars, requestVars
<1>5. QED  BY <1>1, <1>2, <1>3, <1>4 DEF IInv

LEMMA Step_FetchFails ==
  ASSUME IInv, FetchFails
  PROVE  IInv'
<1>1. TypeOK'
  BY StoredFacts, NullAssumption DEF IInv, TypeOK, Outcomes, Reply, FetchFails, Finish,
       RestartClock, Answer,
     Idle, taskVars, requestVars
<1>2. WaiterHasOneSender'
  BY StoredFacts, NullAssumption DEF IInv, TypeOK, WaiterHasOneSender, InQueue, InTask,
       FetchFails, Finish,
     RestartClock, Answer, Idle, taskVars, requestVars, Reply
<1>3. AnswersBacked'
  BY DEF IInv, TypeOK, AnswersBacked, WaiterHasOneSender, InQueue, InTask, FetchFails, Finish,
     RestartClock, Answer, Idle, taskVars, requestVars
<1>4. AnswerIsStored' /\ HeldBackOnlyIfKnown'
  BY DEF IInv, TypeOK, AnswerIsStored, HeldBackOnlyIfKnown, AnswersBacked, FetchFails, Finish,
     RestartClock, Answer, Idle, taskVars, requestVars
<1>5. QED  BY <1>1, <1>2, <1>3, <1>4 DEF IInv

LEMMA Step_StoreCommits ==
  ASSUME IInv, StoreCommits
  PROVE  IInv'
<1>1. TypeOK'
  BY StoredFacts DEF IInv, TypeOK, Outcomes, Reply, StoreCommits, Merge, taskVars, requestVars
<1>2. WaiterHasOneSender'
  BY DEF IInv, TypeOK, WaiterHasOneSender, InQueue, InTask, StoreCommits, Merge, taskVars,
     requestVars
<1>3. AnswersBacked'
  BY DEF IInv, TypeOK, AnswersBacked, WaiterHasOneSender, InQueue, InTask, StoreCommits, Merge,
     taskVars, requestVars
<1>4. AnswerIsStored' /\ HeldBackOnlyIfKnown'
  BY DEF IInv, TypeOK, AnswerIsStored, HeldBackOnlyIfKnown, AnswersBacked, StoreCommits, Merge,
     taskVars, requestVars
<1>5. QED  BY <1>1, <1>2, <1>3, <1>4 DEF IInv

LEMMA Step_StoreAnswered ==
  ASSUME IInv, StoreAnswered
  PROVE  IInv'
<1>1. TypeOK'
  BY StoredFacts, NullAssumption DEF IInv, TypeOK, Outcomes, Reply, StoreAnswered, Finish,
       RestartClock,
     Answer, Idle, taskVars, requestVars
<1>2. WaiterHasOneSender'
  BY NullAssumption DEF IInv, TypeOK, WaiterHasOneSender, InQueue, InTask, StoreAnswered, Finish,
     RestartClock, Answer, Idle, taskVars, requestVars, Reply
<1>3. AnswersBacked'
  BY DEF IInv, TypeOK, AnswersBacked, WaiterHasOneSender, InQueue, InTask, StoreAnswered, Finish,
     RestartClock, Answer, Idle, taskVars, requestVars
<1>4. AnswerIsStored' /\ HeldBackOnlyIfKnown'
  BY DEF IInv, TypeOK, AnswerIsStored, HeldBackOnlyIfKnown, AnswersBacked, StoreAnswered, Finish,
     RestartClock, Answer, Idle, taskVars, requestVars
<1>5. QED  BY <1>1, <1>2, <1>3, <1>4 DEF IInv

LEMMA Step_StoreFails ==
  ASSUME IInv, StoreFails
  PROVE  IInv'
<1>1. TypeOK'
  BY StoredFacts, NullAssumption DEF IInv, TypeOK, Outcomes, Reply, StoreFails, Finish,
       RestartClock, Answer,
     Idle, taskVars, requestVars
<1>2. WaiterHasOneSender'
  BY StoredFacts, NullAssumption DEF IInv, TypeOK, WaiterHasOneSender, InQueue, InTask,
       StoreFails, Finish,
     RestartClock, Answer, Idle, taskVars, requestVars, Reply
<1>3. AnswersBacked'
  BY DEF IInv, TypeOK, AnswersBacked, WaiterHasOneSender, InQueue, InTask, StoreFails, Finish,
     RestartClock, Answer, Idle, taskVars, requestVars
<1>4. AnswerIsStored' /\ HeldBackOnlyIfKnown'
  BY DEF IInv, TypeOK, AnswerIsStored, HeldBackOnlyIfKnown, AnswersBacked, StoreFails, Finish,
     RestartClock, Answer, Idle, taskVars, requestVars
<1>5. QED  BY <1>1, <1>2, <1>3, <1>4 DEF IInv

LEMMA Step_SendMessage ==
  ASSUME IInv, NEW r \in Requests, SendMessage(r)
  PROVE  IInv'
<1> DEFINE m == [provider |-> prov[r], response_channel |-> r]
<1>1. m \in Message
  BY DEF IInv, TypeOK, Message
<1>2. ~InQueue(r) /\ ~InTask(r) /\ reply[r] = NULL
  BY DEF IInv, WaiterHasOneSender, SendMessage
<1>3. /\ queue' \in Seq(Message) /\ Len(queue') <= QueueCap
      /\ \A q \in Requests : Carries(queue', q) <=> Carries(queue, q) \/ q = r
      /\ NoDuplicates(queue')
      /\ Addressed(queue', prov)
  BY <1>1, <1>2, AppendFacts, AppendQueue, QueueCapAssumption
  DEF IInv, TypeOK, WaiterHasOneSender, AnswersBacked, InQueue, SendMessage, Sendable
<1>4. TypeOK'
  BY <1>3 DEF IInv, TypeOK, SendMessage, Goto
<1>5. WaiterHasOneSender'
  BY <1>2, <1>3
  DEF IInv, TypeOK, WaiterHasOneSender, InQueue, InTask, SendMessage, Sendable, Goto
<1>6. AnswersBacked'
  BY <1>3 DEF IInv, TypeOK, AnswersBacked, SendMessage
<1>7. AnswerIsStored' /\ HeldBackOnlyIfKnown'
  BY DEF IInv, TypeOK, AnswerIsStored, HeldBackOnlyIfKnown, SendMessage
<1>8. QED  BY <1>4, <1>5, <1>6, <1>7 DEF IInv

\* Taking the first message hands its sender to the refresher.
LEMMA TakeFirst ==
  ASSUME IInv, queue # <<>>, queue' = Tail(queue)
  PROVE  /\ Head(queue) \in Message
         /\ queue' \in Seq(Message) /\ Len(queue') <= QueueCap
         /\ \A r \in Requests :
              InQueue(r) <=> Carries(queue', r) \/ Head(queue).response_channel = r
         /\ \A r \in Requests : Head(queue).response_channel = r => ~Carries(queue', r)
         /\ NoDuplicates(queue')
         /\ Addressed(queue', prov)
         /\ Head(queue).response_channel # NULL
              => Head(queue).provider = prov[Head(queue).response_channel]
<1>1. queue \in Seq(Message) /\ NoDuplicates(queue) /\ Addressed(queue, prov)
  BY DEF IInv, TypeOK, WaiterHasOneSender, AnswersBacked
<1>2. Len(queue') <= QueueCap
  BY <1>1, TailFacts, QueueCapAssumption DEF IInv, TypeOK
<1>3. QED  BY <1>1, <1>2, TailFacts, TailQueue DEF InQueue

LEMMA Step_ReceiveFresh ==
  ASSUME IInv, ReceiveFresh
  PROVE  IInv'
<1> DEFINE channel == Head(queue).response_channel
<1>1. queue # <<>> /\ queue' = Tail(queue)
  BY DEF ReceiveFresh
<1>2. channel \in Requests \cup {NULL} /\ Head(queue).provider \in known
  BY <1>1, TakeFirst DEF IInv, HeldBackOnlyIfKnown, Message, ReceiveFresh
<1>3. TypeOK'
  BY StoredFacts, <1>1, <1>2, TakeFirst DEF IInv, TypeOK, ReceiveFresh, Answer, Reply
<1>4. WaiterHasOneSender'
  <2>1. \A r \in Requests : /\ InQueue(r)' <=> InQueue(r) /\ channel # r
                            /\ channel = r => InQueue(r)
    BY <1>1, TakeFirst DEF InQueue
  <2>2. \A r \in Requests : ~InTask(r) /\ ~InTask(r)'
    BY NullAssumption DEF IInv, WaiterHasOneSender, InTask, ReceiveFresh
  <2>3. \A r \in Requests : (reply[r] # NULL)' <=> reply[r] # NULL \/ channel = r
    BY StoredFacts, <1>2, NullAssumption DEF IInv, TypeOK, ReceiveFresh, Answer, Reply
  <2>4. NoDuplicates(queue)'
    BY <1>1, TakeFirst
  <2>5. QED
    BY <2>1, <2>2, <2>3, <2>4 DEF IInv, WaiterHasOneSender, ReceiveFresh
<1>5. AnswersBacked'
  BY <1>1, <1>2, TakeFirst DEF IInv, TypeOK, AnswersBacked, ReceiveFresh, Answer
<1>6. AnswerIsStored' /\ HeldBackOnlyIfKnown'
  BY DEF IInv, AnswerIsStored, HeldBackOnlyIfKnown, ReceiveFresh
<1>7. QED  BY <1>3, <1>4, <1>5, <1>6 DEF IInv

LEMMA Step_ReceiveStale ==
  ASSUME IInv, ReceiveStale
  PROVE  IInv'
<1>1. queue # <<>> /\ queue' = Tail(queue)
  BY DEF ReceiveStale
<1>2. TypeOK'
  BY StoredFacts, <1>1, TakeFirst DEF IInv, TypeOK, ReceiveStale, Message, requestVars
<1>3. WaiterHasOneSender'
  <2>1. \A r \in Requests : /\ InQueue(r)' <=> InQueue(r) /\ Head(queue).response_channel # r
                            /\ Head(queue).response_channel = r => InQueue(r)
    BY <1>1, TakeFirst DEF InQueue
  <2>2. \A r \in Requests : ~InTask(r) /\ (InTask(r)' <=> Head(queue).response_channel = r)
    BY NullAssumption DEF IInv, WaiterHasOneSender, InTask, ReceiveStale
  <2>3. NoDuplicates(queue)'
    BY <1>1, TakeFirst
  <2>4. UNCHANGED <<pc, reply>> /\ task'.phase = "fetch"
    BY DEF ReceiveStale, requestVars
  <2>5. QED
    BY <2>1, <2>2, <2>3, <2>4 DEF IInv, WaiterHasOneSender
<1>4. AnswersBacked'
  BY <1>1, TakeFirst DEF IInv, AnswersBacked, ReceiveStale, requestVars
<1>5. AnswerIsStored' /\ HeldBackOnlyIfKnown'
  BY DEF IInv, AnswerIsStored, HeldBackOnlyIfKnown, ReceiveStale, requestVars
<1>6. QED  BY <1>2, <1>3, <1>4, <1>5 DEF IInv

LEMMA Step_Disconnect ==
  ASSUME IInv, NEW r \in Requests, Disconnect(r)
  PROVE  IInv'
<1>1. queue \in Seq(Message) /\ queue' = Without(queue, r)
  BY DEF IInv, TypeOK, Disconnect
<1>2. TypeOK'
  <2>1. Len(queue') <= QueueCap /\ queue' \in Seq(Message)
    BY <1>1, WithoutFacts DEF IInv, TypeOK
  <2>2. /\ index' \in [Requests -> Lists] /\ outcome' \in [Requests -> Outcomes]
        /\ task' = [task EXCEPT !.response_channel = IF @ = r THEN NULL ELSE @]
    BY StoredFacts DEF IInv, TypeOK, Disconnect, Respond, Outcomes
  <2>3. QED  BY <2>1, <2>2 DEF IInv, TypeOK, Disconnect, Respond, Goto
<1>3. WaiterHasOneSender'
  BY <1>1, WithoutFacts, NullAssumption
  DEF IInv, TypeOK, WaiterHasOneSender, InQueue, InTask, Disconnect, Respond, Goto
<1>4. AnswersBacked'
  BY <1>1, WithoutFacts DEF IInv, TypeOK, AnswersBacked, Disconnect, Respond
<1>5. AnswerIsStored' /\ HeldBackOnlyIfKnown'
  BY DEF IInv, TypeOK, AnswerIsStored, HeldBackOnlyIfKnown, Disconnect, Respond
<1>6. QED  BY <1>2, <1>3, <1>4, <1>5 DEF IInv

LEMMA Step_Stop ==
  ASSUME IInv, Stop
  PROVE  IInv'
<1>1. TypeOK'
  BY StoredFacts, EmptyQueue, QueueCapAssumption DEF IInv, TypeOK, Stop, Stopped, Idle, Closed,
       Reply
<1>2. WaiterHasOneSender'
  BY StoredFacts, EmptyQueue, NullAssumption
  DEF IInv, TypeOK, WaiterHasOneSender, InQueue, InTask, Stop, Stopped, Idle, Closed, Reply
<1>3. AnswersBacked'
  BY EmptyQueue DEF IInv, TypeOK, AnswersBacked, Stop, Stopped, Idle, Closed
<1>4. AnswerIsStored' /\ HeldBackOnlyIfKnown'
  BY DEF IInv, AnswerIsStored, HeldBackOnlyIfKnown, Stop
<1>5. QED  BY <1>1, <1>2, <1>3, <1>4 DEF IInv

LEMMA Step_Restart ==
  ASSUME IInv, Restart
  PROVE  IInv'
<1>1. TypeOK'
  <2>1. queue' \in Seq(Message) /\ Len(queue') <= QueueCap
    BY EmptyQueue, QueueCapAssumption DEF Restart
  <2>2. /\ task' \in [phase : {"select", "fetch", "store", "stored", "stopped"},
                      provider : Providers \cup {NULL},
                      response_channel : Requests \cup {NULL},
                      result : Lists]
        /\ task'.phase = "select"
    BY StoredFacts DEF Restart, Idle
  <2>3. /\ outcome' \in [Requests -> Outcomes]
        /\ pc' \in [Requests -> {"idle", "list", "send", "await", "done"}]
        /\ reply' \in [Requests -> Reply \cup {NULL}]
    BY DEF IInv, TypeOK, Restart, Outcomes
  <2>4. /\ seen' \in [Requests -> SUBSET Versions]
        /\ wasKnown' \in [Requests -> BOOLEAN]
        /\ last_refresh' \in [Providers -> {"vacant", "fresh", "stale"}]
    BY DEF IInv, TypeOK, Restart
  <2>5. QED  BY <2>1, <2>2, <2>3, <2>4 DEF IInv, TypeOK, Restart
<1>2. WaiterHasOneSender'
  BY EmptyQueue, NullAssumption
  DEF IInv, TypeOK, WaiterHasOneSender, InQueue, InTask, Restart, Idle
<1>3. AnswersBacked'
  BY EmptyQueue DEF IInv, TypeOK, AnswersBacked, Restart, Idle
<1>4. AnswerIsStored' /\ HeldBackOnlyIfKnown'
  BY DEF IInv, TypeOK, AnswerIsStored, HeldBackOnlyIfKnown, Restart
<1>5. QED  BY <1>1, <1>2, <1>3, <1>4 DEF IInv

LEMMA StepIInv == IInv /\ [Next]_vars => IInv'
<1>1. SUFFICES ASSUME IInv, [Next]_vars PROVE IInv'
  OBVIOUS
<1>2. CASE UNCHANGED vars
  BY <1>1, <1>2
  DEF IInv, vars, taskVars, requestVars, TypeOK, WaiterHasOneSender, InQueue, InTask,
      AnswersBacked, AnswerIsStored, HeldBackOnlyIfKnown
<1>3. CASE Next
  BY <1>1, <1>3, Step_OtherInstanceStores, Step_Request, Step_ListStored, Step_ListNothing,
     Step_SendMessage, Step_SendTimesOut, Step_SendFindsClosed, Step_ReceiveReply,
     Step_Disconnect, Step_ReceiveFresh, Step_ReceiveStale, Step_FetchSucceeds, Step_FetchFails,
     Step_StoreCommits, Step_StoreAnswered, Step_StoreFails, Step_IntervalPasses, Step_Cancel,
     Step_Stop, Step_Restart
  DEF Next, Handler, Receive, Fetch, Store
<1>4. QED  BY <1>1, <1>2, <1>3

-----------------------------------------------------------------------------
\* IInv holds in every reachable state.
THEOREM Invariance == Spec => []IInv
BY InitIInv, StepIInv, PTL DEF Spec

\* Type correctness, with the channel never over its capacity.
THEOREM TypeCorrect == Spec => []TypeOK
<1>1. IInv => TypeOK
  BY DEF IInv
<1>2. QED  BY <1>1, Invariance, PTL

\* No index request waits for an answer that nobody can give, whatever was
\* queued, dropped, disconnected or shut down.
THEOREM NoOrphanWaiter == Spec => []WaiterHasOneSender
<1>1. IInv => WaiterHasOneSender
  BY DEF IInv
<1>2. QED  BY <1>1, Invariance, PTL

\* An index never lists a version that is not stored.
THEOREM AnswersAreStored == Spec => []AnswerIsStored
<1>1. IInv => AnswerIsStored
  BY DEF IInv
<1>2. QED  BY <1>1, Invariance, PTL

\* The refresher holds back only providers that are stored.
THEOREM OnlyKnownHeldBack == Spec => []HeldBackOnlyIfKnown
<1>1. IInv => HeldBackOnlyIfKnown
  BY DEF IInv
<1>2. QED  BY <1>1, Invariance, PTL

-----------------------------------------------------------------------------
\* What was stored when an index was asked for is still there while it is
\* read, and a handler that asks the refresher had seen nothing.
SeenInv ==
  \A r \in Requests : /\ pc[r] = "list" => seen[r] \subseteq db[prov[r]]
                      /\ pc[r] \in {"send", "await"} => seen[r] = {}
                      /\ Pending(r) => outcome[r] = "none"

LEMMA SeenStep ==
  ASSUME ~ListFaults, TypeOK, SeenInv, [Next]_vars
  PROVE  SeenInv'
<1> USE DEF Pending
<1>1. ASSUME NEW p \in Providers, NEW list, OtherInstanceStores(p, list)
      PROVE  SeenInv'
  BY <1>1 DEF OtherInstanceStores, Merge, requestVars, SeenInv, TypeOK
<1>2. ASSUME NEW r \in Requests, NEW p \in Providers, Request(r, p) PROVE SeenInv'
  BY <1>2 DEF Request, Goto, SeenInv, TypeOK
<1>3. ASSUME NEW r \in Requests, ListStored(r) PROVE SeenInv'
  BY <1>3 DEF ListStored, Respond, Goto, SeenInv, TypeOK
<1>4. ASSUME NEW r \in Requests, ListNothing(r) PROVE SeenInv'
  BY <1>4 DEF ListNothing, Goto, SeenInv, TypeOK
<1>5. ASSUME NEW r \in Requests, SendMessage(r) PROVE SeenInv'
  BY <1>5 DEF SendMessage, Goto, SeenInv, TypeOK
<1>6. ASSUME NEW r \in Requests, SendTimesOut(r) \/ SendFindsClosed(r) \/ Disconnect(r)
      PROVE  SeenInv'
  BY <1>6 DEF SendTimesOut, SendFindsClosed, Disconnect, Respond, Goto, SeenInv, TypeOK
<1>7. ASSUME NEW r \in Requests, ReceiveReply(r) PROVE SeenInv'
  BY <1>7 DEF ReceiveReply, Respond, Goto, SeenInv, TypeOK
<1>8. CASE Receive \/ FetchFails \/ StoreAnswered \/ StoreFails \/ Stop \/ Cancel
           \/ \E p \in Providers : IntervalPasses(p)
  BY <1>8 DEF Receive, ReceiveFresh, ReceiveStale, FetchFails, StoreAnswered, StoreFails, Finish,
       Stop, Cancel, IntervalPasses, requestVars, SeenInv
<1>9. ASSUME NEW list, FetchSucceeds(list) PROVE SeenInv'
  BY <1>9 DEF FetchSucceeds, requestVars, SeenInv
<1>10. CASE StoreCommits
  BY <1>10 DEF StoreCommits, Merge, requestVars, SeenInv, TypeOK
<1>11. CASE Restart
  BY <1>11 DEF Restart, SeenInv, TypeOK
<1>12. CASE UNCHANGED vars
  BY <1>12 DEF vars, requestVars, SeenInv
<1> QED
  BY <1>1, <1>2, <1>3, <1>4, <1>5, <1>6, <1>7, <1>8, <1>9, <1>10, <1>11, <1>12
     DEF Next, Handler, Fetch, Store

\* Both hold together; SeenInv only as long as the query cannot fail.
Refining == IInv /\ (~ListFaults => SeenInv)

LEMMA RefiningHolds == Spec => []Refining
<1>1. Init => Refining
  BY InitIInv DEF Init, SeenInv, Refining
<1>2. Refining /\ [Next]_vars => Refining'
  BY StepIInv, SeenStep DEF Refining, IInv
<1> QED
  BY <1>1, <1>2, PTL DEF Spec

-----------------------------------------------------------------------------
\* The refinement.  Service!call, as the handlers' variables give it:
Calls == [r \in Requests |-> CallOf(r)]

\* A step that moves one request moves one call.
LEMMA OneCall ==
  ASSUME NEW r \in Requests, \A q \in Requests \ {r} : CallOf(q)' = CallOf(q)
  PROVE  Calls' = [Calls EXCEPT ![r] = CallOf(r)']
BY DEF Calls

LEMMA NoCall ==
  ASSUME \A q \in Requests : CallOf(q)' = CallOf(q)
  PROVE  Calls' = Calls
BY DEF Calls

\* Waiting in the abstract state is being on the way in the handler.
LEMMA CallFacts ==
  ASSUME NEW r \in Requests
  PROVE  /\ Pending(r) => CallOf(r) = Service!Waiting(prov[r], seen[r])
         /\ Service!Waits(r) <=> Pending(r)
<1>1. Pending(r) => CallOf(r) = Service!Waiting(prov[r], seen[r])
  BY DEF CallOf, Call, Service!Waiting, Service!Stored, Stored
<1>2. ~Pending(r) => CallOf(r).state # "waiting"
  BY DEF CallOf, Call
<1> QED
  BY <1>1, <1>2 DEF Service!Waits, Service!Waiting

\* An arrival is an abstract Ask.
LEMMA RequestAsks ==
  ASSUME TypeOK, NEW r \in Requests, NEW p \in Providers, Request(r, p)
  PROVE  Service!Ask(r, p)
<1>1. \A q \in Requests \ {r} : CallOf(q)' = CallOf(q)
  BY DEF TypeOK, Request, Goto, CallOf, Pending
<1>2. CallOf(r)' = Service!Waiting(p, db[p])
  BY DEF TypeOK, Request, Goto, CallOf, Pending, Call, Service!Waiting, Service!Stored, Stored
<1>3. ~Service!Waits(r)
  BY CallFacts DEF Request, Pending
<1> QED
  BY <1>1, <1>2, <1>3, OneCall DEF Service!Ask, Calls, Request

\* A response is an abstract Answer, a Refuse or a Drop, by its outcome; seen is
\* what the abstract call is owed.
LEMMA RespondSettles ==
  ASSUME TypeOK, NEW r \in Requests, NEW o \in Outcomes, NEW list \in Lists,
         Pending(r), Respond(r, o, list), UNCHANGED db
  PROVE  /\ o = "index" /\ list.packaged \subseteq db[prov[r]]
              /\ (ListFaults \/ seen[r] \subseteq list.versions)
            => Service!Answer(r, list)
         /\ o \in Refusals /\ (ListFaults \/ seen[r] = {}) => Service!Refuse(r)
         /\ o = "dropped" => Service!Drop({r})
<1>1. \A q \in Requests \ {r} : CallOf(q)' = CallOf(q)
  BY DEF TypeOK, Respond, Goto, CallOf, Pending
<1>2. Calls' = [Calls EXCEPT ![r] = CallOf(r)']
  BY <1>1, OneCall
<1>3. /\ Service!Waits(r)
      /\ Calls[r].provider = prov[r] /\ Calls[r].list = Stored(seen[r])
      /\ Calls[r].list.versions = seen[r]
  BY CallFacts, StoredFacts DEF TypeOK, Calls, Service!Waiting, Service!Stored, Stored
<1>4. /\ ~Pending(r)' /\ outcome'[r] = o /\ prov'[r] = prov[r] /\ index'[r] = list
  BY DEF TypeOK, Respond, Goto, Pending
<1>5. o = "index" => CallOf(r)' = Service!Index(prov[r], list)
  BY <1>4 DEF CallOf, Call, Refusals, Service!Index
<1>6. o \in Refusals => CallOf(r)' = Service!Refused
  BY <1>4 DEF CallOf, Call, Refusals, Service!Refused, Service!Nothing, Nothing, Service!Stored,
       Stored
<1>7. o = "dropped" => CallOf(r)' = Service!None
  BY <1>4 DEF CallOf, Call, Refusals, Service!None, Service!Nothing, Nothing, Service!Stored,
       Stored
<1>8. ASSUME o = "index", list.packaged \subseteq db[prov[r]],
             ListFaults \/ seen[r] \subseteq list.versions
      PROVE  Service!Answer(r, list)
  <2>1. Calls' = [Calls EXCEPT ![r] = Service!Index(@.provider, list)]
    BY <1>2, <1>3, <1>5, <1>8
  <2> QED
    BY <1>3, <1>8, <2>1 DEF Service!Answer, Calls
<1>9. ASSUME o \in Refusals, ListFaults \/ seen[r] = {} PROVE Service!Refuse(r)
  BY <1>2, <1>3, <1>6, <1>9 DEF Service!Refuse, Calls, Service!Nothing, Service!Stored, Stored
<1>10. ASSUME o = "dropped" PROVE Service!Drop({r})
  BY <1>2, <1>3, <1>7, <1>10 DEF Service!Drop, Calls
<1> QED
  BY <1>8, <1>9, <1>10

\* Merging what a registry lists is an abstract Store.
LEMMA MergeStores ==
  ASSUME NEW p \in Providers, NEW list \in Lists, Merge(p, list),
         \A r \in Requests : CallOf(r)' = CallOf(r)
  PROVE  Service!Next
<1>1. Calls' = Calls
  BY NoCall
<1>2. Service!Store(p, list)
  BY <1>1 DEF Merge, Service!Store, Calls
<1>3. list \in Service!Lists
  BY DEF Lists, Service!Lists
<1> QED
  BY <1>2, <1>3 DEF Service!Next

\* A process that dies drops the calls that wait.
LEMMA RestartDrops ==
  ASSUME TypeOK, Restart
  PROVE  Service!Next
<1> DEFINE dropped == {r \in Requests : Pending(r)}
<1>1. ASSUME NEW r \in dropped PROVE CallOf(r)' = Service!None
  BY <1>1 DEF TypeOK, Restart, CallOf, Call, Pending, Refusals, Service!None,
     Service!Nothing, Nothing, Service!Stored, Stored
<1>2. ASSUME NEW r \in Requests \ dropped PROVE CallOf(r)' = CallOf(r)
  BY <1>2 DEF TypeOK, Restart, CallOf, Call, Pending
<1>3. \A r \in dropped : Service!Waits(r)
  BY CallFacts
<1> HIDE DEF dropped
<1>4. Calls' = [r \in Requests |-> IF r \in dropped THEN Service!None ELSE Calls[r]]
  BY <1>1, <1>2 DEF Calls
<1>5. Service!Drop(dropped)
  BY <1>3, <1>4 DEF Service!Drop, Calls, Restart
<1>6. dropped \in SUBSET Requests
  BY DEF dropped
<1> QED
  BY <1>5, <1>6 DEF Service!Next

\* What a handler answers of its own.
LEMMA HandlerSettles ==
  ASSUME Refining, NEW r \in Requests,
         ListStored(r) \/ SendTimesOut(r) \/ SendFindsClosed(r) \/ Disconnect(r)
  PROVE  Service!Next
<1> USE DEF Service!Next
<1>1. TypeOK /\ (ListFaults \/ SeenInv)
  BY DEF Refining, IInv
<1>2. CASE ListStored(r)
  <2>1. /\ db[prov[r]] \in SUBSET Versions /\ Pending(r)
        /\ Stored(db[prov[r]]) \in Lists /\ Stored(db[prov[r]]) \in Service!Lists
        /\ Stored(db[prov[r]]).versions = db[prov[r]]
        /\ Stored(db[prov[r]]).packaged = db[prov[r]]
    BY <1>1, <1>2, StoredFacts DEF TypeOK, ListStored, Pending, Lists, Service!Lists
  <2>2. ListFaults \/ seen[r] \subseteq db[prov[r]]
    BY <1>1, <1>2 DEF SeenInv, ListStored
  <2>3. Respond(r, "index", Stored(db[prov[r]])) /\ UNCHANGED db /\ "index" \in Outcomes
    BY <1>2 DEF ListStored, Outcomes
  <2>4. Service!Answer(r, Stored(db[prov[r]]))
    BY <1>1, <2>1, <2>2, <2>3, RespondSettles
  <2> QED
    BY <2>1, <2>4
<1>3. CASE SendTimesOut(r) \/ SendFindsClosed(r)
  <2>1. Pending(r) /\ (ListFaults \/ seen[r] = {})
    BY <1>1, <1>3 DEF SeenInv, SendTimesOut, SendFindsClosed, Pending
  <2>2. PICK o \in {"too_many_requests", "broken_channel"} : Respond(r, o, Nothing) /\ UNCHANGED db
    BY <1>3 DEF SendTimesOut, SendFindsClosed
  <2>3. o \in Outcomes /\ o \in Refusals
    BY DEF Outcomes, Refusals
  <2>4. Service!Refuse(r)
    BY <1>1, <2>1, <2>2, <2>3, StoredFacts, RespondSettles
  <2> QED
    BY <2>4
<1>4. CASE Disconnect(r)
  <2>1. Pending(r) /\ "dropped" \in Outcomes
    BY <1>4 DEF Disconnect, Pending, Outcomes
  <2>2. Service!Drop({r})
    BY <1>1, <1>4, <2>1, StoredFacts, RespondSettles DEF Disconnect
  <2> QED
    BY <2>2
<1> QED
  BY <1>2, <1>3, <1>4

\* What it answers of the refresher's: an index the refresher has stored, or a
\* refusal of a request that had seen nothing.
LEMMA ReplySettles ==
  ASSUME Refining, NEW r \in Requests, ReceiveReply(r)
  PROVE  Service!Next
<1> DEFINE o == OutcomeOf(reply[r].kind)
           list == reply[r].list
<1>1. /\ TypeOK /\ reply[r] \in Reply /\ Pending(r)
      /\ ListFaults \/ seen[r] = {}
  BY DEF Refining, IInv, TypeOK, SeenInv, ReceiveReply, Pending
<1>2. list \in Lists /\ list \in Service!Lists
  BY <1>1 DEF Reply, Lists, Service!Lists
<1>3. /\ o \in Outcomes
      /\ o = "index" \/ o \in Refusals
      /\ o = "index" => reply[r].kind = "performed"
  BY <1>1 DEF Reply, OutcomeOf, Outcomes, Refusals
<1>4. Respond(r, o, list) /\ UNCHANGED db
  BY DEF ReceiveReply
<1> HIDE DEF o
<1>5. CASE o = "index"
  <2>1. list.packaged \subseteq db[prov[r]]
    BY <1>3, <1>5 DEF Refining, IInv, AnswersBacked, ReceiveReply
  <2>2. ListFaults \/ seen[r] \subseteq list.versions
    BY <1>1
  <2>3. Service!Answer(r, list)
    BY <1>1, <1>2, <1>3, <1>4, <1>5, <2>1, <2>2, RespondSettles
  <2> QED
    BY <1>2, <2>3 DEF Service!Next
<1>6. CASE o \in Refusals
  <2>1. Service!Refuse(r)
    BY <1>1, <1>2, <1>3, <1>4, <1>6, RespondSettles
  <2> QED
    BY <2>1 DEF Service!Next
<1> QED
  BY <1>3, <1>5, <1>6

\* No other step is seen by a client.
LEMMA UnseenSteps ==
  ASSUME TypeOK,
         \/ \E r \in Requests : ListNothing(r) \/ SendMessage(r)
         \/ Receive \/ Fetch \/ StoreAnswered \/ StoreFails
         \/ \E p \in Providers : IntervalPasses(p)
         \/ Cancel \/ Stop \/ UNCHANGED vars
  PROVE  UNCHANGED <<db, Calls>>
<1>1. ASSUME NEW r \in Requests, ListNothing(r) \/ SendMessage(r)
      PROVE  UNCHANGED db /\ \A q \in Requests : CallOf(q)' = CallOf(q)
  BY <1>1 DEF TypeOK, ListNothing, SendMessage, Goto, CallOf, Pending
<1>2. CASE \/ Receive \/ Fetch \/ StoreAnswered \/ StoreFails
           \/ \E p \in Providers : IntervalPasses(p)
           \/ Cancel \/ Stop \/ UNCHANGED vars
  <2>1. UNCHANGED <<db, pc, prov, outcome, index, seen>>
    BY <1>2 DEF Receive, ReceiveFresh, ReceiveStale, Fetch, FetchSucceeds, FetchFails,
         StoreAnswered, StoreFails, Finish, IntervalPasses, Cancel, Stop, vars, requestVars
  <2>2. \A q \in Requests : CallOf(q)' = CallOf(q)
    BY <2>1 DEF CallOf, Pending
  <2> QED
    BY <2>1, <2>2, NoCall
<1> QED
  BY <1>1, <1>2, NoCall

\* To its clients a terrashine instance is an index that is read and answered
\* in one step, whatever the channel, the refresher, other instances, the
\* registry, disconnects and restarts do in between.
THEOREM Implements == Spec => ImplementsService
<1>1. Init => Service!Init
  <2> SUFFICES ASSUME Init PROVE Service!Init
    OBVIOUS
  <2>1. \A r \in Requests : CallOf(r) = Service!None
    BY DEF Init, CallOf, Call, Pending, Refusals, Service!None,
     Service!Nothing, Nothing, Service!Stored, Stored
  <2> QED
    BY <2>1 DEF Init, Service!Init
<1>2. Refining /\ [Next]_vars => [Service!Next]_(Service!serviceVars)
  <2> SUFFICES ASSUME Refining, [Next]_vars PROVE Service!Next \/ UNCHANGED <<db, Calls>>
    BY DEF Service!serviceVars, Calls
  <2>1. TypeOK
    BY DEF Refining, IInv
  <2>2. ASSUME NEW p \in Providers, NEW list \in Lists, OtherInstanceStores(p, list)
        PROVE  Service!Next
    BY <2>2, MergeStores DEF OtherInstanceStores, requestVars, CallOf, Pending
  <2>3. ASSUME NEW r \in Requests, NEW p \in Providers, Request(r, p) PROVE Service!Next
    BY <2>1, <2>3, RequestAsks DEF Service!Next
  <2>4. CASE StoreCommits
    <3>1. task.provider \in Providers /\ task.result \in Lists
      BY <2>1, <2>4 DEF TypeOK, StoreCommits
    <3> QED
      BY <2>4, <3>1, MergeStores DEF StoreCommits, requestVars, CallOf, Pending
  <2> QED
    BY <2>1, <2>2, <2>3, <2>4, HandlerSettles, ReplySettles, RestartDrops, UnseenSteps
       DEF Next, Handler, Store
<1> QED
  BY <1>1, <1>2, RefiningHolds, PTL DEF Spec, ImplementsService, Service!Spec

\* README.md:14: an index names every version that was stored when it was asked
\* for, whatever the registry deletes and the instances store, as long as the
\* query for the stored versions does not fail.
THEOREM ListedStays ==
  ASSUME ~ListFaults
  PROVE  Spec => ListedStaysListed
<1>1. ASSUME Refining, [Next]_vars, NEW r \in Requests, Pending(r), outcome'[r] = "index"
      PROVE  seen[r] \subseteq index'[r].versions
  <2> USE DEF Pending
  <2>1. TypeOK /\ SeenInv /\ SeenInv'
    BY <1>1, SeenStep DEF Refining, IInv
  <2>2. CASE ListStored(r) \/ ReceiveReply(r)
    BY StoredFacts, <1>1, <2>1, <2>2 DEF TypeOK, SeenInv, ListStored, ReceiveReply, Respond
  <2>3. CASE ~ListStored(r) /\ ~ReceiveReply(r)
    <3>1. outcome[r] = "none"
      BY <1>1, <2>1 DEF SeenInv
    <3>2. ASSUME NEW q \in Requests,
                 \/ \E p \in Providers : Request(q, p)
                 \/ Handler(q) \/ Disconnect(q)
          PROVE  outcome'[r] # "index"
      BY <1>1, <2>1, <2>3, <3>1, <3>2
      DEF TypeOK, Handler, Request, ListStored, ListNothing, SendMessage, SendTimesOut,
          SendFindsClosed, ReceiveReply, Disconnect, Respond
    <3>3. CASE Restart
      BY <1>1, <2>1, <3>3 DEF TypeOK, Restart
    <3>4. CASE UNCHANGED outcome
      BY <1>1, <3>1, <3>4
    <3>5. CASE \/ \E p \in Providers, list \in Lists : OtherInstanceStores(p, list)
               \/ Receive \/ Fetch \/ Store
               \/ \E p \in Providers : IntervalPasses(p)
               \/ Cancel \/ Stop \/ UNCHANGED vars
      BY <3>4, <3>5 DEF OtherInstanceStores, Receive, ReceiveFresh, ReceiveStale, Fetch,
           FetchSucceeds, FetchFails, Store, StoreCommits, StoreAnswered, StoreFails, Finish,
           IntervalPasses, Cancel, Stop, vars, requestVars
    <3> QED
      BY <1>1, <3>2, <3>3, <3>5 DEF Next
  <2> QED
    BY <2>2, <2>3
<1>2. Refining /\ [Next]_vars =>
        [\A r \in Requests : Pending(r) /\ outcome'[r] = "index" => seen[r] \subseteq index'[r].versions]_vars
  BY <1>1
<1> QED
  BY <1>2, RefiningHolds, PTL DEF Spec, ListedStaysListed

-----------------------------------------------------------------------------
(***************************************************************************)
(* The channel is fair: what EveryRequestAnswered rests on, besides that a *)
(* refresh ends.                                                           *)
(***************************************************************************)
At(i, r) == i \in DOMAIN queue /\ queue[i].response_channel = r

\* With each message that is received a waiting request's own moves up by one,
\* until it is received itself; and nothing else moves it, but the end of its
\* handler or of the refresher.
MovesUp ==
  \A r \in Requests, i \in Nat : At(i, r) =>
    \/ pc'[r] = "done"
    \/ task'.phase = "stopped" /\ reply'[r] = Closed
    \/ Receive /\ i = 1 /\ (task'.response_channel = r \/ reply'[r] # NULL)
    \/ Receive /\ i > 1 /\ At(i - 1, r)'
    \/ ~Receive /\ At(i, r)'

LEMMA ReceiveMovesUp ==
  ASSUME TypeOK, Receive, NEW r \in Requests, NEW i \in Nat, At(i, r)
  PROVE  \/ i = 1 /\ (task'.response_channel = r \/ reply'[r] # NULL)
         \/ i > 1 /\ At(i - 1, r)'
<1>1. queue # <<>> /\ queue' = Tail(queue) /\ queue \in Seq(Message)
  BY DEF Receive, ReceiveFresh, ReceiveStale, TypeOK
<1>2. CASE i = 1
  <2>1. Head(queue).response_channel = r /\ r # NULL
    BY <1>1, <1>2, TailFacts, NullAssumption DEF At
  <2>2. CASE ReceiveStale
    BY <1>2, <2>1, <2>2 DEF ReceiveStale
  <2>3. CASE ReceiveFresh
    <3>1. [kind |-> "not_stale", list |-> Nothing] # NULL
      BY StoredFacts, NullAssumption DEF Reply
    <3>2. reply'[r] = [kind |-> "not_stale", list |-> Nothing]
      BY <2>1, <2>3 DEF ReceiveFresh, Answer, TypeOK
    <3> QED
      BY <1>2, <3>1, <3>2
  <2> QED
    BY <2>2, <2>3 DEF Receive
<1>3. CASE i # 1
  <2>1. i > 1
    BY <1>1, <1>3 DEF At
  <2> QED
    BY <1>1, <1>3, <2>1, TailFacts DEF At
<1> QED
  BY <1>2, <1>3

LEMMA OthersKeepPlaces ==
  ASSUME IInv, [Next]_vars, ~Receive, NEW r \in Requests, NEW i \in Nat, At(i, r)
  PROVE  \/ pc'[r] = "done"
         \/ task'.phase = "stopped" /\ reply'[r] = Closed
         \/ At(i, r)'
<1>1. queue \in Seq(Message) /\ Carries(queue, r) /\ r # NULL
  BY NullAssumption DEF IInv, TypeOK, At, Carries
<1>2. pc[r] = "await"
  BY <1>1 DEF IInv, WaiterHasOneSender, InQueue
<1>3. ASSUME NEW m \in Message, queue' = Append(queue, m) PROVE At(i, r)'
  BY <1>1, <1>3, AppendFacts DEF At
<1>4. ASSUME NEW c \in Requests, ListStored(c) \/ SendMessage(c) PROVE At(i, r)'
  <2>1. \/ UNCHANGED queue
        \/ \E m \in Message : queue' = Append(queue, m)
    BY <1>4 DEF ListStored, TrySend, SendMessage, IInv, TypeOK, Message
  <2> QED
    BY <1>3, <2>1 DEF At
<1>5. ASSUME NEW c \in Requests, Disconnect(c) PROVE pc'[r] = "done" \/ At(i, r)'
  <2>1. CASE c = r
    BY <1>5, <2>1 DEF Disconnect, Respond, Goto, IInv, TypeOK
  <2>2. CASE c # r
    <3>1. queue' = Without(queue, c) /\ queue[i] \in Message
      BY <1>1, <1>5 DEF Disconnect, At
    <3> QED
      BY <1>1, <2>2, <3>1 DEF At, Without
  <2> QED
    BY <2>1, <2>2
<1>6. CASE Stop
  BY <1>1, <1>6 DEF Stop, Stopped, Idle
<1>7. CASE Restart
  BY <1>2, <1>7 DEF Restart
<1>8. ASSUME \/ \E p \in Providers, list \in Lists : OtherInstanceStores(p, list)
             \/ \E c \in Requests :
                  \/ \E p \in Providers : Request(c, p)
                  \/ ListNothing(c) \/ SendTimesOut(c) \/ SendFindsClosed(c) \/ ReceiveReply(c)
             \/ Fetch \/ Store
             \/ \E p \in Providers : IntervalPasses(p)
             \/ Cancel \/ UNCHANGED vars
      PROVE  UNCHANGED queue
  BY <1>8 DEF OtherInstanceStores, Request, ListNothing, SendTimesOut, SendFindsClosed,
       ReceiveReply, Fetch, FetchSucceeds, FetchFails, Store, StoreCommits, StoreAnswered,
       StoreFails, Finish, IntervalPasses, Cancel, taskVars, vars
<1> QED
  BY <1>4, <1>5, <1>6, <1>7, <1>8 DEF Next, Handler, At

\* No waiting request is overtaken in the channel: its message is received after
\* as many others as were before it when it was sent.
THEOREM NobodyOvertaken == Spec => [][MovesUp]_vars
<1>1. IInv /\ [Next]_vars => MovesUp
  BY ReceiveMovesUp, OthersKeepPlaces DEF MovesUp, IInv
<1> QED
  BY <1>1, Invariance, PTL DEF Spec
==============================================================================
