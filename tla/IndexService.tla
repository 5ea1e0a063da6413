---------------------------- MODULE IndexService ----------------------------
(***************************************************************************)
(* What GET index.json promises a client, with the refresher, its channel  *)
(* and its clock left out.  Versions are stored and stay stored.  A        *)
(* request is answered once: with an index of the provider it asked for    *)
(* that names no version the client could not ask for next, and every      *)
(* version that was stored when the request was made; or, only if none     *)
(* was, with a refusal; or it is dropped, with its client or the process.  *)
(*                                                                         *)
(* Refresher implements this module; Mirror composes it with the stores.   *)
(***************************************************************************)
CONSTANTS Requests,     \* slots for calls of the index endpoint
          Providers,    \* hostname, namespace and type
          Versions,     \* version numbers a registry lists
          Faulty,       \* whether reading the stored versions may fail
          NULL          \* no provider

VARIABLES db,           \* the stored versions of each provider
          call          \* where the call of each slot stands

serviceVars == <<db, call>>

\* What a registry lists at one time: versions, and which of them with platforms.
\* The others are not stored.
Lists == {list \in [versions : SUBSET Versions, packaged : SUBSET Versions] :
            list.packaged \subseteq list.versions}

Stored(versions) == [versions |-> versions, packaged |-> versions]
Nothing          == Stored({})

\* No call, or one that was dropped; one that waits, and is owed the versions
\* stored when it was made; one that was answered.
None            == [state |-> "none", provider |-> NULL, list |-> Nothing]
Waiting(p, due) == [state |-> "waiting", provider |-> p, list |-> Stored(due)]
Index(p, list)  == [state |-> "index", provider |-> p, list |-> list]
Refused         == [state |-> "refused", provider |-> NULL, list |-> Nothing]

Waits(r) == call[r].state = "waiting"

Init == /\ db   = [p \in Providers |-> {}]
        /\ call = [r \in Requests |-> None]

Store(p, list) == /\ db' = [db EXCEPT ![p] = @ \cup list.packaged]
                  /\ UNCHANGED call

Ask(r, p) == /\ ~Waits(r)
             /\ call' = [call EXCEPT ![r] = Waiting(p, db[p])]
             /\ UNCHANGED db

Answer(r, list) == /\ Waits(r)
                   /\ list.packaged \subseteq db[call[r].provider]
                   /\ Faulty \/ call[r].list.versions \subseteq list.versions
                   /\ call' = [call EXCEPT ![r] = Index(@.provider, list)]
                   /\ UNCHANGED db

Refuse(r) == /\ Waits(r)
             /\ Faulty \/ call[r].list = Nothing
             /\ call' = [call EXCEPT ![r] = Refused]
             /\ UNCHANGED db

\* The slot's answer has reached its client.
Forget(r) == /\ ~Waits(r)
             /\ call' = [call EXCEPT ![r] = None]
             /\ UNCHANGED db

Drop(dropped) == /\ \A r \in dropped : Waits(r)
                 /\ call' = [r \in Requests |-> IF r \in dropped THEN None ELSE call[r]]
                 /\ UNCHANGED db

Next == \/ \E p \in Providers, list \in Lists : Store(p, list)
        \/ \E r \in Requests : \/ \E p \in Providers : Ask(r, p)
                               \/ \E list \in Lists : Answer(r, list)
                               \/ Refuse(r) \/ Forget(r)
        \/ \E dropped \in SUBSET Requests : Drop(dropped)

Spec == Init /\ [][Next]_serviceVars
==============================================================================
