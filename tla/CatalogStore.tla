---------------------------- MODULE CatalogStore -----------------------------
(***************************************************************************)
(* store_provider_versions (src/http/index.rs) on the tables of            *)
(* migrations/20230320234859_initial-schema.sql: the transaction in which  *)
(* a refresher merges a registry's response into the database.  Refreshers *)
(* of several instances store responses for one provider at the same time. *)
(*                                                                         *)
(* The database is external.  Transactions run at its default isolation    *)
(* level, read committed: what a transaction wrote is seen by others once  *)
(* it commits, and a statement that would write a row, or violate a        *)
(* constraint with a row, of a transaction in progress waits for its end.  *)
(***************************************************************************)
EXTENDS Integers, Sequences

CONSTANTS Writers,      \* refreshers, one per instance
          Providers,    \* hostname, namespace and type
          Tuples,       \* version, os and arch
          Responses,    \* the lists of tuples a registry may answer with
          MaxRowId,     \* last value of the identity column's sequence
          NULL

ASSUME ResponsesAssumption == Responses \subseteq Seq(Tuples)
ASSUME MaxRowIdAssumption  == MaxRowId \in Nat
ASSUME NullAssumption      == NULL \notin Nat /\ NULL \notin Writers

Ids == 1..MaxRowId

VARIABLES
  known,      \* committed rows of terraform_provider
  rowId,      \* id of each committed row of terraform_provider_version, or NULL
  lastRowId,  \* last value of the identity sequence
  holder,     \* the transaction that has written a provider's row, or NULL
  phase,      \* where each writer stands in store_provider_versions
  target,     \* the provider it stores a response for
  response,   \* the response
  rest,       \* the tuples its insert has yet to look at
  written     \* ids of the rows its transaction has inserted, or NULL

writerVars == <<phase, target, response, rest, written>>
vars       == <<known, rowId, lastRowId, holder, writerVars>>

NoRows == [t \in Tuples |-> NULL]

TypeOK ==
  /\ known     \subseteq Providers
  /\ rowId     \in [Providers -> [Tuples -> Ids \cup {NULL}]]
  /\ lastRowId \in 0..MaxRowId
  /\ holder    \in [Providers -> Writers \cup {NULL}]
  /\ phase     \in [Writers -> {"idle", "upsert", "insert", "commit"}]
  /\ target    \in [Writers -> Providers]
  /\ response  \in [Writers -> Responses \cup {<<>>}]
  /\ rest      \in [Writers -> Seq(Tuples)]
  /\ written   \in [Writers -> [Tuples -> Ids \cup {NULL}]]

Init ==
  /\ known     = {}
  /\ rowId     = [p \in Providers |-> NoRows]
  /\ lastRowId = 0
  /\ holder    = [p \in Providers |-> NULL]
  /\ phase     = [w \in Writers |-> "idle"]
  /\ target    \in [Writers -> Providers]
  /\ response  = [w \in Writers |-> <<>>]
  /\ rest      = [w \in Writers |-> <<>>]
  /\ written   = [w \in Writers |-> NoRows]

Goto(w, l) == phase' = [phase EXCEPT ![w] = l]

\* The rows of p that transactions other than w's have inserted and not
\* committed.
Uncommitted(w, p) ==
  {t \in Tuples : \E v \in Writers \ {w} : target[v] = p /\ written[v][t] # NULL}

Begin(w, p, listed) ==
  /\ phase[w] = "idle"
  /\ Goto(w, "upsert")
  /\ target'   = [target EXCEPT ![w] = p]
  /\ response' = [response EXCEPT ![w] = listed]
  /\ rest'     = [rest EXCEPT ![w] = listed]
  /\ UNCHANGED <<known, rowId, lastRowId, holder, written>>

\* Mutant: on conflict do nothing, which neither waits for nor locks the row.
MutantDoNothing(w) ==
  /\ phase[w] = "upsert"
  /\ target[w] \in known \/ holder[target[w]] = NULL
  /\ holder' = [holder EXCEPT ![target[w]] = IF target[w] \in known THEN @ ELSE w]
  /\ Goto(w, "insert")
  /\ UNCHANGED <<known, rowId, lastRowId, target, response, rest, written>>

\* insert ... on conflict do update: inserts or locks the provider's row, after
\* the transaction that did the same before has ended.
UpsertProvider(w) ==
  /\ phase[w] = "upsert"
  /\ holder[target[w]] = NULL
  /\ holder' = [holder EXCEPT ![target[w]] = w]
  /\ Goto(w, "insert")
  /\ UNCHANGED <<known, rowId, lastRowId, target, response, rest, written>>

\* Mutant: an id one above the largest that can be seen, not the sequence's.
MutantMaxPlusOne(w) ==
  LET p == target[w]
      t == Head(rest[w])
      seen == {rowId[q][u] : q \in Providers, u \in Tuples} \cup {written[w][u] : u \in Tuples}
      top  == CHOOSE i \in {0} \cup (seen \ {NULL}) : \A j \in seen \ {NULL} : j <= i
  IN
  /\ phase[w] = "insert"
  /\ rest[w] # <<>>
  /\ top < MaxRowId
  /\ written' = IF rowId[p][t] = NULL /\ written[w][t] = NULL
                THEN [written EXCEPT ![w][t] = top + 1] ELSE written
  /\ rest' = [rest EXCEPT ![w] = Tail(@)]
  /\ UNCHANGED <<known, rowId, lastRowId, holder, phase, target, response>>

\* Mutant: the sequence is not bounded.
MutantNoEnd(w) ==
  LET p == target[w]
      t == Head(rest[w])
  IN
  /\ phase[w] = "insert"
  /\ rest[w] # <<>>
  /\ t \notin Uncommitted(w, p)
  /\ lastRowId' = lastRowId + 1
  /\ written' = IF rowId[p][t] = NULL /\ written[w][t] = NULL
                THEN [written EXCEPT ![w][t] = lastRowId'] ELSE written
  /\ rest' = [rest EXCEPT ![w] = Tail(@)]
  /\ UNCHANGED <<known, rowId, holder, phase, target, response>>

\* One row of insert ... on conflict do nothing.  Its id is taken from the
\* sequence before the conflict is noticed, and is lost if there is one.
InsertVersion(w) ==
  LET p == target[w]
      t == Head(rest[w])
  IN
  /\ phase[w] = "insert"
  /\ rest[w] # <<>>
  /\ t \notin Uncommitted(w, p)
  /\ lastRowId < MaxRowId
  /\ lastRowId' = lastRowId + 1
  /\ written' = IF rowId[p][t] = NULL /\ written[w][t] = NULL
                THEN [written EXCEPT ![w][t] = lastRowId'] ELSE written
  /\ rest' = [rest EXCEPT ![w] = Tail(@)]
  /\ UNCHANGED <<known, rowId, holder, phase, target, response>>

\* Mutant: an error in the middle of the insert is passed over.
MutantPartial(w) ==
  /\ phase[w] = "insert"
  /\ Goto(w, "commit")
  /\ UNCHANGED <<known, rowId, lastRowId, holder, target, response, rest, written>>

InsertEnds(w) ==
  /\ phase[w] = "insert"
  /\ rest[w] = <<>>
  /\ Goto(w, "commit")
  /\ UNCHANGED <<known, rowId, lastRowId, holder, target, response, rest, written>>

Held(w) == {p \in Providers : holder[p] = w}

\* The transaction's end releases its locks.
End(w) ==
  /\ Goto(w, "idle")
  /\ holder'   = [p \in Providers |-> IF p \in Held(w) THEN NULL ELSE holder[p]]
  /\ response' = [response EXCEPT ![w] = <<>>]
  /\ rest'     = [rest EXCEPT ![w] = <<>>]
  /\ written'  = [written EXCEPT ![w] = NoRows]
  /\ UNCHANGED target

\* Mutant: every row is committed on its own.
MutantAutocommit(w) ==
  /\ phase[w] \in {"insert", "commit"}
  /\ known' = known \cup {target[w]}
  /\ rowId' = [rowId EXCEPT ![target[w]] =
                [t \in Tuples |-> IF written[w][t] # NULL THEN written[w][t] ELSE @[t]]]
  /\ End(w)
  /\ UNCHANGED lastRowId

Commit(w) ==
  /\ phase[w] = "commit"
  /\ known' = known \cup {target[w]}
  /\ rowId' = [rowId EXCEPT ![target[w]] =
                [t \in Tuples |-> IF written[w][t] # NULL THEN written[w][t] ELSE @[t]]]
  /\ End(w)
  /\ UNCHANGED lastRowId

\* Mutant: the connection goes back to the pool inside its transaction.
MutantStillHeld(w) ==
  /\ phase[w] # "idle"
  /\ Goto(w, "idle")
  /\ response' = [response EXCEPT ![w] = <<>>]
  /\ rest'     = [rest EXCEPT ![w] = <<>>]
  /\ written'  = [written EXCEPT ![w] = NoRows]
  /\ UNCHANGED <<known, rowId, lastRowId, holder, target>>

\* A statement fails (the sequence at its end is one reason), or the instance
\* or its connection is lost.
Rollback(w) ==
  /\ phase[w] # "idle"
  /\ End(w)
  /\ UNCHANGED <<known, rowId, lastRowId>>

Next ==
  \E w \in Writers :
    \/ \E p \in Providers, listed \in Responses : Begin(w, p, listed)
    \/ UpsertProvider(w)
    \/ InsertVersion(w) \/ InsertEnds(w)
    \/ Commit(w) \/ Rollback(w)

Spec == Init /\ [][Next]_vars

(***************************************************************************)
(* Fairness.  A transaction that can go on does, and fails if the ids are  *)
(* used up.  Postgres grants a row lock in the order it is asked for, so a *)
(* writer does not wait for ever for one that is released over and over.   *)
(***************************************************************************)
SequenceFails(w) == lastRowId = MaxRowId /\ rest[w] # <<>> /\ Rollback(w)

Fairness ==
  \A w \in Writers : /\ SF_vars(UpsertProvider(w))
                     /\ WF_vars(InsertVersion(w) \/ SequenceFails(w))
                     /\ WF_vars(InsertEnds(w) \/ Commit(w))

FairSpec == Spec /\ Fairness

-----------------------------------------------------------------------------
(***************************************************************************)
(* Properties.                                                             *)
(***************************************************************************)

\* index.rs:281-285, provider versions keep their ids and ids are not used
\* again: no two rows, committed or about to be, of any provider or
\* transaction, ever have one id.
RowIdsUnique ==
  /\ \A p, q \in Providers, t, u \in Tuples :
       rowId[p][t] # NULL /\ rowId[p][t] = rowId[q][u] => p = q /\ t = u
  /\ \A v, w \in Writers, t, u \in Tuples :
       written[v][t] # NULL /\ written[v][t] = written[w][u] => v = w /\ t = u
  /\ \A p \in Providers, w \in Writers, t, u \in Tuples :
       rowId[p][t] # NULL => rowId[p][t] # written[w][u]

\* Two transactions for one provider, whatever their lists and the order of
\* the tuples in them, never wait for each other's version rows, so they
\* cannot deadlock there: the upsert has let only one of them in.
InsertsNeverWait ==
  \A w \in Writers :
    phase[w] = "insert" => \A t \in Tuples : t \notin Uncommitted(w, target[w])

\* The rows a transaction skips as present are committed ones, and stay so:
\* when it commits, every tuple of its response has a row.
CommitStoresAll ==
  \A w \in Writers : phase[w] = "commit" =>
    \A i \in DOMAIN response[w] :
      \/ rowId[target[w]][response[w][i]] # NULL
      \/ written[w][response[w][i]] # NULL

\* Every store ends, with the other refreshers storing all the time.
StoreEnds == \A w \in Writers : phase[w] = "upsert" ~> phase[w] = "idle"

\* Responses become visible as a whole, and rows keep their ids.
Abstract == INSTANCE Catalog WITH
  Responses <- {{listed[i] : i \in DOMAIN listed} : listed \in Responses}

ImplementsCatalog == Abstract!Spec
==============================================================================
