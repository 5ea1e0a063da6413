# Terrashine in TLA+

Terrashine mirrors Terraform providers. Terraform asks it for the versions of a
provider (`index.json`), for the packages of a version (`<version>.json`) and
for a package (`/artifacts/<id>`); terrashine answers from Postgres and S3, and
fills both from the provider's own registry the first time something is asked
for. These modules specify what it promises while doing so, for concurrent
requests, several instances on one database, registries that are slow, wrong or
gone, and processes that stop in the middle. Paths below are those of the
repository; `artifacts.rs` and `index.rs` are in `src/http/`, the schema is
`migrations/20230320234859_initial-schema.sql`.

## 1. The system

| Component | Source | State it keeps | Operations | Interacts with |
|---|---|---|---|---|
| artifact endpoint and stash | `artifacts.rs` | none between calls; column `artifact_id`, sequence `artifact_ids`, S3 objects and multipart uploads | look up, allocate id, fetch, multipart upload, complete, bind, presign | database, S3, registry client |
| index endpoint | `index.rs` 26-119 | none between calls | list, `try_send`, `send_timeout`, wait on a oneshot channel | database, refresher |
| refresher task | `src/refresh.rs` | map of last refreshes, mpsc channel | receive, refresh, answer, stop | registry client, catalogue, cancellation token |
| provider catalogue | `index.rs` 171-253, schema | `terraform_provider`, `terraform_provider_version` | one transaction: upsert provider, insert versions, commit | refreshers of all instances |
| registry client | `src/registry/client.rs` | none | discovery, GET with a size limit and a token | credential store, registries |
| version endpoint | `src/http/version.rs` | none | one query, one conversion | database |
| credential store and API | `src/credhelper/`, `src/http/api/v1/credential.rs` | `terraform_registry_host`, or a map behind a lock | store, forget, get, add the token to a request | registry client |
| caches | `Cache-Control` in `index.rs` 286-289 and `artifacts.rs` 46-49 | an index, a redirect | keep an answer for a minute | clients, index and artifact endpoints |
| server lifecycle | `src/lib.rs`, `src/main.rs` | cancellation token, set of connection tasks | accept, cancel, drain, join | all of the above |
| routes, configuration, migration, health check, errors, telemetry | the other files | none that outlives a call | wiring and I/O | |

What is hard about it:

* **Interleaving.** Nothing locks a version during its download, so two calls, of
  one instance or of two, may both find it unbound, both download it and both
  bind it. Refreshers of several instances store overlapping responses for one
  provider in transactions that run at the same time.
* **Interruption.** Every `await` may end in an error, and a handler is dropped
  when its client disconnects; the operation it was waiting for then happened or
  did not. A process may die anywhere; it leaves only the database and the bucket.
* **Waiting.** An index request for an unknown provider waits for an answer of
  the one refresher, which serves all providers in turn and asks registries that
  may take a minute each, over a channel that may be full and is dropped at a
  shutdown.
* **Age.** What a client was told (an index, an id, a redirect) is used later,
  when other refreshes and downloads have gone on.

What makes each component correct: a bound version and a redirect lead to the
complete package of that version and keep doing so; a mirrored version needs its
registry no more; whoever waits is answered; what is answered is stored; a
response is stored as a whole; ids are neither reused nor changed. The hazards,
each at its line and with the properties that cover it, are in `PROJECT.json`.

## 2. Modules

| Module | What it is |
|---|---|
| `ArtifactStore` | abstract: a write-once store of packages, bindings and redirects |
| `ArtifactCache` | `artifacts_handler` and `stash_artifact`, with the database and the bucket they use |
| `MCArtifactCache` | its symmetries for TLC |
| `ArtifactCacheProofs` | its theorems |
| `IndexService` | abstract: an index request is answered once, from what is stored |
| `Refresher` | `index_handler` and `refresher` of one instance, with its channel, shutdown and restart |
| `MCRefresher` | its symmetries for TLC |
| `RefresherProofs` | its theorems |
| `Catalog` | abstract: a response is merged as a whole, ids are unique and stable |
| `CatalogStore` | the transaction of `store_provider_versions` on the tables of the schema |
| `MCCatalogStore` | the responses TLC uses |
| `CatalogStoreProofs` | its theorems |
| `StashUpload` | the multipart upload inside `stash_artifact`: buffer, threshold, part numbers, byte for byte |
| `StashUploadProofs` | its theorems |
| `Lifecycle` | accept loop, refresher and signals of one process, from start to exit |
| `LifecycleProofs` | its theorems |
| `Credentials` | the three credential stores under concurrent calls |
| `RegistryClient` | `provider_get` over one of these stores, while the credential API changes it |
| `CredentialsProofs` | theorems of both |
| `Mirror` | a client's walk from index to package, through a cache, over `Catalog`, `ArtifactStore` and `IndexService` |
| `MCMirror` | the platforms and symmetries TLC uses |
| `MirrorProofs` | its theorems |

`ArtifactCache` implements `ArtifactStore`, `Refresher` implements
`IndexService` and `CatalogStore` implements `Catalog`, each through
`INSTANCE ... WITH`, checked by TLC and proved. `RegistryClient` extends
`Credentials`: handlers and the registry client are the callers of one store, and
that its behaviours are behaviours of `StoreSpec` is a theorem.

`Mirror` is built on the three abstract modules: its steps on the parts are, by
definition, `Catalog`'s `Merge`, `ArtifactStore`'s `Publish`, `Answer` and `Forget`,
and `IndexService`'s `Ask`, `Answer`, `Refuse`, `Forget` and `Drop`, the steps the
three refinements map the code's steps to. The parts share state: the versions
the index service answers from are those of the catalogue's rows, and a download
reads its row from the catalogue before its package is published.
`ArtifactStore`'s `Bind` is left out: it only narrows which of a version's
packages the next answer leads to. That what the code does to the three parts at
once is what `Mirror` lets happen rests on the refinements of the parts, one by
one; no theorem joins the detailed modules.
`Refresher` takes a stored response as the one step (`Merge`) that
`CatalogStore` shows it to be, and `ArtifactCache` takes the rows refreshes add
as the step `AddVersion`.

### ArtifactCache

A `Request` is a call in flight on any instance. Its `pc` names the `await` it
stands at:

| `pc` | Code | Leaves by |
|---|---|---|
| `details` | select of the row, `artifacts.rs` 68 | `get_artifact_from_database`, `NotFound` |
| `fetch` | `try_join!` of the id and the upstream response, 97-105, then `create_multipart_upload`, 247 | `AllocateId`, `get_upstream`, `StashBegins` |
| `stream` | the loop over the body, 255-326 | `UploadPart`, `StreamEnds`, `StreamBreaks` |
| `abort` | 289-295 | `AbortUpload` |
| `complete` | 337-343 | `CompleteUpload` |
| `store` | 345 | `StoreArtifact` |
| `presign` | 132 | `presign_request` |

From each of them `Interrupted` ends the call by an error of the awaited
operation or by a drop, with the operation's effect on the server
(`PendingEffect`) or without. A crash is the drop of all calls of a process,
which keeps nothing else. The body of a package is a number of parts; an object
records whose download it is, what the registry served and how many parts it
was completed with, so that a truncated object, an object of another version
and two different downloads of one version can be told apart. S3 and the
sequence are external: an upload's parts are kept until it is completed or
aborted, completing replaces what is at the key, `nextval` is not rolled back.
A slot is used again by `Call`; until then a redirect it holds must resolve.

### Refresher

| Variable | Code |
|---|---|
| `queue` | the mpsc channel of `run_server` (capacity 10000, here `QueueCap`) |
| `task` | where the refresher's loop stands: `select`, `fetch` (registry), `store` (transaction), `stored` (committed, not yet seen), `stopped` |
| `last_refresh` | the map's entry of each provider: `vacant`, `fresh`, or `stale` once the interval has passed |
| `pc`, `prov`, `reply` | where each handler stands, for which provider, and its oneshot channel |
| `outcome`, `index` | its answer |
| `db`, `known` | version rows and provider rows |
| `seen`, `wasKnown` | auxiliary: what was stored when the request arrived; `seen` is cleared with the answer |

A oneshot sender is named by the request whose receiver it serves; it is in one
message, in the task, or used. `Disconnect` drops the receiver, `Stop` drops the
channel and with it the senders in it (`Closed`), `Restart` drops everything but
the database. `try_send` either appends or does nothing; `send_timeout` waits for
room and may give up while there is none. `StoreFails` covers a transaction that
fails and one that commits and loses its answer. A registry's response is a set
of versions of which some have platforms (`Lists`); the others get no row, and may
have platforms the next time, or none any more. A full refresh in the middle of
which the cancellation comes goes on to its end, as in the code, where only the
`select!` looks at the token.

To a client all this is one call of `IndexService` (`CallOf`): it waits from
`Request` until it is answered, is owed what was stored when it began, and then
holds an index or a refusal. Every error answer is the same refusal there.
`Merge` is its `Store`, `Request` its `Ask`, `Respond` its `Answer` or `Refuse`,
`Disconnect` and `Restart` its `Drop`; sending, receiving, refreshing and stopping
are stutters. An index may list fewer versions than were stored only where the
select may fail (`ListFaults`, there `Faulty`).

### CatalogStore

A `Writer` is the refresher of one instance. `Begin`, `UpsertProvider`, one
`InsertVersion` per tuple, `InsertEnds` and `Commit` are the statements of
`store_provider_versions`; `Rollback` is any failure. The upsert is modelled with
the row lock it takes, the inserts with the wait for a conflicting uncommitted
row and with the identity value that each tuple costs, also one that conflicts.
Reads see committed rows only.

### StashUpload

The body is the offsets from 0 to `size`; `received` is what the stream has
delivered and `start` the offset of the first byte in `upload_buffer`, so the
buffer is the range between them. `Chunk` extends it (`artifacts.rs` 257-261),
`UploadPart` and `UploadTail` are the two copies of the upload (262-286,
308-326), and an object is the sequence of ranges it was completed from. S3's
rules for a completion are external (`Acceptable`): there is a part, the
numbers ascend, no part but the last is below 5 MiB. That a body ends at its
size or with an error is HTTP's doing; nothing in the code compares lengths or
the registry's checksum. `ArtifactCache` has the same call among its neighbours
and counts parts only; its `CompleteUpload` with all parts stands for the
completion that `StashUpload` shows to be the body.

### Lifecycle

`server`, `refresher` and `process` follow `serve`, `refresher` and `main`;
`connection` is the state of each client connection and of the task that serves
it, `request` that of each request on it: the connection builder (`lib.rs` 77-79)
speaks HTTP/1, with one request at a time, and HTTP/2, with one on each stream,
any of which the client may reset (`ResetStream`). A task ends when its client
closes the connection and not before: `serve` sets no timer and no graceful
shutdown on the builder. A request may need the refresher (`asking`) and is
`told` its result, or, when the refresher ends, that there will be none.

### Credentials and RegistryClient

`token` is the row, or map entry, of each host; it has no other state, so the
database outlives calls and instances. A `Caller` is a call in flight:

| `step` | Code | Leaves by |
|---|---|---|
| `begun` | the call of `get`, `store` or `forget`, `credential.rs` 29, 49, 67 and `credhelper/types.rs` 35 | `DatabaseExecutes`, `DatabaseFails`, `TryLock`, `Refuse`, `Drop` |
| `locked` | within `try_read` or `try_write`, `memory.rs` 31-36, 40-45, 50-55; no await, so it is never dropped | `Access` |
| `done`, `failed` | the result is there | `Answer`, `Drop`, and `DatabaseFails` for a statement whose answer is lost |
| `lost` | a statement has been sent and its connection has failed: Postgres may execute it yet | `LostExecutes`, `Answer`, `Drop` |
| `dropped` | the handler is over, and the statement it sent may still be executed | `DroppedExecutes`, with or without effect |

`helper` is the implementation, chosen once. Three variables are history:
`seen` is what a get found, `calm` says whether another change of the host was
under way during the call, and `settled` is the token a host has to judge by the
answers, `Unknown` when they do not tell. In the database a change answered with
500 may be in force, or happen after the answer, and so may one that was dropped.
The server runs on the database only; the memory store, which refuses at once or
does what it is asked, and the one that always fails are what the tests of the
repository use, and the properties hold of them too.

`at` follows `provider_get`: `discover` and `discovery` are the two halves of
`discover_services` (`client.rs` 55-74), `token` is `transform` (95), `request`
and `metadata` the second request (97-104). `ReadChunk` is one turn of the loop
in `read_body_limit`. Bodies have a size and chunks have any size up to it; what
a body says is one choice between `Unusable` and going on. A fetch shares
`step`, `command` and `seen` with the handlers, as the caller of `get`.

### Mirror

A client asks for an index (`AskIndex`) and gets one (`AnswerIndex`,
`IndexArrives`), is refused (`RefuseIndex`), or gets the one a cache keeps
(`IndexKept`); the select of the index endpoint may fail here. It picks a
version of it and asks for its archives (`GetVersion`), picks its platform by
name, asks for the artifact (`GetArtifact`, `RedirectKept`) and follows the
redirect (`Follow`); it may give up at any time (`Finish`), which is also what
an error does to it. Between its requests, refreshes (`Refresh`) and downloads
go on in any instance: a download reads the row of an id (`Download`) and at
any later time, or never, puts that row's package under its key (`Publish`). A
proxy keeps what `Cache-Control` lets it: an index, for an unbounded time here,
and a redirect for `MaxAge`. The answer to `GetVersion` is not kept
(`version.rs` 101-104).

A redirect has three clocks: `valid`, what is left of its signature; `patience`,
the longest time until whoever it is on its way to has used it; and `fresh`,
what is left of `max-age` in the cache. A cache keeps a redirect only as it
passes on its way from the server. `Transit` bounds the time on the way to the
cache and that from there to its use.

Two assumptions are about the world. `PlatformAssumption`: the names of
operating systems have no underscore, or two platforms could have one archive
name; the registry is trusted with it, and nothing in the code checks it.
`TimeAssumption`: twice `Transit` and the 60 seconds stay below the 120 of the
signature. A version that is listed without a platform has no archives; `NeverStuck`
speaks of the versions the answer listed with some.

## 3. Runs

| Run | Instance | States | Shows |
|---|---|---|---|
| `artifact_cache` | 2 calls, 2 versions, 2 builds, 1 part, 3 ids, symmetry | 174,429 | `BoundObjectComplete`, `RedirectResolves`, `DownloadsApart`, `CachedVersionNotRefetched`, `ObjectsImmutable`, and that the store is implemented |
| `artifact_modified` | 2 calls, 1 version | | counterexample to `ArtifactNeverModified` |
| `refresher_safety` | 2 requests, 2 providers, 1 version listed with or without platforms, channel of 1, queries may fail, symmetry | 783,230 | `WaiterHasOneSender`, `AnswerIsStored`, `HeldBackOnlyIfKnown` |
| `refresher_liveness` | 2 requests, 1 provider, 1 version, channel of 2, queries succeed | 61,521 | `MirroredAnswered`, `EveryRequestAnswered`, `CancelStops`, `ListedStaysListed`, and that the index service is implemented |
| `new_path` | as the safety run, 1 provider | | counterexample to `NewPathOnlyForNew` |
| `disappears` | 1 provider, 1 version, queries may fail | | counterexample to `ListedStaysListed` |
| `catalog_store` | 2 writers, 2 providers, 2 tuples, lists `<<>>`, `<<a,b>>`, `<<b,a>>`, `<<a,a>>`, 4 row ids | 119,496 | `RowIdsUnique`, `InsertsNeverWait`, `CommitStoresAll`, `StoreEnds`, and that the catalogue is implemented |
| `stash_upload` | bodies of 0 to 13 bytes, chunks of 0 to 4, minimum 3, S3's minimum 2, 3 part numbers | 1,440 | `ObjectIsBody`, `CompletionAccepted`, `BufferBounded` |
| `lifecycle` | 2 connections of 2 requests at a time | 3,063 | `RequestsAnswered`, `ShutdownEnds`, `ShutdownCutsNothing`, `NoOneWaitsInVain` |
| `idle_connection` | 1 connection | | counterexample to `ExitsWhenRequestsDone` |
| `credentials` | 2 handlers, 1 fetch, 1 host, 2 tokens, 3 stores, limits 1 and 2, bodies of 0 to 3 | 504,540 | `AcknowledgedInForce`, `ReadsInForce`, `BodyReadWhole`, `FetchEnds` |
| `mirror` | 1 client, 1 provider, 3 tuples of 2 versions, 3 ids, 2 keys, ticks of 20 s, symmetry | 201,594 | `NeverStuck`, `OwnPackage` |

The properties of the runs are what is said of the system; the inductive
invariants behind them are in the proof modules.

Bounds. Two calls are the smallest number with a race, and the variables of a
call interact with those of one other call at a time (by a key or by a row).
Two versions are needed for one to take the other's artifact, two builds to
tell two downloads of one version apart, three ids for a download after two
interleaved ones. One part is enough for an object that was completed too
early. A channel of one message is full after one request and a channel of two
holds two waiters at a shutdown. Refreshes, indexes and what a request is owed
are treated version by version, so one version, listed with platforms, without,
or not, is enough. Two tuples in both orders are what a deadlock between two
inserts needs; four ids let the sequence run out in one transaction and not in
another. The sizes of `stash_upload` are those at which its decisions change:
empty, below, at and above multiples of the minimum, and one that needs a part
too many. Two connections of two requests let one request be served by the
refresher while another of its connection and one of another wait, and one
connection be idle. Hosts do not interact, so one is enough; two handlers and a
fetch are two changes that overlap each other and a read. The limits of
`credentials` differ, and bodies are below, at and above both. In `mirror` two
platforms have names of which one begins like the other, and the other version
is what a wrong query would add; two keys are two downloads of one version;
with one client the cache holds what that client's earlier walks left in it.
Rows of another provider would be more rows with ids of their own, which the
theorems have. Ticks are 20 seconds: the redirect may be kept for 3, its
signature lasts 6, and the way takes up to 1. What the bounds cut short
(`MaxArtifactId`, `MaxRowId`) is cut by the actions themselves, as the end of
the sequence, which is an error in the code too; the theorems have no bounds.

Deadlock is checked except where the modelled thing ends: an upload that is over,
a process that has exited. No cfg replaces a definition.

The mutants named in `PROJECT.json`, one for each property of a passing run, are
the operators called `Mutant...` next to the action they change.

### Fairness

`FairSpec` of `Refresher` assumes that the runtime polls every handler and the
refresher (`WF` on `Handler(r)` and `Receive`), that Postgres answers or the
connection fails (`WF` on `Store`), and that `select!`, which polls its branches
in random order, does not for ever pass over a cancellation that is ready each
time (`SF` on `Stop`). Nothing is assumed of clients, of the shutdown, of the
interval, or of other instances. The registry's answer is an assumption of its
own, `UpstreamAnswers`: the HTTP client gives up after 60 seconds
(`src/lib.rs` 156). `EveryRequestAnswered` and `CancelStops` need it;
`MirroredAnswered` does without it and so covers an outage.

`FairSpec` of `RegistryClient` assumes that a call of the store made by a fetch
proceeds and that a fetch does its next step (`WF` on `Proceed` and
`FetchStep`): a registry that does not answer in time is failed by the client's
timeout (`src/lib.rs` 156), and a body, having an end or breaking off, is read in
finitely many chunks. Nothing is assumed of the handlers: `FetchEnds` says that
they cannot hold up the registry client, and that no await of a `provider_get`
sends it back to one that is behind it, whatever the store answers.

`FairSpec` of `CatalogStore` assumes that a transaction that can go on does, and
that Postgres serves those waiting for a row lock in turn (`SF` on
`UpsertProvider`).

`FairSpec` of `Lifecycle` assumes what that of `Refresher` does, that refreshes
end, and that the refresher takes up each waiting request in its turn; nothing
of clients. `ShutdownEnds` adds `ClientsLeave`, that each client closes its
connection in the end.

### What the violated properties show

* `ArtifactNeverModified`. `docs/src/mirror-refreshing.md` 12 says artifacts are
  never modified after the initial download. Of two concurrent first downloads,
  each binds the version when it ends, the later one over the earlier one
  (`artifacts.rs` 353). The object of the earlier one stays in the bucket, so
  redirects to it resolve (`RedirectResolves`) and no object changes
  (`ObjectsImmutable`), but the version is then served with the other download.
* `NewPathOnlyForNew`. The comment at `index.rs` 66 says that asking the
  refresher and waiting occurs only for a brand new provider. A provider whose
  listed versions have no platforms is stored without version rows and looks new
  every time; within the refresh interval it is refused as a concurrent fetch.
* `ListedStaysListed`. `README.md` 14 promises that providers do not disappear
  when their source is deleted. After a failed select (`index.rs` 55) the answer
  is the registry's response (101), without the mirrored versions the registry
  has dropped. While the select succeeds the property holds, which
  `refresher_liveness` checks.
* `ExitsWhenRequestsDone`. The comment at `lib.rs` 92 says that `serve` waits
  "until all requests are done"; it waits for connections, and one that its
  client keeps open without a request holds up the exit for as long. With
  clients that leave, the exit comes (`ShutdownEnds`).

## 4. Proofs

The proof modules follow one argument: `Init => IInv`, every step preserves
`IInv`, `IInv` implies the properties; each step has one case per action and in
it one step per conjunct the action can disturb. Nothing is assumed but the
named `ASSUME`s of the constants, which TLC evaluates in the runs.

**ArtifactCacheProofs** proves, for any number of calls, versions, builds, parts
and ids, `TypeOK`, `BoundObjectComplete`, `RedirectResolves`, `DownloadsApart`,
`CachedVersionNotRefetched`, `ObjectsImmutable` and `ImplementsStore`.
`BoundObjectComplete` alone is not inductive: nothing in it says that the object
a call is about to bind is complete. `IInv` adds that every id in use was taken
from the sequence and no key beyond it was written (`IdsAllocated`), so that an
id just allocated has an empty key; that a download's key is empty until its
upload completes and holds the whole package afterwards (`KeysFilled`), which
needs downloads to have different ids (`DownloadsApart`) or the upload of one
could fill the key of another; and what each phase of a call has already got
(`Phasing`). The refinement maps a bound row to its key and a redirect to its
version and key: completing an upload is a `Publish`, the update a `Bind`, the
presigned response an `Answer`, the reuse of a slot a `Forget`, every other step
a stutter.

**RefresherProofs** proves, for any number of requests, providers and versions
and any channel capacity, `TypeOK`, `WaiterHasOneSender`, `AnswerIsStored`,
`HeldBackOnlyIfKnown`, `ListedStaysListed` and `ImplementsService`. `IInv` adds
that a message, the task and an answer are for the provider their waiter asks
for, and that what the refresher is about to answer is in the database
(`AnswersBacked`): the answer is sent after the commit, and rows are never
removed.

The refinement (`Implements`) needs more than what is true of answers: that what
a request is owed is still stored, and that a handler goes to the refresher only
if it is owed nothing or the select failed (`Refining`). Then an answer sent is
one that `IndexService` allows at the moment it arrives, whatever was stored,
overtaken or dropped in between. `ListedStays` proves `ListedStaysListed` from
the same facts under the hypothesis `~ListFaults`, and the run `disappears` is
the counterexample without it.

`NobodyOvertaken` proves the safety part of `EveryRequestAnswered`: each message
the refresher receives moves a waiting one a place forward and none is put
before it, so a request waits for at most as many refreshes as messages were
before it.

**StashUploadProofs** proves, for packages, chunks, minimum and number of parts of
any size, `TypeOK`, `ObjectIsBody`, `CompletionAccepted` and `BufferBounded`.
`IInv` says that the list of parts is 1, 2, ..., that their ranges follow each
other from 0 up to what is in the buffer (`PartsInOrder`), that each part
uploaded from within the stream holds the minimum (`PartsLarge`), and what each
phase knows of the buffer (`Phasing`). `PartAppended` carries both copies of the
upload. S3's minimum enters only through the assumption that it is at most ours.

**CatalogStoreProofs** proves, for any number of instances, providers, tuples,
ids and responses of any order and length, `TypeOK`, `RowIdsUnique`,
`InsertsNeverWait`, `CommitStoresAll` and `ImplementsCatalog`. The argument is
the lock: whoever is past the upsert holds the row of its provider (`LockInv`),
so uncommitted version rows of a provider belong to one transaction and no
insert meets those of another. Ids written by a transaction were drawn from the
sequence and are in no other row (`WrittenInv`, `DrawnInv`), and the tuples of
the response an insert has gone through have rows, committed or its own
(`ProgressInv`); a row it skipped stays, since rows are never removed. The
refinement maps a commit to `Merge` and every other step to a stutter.

Two theorems are the safety part of `StoreEnds`. `NobodyWaitsForAWaiter`: the
holder of a provider's row is past its upsert and waits for nobody, so a chain
of waiting transactions has one link and is no cycle. `EveryStepCounts`: each
step of a transaction lessens what is left of it (`StepsLeft`), and no step of
another adds to it.

**LifecycleProofs** proves, for any number of connections and of requests on
each, `TypeOK`, `ShutdownCutsNothing` and `NoOneWaitsInVain`: a refresher that
has stopped was cancelled and leaves nobody waiting for it, and nobody begins
to. The three are inductive together. `ShutdownGoesOneWay` proves that no step
undoes one of the shutdown: the token stays cancelled, what has stopped stays
so, and once `serve` drains no connection gets a task.

**CredentialsProofs** proves, for any number of callers, hosts, tokens and
fetches and any limits, `TypeOK`, `AcknowledgedInForce`, `ReadsInForce` and
`BodyReadWhole`. The store's invariant (`StoreInv`) is proved once for
`StoreSpec` (`StoreInvariance`) and reaches `RegistryClient` by
`ClientIsStoreUser`. It adds that where a host's token is not the acknowledged
one, a change that has happened is about to be answered
(`SettledUnlessHappened`), and that a calm change is the only one of its host
(`CalmIsAlone`). `EveryFetchStepCounts` proves the safety part of `FetchEnds`:
each step of a fetch or of the call of `get` it makes lessens what is left of it,
and no handler adds to it.

**MirrorProofs** proves, for any number of clients, providers, tuples, ids and
keys and all times that satisfy `TimeAssumption`, `TypeOK`, `NeverStuck`
and `OwnPackage`. No step takes back a row, an id or an object
(`NothingTakenBack`), so what an answer says stays true on its way and while it
is kept (`CallInv`, `KeptInv`). What is left of a signature exceeds what is left
of the time in which the redirect may be kept and used (`TimeInv`). A package is of
the row its download has read, and that row, with its id, is still there when the
package is published (`ObjectsBacked`). That two platforms have two archive names
is a lemma about sequences with one separator, and the one place that needs
`PlatformAssumption`.

Only model-checked: the liveness properties, as fairness and `ENABLED` are out of
the prover's reach. What each of them rests on besides fairness is proved:

| Liveness property | Proved part |
|---|---|
| `EveryRequestAnswered` | `NobodyOvertaken`, `NoOrphanWaiter` |
| `MirroredAnswered` | `RefiningHolds`: a request owed versions never asks the refresher while the select succeeds |
| `StoreEnds` | `NobodyWaitsForAWaiter`, `EveryStepCounts` |
| `FetchEnds` | `EveryFetchStepCounts` |
| `RequestsAnswered` | `WaitersAreTold` |
| `ShutdownEnds` | `ShutdownGoesOneWay` |
| `CancelStops` | none; one step, whose fairness is the whole of it |

## 5. Not modelled

* Panics. `discover_services` panics on a host name the URL parser refuses
  (`client.rs` 63), and a panic in the refresher ends `run_server`, which shares
  its task. Whether it happens is decided by the grammar of URLs, which no
  module has.
* `setup_server`, which builds the clients and the pool before anything is
  served and ends the process if it cannot.
* The bytes of a registry's answer and the building of URLs from it: one choice
  between usable and not.
* The channel's library: a send into the mpsc channel and the drop of the
  channel are one step each, so a message is either refused or dropped with the
  channel.
* S3 parts of an upload that was given up without an abort stay in the bucket,
  as in the code; nothing is said about them.
* Routes, configuration, the migration and health check commands, error texts,
  logs, metrics and spans have no state or order worth a model.
* The number of connections in the pool: the wait of up to 10 seconds for one is
  part of every operation that may fail.
* Clocks, except in `Mirror`: an interval passes, a timeout fires, at any time.
  The clocks of `Mirror` agree with each other; a client, a cache and S3 whose
  clocks differ are not covered.

## 6. Plan

Done, in this order: `ArtifactStore` and `ArtifactCache` with proofs,
`Refresher` with proofs, `Catalog` and `CatalogStore`, `StashUpload` with
proofs, `Lifecycle`, `Credentials` and `RegistryClient` with proofs,
`CatalogStoreProofs`, `LifecycleProofs`, `Mirror` with proofs; `IndexService`,
its refinement by `Refresher` and its place in `Mirror`; the parts of the
liveness properties that need no fairness; requests of HTTP/2 in `Lifecycle`,
responses that change their platforms in `Refresher`, late statements in
`Credentials`, and downloads that read their row in `Mirror`.

Open: what the abstract modules promise as theorems of their own (an id of
`Catalog` belongs to one row for ever, a redirect of `ArtifactStore` to one
package), from which `Mirror`'s proofs could start; the panic of the refresher
as a step of `Lifecycle`, once its occasion can be stated faithfully; clocks that
drift, in `Mirror`; a composition of the detailed modules with one database and one
bucket, shown to implement the server that `Mirror` takes for granted.
