---------------------------- MODULE ArtifactCache ----------------------------
(***************************************************************************)
(* GET /artifacts/:version_id (src/http/artifacts.rs).  A call looks its   *)
(* version up in Postgres; when an artifact is bound to it, the call signs *)
(* a redirect to the stored object, otherwise it allocates an artifact id, *)
(* opens the upstream download, copies it to S3 in a multipart upload,     *)
(* binds the id to the version's row and then signs the redirect.          *)
(*                                                                         *)
(* Calls of one or of several terrashine instances run concurrently and    *)
(* share only the database (row, lastId) and the bucket (uploads,          *)
(* objects), so a Request stands for a call on any instance.  An await may *)
(* end in an error, and the call may be dropped at any await (its client   *)
(* disconnects, its process dies): the server-side effect of the pending   *)
(* operation then happens or does not.  A process keeps nothing else that  *)
(* outlives a call, so a crash is the drop of all its calls.               *)
(***************************************************************************)
EXTENDS Integers

CONSTANTS Requests,       \* slots for calls in flight; a slot is used again
          Versions,       \* values a client may put in the :version_id path
          Builds,         \* contents upstream may serve for one version
          Parts,          \* parts the body of a package is uploaded in
          MaxArtifactId,  \* last value of the sequence artifact_ids
          NULL,           \* SQL null, Option::None, no such object
          ABSENT          \* no such row

ASSUME PartsAssumption == Parts \in Nat
ASSUME MaxAssumption   == MaxArtifactId \in Nat
ASSUME NullAssumption  == /\ NULL \notin Nat
                          /\ ABSENT \notin Nat
                          /\ NULL # ABSENT
                          /\ NULL \notin Builds
                          /\ NULL \notin [version : Versions, build : Builds, parts : 0..Parts]
                          /\ NULL \notin [version : Versions, key : {"artifacts"} \X Nat]

Ids       == 1..MaxArtifactId
Artifacts == [version_id : Versions, artifact_id : Ids]

\* Mutant: the object is named after the version it is for.
MutantKeyByVersion(artifact) == <<"artifacts", artifact.version_id>>

\* The configured prefix is the same for every key and is left out.
to_s3_key(artifact) == <<"artifacts", artifact.artifact_id>>

Keys == {to_s3_key(a) : a \in Artifacts}

\* An object as S3 holds it: whose download it is, what upstream served, and
\* how many of the parts it was completed with.
Objects  == [version : Versions, build : Builds, parts : 0..Parts]
Packages == {o \in Objects : o.parts = Parts}

VARIABLES
  row,       \* terraform_provider_version.artifact_id of each version
  lastId,    \* last value handed out by the sequence artifact_ids
  uploads,   \* parts received by the multipart upload open for a key, or NULL
  objects,   \* the completed object of each key, or NULL
  pc,        \* where each call stands in artifacts_handler
  version,   \* its :version_id
  id,        \* its artifact id, once read or allocated
  body,      \* what upstream serves it, once the response has started
  status,    \* how the call ended
  hit        \* auxiliary: the version was bound when the call arrived

shared == <<row, lastId, uploads, objects>>
local  == <<pc, version, id, body, status, hit>>
vars   == <<shared, local>>

Phases   == {"idle", "details", "fetch", "stream", "abort", "complete",
             "store", "presign", "done"}
Statuses == {"none", "redirect", "not_found", "internal_error", "bad_gateway",
             "dropped"}

artifact(r) == [version_id |-> version[r], artifact_id |-> id[r]]
Key(r)      == to_s3_key(artifact(r))
Bound(v)    == row[v] \in Ids

TypeOK ==
  /\ row     \in [Versions -> {ABSENT, NULL} \cup Ids]
  /\ lastId  \in 0..MaxArtifactId
  /\ uploads \in [Keys -> {NULL} \cup 0..Parts]
  /\ objects \in [Keys -> {NULL} \cup Objects]
  /\ pc      \in [Requests -> Phases]
  /\ version \in [Requests -> Versions]
  /\ id      \in [Requests -> {NULL} \cup Ids]
  /\ body    \in [Requests -> {NULL} \cup Builds]
  /\ status  \in [Requests -> Statuses]
  /\ hit     \in [Requests -> BOOLEAN]

Init ==
  /\ row     = [v \in Versions |-> ABSENT]
  /\ lastId  = 0
  /\ uploads = [k \in Keys |-> NULL]
  /\ objects = [k \in Keys |-> NULL]
  /\ pc      = [r \in Requests |-> "idle"]
  /\ version \in [Requests -> Versions]
  /\ id      = [r \in Requests |-> NULL]
  /\ body    = [r \in Requests |-> NULL]
  /\ status  = [r \in Requests |-> "none"]
  /\ hit     = [r \in Requests |-> FALSE]

(***************************************************************************)
(* What the database and the bucket do.                                    *)
(***************************************************************************)

\* A refresh of the provider lists the version (Refresher and CatalogStore).
AddVersion(v) ==
  /\ row[v] = ABSENT
  /\ row' = [row EXCEPT ![v] = NULL]
  /\ UNCHANGED <<lastId, uploads, objects, local>>

\* Mutant: ids are handed out past the sequence's last value.
MutantEndlessSequence ==
  /\ lastId' = lastId + 1
  /\ UNCHANGED <<row, uploads, objects>>

\* nextval: never rolled back, and an error once the sequence is used up.
allocate_artifact_id ==
  /\ lastId < MaxArtifactId
  /\ lastId' = lastId + 1
  /\ UNCHANGED <<row, uploads, objects>>

create_multipart_upload(k) ==
  /\ uploads' = [uploads EXCEPT ![k] = 0]
  /\ UNCHANGED <<row, lastId, objects>>

upload_part(k) ==
  /\ uploads[k] \in 0..(Parts - 1)
  /\ uploads' = [uploads EXCEPT ![k] = uploads[k] + 1]
  /\ UNCHANGED <<row, lastId, objects>>

abort_multipart_upload(k) ==
  /\ uploads[k] # NULL
  /\ uploads' = [uploads EXCEPT ![k] = NULL]
  /\ UNCHANGED <<row, lastId, objects>>

\* The object holds the parts that were uploaded, and replaces any other.
complete_multipart_upload(k, v, b) ==
  /\ uploads[k] # NULL
  /\ objects' = [objects EXCEPT ![k] = [version |-> v, build |-> b, parts |-> uploads[k]]]
  /\ uploads' = [uploads EXCEPT ![k] = NULL]
  /\ UNCHANGED <<row, lastId>>

\* The update is unconditional; only unique_artifact_id can refuse it.
store_artifact_in_database(a) ==
  /\ \A v \in Versions \ {a.version_id} : row[v] # a.artifact_id
  /\ row' = [row EXCEPT ![a.version_id] = a.artifact_id]
  /\ UNCHANGED <<lastId, uploads, objects>>

(***************************************************************************)
(* The handler.                                                            *)
(***************************************************************************)
Goto(r, phase) == pc' = [pc EXCEPT ![r] = phase]

\* The call's locals go; the client of a redirect keeps the signed key.
Respond(r, s) ==
  /\ Goto(r, "done")
  /\ status' = [status EXCEPT ![r] = s]
  /\ body'   = [body EXCEPT ![r] = NULL]
  /\ id'     = [id EXCEPT ![r] = IF s = "redirect" THEN @ ELSE NULL]
  /\ UNCHANGED <<version, hit>>

Call(r, v) ==
  /\ pc[r] \in {"idle", "done"}
  /\ Goto(r, "details")
  /\ version' = [version EXCEPT ![r] = v]
  /\ id'      = [id EXCEPT ![r] = NULL]
  /\ body'    = [body EXCEPT ![r] = NULL]
  /\ status'  = [status EXCEPT ![r] = "none"]
  /\ hit'     = [hit EXCEPT ![r] = Bound(v)]
  /\ UNCHANGED shared

\* Mutant: the artifact_id of the row is not looked at.
MutantAlwaysFetch(r) ==
  /\ pc[r] = "details"
  /\ row[version[r]] # ABSENT
  /\ Goto(r, "fetch")
  /\ UNCHANGED <<shared, version, id, body, status, hit>>

\* The row as the call's single select sees it decides the path it takes.
get_artifact_from_database(r) ==
  /\ pc[r] = "details"
  /\ row[version[r]] # ABSENT
  /\ id' = [id EXCEPT ![r] = row[version[r]]]
  /\ Goto(r, IF Bound(version[r]) THEN "presign" ELSE "fetch")
  /\ UNCHANGED <<shared, version, body, status, hit>>

NotFound(r) ==
  /\ pc[r] = "details"
  /\ row[version[r]] = ABSENT
  /\ Respond(r, "not_found")
  /\ UNCHANGED shared

\* Mutant: the id is read from the sequence without advancing it.
MutantPeekId(r) ==
  /\ pc[r] = "fetch"
  /\ id[r] = NULL
  /\ lastId < MaxArtifactId
  /\ id' = [id EXCEPT ![r] = lastId + 1]
  /\ UNCHANGED <<shared, pc, version, body, status, hit>>

\* try_join!: the id and the upstream response are awaited together, in
\* either order.
AllocateId(r) ==
  /\ pc[r] = "fetch"
  /\ id[r] = NULL
  /\ allocate_artifact_id
  /\ id' = [id EXCEPT ![r] = lastId']
  /\ UNCHANGED <<pc, version, body, status, hit>>

get_upstream(r) ==
  /\ pc[r] = "fetch"
  /\ body[r] = NULL
  /\ \E b \in Builds : body' = [body EXCEPT ![r] = b]
  /\ UNCHANGED <<shared, pc, version, id, status, hit>>

Joined(r) == id[r] # NULL /\ body[r] # NULL

StashBegins(r) ==
  /\ pc[r] = "fetch"
  /\ Joined(r)
  /\ create_multipart_upload(Key(r))
  /\ Goto(r, "stream")
  /\ UNCHANGED <<version, id, body, status, hit>>

UploadPart(r) ==
  /\ pc[r] = "stream"
  /\ upload_part(Key(r))
  /\ UNCHANGED local

\* Mutant: the row is written without waiting for the upload's completion.
MutantNotCompleted(r) ==
  /\ pc[r] = "stream"
  /\ uploads[Key(r)] = Parts
  /\ Goto(r, "store")
  /\ UNCHANGED <<shared, version, id, body, status, hit>>

StreamEnds(r) ==
  /\ pc[r] = "stream"
  /\ uploads[Key(r)] = Parts
  /\ Goto(r, "complete")
  /\ UNCHANGED <<shared, version, id, body, status, hit>>

\* Mutant: an error on the stream is taken for its end.
MutantErrorIsEnd(r) ==
  /\ pc[r] = "stream"
  /\ Goto(r, "complete")
  /\ UNCHANGED <<shared, version, id, body, status, hit>>

StreamBreaks(r) ==
  /\ pc[r] = "stream"
  /\ Goto(r, "abort")
  /\ UNCHANGED <<shared, version, id, body, status, hit>>

\* The stream's error is returned whether or not the abort succeeds.
AbortUpload(r) ==
  /\ pc[r] = "abort"
  /\ abort_multipart_upload(Key(r))
  /\ Respond(r, "internal_error")

CompleteUpload(r) ==
  /\ pc[r] = "complete"
  /\ complete_multipart_upload(Key(r), version[r], body[r])
  /\ Goto(r, "store")
  /\ UNCHANGED <<version, id, body, status, hit>>

\* Mutant: a call that finds the version bound takes the binding back.
MutantUnbind(r) ==
  /\ pc[r] = "store"
  /\ IF Bound(version[r])
     THEN row' = [row EXCEPT ![version[r]] = NULL] /\ UNCHANGED <<lastId, uploads, objects>>
     ELSE store_artifact_in_database(artifact(r))
  /\ Goto(r, "presign")
  /\ UNCHANGED <<version, id, body, status, hit>>

StoreArtifact(r) ==
  /\ pc[r] = "store"
  /\ store_artifact_in_database(artifact(r))
  /\ Goto(r, "presign")
  /\ UNCHANGED <<version, id, body, status, hit>>

presign_request(r) ==
  /\ pc[r] = "presign"
  /\ Respond(r, "redirect")
  /\ UNCHANGED shared

(***************************************************************************)
(* Errors and drops.  The operation a call was waiting for may have taken  *)
(* effect on the server when the call ends without seeing its answer.      *)
(***************************************************************************)
PendingEffect(r) ==
  \/ pc[r] = "fetch" /\ id[r] = NULL /\ allocate_artifact_id
  \/ pc[r] = "fetch" /\ Joined(r) /\ create_multipart_upload(Key(r))
  \/ pc[r] = "stream" /\ upload_part(Key(r))
  \/ pc[r] = "abort" /\ abort_multipart_upload(Key(r))
  \/ pc[r] = "complete" /\ complete_multipart_upload(Key(r), version[r], body[r])
  \/ pc[r] = "store" /\ store_artifact_in_database(artifact(r))

\* The two halves of try_join! map their errors to different statuses.
FailStatuses(r) ==
  IF pc[r] = "fetch" /\ ~Joined(r)
  THEN {s \in {"internal_error", "bad_gateway"} :
          IF s = "bad_gateway" THEN body[r] = NULL ELSE id[r] = NULL}
  ELSE {"internal_error"}

Interrupted(r) ==
  /\ pc[r] \notin {"idle", "done"}
  /\ PendingEffect(r) \/ UNCHANGED shared
  /\ \E s \in FailStatuses(r) \cup {"dropped"} : Respond(r, s)

Next ==
  \/ \E v \in Versions : AddVersion(v)
  \/ \E r \in Requests :
       \/ \E v \in Versions : Call(r, v)
       \/ get_artifact_from_database(r) \/ NotFound(r)
       \/ AllocateId(r) \/ get_upstream(r) \/ StashBegins(r)
       \/ UploadPart(r) \/ StreamEnds(r)
       \/ StreamBreaks(r) \/ AbortUpload(r)
       \/ CompleteUpload(r) \/ StoreArtifact(r)
       \/ presign_request(r)
       \/ Interrupted(r)

Spec == Init /\ [][Next]_vars

-----------------------------------------------------------------------------
(***************************************************************************)
(* Properties.                                                             *)
(***************************************************************************)

\* The whole package of version v, nothing less and nothing else, is at k.
HoldsPackage(k, v) ==
  /\ objects[k] # NULL
  /\ objects[k] \in Packages
  /\ objects[k].version = v

KeyOf(v) == to_s3_key([version_id |-> v, artifact_id |-> row[v]])

\* A row names an artifact only once its object is in the bucket, complete
\* and downloaded for that very version, whatever was interrupted and however
\* many calls downloaded the version at once: stash_artifact completes the
\* upload before it writes the row.
BoundObjectComplete == \A v \in Versions : Bound(v) => HoldsPackage(KeyOf(v), v)

\* A client that was redirected finds the complete package of the version it
\* asked for under the signed key, for as long as it keeps the redirect: also
\* when a concurrent call has rebound the version to another artifact since.
RedirectResolves ==
  \A r \in Requests : status[r] = "redirect" => HoldsPackage(Key(r), version[r])

\* Concurrent downloads, of one version too, never write to the same key, and
\* the row write at their end is never refused by unique_artifact_id: the
\* sequence hands every call an id of its own.
Downloading(r) == \/ pc[r] = "fetch" /\ id[r] # NULL
                  \/ pc[r] \in {"stream", "abort", "complete", "store"}

DownloadsApart ==
  \A r \in Requests : Downloading(r) =>
     /\ \A q \in Requests \ {r} : Downloading(q) => Key(q) # Key(r)
     /\ \A v \in Versions : row[v] # id[r]

\* Once a version is mirrored, a later call neither asks upstream for it nor
\* fails because of upstream: its outcome depends on the mirror alone.
CachedVersionNotRefetched ==
  \A r \in Requests : hit[r] =>
     /\ pc[r] \in {"details", "presign", "done"}
     /\ status[r] \notin {"not_found", "bad_gateway"}

\* No step changes or removes an object that is in the bucket: what a redirect
\* or a cached copy of it points at keeps its contents.
ObjectsImmutable ==
  [][\A k \in Keys : objects[k] # NULL => objects'[k] = objects[k]]_objects

\* The cache implements the abstract store.
Store == INSTANCE ArtifactStore WITH
  binding <- [v \in Versions |-> IF Bound(v) THEN KeyOf(v) ELSE NULL],
  answer  <- [r \in Requests |-> IF status[r] = "redirect"
                                 THEN [version |-> version[r], key |-> Key(r)]
                                 ELSE NULL]

\* Keys are written once, and bindings and redirects only ever lead to a
\* complete package of their version (ArtifactStore!Spec).
ImplementsStore == Store!Spec

\* The strengthening that makes the invariants above inductive.  Every id in
\* use was taken from the sequence, and no key beyond it was written; a
\* download's key is empty until its upload completes with all the parts, and
\* holds the package from then on, also after the call has answered.
IdsAllocated ==
  /\ \A r \in Requests : id[r] # NULL => id[r] <= lastId
  /\ \A v \in Versions : Bound(v) => row[v] <= lastId
  /\ \A a \in Artifacts : a.artifact_id > lastId => objects[to_s3_key(a)] = NULL

Phasing ==
  \A r \in Requests :
    /\ pc[r] \in {"stream", "abort", "complete", "store"} => id[r] # NULL /\ body[r] # NULL
    /\ pc[r] = "presign" => id[r] # NULL
    /\ pc[r] = "complete" => uploads[Key(r)] = Parts
    /\ status[r] = "redirect" => pc[r] = "done" /\ id[r] # NULL

KeysFilled ==
  \A r \in Requests :
    /\ Downloading(r) /\ pc[r] # "store" => objects[Key(r)] = NULL
    /\ pc[r] \in {"store", "presign"} => HoldsPackage(Key(r), version[r])

HitsBound == \A r \in Requests : hit[r] => Bound(version[r])

\* Inductive: preserved by every step of the handler from any state, not only
\* from the reachable ones.
IInv ==
  /\ TypeOK
  /\ IdsAllocated
  /\ Phasing
  /\ DownloadsApart
  /\ KeysFilled
  /\ RedirectResolves
  /\ BoundObjectComplete
  /\ HitsBound
  /\ CachedVersionNotRefetched

\* docs/src/mirror-refreshing.md:12 says that the actual provider artifacts
\* are never modified after the initial download.  The row's update does not
\* look whether another call has bound an artifact meanwhile.
ArtifactNeverModified ==
  [][\A v \in Versions : Bound(v) => row'[v] = row[v]]_row
==============================================================================
