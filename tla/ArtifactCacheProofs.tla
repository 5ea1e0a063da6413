------------------------- MODULE ArtifactCacheProofs -------------------------
(***************************************************************************)
(* ArtifactCache for any number of calls, versions, parts and ids: the     *)
(* inductive invariant IInv, the safety properties it implies, and the     *)
(* refinement of ArtifactStore.                                            *)
(***************************************************************************)
EXTENDS ArtifactCache, TLAPS

\* A key is named by the artifact id alone, and ids name different keys.
LEMMA KeyFacts ==
  \A a, b \in Artifacts :
    /\ to_s3_key(a) \in Keys
    /\ to_s3_key(a) = to_s3_key(b) <=> a.artifact_id = b.artifact_id
BY DEF Keys, to_s3_key, Artifacts

\* The keys of the calls and of the rows, told apart by their ids.
LEMMA KeysInUse ==
  ASSUME TypeOK
  PROVE  /\ \A r \in Requests : id[r] # NULL => Key(r) \in Keys
         /\ \A v \in Versions : Bound(v) => KeyOf(v) \in Keys
         /\ \A r, q \in Requests : id[r] # NULL /\ id[q] # NULL
                                 => (Key(r) = Key(q) <=> id[r] = id[q])
         /\ \A r \in Requests, v \in Versions : id[r] # NULL /\ Bound(v)
                                 => (Key(r) = KeyOf(v) <=> id[r] = row[v])
<1>1. \A r \in Requests : id[r] # NULL => artifact(r) \in Artifacts /\ artifact(r).artifact_id = id[r]
  BY DEF TypeOK, artifact, Artifacts
<1>2. \A v \in Versions : Bound(v) => [version_id |-> v, artifact_id |-> row[v]] \in Artifacts
  BY DEF Bound, Artifacts
<1>3. QED  BY <1>1, <1>2, KeyFacts DEF Key, KeyOf

LEMMA InitIInv == Init => IInv
<1>1. SUFFICES ASSUME Init PROVE IInv
  OBVIOUS
<1>2. TypeOK
  BY <1>1, MaxAssumption, PartsAssumption DEF Init, TypeOK, Phases, Statuses
<1>3. IdsAllocated
  BY <1>1, NullAssumption DEF Init, IdsAllocated, Bound, Ids, Keys
<1>4. Phasing /\ DownloadsApart /\ KeysFilled /\ RedirectResolves /\ HitsBound
  /\ CachedVersionNotRefetched
  BY <1>1 DEF Init, Phasing, DownloadsApart, Downloading, KeysFilled, RedirectResolves,
     HitsBound, CachedVersionNotRefetched
<1>5. BoundObjectComplete
  BY <1>1, NullAssumption DEF Init, BoundObjectComplete, Bound, Ids
<1>6. QED  BY <1>2, <1>3, <1>4, <1>5 DEF IInv

LEMMA StepTypeOK == IInv /\ [Next]_vars => TypeOK'
<1>1. SUFFICES ASSUME IInv, [Next]_vars PROVE TypeOK'
  OBVIOUS
<1> USE DEF IInv, TypeOK, Phases, Statuses, shared, local, Goto, Respond
<1>2. ASSUME NEW r \in Requests, id[r] # NULL PROVE Key(r) \in Keys
  BY <1>1, <1>2, KeysInUse
<1>3. ASSUME UNCHANGED vars PROVE TypeOK'
  BY <1>1, <1>3 DEF vars
<1>4. ASSUME NEW v \in Versions, AddVersion(v) PROVE TypeOK'
  BY <1>1, <1>4 DEF AddVersion
<1>5. ASSUME NEW r \in Requests, NEW v \in Versions, Call(r, v) PROVE TypeOK'
  BY <1>1, <1>5 DEF Call, Bound
<1>6. ASSUME NEW r \in Requests, get_artifact_from_database(r) PROVE TypeOK'
  BY <1>1, <1>6 DEF get_artifact_from_database, Bound
<1>7. ASSUME NEW r \in Requests, NotFound(r) PROVE TypeOK'
  BY <1>1, <1>7 DEF NotFound
<1>8. ASSUME NEW r \in Requests, AllocateId(r) PROVE TypeOK'
  BY <1>1, <1>8, MaxAssumption DEF AllocateId, allocate_artifact_id, Ids
<1>9. ASSUME NEW r \in Requests, get_upstream(r) PROVE TypeOK'
  BY <1>1, <1>9 DEF get_upstream
<1>10. ASSUME NEW r \in Requests, StashBegins(r) PROVE TypeOK'
  BY <1>1, <1>10, <1>2, PartsAssumption DEF StashBegins, Joined, create_multipart_upload
<1>11. ASSUME NEW r \in Requests, UploadPart(r) PROVE TypeOK'
  BY <1>1, <1>11, <1>2, PartsAssumption DEF UploadPart, upload_part, Phasing
<1>12. ASSUME NEW r \in Requests, StreamEnds(r) PROVE TypeOK'
  BY <1>1, <1>12 DEF StreamEnds
<1>13. ASSUME NEW r \in Requests, StreamBreaks(r) PROVE TypeOK'
  BY <1>1, <1>13 DEF StreamBreaks
<1>14. ASSUME NEW r \in Requests, AbortUpload(r) PROVE TypeOK'
  BY <1>1, <1>14 DEF AbortUpload, abort_multipart_upload
<1>15. ASSUME NEW r \in Requests, CompleteUpload(r) PROVE TypeOK'
  BY <1>1, <1>15, <1>2 DEF CompleteUpload, complete_multipart_upload, Objects, Phasing
<1>16. ASSUME NEW r \in Requests, StoreArtifact(r) PROVE TypeOK'
  BY <1>1, <1>16 DEF StoreArtifact, store_artifact_in_database, artifact, Phasing
<1>17. ASSUME NEW r \in Requests, presign_request(r) PROVE TypeOK'
  BY <1>1, <1>17 DEF presign_request
<1>18. ASSUME NEW r \in Requests, Interrupted(r) PROVE TypeOK'
  BY <1>1, <1>18, MaxAssumption, PartsAssumption, <1>2
  DEF Interrupted, PendingEffect, allocate_artifact_id, create_multipart_upload, upload_part,
      abort_multipart_upload, complete_multipart_upload, store_artifact_in_database, artifact,
      Phasing, Objects, Joined, FailStatuses
<1>19. QED
  BY <1>1, <1>3, <1>4, <1>5, <1>6, <1>7, <1>8, <1>9, <1>10, <1>11, <1>12, <1>13, <1>14, <1>15,
     <1>16, <1>17, <1>18 DEF Next

-----------------------------------------------------------------------------
(***************************************************************************)
(* One lemma per action: the parts of IInv it can disturb have a step each *)
(* and the others share the last one.                                      *)
(***************************************************************************)

LEMMA Step_AddVersion ==
  ASSUME IInv, TypeOK', NEW v \in Versions, AddVersion(v)
  PROVE  IInv'
<1>1. IdsAllocated'
  BY NullAssumption DEF IInv, TypeOK, IdsAllocated, Bound, Ids, AddVersion, local
<1>2. DownloadsApart'
  <2>1. \A r \in Requests : Downloading(r) => id[r] # NULL
    BY DEF IInv, Phasing, Downloading
  <2>2. \A r \in Requests : Downloading(r)' <=> Downloading(r)
    BY DEF AddVersion, local, Downloading
  <2>3. \A r \in Requests : Key(r)' = Key(r)
    BY DEF AddVersion, local, Key, artifact
  <2>4. QED  BY <2>1, <2>2, <2>3 DEF IInv, TypeOK, AddVersion, local, DownloadsApart
<1>3. BoundObjectComplete'
  BY NullAssumption DEF IInv, TypeOK, BoundObjectComplete, Bound, HoldsPackage, KeyOf, Ids,
     to_s3_key, AddVersion, local
<1>4. HitsBound'
  BY NullAssumption DEF IInv, TypeOK, HitsBound, Bound, Ids, AddVersion, local
<1>5. Phasing' /\ KeysFilled' /\ RedirectResolves' /\ CachedVersionNotRefetched'
  BY DEF IInv, TypeOK, Phasing, KeysFilled, RedirectResolves, CachedVersionNotRefetched, Key,
     artifact, Downloading, HoldsPackage, AddVersion, local
<1>6. QED  BY <1>1, <1>2, <1>3, <1>4, <1>5 DEF IInv

LEMMA Step_Call ==
  ASSUME IInv, TypeOK', NEW r \in Requests, NEW v \in Versions, Call(r, v)
  PROVE  IInv'
<1>1. HitsBound'
  BY Zenon DEF IInv, TypeOK, HitsBound, Call, Bound, shared
<1>2. IdsAllocated' /\ Phasing' /\ DownloadsApart' /\ KeysFilled' /\ RedirectResolves' /\
     BoundObjectComplete' /\ CachedVersionNotRefetched'
  BY DEF IInv, TypeOK, IdsAllocated, Phasing, DownloadsApart, KeysFilled, RedirectResolves,
     BoundObjectComplete, CachedVersionNotRefetched, Bound, Key, artifact, Downloading,
     HoldsPackage, KeyOf, Call, shared, Goto
<1>3. QED  BY <1>1, <1>2 DEF IInv

LEMMA Step_get_artifact_from_database ==
  ASSUME IInv, TypeOK', NEW r \in Requests, get_artifact_from_database(r)
  PROVE  IInv'
<1>1. IdsAllocated'
  BY DEF IInv, TypeOK, IdsAllocated, Bound, Ids, get_artifact_from_database, shared, Goto
<1>2. Phasing'
  BY NullAssumption DEF IInv, TypeOK, Phasing, Key, artifact, Bound, Ids,
     get_artifact_from_database, shared, Goto
<1>3. DownloadsApart'
  BY NullAssumption DEF IInv, TypeOK, DownloadsApart, Downloading, Key, artifact, Bound, Ids,
     Phasing, get_artifact_from_database, shared, Goto
<1>4. KeysFilled'
  BY DEF IInv, TypeOK, KeysFilled, Downloading, HoldsPackage, Key, artifact, Bound,
     BoundObjectComplete, KeyOf, get_artifact_from_database, shared, Goto
<1>5. RedirectResolves'
  BY DEF IInv, TypeOK, Phasing, RedirectResolves, HoldsPackage, Key, artifact, get_artifact_from_database, shared, Goto
<1>6. BoundObjectComplete' /\ HitsBound' /\ CachedVersionNotRefetched'
  BY DEF IInv, TypeOK, BoundObjectComplete, HitsBound, CachedVersionNotRefetched, Bound,
     HoldsPackage, KeyOf, get_artifact_from_database, shared, Goto
<1>7. QED  BY <1>1, <1>2, <1>3, <1>4, <1>5, <1>6 DEF IInv

LEMMA Step_NotFound ==
  ASSUME IInv, TypeOK', NEW r \in Requests, NotFound(r)
  PROVE  IInv'
<1>1. IdsAllocated' /\ BoundObjectComplete' /\ HitsBound' /\ CachedVersionNotRefetched'
  BY NullAssumption DEF IInv, TypeOK, IdsAllocated, BoundObjectComplete, HitsBound,
     CachedVersionNotRefetched, Bound, HoldsPackage, KeyOf, Ids, NotFound, shared, Goto, Respond
<1>2. Phasing' /\ DownloadsApart' /\ KeysFilled' /\ RedirectResolves'
  BY DEF IInv, TypeOK, Phasing, DownloadsApart, KeysFilled, RedirectResolves, Key, artifact,
     Downloading, HoldsPackage, NotFound, shared, Goto, Respond
<1>3. QED  BY <1>1, <1>2 DEF IInv

LEMMA Step_AllocateId ==
  ASSUME IInv, TypeOK', NEW r \in Requests, AllocateId(r)
  PROVE  IInv'
<1>1. IdsAllocated'
  BY DEF IInv, TypeOK, IdsAllocated, Bound, Ids, Artifacts, AllocateId, allocate_artifact_id
<1>2. Phasing'
  BY NullAssumption DEF IInv, TypeOK, Phasing, Ids, Key, artifact, to_s3_key, AllocateId, allocate_artifact_id
<1>3. DownloadsApart'
  BY KeysInUse, NullAssumption DEF IInv, TypeOK, DownloadsApart, Downloading, Key, artifact,
     IdsAllocated, Bound, Ids, to_s3_key, Phasing, AllocateId, allocate_artifact_id
<1>4. KeysFilled'
  BY NullAssumption DEF IInv, TypeOK, IdsAllocated, KeysFilled, Ids, Downloading, HoldsPackage, Artifacts, Key, artifact, AllocateId, allocate_artifact_id
<1>5. RedirectResolves'
  BY DEF IInv, TypeOK, Phasing, RedirectResolves, HoldsPackage, Key, artifact, AllocateId, allocate_artifact_id
<1>6. BoundObjectComplete' /\ HitsBound' /\ CachedVersionNotRefetched'
  BY DEF IInv, TypeOK, BoundObjectComplete, HitsBound, CachedVersionNotRefetched, Bound,
     HoldsPackage, KeyOf, AllocateId, allocate_artifact_id
<1>7. QED  BY <1>1, <1>2, <1>3, <1>4, <1>5, <1>6 DEF IInv

LEMMA Step_get_upstream ==
  ASSUME IInv, TypeOK', NEW r \in Requests, get_upstream(r)
  PROVE  IInv'
<1>1. IdsAllocated' /\ Phasing' /\ DownloadsApart' /\ KeysFilled' /\ RedirectResolves' /\
     BoundObjectComplete' /\ HitsBound' /\ CachedVersionNotRefetched'
  BY DEF IInv, TypeOK, IdsAllocated, Phasing, DownloadsApart, KeysFilled, RedirectResolves,
     BoundObjectComplete, HitsBound, CachedVersionNotRefetched, Bound, Key, artifact, Downloading,
     HoldsPackage, KeyOf, get_upstream, shared
<1>2. QED  BY <1>1 DEF IInv

LEMMA Step_StashBegins ==
  ASSUME IInv, TypeOK', NEW r \in Requests, StashBegins(r)
  PROVE  IInv'
<1>1. Phasing'
  BY KeysInUse DEF IInv, TypeOK, Phasing, Key, artifact, Joined, DownloadsApart, Downloading,
     StashBegins, create_multipart_upload, Goto
<1>2. DownloadsApart'
  BY DEF IInv, TypeOK, DownloadsApart, Downloading, Key, artifact, Joined, StashBegins,
     create_multipart_upload, Goto
<1>3. IdsAllocated' /\ KeysFilled' /\ RedirectResolves' /\ BoundObjectComplete' /\ HitsBound' /\
     CachedVersionNotRefetched'
  BY DEF IInv, TypeOK, IdsAllocated, KeysFilled, RedirectResolves, BoundObjectComplete, HitsBound,
     CachedVersionNotRefetched, Bound, Downloading, HoldsPackage, Key, artifact, KeyOf,
     StashBegins, create_multipart_upload, Joined, Goto
<1>4. QED  BY <1>1, <1>2, <1>3 DEF IInv

LEMMA Step_UploadPart ==
  ASSUME IInv, TypeOK', NEW r \in Requests, UploadPart(r)
  PROVE  IInv'
<1>1. Phasing'
  BY KeysInUse DEF IInv, TypeOK, Phasing, Key, artifact, DownloadsApart, Downloading, UploadPart,
     upload_part, local
<1>2. IdsAllocated' /\ DownloadsApart' /\ KeysFilled' /\ RedirectResolves' /\ BoundObjectComplete'
     /\ HitsBound' /\ CachedVersionNotRefetched'
  BY DEF IInv, TypeOK, IdsAllocated, DownloadsApart, KeysFilled, RedirectResolves,
     BoundObjectComplete, HitsBound, CachedVersionNotRefetched, Bound, Downloading, Key, artifact,
     HoldsPackage, KeyOf, UploadPart, upload_part, local
<1>3. QED  BY <1>1, <1>2 DEF IInv

LEMMA Step_StreamEnds ==
  ASSUME IInv, TypeOK', NEW r \in Requests, StreamEnds(r)
  PROVE  IInv'
<1>1. Phasing'
  BY DEF IInv, TypeOK, Phasing, Key, artifact, StreamEnds, shared, Goto
<1>2. IdsAllocated' /\ DownloadsApart' /\ KeysFilled' /\ RedirectResolves' /\ BoundObjectComplete'
     /\ HitsBound' /\ CachedVersionNotRefetched'
  BY DEF IInv, TypeOK, IdsAllocated, DownloadsApart, KeysFilled, RedirectResolves,
     BoundObjectComplete, HitsBound, CachedVersionNotRefetched, Bound, Downloading, Key, artifact,
     HoldsPackage, KeyOf, StreamEnds, shared, Goto
<1>3. QED  BY <1>1, <1>2 DEF IInv

LEMMA Step_StreamBreaks ==
  ASSUME IInv, TypeOK', NEW r \in Requests, StreamBreaks(r)
  PROVE  IInv'
<1>1. IdsAllocated' /\ Phasing' /\ DownloadsApart' /\ KeysFilled' /\ RedirectResolves' /\
     BoundObjectComplete' /\ HitsBound' /\ CachedVersionNotRefetched'
  BY DEF IInv, TypeOK, IdsAllocated, Phasing, DownloadsApart, KeysFilled, RedirectResolves,
     BoundObjectComplete, HitsBound, CachedVersionNotRefetched, Bound, Key, artifact, Downloading,
     HoldsPackage, KeyOf, StreamBreaks, shared, Goto
<1>2. QED  BY <1>1 DEF IInv

LEMMA Step_AbortUpload ==
  ASSUME IInv, TypeOK', NEW r \in Requests, AbortUpload(r)
  PROVE  IInv'
<1>1. Phasing'
  BY KeysInUse DEF IInv, TypeOK, Phasing, Key, artifact, DownloadsApart, Downloading, AbortUpload,
     abort_multipart_upload, Goto, Respond
<1>2. IdsAllocated' /\ DownloadsApart' /\ KeysFilled' /\ RedirectResolves' /\ BoundObjectComplete'
     /\ HitsBound' /\ CachedVersionNotRefetched'
  BY DEF IInv, TypeOK, IdsAllocated, DownloadsApart, KeysFilled, RedirectResolves,
     BoundObjectComplete, HitsBound, CachedVersionNotRefetched, Bound, Downloading, Key, artifact,
     HoldsPackage, KeyOf, AbortUpload, abort_multipart_upload, Goto, Respond
<1>3. QED  BY <1>1, <1>2 DEF IInv

LEMMA Step_CompleteUpload ==
  ASSUME IInv, TypeOK', NEW r \in Requests, CompleteUpload(r)
  PROVE  IInv'
<1>1. IdsAllocated'
  BY DEF IInv, TypeOK, IdsAllocated, Bound, Key, artifact, Artifacts, to_s3_key, Phasing, Ids,
     CompleteUpload, complete_multipart_upload, Goto
<1>2. Phasing'
  BY KeysInUse DEF IInv, TypeOK, Phasing, Key, artifact, DownloadsApart, Downloading,
     CompleteUpload, complete_multipart_upload, Goto
<1>3. KeysFilled'
  BY KeysInUse, NullAssumption DEF IInv, TypeOK, KeysFilled, Downloading, HoldsPackage, Key,
     artifact, DownloadsApart, Phasing, Objects, Packages, CompleteUpload,
     complete_multipart_upload, Goto
<1>4. RedirectResolves'
  BY KeysInUse DEF IInv, TypeOK, RedirectResolves, HoldsPackage, Key, artifact, KeysFilled,
     Downloading, Phasing, CompleteUpload, complete_multipart_upload, Goto
<1>5. BoundObjectComplete'
  BY KeysInUse DEF IInv, TypeOK, BoundObjectComplete, Bound, HoldsPackage, KeyOf, KeysFilled,
     Downloading, Phasing, Key, artifact, CompleteUpload, complete_multipart_upload, Goto
<1>6. DownloadsApart' /\ HitsBound' /\ CachedVersionNotRefetched'
  BY DEF IInv, TypeOK, DownloadsApart, HitsBound, CachedVersionNotRefetched, Downloading, Key,
     artifact, Bound, CompleteUpload, complete_multipart_upload, Goto
<1>7. QED  BY <1>1, <1>2, <1>3, <1>4, <1>5, <1>6 DEF IInv

LEMMA Step_StoreArtifact ==
  ASSUME IInv, TypeOK', NEW r \in Requests, StoreArtifact(r)
  PROVE  IInv'
<1>1. IdsAllocated'
  BY DEF IInv, TypeOK, IdsAllocated, Bound, artifact, Phasing, StoreArtifact,
     store_artifact_in_database, Goto
<1>2. DownloadsApart'
  BY DEF IInv, TypeOK, DownloadsApart, Downloading, Key, artifact, Phasing, to_s3_key,
     StoreArtifact, store_artifact_in_database, Goto
<1>3. BoundObjectComplete'
  BY DEF IInv, TypeOK, BoundObjectComplete, Bound, HoldsPackage, KeyOf, KeysFilled, Phasing, Key,
     artifact, to_s3_key, StoreArtifact, store_artifact_in_database, Goto
<1>4. HitsBound'
  BY DEF IInv, TypeOK, HitsBound, Bound, artifact, Phasing, StoreArtifact,
     store_artifact_in_database, Goto
<1>5. CachedVersionNotRefetched'
  BY DEF IInv, TypeOK, CachedVersionNotRefetched, StoreArtifact, store_artifact_in_database, Goto
<1>6. Phasing' /\ KeysFilled' /\ RedirectResolves'
  BY DEF IInv, TypeOK, Phasing, KeysFilled, RedirectResolves, Key, artifact, Downloading,
     HoldsPackage, StoreArtifact, store_artifact_in_database, Goto
<1>7. QED  BY <1>1, <1>2, <1>3, <1>4, <1>5, <1>6 DEF IInv

LEMMA Step_presign_request ==
  ASSUME IInv, TypeOK', NEW r \in Requests, presign_request(r)
  PROVE  IInv'
<1>1. RedirectResolves'
  BY DEF IInv, TypeOK, RedirectResolves, HoldsPackage, Key, artifact, KeysFilled, Phasing,
     presign_request, shared, Goto, Respond
<1>2. IdsAllocated' /\ Phasing' /\ DownloadsApart' /\ KeysFilled' /\ BoundObjectComplete' /\
     HitsBound' /\ CachedVersionNotRefetched'
  BY DEF IInv, TypeOK, IdsAllocated, Phasing, DownloadsApart, KeysFilled, BoundObjectComplete,
     HitsBound, CachedVersionNotRefetched, Bound, Key, artifact, Downloading, HoldsPackage, KeyOf,
     presign_request, shared, Goto, Respond
<1>3. QED  BY <1>1, <1>2 DEF IInv

LEMMA Step_Interrupted ==
  ASSUME IInv, TypeOK', NEW r \in Requests, Interrupted(r)
  PROVE  IInv'
<1>1. IdsAllocated'
  <2>1. CASE UNCHANGED shared
    BY <2>1 DEF IInv, IdsAllocated, Interrupted, Respond, TypeOK, shared, Bound
  <2>2. CASE pc[r] = "fetch" /\ id[r] = NULL /\ allocate_artifact_id
    BY <2>2 DEF IInv, IdsAllocated, Interrupted, Respond, TypeOK, Ids, Bound, allocate_artifact_id, Artifacts
  <2>3. CASE UNCHANGED <<row, lastId, objects>>
    BY <2>3 DEF IInv, IdsAllocated, Interrupted, Respond, TypeOK, Bound
  <2>4. CASE pc[r] = "complete" /\ complete_multipart_upload(Key(r), version[r], body[r])
    BY <2>4 DEF IInv, IdsAllocated, Phasing, Interrupted, Respond, TypeOK, Bound, complete_multipart_upload, Key, artifact, to_s3_key, Artifacts, Ids
  <2>5. CASE pc[r] = "store" /\ store_artifact_in_database(artifact(r))
    BY <2>5 DEF IInv, IdsAllocated, Phasing, Interrupted, Respond, TypeOK, Bound, store_artifact_in_database, artifact
  <2>6. QED
    BY <2>1, <2>2, <2>3, <2>4, <2>5
    DEF Interrupted, PendingEffect, create_multipart_upload, upload_part, abort_multipart_upload, shared
<1>2. Phasing'
  BY KeysInUse DEF IInv, TypeOK, Phasing, Key, artifact, DownloadsApart, Downloading, Joined,
     Interrupted, PendingEffect, allocate_artifact_id, create_multipart_upload, upload_part,
     abort_multipart_upload, complete_multipart_upload, store_artifact_in_database, FailStatuses,
     shared, Goto, Respond
<1>3. DownloadsApart'
  BY DEF IInv, TypeOK, DownloadsApart, Downloading, Key, artifact, Phasing, to_s3_key,
     Interrupted, PendingEffect, allocate_artifact_id, create_multipart_upload, upload_part,
     abort_multipart_upload, complete_multipart_upload, store_artifact_in_database, Joined,
     FailStatuses, shared, Goto, Respond
<1>4. KeysFilled'
  BY KeysInUse DEF IInv, TypeOK, KeysFilled, Downloading, HoldsPackage, Key, artifact,
     DownloadsApart, Phasing, Interrupted, PendingEffect, allocate_artifact_id,
     create_multipart_upload, upload_part, abort_multipart_upload, complete_multipart_upload,
     store_artifact_in_database, Joined, FailStatuses, shared, Goto, Respond
<1>5. RedirectResolves'
  BY KeysInUse DEF IInv, TypeOK, RedirectResolves, HoldsPackage, Key, artifact, KeysFilled,
     Downloading, Phasing, Interrupted, PendingEffect, allocate_artifact_id,
     create_multipart_upload, upload_part, abort_multipart_upload, complete_multipart_upload,
     store_artifact_in_database, Joined, FailStatuses, shared, Goto, Respond
<1>6. BoundObjectComplete'
  BY KeysInUse DEF IInv, TypeOK, BoundObjectComplete, Bound, HoldsPackage, KeyOf, KeysFilled,
     Downloading, Phasing, Key, artifact, to_s3_key, Interrupted, PendingEffect,
     allocate_artifact_id, create_multipart_upload, upload_part, abort_multipart_upload,
     complete_multipart_upload, store_artifact_in_database, Joined, FailStatuses, shared, Goto,
     Respond
<1>7. HitsBound'
  BY DEF IInv, TypeOK, HitsBound, Bound, artifact, Phasing, Interrupted, PendingEffect,
     allocate_artifact_id, create_multipart_upload, upload_part, abort_multipart_upload,
     complete_multipart_upload, store_artifact_in_database, Joined, FailStatuses, shared, Goto,
     Respond
<1>8. CachedVersionNotRefetched'
  BY DEF IInv, TypeOK, CachedVersionNotRefetched, Interrupted, PendingEffect,
     allocate_artifact_id, create_multipart_upload, upload_part, abort_multipart_upload,
     complete_multipart_upload, store_artifact_in_database, Joined, FailStatuses, shared, Goto,
     Respond
<1>9. QED  BY <1>1, <1>2, <1>3, <1>4, <1>5, <1>6, <1>7, <1>8 DEF IInv

LEMMA StepIInv == IInv /\ [Next]_vars => IInv'
<1>1. SUFFICES ASSUME IInv, [Next]_vars PROVE IInv'
  OBVIOUS
<1>2. TypeOK'
  BY <1>1, StepTypeOK
<1>3. CASE UNCHANGED vars
  BY <1>1, <1>2, <1>3
  DEF IInv, vars, shared, local, IdsAllocated, Phasing, DownloadsApart, KeysFilled,
      RedirectResolves, BoundObjectComplete, HitsBound, CachedVersionNotRefetched, Bound,
      Downloading, HoldsPackage, Key, KeyOf, artifact
<1>4. CASE Next
  BY <1>1, <1>2, <1>4, Step_AddVersion, Step_Call, Step_get_artifact_from_database, Step_NotFound,
     Step_AllocateId, Step_get_upstream, Step_StashBegins, Step_UploadPart, Step_StreamEnds,
     Step_StreamBreaks, Step_AbortUpload, Step_CompleteUpload, Step_StoreArtifact,
     Step_presign_request, Step_Interrupted
  DEF Next
<1>5. QED  BY <1>1, <1>3, <1>4

-----------------------------------------------------------------------------
\* IInv holds in every reachable state.
THEOREM Invariance == Spec => []IInv
<1> QED  BY InitIInv, StepIInv, PTL DEF Spec

\* Type correctness for every number of calls, versions, parts and ids.
THEOREM TypeCorrect == Spec => []TypeOK
<1>1. IInv => TypeOK
  BY DEF IInv
<1>2. QED  BY <1>1, Invariance, PTL

\* A row never names an artifact whose object is missing, incomplete or of
\* another version.
THEOREM NothingDangles == Spec => []BoundObjectComplete
<1>1. IInv => BoundObjectComplete
  BY DEF IInv
<1>2. QED  BY <1>1, Invariance, PTL

\* Every redirect keeps leading to the whole package of its version.
THEOREM RedirectsResolve == Spec => []RedirectResolves
<1>1. IInv => RedirectResolves
  BY DEF IInv
<1>2. QED  BY <1>1, Invariance, PTL

\* Concurrent downloads never share a key, and the unique constraint on
\* artifact_id never refuses a finished one.
THEOREM DownloadsNeverCollide == Spec => []DownloadsApart
<1>1. IInv => DownloadsApart
  BY DEF IInv
<1>2. QED  BY <1>1, Invariance, PTL

\* A version that is mirrored is served without the registry.
THEOREM MirroredNeedsNoUpstream == Spec => []CachedVersionNotRefetched
<1>1. IInv => CachedVersionNotRefetched
  BY DEF IInv
<1>2. QED  BY <1>1, Invariance, PTL

LEMMA ObjectsKept ==
  IInv /\ [Next]_vars => \A k \in Keys : objects[k] # NULL => objects'[k] = objects[k]
<1>1. SUFFICES ASSUME IInv, [Next]_vars, NEW k \in Keys, objects[k] # NULL
               PROVE  objects'[k] = objects[k]
  OBVIOUS
<1>2. ASSUME NEW r \in Requests, pc[r] = "complete",
             complete_multipart_upload(Key(r), version[r], body[r])
      PROVE  objects'[k] = objects[k]
  <2>1. objects[Key(r)] = NULL
    BY <1>1, <1>2 DEF IInv, KeysFilled, Downloading
  <2>2. QED  BY <1>1, <1>2, <2>1 DEF IInv, TypeOK, complete_multipart_upload
<1>3. ASSUME NEW r \in Requests, CompleteUpload(r) PROVE objects'[k] = objects[k]
  BY <1>2, <1>3 DEF CompleteUpload
<1>4. ASSUME NEW r \in Requests, Interrupted(r) PROVE objects'[k] = objects[k]
  BY <1>2, <1>4
  DEF Interrupted, PendingEffect, shared, allocate_artifact_id, create_multipart_upload,
      upload_part, abort_multipart_upload, store_artifact_in_database
<1>5. CASE UNCHANGED objects
  BY <1>5
<1>6. QED
  BY <1>1, <1>3, <1>4, <1>5
  DEF Next, vars, shared, AddVersion, Call, get_artifact_from_database, NotFound, AllocateId,
      allocate_artifact_id, get_upstream, StashBegins, create_multipart_upload, UploadPart,
      upload_part, StreamEnds, StreamBreaks, AbortUpload, abort_multipart_upload, StoreArtifact,
      store_artifact_in_database, presign_request

\* No step, crash or late answer of any call changes an object in the bucket.
THEOREM Immutability == Spec => ObjectsImmutable
<1>1. IInv /\ [Next]_vars
        => [\A k \in Keys : objects[k] # NULL => objects'[k] = objects[k]]_objects
  BY ObjectsKept
<1>2. QED  BY <1>1, Invariance, PTL DEF Spec, ObjectsImmutable

-----------------------------------------------------------------------------
LEMMA InitStore == Init => Store!Init
BY NullAssumption DEF Init, Store!Init, Bound, Ids

\* A step that publishes nothing, binds nothing and answers no redirect is not
\* seen by the abstract store.
LEMMA Stutters ==
  ASSUME UNCHANGED objects,
         \A v \in Versions : Bound(v)' <=> Bound(v),
         \A v \in Versions : Bound(v) => row'[v] = row[v],
         \A r \in Requests : (status[r] = "redirect")' <=> status[r] = "redirect",
         \A r \in Requests : status[r] = "redirect" => version'[r] = version[r] /\ id'[r] = id[r]
  PROVE  UNCHANGED Store!storeVars
<1>1. \A v \in Versions : Bound(v) => KeyOf(v)' = KeyOf(v)
  BY DEF KeyOf
<1>2. \A r \in Requests : status[r] = "redirect" => Key(r)' = Key(r)
  BY DEF Key, artifact
<1>3. QED  BY <1>1, <1>2 DEF Store!storeVars

\* The effect of a completed upload, seen by the abstract store.
LEMMA PublishesObject ==
  ASSUME IInv, NEW r \in Requests, pc[r] = "complete",
         complete_multipart_upload(Key(r), version[r], body[r]),
         \A q \in Requests : (status[q] = "redirect")' <=> status[q] = "redirect",
         \A q \in Requests : status[q] = "redirect" => version'[q] = version[q] /\ id'[q] = id[q]
  PROVE  Store!Next
<1> DEFINE p == [version |-> version[r], build |-> body[r], parts |-> uploads[Key(r)]]
<1>1. Key(r) \in Keys /\ objects[Key(r)] = NULL
  BY KeysInUse DEF IInv, Phasing, KeysFilled, Downloading
<1>2. p \in Packages
  BY PartsAssumption, <1>1 DEF IInv, TypeOK, Phasing, Packages, Objects
<1>3. objects' = [objects EXCEPT ![Key(r)] = p]
  BY DEF complete_multipart_upload
<1>4. \A v \in Versions : (Bound(v)' <=> Bound(v)) /\ KeyOf(v)' = KeyOf(v)
  BY DEF complete_multipart_upload, Bound, KeyOf
<1>5. \A q \in Requests : status[q] = "redirect" => Key(q)' = Key(q)
  BY DEF Key, artifact
<1>6. Store!Publish(Key(r), p)
  BY <1>1, <1>3, <1>4, <1>5 DEF Store!Publish
<1>7. QED  BY <1>1, <1>2, <1>6 DEF Store!Next

\* The effect of the row's update, seen by the abstract store.
LEMMA BindsObject ==
  ASSUME IInv, NEW r \in Requests, pc[r] = "store",
         store_artifact_in_database(artifact(r)),
         \A q \in Requests : (status[q] = "redirect")' <=> status[q] = "redirect",
         \A q \in Requests : status[q] = "redirect" => version'[q] = version[q] /\ id'[q] = id[q]
  PROVE  Store!Next
<1> DEFINE bind == [v \in Versions |-> IF Bound(v) THEN KeyOf(v) ELSE NULL]
<1>1. Key(r) \in Keys /\ version[r] \in Versions /\ id[r] \in Ids
  BY KeysInUse DEF IInv, TypeOK, Phasing
<1>2. Store!Holds(Key(r), version[r])
  BY DEF IInv, KeysFilled, HoldsPackage, Store!Holds
<1>3. row' = [row EXCEPT ![version[r]] = id[r]]
  BY DEF store_artifact_in_database, artifact
<1>4. bind' = [bind EXCEPT ![version[r]] = Key(r)]
  <2>1. PICK w \in Versions : w = version[r]
    BY <1>1
  <2>2. \A v \in Versions \ {w} : (Bound(v)' <=> Bound(v)) /\ KeyOf(v)' = KeyOf(v)
    BY <1>3, <2>1 DEF IInv, TypeOK, Bound, KeyOf
  <2>3. Bound(w)' /\ row'[w] = id[r]
    BY <1>1, <1>3, <2>1 DEF IInv, TypeOK, Bound
  <2>4. KeyOf(w)' = Key(r)
    BY <2>3 DEF KeyOf, Key, artifact, to_s3_key
  <2>5. QED  BY <2>1, <2>2, <2>3, <2>4
<1>5. \A q \in Requests : status[q] = "redirect" => Key(q)' = Key(q)
  BY DEF Key, artifact
<1>6. Store!Bind(version[r], Key(r))
  BY <1>2, <1>4, <1>5 DEF Store!Bind, store_artifact_in_database
<1>7. QED  BY <1>1, <1>6 DEF Store!Next

LEMMA StoreStep == IInv /\ IInv' /\ [Next]_vars => [Store!Next]_(Store!storeVars)
<1>1. SUFFICES ASSUME IInv, IInv', [Next]_vars PROVE [Store!Next]_(Store!storeVars)
  OBVIOUS
<1>2. CASE UNCHANGED vars
  BY <1>2, Stutters DEF vars, shared, local, Bound
<1>3. ASSUME NEW v \in Versions, AddVersion(v) PROVE UNCHANGED Store!storeVars
  <2>1. \A w \in Versions : (Bound(w)' <=> Bound(w)) /\ (Bound(w) => row'[w] = row[w])
    BY <1>1, <1>3, NullAssumption DEF IInv, TypeOK, AddVersion, Bound, Ids
  <2>2. QED  BY <1>3, <2>1, Stutters DEF AddVersion, local
<1>4. ASSUME NEW r \in Requests, NEW v \in Versions, Call(r, v)
      PROVE  [Store!Next]_(Store!storeVars)
  <2>1. objects' = objects /\ \A w \in Versions : (Bound(w)' <=> Bound(w)) /\ KeyOf(w)' = KeyOf(w)
    BY <1>4 DEF Call, shared, Bound, KeyOf
  <2>2. \A q \in Requests \ {r} : ((status[q] = "redirect")' <=> status[q] = "redirect")
                                 /\ version'[q] = version[q] /\ Key(q)' = Key(q)
    BY <1>1, <1>4 DEF IInv, TypeOK, Call, Key, artifact
  <2>3. status'[r] # "redirect"
    BY <1>1, <1>4 DEF IInv, TypeOK, Call
  <2>4. CASE status[r] = "redirect"
    <3>1. [version |-> version[r], key |-> Key(r)] # NULL
      BY <1>1, <2>4, NullAssumption
      DEF IInv, TypeOK, Phasing, Key, artifact, to_s3_key, Ids
    <3>2. Store!Forget(r)
      BY <2>1, <2>2, <2>3, <2>4, <3>1 DEF Store!Forget
    <3>3. QED  BY <3>2 DEF Store!Next
  <2>5. CASE status[r] # "redirect"
    BY <2>1, <2>2, <2>3, <2>5 DEF Store!storeVars
  <2>6. QED  BY <2>4, <2>5
<1>5. ASSUME NEW r \in Requests,
             \/ get_artifact_from_database(r) \/ AllocateId(r) \/ get_upstream(r)
             \/ StashBegins(r) \/ UploadPart(r) \/ StreamEnds(r) \/ StreamBreaks(r)
      PROVE  UNCHANGED Store!storeVars
  <2>1. UNCHANGED <<objects, row, status, version>>
    BY <1>5
    DEF shared, local, get_artifact_from_database, AllocateId, allocate_artifact_id, get_upstream,
        StashBegins, create_multipart_upload, UploadPart, upload_part, StreamEnds, StreamBreaks
  <2>2. \A q \in Requests : status[q] = "redirect" => id'[q] = id[q]
    BY <1>1, <1>5
    DEF IInv, TypeOK, Phasing, shared, local, get_artifact_from_database, AllocateId, get_upstream,
        StashBegins, UploadPart, StreamEnds, StreamBreaks
  <2>3. QED  BY <2>1, <2>2, Stutters DEF Bound
<1>6. ASSUME NEW r \in Requests, pc[r] # "done", NEW s \in Statuses \ {"redirect"}, Respond(r, s)
      PROVE  /\ \A q \in Requests : (status[q] = "redirect")' <=> status[q] = "redirect"
             /\ \A q \in Requests : status[q] = "redirect"
                                     => version'[q] = version[q] /\ id'[q] = id[q]
  BY <1>1, <1>6 DEF IInv, TypeOK, Phasing, Respond, Goto
<1>7. ASSUME NEW r \in Requests, NotFound(r) \/ AbortUpload(r) PROVE UNCHANGED Store!storeVars
  BY <1>6, <1>7, Stutters
  DEF NotFound, AbortUpload, abort_multipart_upload, shared, Bound, Statuses
<1>8. ASSUME NEW r \in Requests, CompleteUpload(r) PROVE Store!Next
  BY <1>1, <1>8, PublishesObject DEF CompleteUpload
<1>9. ASSUME NEW r \in Requests, StoreArtifact(r) PROVE Store!Next
  BY <1>1, <1>9, BindsObject DEF StoreArtifact
<1>10. ASSUME NEW r \in Requests, presign_request(r) PROVE Store!Next
  <2> DEFINE ans == [q \in Requests |-> IF status[q] = "redirect"
                                        THEN [version |-> version[q], key |-> Key(q)] ELSE NULL]
  <2>1. UNCHANGED <<objects, row, version, id>>
    BY <1>1, <1>10 DEF IInv, TypeOK, presign_request, shared, Respond
  <2>2. status' = [status EXCEPT ![r] = "redirect"] /\ status[r] # "redirect"
    BY <1>1, <1>10 DEF IInv, Phasing, presign_request, Respond
  <2>3. Key(r) \in Keys /\ version[r] \in Versions /\ Store!Holds(Key(r), version[r])
    BY <1>1, <1>10, KeysInUse
    DEF IInv, TypeOK, Phasing, KeysFilled, HoldsPackage, Store!Holds, presign_request
  <2>4. \A q \in Requests : Key(q)' = Key(q)
    BY <2>1 DEF Key, artifact
  <2>5. ans' = [ans EXCEPT ![r] = [version |-> version[r], key |-> Key(r)]]
    BY <1>1, <2>1, <2>2, <2>4 DEF IInv, TypeOK
  <2>6. \A v \in Versions : (Bound(v)' <=> Bound(v)) /\ KeyOf(v)' = KeyOf(v)
    BY <2>1 DEF Bound, KeyOf
  <2>7. PICK v \in Versions, k \in Keys : v = version[r] /\ k = Key(r)
    BY <2>3
  <2>8. Store!Answer(r, v, k)
    BY <2>1, <2>2, <2>3, <2>5, <2>6, <2>7 DEF Store!Answer
  <2>9. QED  BY <2>8 DEF Store!Next
<1>11. ASSUME NEW r \in Requests, Interrupted(r) PROVE [Store!Next]_(Store!storeVars)
  <2>1. PICK s \in FailStatuses(r) \cup {"dropped"} : Respond(r, s)
    BY <1>11 DEF Interrupted
  <2>2. s \in Statuses \ {"redirect"} /\ pc[r] # "done"
    BY <1>11 DEF FailStatuses, Statuses, Interrupted
  <2>3. CASE UNCHANGED <<row, objects>>
    BY <1>6, <2>1, <2>2, <2>3, Stutters DEF Bound
  <2>4. CASE pc[r] = "complete" /\ complete_multipart_upload(Key(r), version[r], body[r])
    BY <1>1, <1>6, <2>1, <2>2, <2>4, PublishesObject
  <2>5. CASE pc[r] = "store" /\ store_artifact_in_database(artifact(r))
    BY <1>1, <1>6, <2>1, <2>2, <2>5, BindsObject
  <2>6. QED
    BY <1>11, <2>3, <2>4, <2>5
    DEF Interrupted, PendingEffect, shared, allocate_artifact_id, create_multipart_upload,
        upload_part, abort_multipart_upload
<1>12. QED
  BY <1>1, <1>2, <1>3, <1>4, <1>5, <1>7, <1>8, <1>9, <1>10, <1>11 DEF Next

\* Every behaviour of the cache, with its interruptions and races, is one of
\* the abstract store: keys are written once, and bindings and redirects only
\* lead to complete packages of their version.
THEOREM Refinement == Spec => ImplementsStore
<1> QED  BY Invariance, InitStore, StoreStep, PTL DEF Spec, ImplementsStore, Store!Spec
==============================================================================
