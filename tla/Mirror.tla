-------------------------------- MODULE Mirror --------------------------------
(***************************************************************************)
(* The provider mirror protocol as a client runs it: the index of a        *)
(* provider, the archives of one of its versions, the artifact of its      *)
(* platform, and the object the artifact's redirect leads to.  The three   *)
(* requests may be far apart, be served by different instances, and by a   *)
(* reverse proxy that keeps what Cache-Control lets it keep.               *)
(*                                                                         *)
(* The server appears as what its parts promise: Catalog, ArtifactStore    *)
(* and IndexService, which CatalogStore, ArtifactCache and Refresher       *)
(* implement.  A provider version is named by its row's id, as in the      *)
(* artifact URL.                                                           *)
(*                                                                         *)
(* Time passes in ticks; only redirects and their signatures run out.      *)
(***************************************************************************)
EXTENDS Naturals, Sequences

CONSTANTS Clients,
          Providers,
          Words,        \* what the names of systems and architectures consist of
          Tuples,       \* the platforms of versions: records of version, os and arch
          Ids,          \* row ids of terraform_provider_version
          Keys,         \* object keys
          MaxAge,       \* max-age of a redirect
          Expiry,       \* PresigningConfig::expires_in
          Transit,      \* longest time from a redirect's sender to its use
          NULL

Versions == {t.version : t \in Tuples}
Rows     == Providers \X Tuples
Packages == [version : Ids, row : Rows]

ASSUME TuplesAssumption ==
  /\ "_" \in Words
  /\ \A t \in Tuples : /\ t = [version |-> t.version, os |-> t.os, arch |-> t.arch]
                       /\ t.os \in Seq(Words) /\ t.arch \in Seq(Words)
ASSUME NullAssumption == NULL \notin Ids \cup Keys \cup Packages

\* The names of operating systems in registries have no underscore.
ASSUME PlatformAssumption == \A t \in Tuples : \A i \in DOMAIN t.os : t.os[i] # "_"

\* 60 seconds, 120 seconds, and less than 30.
ASSUME TimeAssumption ==
  /\ MaxAge \in Nat \ {0} /\ Expiry \in Nat /\ Transit \in Nat
  /\ Transit + MaxAge + Transit < Expiry

VARIABLES
  known, rowId,              \* the catalogue
  objects, binding, answer,  \* the artifact store
  download,                  \* the row each download was begun for, by its key, or NULL
  call,                      \* the index endpoint
  cachedIndex,               \* the index kept for each provider, or NULL
  cachedRedirect,            \* the redirect kept for each artifact, or NULL
  at,                        \* where each client stands
  provider,                  \* the provider it asks for
  index,                     \* the index it was answered
  wanted,                    \* the version and platform it asks for
  id,                        \* the artifact it was answered
  redirect                   \* the redirect it follows

catalogVars == <<known, rowId>>
storeVars   == <<objects, binding, answer>>
cacheVars   == <<cachedIndex, cachedRedirect>>
clientVars  == <<at, provider, index, wanted, id, redirect>>
serverVars  == <<catalogVars, storeVars, download>>
vars        == <<serverVars, call, cacheVars, clientVars>>

Catalogue == INSTANCE Catalog WITH Responses <- SUBSET Tuples
Store     == INSTANCE ArtifactStore WITH Requests <- Clients, Versions <- Ids

\* list_provider_versions.
Stored(p) == {t \in Tuples : rowId[p][t] # NULL}
VersionsOf(listed) == {t.version : t \in listed}

\* The index endpoint over the catalogue's rows.  Its query may fail, and then
\* it owes a client nothing (Faulty).
Service == INSTANCE IndexService WITH
  Requests <- Clients, Faulty <- TRUE, db <- [p \in Providers |-> VersionsOf(Stored(p))]

\* What is left of a redirect: until its signature runs out, until whoever it
\* is on its way to has used it, until the cache that keeps it must ask again.
Redirects == [key : Keys, valid : 0..Expiry, patience : 0..Transit, direct : BOOLEAN]
Kept      == [key : Keys, valid : 0..Expiry, fresh : 1..MaxAge]

archive_name(t) == t.os \o <<"_">> \o t.arch

Listing == {"listed", "redirected", "served"}

Calls ==
  [state : {"waiting", "index"}, provider : Providers, list : Service!Lists]
    \cup {Service!None, Service!Refused}

TypeOK ==
  /\ rowId    \in [Providers -> [Tuples -> Ids \cup {NULL}]]
  /\ objects  \in [Keys -> Packages \cup {NULL}]
  /\ binding  \in [Ids -> Keys \cup {NULL}]
  /\ answer   \in [Clients -> [version : Ids, key : Keys] \cup {NULL}]
  /\ download \in [Keys -> Packages \cup {NULL}]
  /\ call     \in [Clients -> Calls]
  /\ cachedIndex    \in [Providers -> Service!Lists \cup {NULL}]
  /\ cachedRedirect \in [Ids -> Kept \cup {NULL}]
  /\ at       \in [Clients -> {"idle", "asked", "indexed"} \cup Listing]
  /\ provider \in [Clients -> Providers]
  /\ index    \in [Clients -> Service!Lists]
  /\ wanted   \in [Clients -> Tuples \cup {NULL}]
  /\ id       \in [Clients -> Ids \cup {NULL}]
  /\ redirect \in [Clients -> Redirects \cup {NULL}]
  /\ \A c \in Clients : at[c] \in Listing => wanted[c] \in Tuples /\ id[c] \in Ids
  /\ \A c \in Clients : at[c] \in {"redirected", "served"} => redirect[c] \in Redirects

Init ==
  /\ Catalogue!Init
  /\ Store!Init
  /\ Service!Init
  /\ download       = [k \in Keys |-> NULL]
  /\ cachedIndex    = [p \in Providers |-> NULL]
  /\ cachedRedirect = [i \in Ids |-> NULL]
  /\ at       = [c \in Clients |-> "idle"]
  /\ provider \in [Clients -> Providers]
  /\ index    = [c \in Clients |-> Service!Nothing]
  /\ wanted   = [c \in Clients |-> NULL]
  /\ id       = [c \in Clients |-> NULL]
  /\ redirect = [c \in Clients |-> NULL]

-----------------------------------------------------------------------------
(***************************************************************************)
(* GET index.json.                                                         *)
(***************************************************************************)
AskIndex(c, p) ==
  /\ at[c] = "idle"
  /\ UNCHANGED <<serverVars, cacheVars, provider, index, wanted, id, redirect>>
  /\ Service!Ask(c, p)
  /\ at' = [at EXCEPT ![c] = "asked"]

\* Mutant: the refresher answers before the response is stored.
MutantAnswerFirst(c, list) ==
  /\ Service!Waits(c)
  /\ call' = [call EXCEPT ![c] = Service!Index(@.provider, list)]
  /\ UNCHANGED <<serverVars, cacheVars, clientVars>>

\* From the database, or the registry's response once it is stored (Refresh).
AnswerIndex(c, list) ==
  /\ UNCHANGED <<serverVars, cacheVars, clientVars>>
  /\ Service!Answer(c, list)

RefuseIndex(c) ==
  /\ UNCHANGED <<serverVars, cacheVars, clientVars>>
  /\ Service!Refuse(c)

TakeIndex(c, p, list) ==
  /\ at'       = [at EXCEPT ![c] = "indexed"]
  /\ provider' = [provider EXCEPT ![c] = p]
  /\ index'    = [index EXCEPT ![c] = list]
  /\ UNCHANGED <<serverVars, cachedRedirect, wanted, id, redirect>>

\* The answer arrives, and the proxy it has passed may keep it.
IndexArrives(c) ==
  LET p == call[c].provider
      list == call[c].list
  IN
  /\ at[c] = "asked" /\ call[c].state = "index"
  /\ TakeIndex(c, p, list)
  /\ \/ cachedIndex' = [cachedIndex EXCEPT ![p] = list]
     \/ UNCHANGED cachedIndex
  /\ Service!Forget(c)

\* From the proxy.  The age of the index is left open: a client that keeps it
\* for longer than the proxy may is to be served all the same.
IndexKept(c, p) ==
  /\ at[c] = "idle" /\ cachedIndex[p] # NULL
  /\ TakeIndex(c, p, cachedIndex[p])
  /\ UNCHANGED <<call, cachedIndex>>

\* A registry's response is stored, by any instance, for a request or in the
\* background.
Refresh(p, listed) ==
  /\ Catalogue!Merge(p, listed)
  /\ UNCHANGED <<storeVars, download, call, cacheVars, clientVars>>

-----------------------------------------------------------------------------
(***************************************************************************)
(* GET {version}.json, which no proxy keeps.                               *)
(***************************************************************************)
\* Mutant: the version is missing from the query's conditions.
MutantAnyVersion(p, v) == Stored(p)

\* Mutant: an outer join.
MutantOuterJoin(p, v) == {t \in Tuples : t.version = v}

list_downloads(p, v) == {t \in Stored(p) : t.version = v}

\* MirrorVersion::build.  Of the downloads with one name the last row's is
\* kept, and the rows come in any order.
Builds(p, downloads) ==
  LET names == {archive_name(t) : t \in downloads} IN
  {a \in [names -> {rowId[p][t] : t \in downloads}] :
     \A n \in names : \E t \in downloads : archive_name(t) = n /\ a[n] = rowId[p][t]}

\* A client with version v of its index picks an archive by its platform's
\* name.  It can do nothing with an empty answer.
GetVersion(c, v, a) ==
  /\ at[c] = "indexed"
  /\ v \in index[c].versions
  /\ a \in Builds(provider[c], list_downloads(provider[c], v))
  /\ index' = [index EXCEPT ![c] = Service!Nothing]
  /\ \/ \E t \in Tuples :
          /\ t.version = v /\ archive_name(t) \in DOMAIN a
          /\ wanted' = [wanted EXCEPT ![c] = t]
          /\ id' = [id EXCEPT ![c] = a[archive_name(t)]]
          /\ at' = [at EXCEPT ![c] = "listed"]
     \/ /\ DOMAIN a = {}
        /\ at' = [at EXCEPT ![c] = "idle"]
        /\ UNCHANGED <<wanted, id>>
  /\ UNCHANGED <<serverVars, call, cacheVars, provider, redirect>>

-----------------------------------------------------------------------------
(***************************************************************************)
(* GET artifacts/{id}, and the object.                                     *)
(***************************************************************************)
RowOf(i) == {x \in Providers \X Tuples : rowId[x[1]][x[2]] = i}

\* Any instance's artifact handler, for a version that is not bound: it reads
\* the row, takes a key no download has had, and asks upstream for what it read.
Download(k, i, x) ==
  /\ x \in RowOf(i)
  /\ download[k] = NULL /\ objects[k] = NULL
  /\ download' = [download EXCEPT ![k] = [version |-> i, row |-> x]]
  /\ UNCHANGED <<catalogVars, storeVars, call, cacheVars, clientVars>>

\* The package is in the bucket; a download may also end without one.  What it
\* binds its version to only chooses among the version's packages that are there,
\* as Answer does.
Publish(k) ==
  /\ download[k] # NULL
  /\ Store!Publish(k, download[k])
  /\ download' = [download EXCEPT ![k] = NULL]
  /\ UNCHANGED <<catalogVars, call, cacheVars, clientVars>>

Redirect(c, k, valid, direct) ==
  /\ at[c] = "listed"
  /\ at' = [at EXCEPT ![c] = "redirected"]
  /\ redirect' = [redirect EXCEPT ![c] =
       [key |-> k, valid |-> valid, patience |-> Transit, direct |-> direct]]
  /\ UNCHANGED <<catalogVars, download, call, provider, index, wanted, id>>

\* presign_request, and the answer is on its way.
GetArtifact(c, k) ==
  /\ Store!Answer(c, id[c], k)
  /\ Redirect(c, k, Expiry, TRUE)
  /\ UNCHANGED cacheVars

\* The proxy it passes keeps it.
RedirectKeeps(c) ==
  LET r == redirect[c] IN
  /\ at[c] = "redirected" /\ r.direct
  /\ cachedRedirect' = [cachedRedirect EXCEPT ![id[c]] =
       [key |-> r.key, valid |-> r.valid, fresh |-> MaxAge]]
  /\ UNCHANGED <<serverVars, call, cachedIndex, clientVars>>

RedirectKept(c) ==
  LET r == cachedRedirect[id[c]] IN
  /\ at[c] = "listed" /\ r # NULL
  /\ Redirect(c, r.key, r.valid, FALSE)
  /\ UNCHANGED <<storeVars, cacheVars>>

Follow(c) ==
  /\ at[c] = "redirected"
  /\ at' = [at EXCEPT ![c] = "served"]
  /\ UNCHANGED <<serverVars, call, cacheVars, provider, index, wanted, id, redirect>>

\* It is served, or gives up: any request may be lost or fail.
Finish(c) ==
  /\ at[c] # "idle"
  /\ UNCHANGED <<catalogVars, download, cacheVars, provider>>
  /\ IF Service!Waits(c) THEN Service!Drop({c}) ELSE Service!Forget(c)
  /\ IF answer[c] = NULL THEN UNCHANGED storeVars ELSE Store!Forget(c)
  /\ at'       = [at EXCEPT ![c] = "idle"]
  /\ index'    = [index EXCEPT ![c] = Service!Nothing]
  /\ wanted'   = [wanted EXCEPT ![c] = NULL]
  /\ id'       = [id EXCEPT ![c] = NULL]
  /\ redirect' = [redirect EXCEPT ![c] = NULL]

Tick ==
  /\ \A c \in Clients : at[c] = "redirected" => redirect[c].patience > 0
  /\ redirect' = [c \in Clients |->
       IF at[c] # "redirected" THEN redirect[c]
       ELSE [redirect[c] EXCEPT !.valid = IF @ = 0 THEN 0 ELSE @ - 1, !.patience = @ - 1]]
  /\ cachedRedirect' = [i \in Ids |->
       IF cachedRedirect[i] = NULL \/ cachedRedirect[i].fresh = 1 THEN NULL
       ELSE [cachedRedirect[i] EXCEPT !.valid = IF @ = 0 THEN 0 ELSE @ - 1, !.fresh = @ - 1]]
  /\ UNCHANGED <<serverVars, call, cachedIndex, at, provider, index, wanted, id>>

-----------------------------------------------------------------------------
Next ==
  \/ \E c \in Clients, p \in Providers : AskIndex(c, p) \/ IndexKept(c, p)
  \/ \E c \in Clients : \/ \E list \in Service!Lists : AnswerIndex(c, list)
                         \/ RefuseIndex(c) \/ IndexArrives(c)
  \/ \E p \in Providers, listed \in SUBSET Tuples : Refresh(p, listed)
  \/ \E c \in Clients, v \in Versions :
       \E a \in Builds(provider[c], list_downloads(provider[c], v)) : GetVersion(c, v, a)
  \/ \E k \in Keys, i \in Ids, x \in Providers \X Tuples : Download(k, i, x)
  \/ \E k \in Keys : Publish(k)
  \/ \E c \in Clients, k \in Keys : GetArtifact(c, k)
  \/ \E c \in Clients : RedirectKeeps(c) \/ RedirectKept(c) \/ Follow(c) \/ Finish(c)
  \/ Tick

Spec == Init /\ [][Next]_vars

-----------------------------------------------------------------------------
(***************************************************************************)
(* Properties.                                                             *)
(***************************************************************************)
\* A client that follows the index never meets a version without archives, an
\* artifact that is not found, or a redirect that has expired or leads nowhere,
\* whatever the caches on the way have kept: the versions are stored before the
\* index names them, their rows and ids last, and max-age=60 with the time on
\* the way stays below the 120 seconds of expires_in.
NeverStuck ==
  \A c \in Clients :
    /\ at[c] = "indexed" =>
         \A v \in index[c].packaged : list_downloads(provider[c], v) # {}
    /\ at[c] = "listed" => RowOf(id[c]) # {}
    /\ at[c] = "redirected" =>
         redirect[c].valid > 0 /\ objects[redirect[c].key] # NULL

\* What it is served is the package of the provider, version, os and arch it
\* asked for: archive_name keeps the platforms of a version apart.
OwnPackage ==
  \A c \in Clients : at[c] = "served" =>
    objects[redirect[c].key].row = <<provider[c], wanted[c]>>
==============================================================================
