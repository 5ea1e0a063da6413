----------------------------- MODULE MirrorProofs ------------------------------
(***************************************************************************)
(* Proofs about Mirror, for any number of clients, providers, platforms,   *)
(* ids and keys, and any times that satisfy TimeAssumption.                *)
(*                                                                         *)
(* Nothing the server stores is ever taken back (Grows), so that what an   *)
(* answer says of the stores stays true however long a cache keeps it; and *)
(* what is left of a signature always exceeds what is left of the time in  *)
(* which its redirect may be kept and used (KeptInv, TimeInv).             *)
(***************************************************************************)
EXTENDS Mirror, SequenceTheorems, TLAPS

Unique ==
  \A x, y \in Providers \X Tuples :
    rowId[x[1]][x[2]] # NULL /\ rowId[x[1]][x[2]] = rowId[y[1]][y[2]] => x = y

\* A package is of the row its download has read, and that row is there.
RowOfPackage(o) == rowId[o.row[1]][o.row[2]] = o.version

ObjectsBacked ==
  \A k \in Keys : /\ objects[k] # NULL => RowOfPackage(objects[k])
                  /\ download[k] # NULL => RowOfPackage(download[k])

\* Every version an index names as packaged has rows.
Backed(p, list) ==
  \A v \in list.packaged : \E t \in Tuples : t.version = v /\ rowId[p][t] # NULL

Leads(r, i) == objects[r.key] # NULL /\ objects[r.key].version = i

KeptInv ==
  /\ \A p \in Providers : cachedIndex[p] # NULL => Backed(p, cachedIndex[p])
  /\ \A i \in Ids : cachedRedirect[i] # NULL =>
       /\ Leads(cachedRedirect[i], i)
       /\ cachedRedirect[i].fresh + Expiry <= cachedRedirect[i].valid + Transit + MaxAge

TimeInv(r) == /\ r.patience < r.valid
              /\ r.direct => r.patience + Expiry <= r.valid + Transit

FollowsInv(c) ==
  /\ at[c] = "indexed" => Backed(provider[c], index[c])
  /\ at[c] \in Listing => rowId[provider[c]][wanted[c]] = id[c]
  /\ at[c] \in {"redirected", "served"} => Leads(redirect[c], id[c])
  /\ at[c] = "redirected" => TimeInv(redirect[c])

ClientInv == \A c \in Clients : FollowsInv(c)

\* An index on its way is backed like one that has arrived.
CallInv ==
  \A c \in Clients : call[c].state = "index" => Backed(call[c].provider, call[c].list)

IInv == TypeOK /\ Unique /\ ObjectsBacked /\ CallInv /\ KeptInv /\ ClientInv

-----------------------------------------------------------------------------
Lacks(s, c) == \A i \in DOMAIN s : s[i] # c

LEMMA JoinFacts ==
  ASSUME NEW S, NEW c \in S, NEW a \in Seq(S), NEW b \in Seq(S)
  PROVE  /\ Len(a \o <<c>> \o b) = Len(a) + 1 + Len(b)
         /\ \A i \in 1..Len(a) : (a \o <<c>> \o b)[i] = a[i]
         /\ (a \o <<c>> \o b)[Len(a) + 1] = c
         /\ \A i \in 1..Len(b) : (a \o <<c>> \o b)[Len(a) + 1 + i] = b[i]
<1>1. PICK m \in Seq(S) : m = a \o <<c>>
  <2>1. <<c>> \in Seq(S)
    OBVIOUS
  <2> QED
    BY <2>1, ConcatProperties
<1>2. /\ Len(m) = Len(a) + 1 /\ m[Len(a) + 1] = c
      /\ \A i \in 1..Len(a) : m[i] = a[i]
  BY <1>1
<1>3. /\ Len(m \o b) = Len(m) + Len(b)
      /\ \A i \in 1..Len(m) : (m \o b)[i] = m[i]
      /\ \A i \in 1..Len(b) : (m \o b)[Len(m) + i] = b[i]
  OBVIOUS
<1>4. Len(a) \in Nat /\ Len(b) \in Nat
  OBVIOUS
<1> QED
  BY <1>1, <1>2, <1>3, <1>4

\* If only the separator is c in a prefix, it ends there.
LEMMA PrefixNotShorter ==
  ASSUME NEW S, NEW c \in S,
         NEW a \in Seq(S), NEW b \in Seq(S), NEW d \in Seq(S), NEW e \in Seq(S),
         Lacks(d, c),
         a \o <<c>> \o b = d \o <<c>> \o e
  PROVE  Len(d) <= Len(a)
<1>1. Len(a) \in Nat /\ Len(d) \in Nat /\ DOMAIN d = 1..Len(d)
  OBVIOUS
<1>2. ASSUME Len(a) < Len(d) PROVE FALSE
  <2>1. Len(a) + 1 \in 1..Len(d)
    BY <1>1, <1>2
  <2>2. (d \o <<c>> \o e)[Len(a) + 1] = d[Len(a) + 1]
    BY <2>1, JoinFacts
  <2>3. (a \o <<c>> \o b)[Len(a) + 1] = c
    BY JoinFacts
  <2> QED
    BY <1>1, <2>1, <2>2, <2>3 DEF Lacks
<1> QED
  BY <1>1, <1>2

LEMMA JoinInjective ==
  ASSUME NEW S, NEW c \in S,
         NEW a \in Seq(S), NEW b \in Seq(S), NEW d \in Seq(S), NEW e \in Seq(S),
         Lacks(a, c), Lacks(d, c),
         a \o <<c>> \o b = d \o <<c>> \o e
  PROVE  a = d /\ b = e
<1>1. /\ Len(a) \in Nat /\ Len(b) \in Nat /\ Len(d) \in Nat /\ Len(e) \in Nat
  OBVIOUS
<1>2. Len(a) = Len(d)
  <2>1. Len(d) <= Len(a)
    BY PrefixNotShorter
  <2>2. Len(a) <= Len(d)
    BY PrefixNotShorter
  <2> QED
    BY <1>1, <2>1, <2>2
<1>3. Len(b) = Len(e)
  <2>1. Len(a) + 1 + Len(b) = Len(d) + 1 + Len(e)
    BY JoinFacts
  <2> QED
    BY <1>1, <1>2, <2>1
<1>4. \A i \in 1..Len(a) : a[i] = d[i]
  BY <1>2, JoinFacts
<1>5. \A i \in 1..Len(b) : b[i] = e[i]
  <2> SUFFICES ASSUME NEW i \in 1..Len(b) PROVE b[i] = e[i]
    OBVIOUS
  <2>1. (a \o <<c>> \o b)[Len(a) + 1 + i] = b[i]
    BY JoinFacts
  <2>2. (d \o <<c>> \o e)[Len(d) + 1 + i] = e[i]
    BY <1>3, JoinFacts
  <2> QED
    BY <1>2, <2>1, <2>2
<1> QED
  BY <1>2, <1>3, <1>4, <1>5, SeqEqual

\* The first underscore of an archive's name ends its os.
LEMMA NamesDiffer ==
  ASSUME NEW t \in Tuples, NEW u \in Tuples, t.version = u.version,
         archive_name(t) = archive_name(u)
  PROVE  t = u
<1>1. /\ t.os \in Seq(Words) /\ t.arch \in Seq(Words)
      /\ u.os \in Seq(Words) /\ u.arch \in Seq(Words)
      /\ t = [version |-> t.version, os |-> t.os, arch |-> t.arch]
      /\ u = [version |-> u.version, os |-> u.os, arch |-> u.arch]
      /\ "_" \in Words
  BY TuplesAssumption
<1>2. Lacks(t.os, "_") /\ Lacks(u.os, "_")
  BY PlatformAssumption DEF Lacks
<1>3. t.os \o <<"_">> \o t.arch = u.os \o <<"_">> \o u.arch
  BY DEF archive_name
<1>4. t.os = u.os /\ t.arch = u.arch
  BY <1>1, <1>2, <1>3, JoinInjective
<1> QED
  BY <1>1, <1>4

-----------------------------------------------------------------------------
LEMMA ListFacts ==
  /\ Service!Nothing \in Service!Lists /\ Service!Nothing.packaged = {}
  /\ \A versions \in SUBSET Versions : Service!Stored(versions) \in Service!Lists
BY DEF Service!Lists, Service!Stored, Service!Nothing

LEMMA InitInv == Init => IInv
<1> SUFFICES ASSUME Init PROVE IInv
  OBVIOUS
<1> USE DEF Init, Catalogue!Init, Store!Init, Service!Init, Service!None, Calls
<1>1. TypeOK
  <2>1. /\ rowId \in [Providers -> [Tuples -> Ids \cup {NULL}]]
        /\ objects \in [Keys -> Packages \cup {NULL}]
        /\ download \in [Keys -> Packages \cup {NULL}]
        /\ binding \in [Ids -> Keys \cup {NULL}]
        /\ answer \in [Clients -> [version : Ids, key : Keys] \cup {NULL}]
        /\ call \in [Clients -> Calls]
    OBVIOUS
  <2>2. /\ cachedIndex \in [Providers -> Service!Lists \cup {NULL}]
        /\ cachedRedirect \in [Ids -> Kept \cup {NULL}]
        /\ at \in [Clients -> {"idle", "asked", "indexed"} \cup Listing]
        /\ provider \in [Clients -> Providers]
        /\ index \in [Clients -> Service!Lists]
        /\ wanted \in [Clients -> Tuples \cup {NULL}]
        /\ id \in [Clients -> Ids \cup {NULL}]
        /\ redirect \in [Clients -> Redirects \cup {NULL}]
        /\ \A c \in Clients : at[c] = "idle"
    BY ListFacts
  <2> QED
    BY <2>1, <2>2 DEF TypeOK, Listing
<1>2. Unique /\ ObjectsBacked /\ CallInv /\ KeptInv /\ ClientInv
  BY DEF Unique, ObjectsBacked, CallInv, KeptInv, ClientInv, FollowsInv, Listing
<1> QED
  BY <1>1, <1>2 DEF IInv

\* What a merge does to the rows.
LEMMA Merges ==
  ASSUME TypeOK, Unique, NEW p \in Providers, NEW listed \in SUBSET Tuples,
         Catalogue!Merge(p, listed)
  PROVE  /\ rowId' \in [Providers -> [Tuples -> Ids \cup {NULL}]]
         /\ \A q \in Providers, t \in Tuples : rowId[q][t] # NULL => rowId'[q][t] = rowId[q][t]
         /\ \A q \in Providers, t \in Tuples :
              rowId'[q][t] # NULL <=> rowId[q][t] # NULL \/ (q = p /\ t \in listed)
         /\ Unique'
<1> DEFINE new  == {t \in listed : rowId[p][t] = NULL}
           used == {Catalogue!Id(x) : x \in Catalogue!Rows}
<1>1. PICK ids \in [new -> Ids \ used] :
        /\ \A t, u \in new : ids[t] = ids[u] => t = u
        /\ rowId' = [rowId EXCEPT ![p] = [t \in Tuples |-> IF t \in new THEN ids[t] ELSE @[t]]]
  BY DEF Catalogue!Merge
<1>2. /\ rowId' \in [Providers -> [Tuples -> Ids \cup {NULL}]]
      /\ \A q \in Providers, t \in Tuples :
           rowId'[q][t] = IF q = p /\ t \in new THEN ids[t] ELSE rowId[q][t]
  BY <1>1 DEF TypeOK
<1>3. \A t \in new : /\ ids[t] # NULL
                     /\ \A q \in Providers, u \in Tuples : rowId[q][u] # ids[t]
  <2> SUFFICES ASSUME NEW t \in new
               PROVE  /\ ids[t] # NULL
                      /\ \A q \in Providers, u \in Tuples : rowId[q][u] # ids[t]
    OBVIOUS
  <2>1. ids[t] \in Ids /\ ids[t] \notin used
    BY <1>1
  <2>2. ids[t] # NULL
    BY <2>1, NullAssumption
  <2>3. ASSUME NEW q \in Providers, NEW u \in Tuples, rowId[q][u] # NULL
        PROVE  rowId[q][u] \in used
    <3>1. <<q, u>> \in Catalogue!Rows /\ Catalogue!Id(<<q, u>>) = rowId[q][u]
      BY <2>3 DEF Catalogue!Rows, Catalogue!Id
    <3> QED
      BY <3>1
  <2> QED
    BY <2>1, <2>2, <2>3
<1>4. \A q \in Providers, t \in Tuples : rowId[q][t] # NULL => rowId'[q][t] = rowId[q][t]
  BY <1>2
<1>5. \A q \in Providers, t \in Tuples :
         rowId'[q][t] # NULL <=> rowId[q][t] # NULL \/ (q = p /\ t \in listed)
  BY <1>2, <1>3
<1> HIDE DEF new, used
<1>6. Unique'
  <2> SUFFICES ASSUME NEW x \in Providers \X Tuples, NEW y \in Providers \X Tuples,
                      rowId'[x[1]][x[2]] # NULL, rowId'[x[1]][x[2]] = rowId'[y[1]][y[2]]
               PROVE  x = y
    BY DEF Unique
  <2>1. /\ x[1] \in Providers /\ x[2] \in Tuples /\ y[1] \in Providers /\ y[2] \in Tuples
        /\ x = <<x[1], x[2]>> /\ y = <<y[1], y[2]>>
    OBVIOUS
  <2>2. CASE x[1] = p /\ x[2] \in new /\ y[1] = p /\ y[2] \in new
    BY <1>1, <1>2, <2>1, <2>2
  <2>3. CASE ~(x[1] = p /\ x[2] \in new) /\ ~(y[1] = p /\ y[2] \in new)
    BY <1>2, <2>1, <2>3 DEF Unique
  <2>4. CASE x[1] = p /\ x[2] \in new /\ ~(y[1] = p /\ y[2] \in new)
    BY <1>2, <1>3, <2>1, <2>4
  <2>5. CASE ~(x[1] = p /\ x[2] \in new) /\ y[1] = p /\ y[2] \in new
    BY <1>2, <1>3, <2>1, <2>5
  <2> QED
    BY <2>2, <2>3, <2>4, <2>5
<1> QED
  BY <1>2, <1>4, <1>5, <1>6

-----------------------------------------------------------------------------
\* The stores: nothing is taken back.
Grows ==
  /\ \A q \in Providers, t \in Tuples : rowId[q][t] # NULL => rowId'[q][t] = rowId[q][t]
  /\ \A k \in Keys : objects[k] # NULL => objects'[k] = objects[k]

StoresOK ==
  /\ rowId    \in [Providers -> [Tuples -> Ids \cup {NULL}]]
  /\ objects  \in [Keys -> Packages \cup {NULL}]
  /\ download \in [Keys -> Packages \cup {NULL}]
  /\ Unique /\ ObjectsBacked

\* A row that is there stays, and with it what packages are of.
LEMMA PackageStays ==
  ASSUME TypeOK, NEW o \in Packages, RowOfPackage(o),
         \A q \in Providers, t \in Tuples : rowId[q][t] # NULL => rowId'[q][t] = rowId[q][t]
  PROVE  RowOfPackage(o)'
<1>1. /\ o.version \in Ids /\ o.version # NULL
      /\ o.row[1] \in Providers /\ o.row[2] \in Tuples
  BY NullAssumption DEF Packages, Rows
<1> QED
  BY <1>1 DEF RowOfPackage

LEMMA RowsGrow ==
  ASSUME IInv, NEW p \in Providers, NEW listed \in SUBSET Tuples,
         Catalogue!Merge(p, listed), UNCHANGED <<objects, download>>
  PROVE  Grows /\ StoresOK'
<1>1. TypeOK /\ Unique /\ ObjectsBacked
  BY DEF IInv
<1>2. /\ rowId' \in [Providers -> [Tuples -> Ids \cup {NULL}]]
      /\ \A q \in Providers, t \in Tuples : rowId[q][t] # NULL => rowId'[q][t] = rowId[q][t]
      /\ Unique'
  BY <1>1, Merges
<1>3. ASSUME NEW k \in Keys, objects[k] # NULL PROVE RowOfPackage(objects[k])'
  <2>1. objects[k] \in Packages /\ RowOfPackage(objects[k]) /\ objects'[k] = objects[k]
    BY <1>1, <1>3 DEF TypeOK, ObjectsBacked
  <2> QED
    BY <1>1, <1>2, <2>1, PackageStays DEF RowOfPackage
<1>4. ASSUME NEW k \in Keys, download[k] # NULL PROVE RowOfPackage(download[k])'
  <2>1. download[k] \in Packages /\ RowOfPackage(download[k]) /\ download'[k] = download[k]
    BY <1>1, <1>4 DEF TypeOK, ObjectsBacked
  <2> QED
    BY <1>1, <1>2, <2>1, PackageStays DEF RowOfPackage
<1>5. ObjectsBacked'
  BY <1>3, <1>4 DEF ObjectsBacked
<1> QED
  BY <1>1, <1>2, <1>5 DEF Grows, StoresOK, TypeOK

\* A download is of the row it has read.
LEMMA DownloadsBacked ==
  ASSUME IInv, NEW k \in Keys, NEW i \in Ids, NEW x \in Providers \X Tuples, Download(k, i, x)
  PROVE  Grows /\ StoresOK'
<1> DEFINE o == [version |-> i, row |-> x]
<1>1. TypeOK /\ Unique /\ ObjectsBacked
  BY DEF IInv
<1>2. /\ download' = [download EXCEPT ![k] = o]
      /\ rowId' = rowId /\ objects' = objects
  BY DEF Download, catalogVars, storeVars
<1>3. o \in Packages /\ RowOfPackage(o)
  BY DEF Packages, Rows, RowOfPackage, Download, RowOf
<1> HIDE DEF o
<1>4. download' \in [Keys -> Packages \cup {NULL}]
  BY <1>1, <1>2, <1>3 DEF TypeOK
<1>5. ObjectsBacked'
  BY <1>1, <1>2, <1>3 DEF ObjectsBacked, RowOfPackage, TypeOK
<1> QED
  BY <1>1, <1>2, <1>4, <1>5 DEF Grows, StoresOK, TypeOK, Unique

LEMMA ObjectsGrow ==
  ASSUME IInv, NEW k \in Keys, Publish(k)
  PROVE  Grows /\ StoresOK'
<1> DEFINE o == download[k]
<1>1. TypeOK /\ Unique /\ ObjectsBacked
  BY DEF IInv
<1>2. /\ objects[k] = NULL /\ o # NULL
      /\ objects' = [objects EXCEPT ![k] = o]
      /\ download' = [download EXCEPT ![k] = NULL]
      /\ rowId' = rowId
  BY DEF Publish, Store!Publish, catalogVars
<1>3. o \in Packages /\ RowOfPackage(o)
  BY <1>1, <1>2 DEF TypeOK, ObjectsBacked
<1> HIDE DEF o
<1>4. /\ objects' \in [Keys -> Packages \cup {NULL}]
      /\ download' \in [Keys -> Packages \cup {NULL}]
  BY <1>1, <1>2, <1>3 DEF TypeOK
<1>5. ObjectsBacked'
  BY <1>1, <1>2, <1>3 DEF ObjectsBacked, RowOfPackage, TypeOK
<1>6. Grows
  BY <1>1, <1>2 DEF Grows, TypeOK
<1> QED
  BY <1>1, <1>2, <1>4, <1>5, <1>6 DEF StoresOK, TypeOK, Unique

LEMMA StoresKept ==
  ASSUME IInv, UNCHANGED <<rowId, objects, download>>
  PROVE  Grows /\ StoresOK'
BY DEF IInv, TypeOK, Grows, StoresOK, Unique, ObjectsBacked, RowOfPackage

LEMMA StoresStep ==
  ASSUME IInv, [Next]_vars
  PROVE  Grows /\ StoresOK'
<1>2. ASSUME NEW p \in Providers, NEW listed \in SUBSET Tuples, Refresh(p, listed)
      PROVE  Grows /\ StoresOK'
  BY <1>2, RowsGrow DEF Refresh, storeVars
<1>3. ASSUME \/ \E k \in Keys : Publish(k)
             \/ \E k \in Keys, i \in Ids, x \in Providers \X Tuples : Download(k, i, x)
      PROVE  Grows /\ StoresOK'
  BY <1>3, ObjectsGrow, DownloadsBacked
<1>1. ASSUME NEW c \in Clients, NEW list, AnswerIndex(c, list)
      PROVE  UNCHANGED <<rowId, objects, download>>
  BY <1>1 DEF AnswerIndex, serverVars, catalogVars, storeVars
<1>4. ASSUME \/ \E c \in Clients, p \in Providers : AskIndex(c, p) \/ IndexKept(c, p)
             \/ \E c \in Clients : RefuseIndex(c) \/ IndexArrives(c)
      PROVE  UNCHANGED <<rowId, objects, download>>
  BY <1>4 DEF AskIndex, RefuseIndex, IndexArrives, IndexKept, TakeIndex, serverVars, catalogVars,
       storeVars
<1>5. ASSUME NEW c \in Clients, NEW v, NEW a, GetVersion(c, v, a)
      PROVE  UNCHANGED <<rowId, objects, download>>
  BY <1>5 DEF GetVersion, serverVars, catalogVars, storeVars
<1>6. ASSUME NEW c \in Clients, NEW k \in Keys, GetArtifact(c, k)
      PROVE  UNCHANGED <<rowId, objects, download>>
  BY <1>6 DEF GetArtifact, Redirect, Store!Answer, catalogVars
<1>7. ASSUME NEW c \in Clients, RedirectKeeps(c) \/ RedirectKept(c) \/ Follow(c)
      PROVE  UNCHANGED <<rowId, objects, download>>
  BY <1>7 DEF RedirectKeeps, RedirectKept, Redirect, Follow, serverVars, catalogVars, storeVars
<1>8. ASSUME NEW c \in Clients, Finish(c) PROVE UNCHANGED <<rowId, objects, download>>
  BY <1>8 DEF Finish, Store!Forget, serverVars, catalogVars, storeVars
<1>9. CASE Tick \/ UNCHANGED vars
  BY <1>9, StoresKept DEF Tick, vars, serverVars, catalogVars, storeVars
<1> QED
  BY <1>1, <1>2, <1>3, <1>4, <1>5, <1>6, <1>7, <1>8, <1>9, StoresKept DEF Next

\* So what answers say of the stores stays true.
LEMMA BackedStays ==
  ASSUME TypeOK, Grows, NEW p \in Providers, NEW list, Backed(p, list)
  PROVE  \A v \in list.packaged : \E t \in Tuples : t.version = v /\ rowId'[p][t] # NULL
BY DEF Backed, Grows

LEMMA LeadsStays ==
  ASSUME Grows, NEW k \in Keys, NEW i, objects[k] # NULL, objects[k].version = i
  PROVE  objects'[k] # NULL /\ objects'[k].version = i
BY DEF Grows

-----------------------------------------------------------------------------
\* What the endpoint answers is backed as it is answered.
LEMMA AnswersBacked ==
  ASSUME IInv, NEW c \in Clients, NEW list, AnswerIndex(c, list)
  PROVE  call[c].provider \in Providers /\ Backed(call[c].provider, list)
<1> DEFINE p == call[c].provider
<1>1. p \in Providers
  BY DEF AnswerIndex, Service!Answer, Service!Waits, Service!None, Service!Refused, IInv, TypeOK,
     Calls
<1>2. list.packaged \subseteq VersionsOf(Stored(p))
  BY <1>1 DEF AnswerIndex, Service!Answer
<1> QED
  BY <1>1, <1>2 DEF Backed, VersionsOf, Stored

\* An index on its way names a provider.
LEMMA CallFacts ==
  ASSUME IInv, NEW c \in Clients, call[c].state = "index"
  PROVE  /\ call[c].provider \in Providers /\ call[c].list \in Service!Lists
         /\ Backed(call[c].provider, call[c].list)
<1>1. call[c] \in Calls
  BY DEF IInv, TypeOK
<1>2. call[c].provider \in Providers /\ call[c].list \in Service!Lists
  BY <1>1 DEF Calls, Service!None, Service!Refused
<1> QED
  BY <1>2 DEF IInv, CallInv

\* What the endpoint's steps do to the calls.
CallsOK == call \in [Clients -> Calls] /\ CallInv

LEMMA CallMoves ==
  ASSUME IInv, Grows, NEW c \in Clients, NEW x \in Calls, call' = [call EXCEPT ![c] = x],
         x.state = "index" => Backed(x.provider, x.list)'
  PROVE  CallsOK'
<1>1. call' \in [Clients -> Calls] /\ \A d \in Clients : call'[d] = IF d = c THEN x ELSE call[d]
  BY DEF IInv, TypeOK
<1>2. ASSUME NEW d \in Clients, NEW y, y = call'[d], y.state = "index"
      PROVE  Backed(y.provider, y.list)'
  <2>1. CASE d = c
    BY <1>1, <1>2, <2>1
  <2>2. CASE d # c
    <3>1. y = call[d]
      BY <1>1, <1>2, <2>2
    <3>2. y.provider \in Providers /\ Backed(y.provider, y.list)
      BY <1>2, <3>1, CallFacts
    <3> QED
      BY <3>2, BackedStays DEF Backed, IInv
  <2> QED
    BY <2>1, <2>2
<1> QED
  BY <1>1, <1>2 DEF CallsOK, CallInv, Backed

LEMMA CallsSame ==
  ASSUME IInv, Grows, UNCHANGED call PROVE CallsOK'
<1>1. ASSUME NEW c \in Clients, call[c].state = "index"
      PROVE  Backed(call[c].provider, call[c].list)'
  <2>1. PICK x : x = call[c]
    OBVIOUS
  <2>2. x.provider \in Providers /\ Backed(x.provider, x.list)
    BY <1>1, <2>1, CallFacts
  <2>3. Backed(x.provider, x.list)'
    BY <2>2, BackedStays DEF Backed, IInv
  <2> QED
    BY <2>1, <2>3 DEF Backed
<1> QED
  BY <1>1 DEF CallsOK, CallInv, IInv, TypeOK

LEMMA CallsStep ==
  ASSUME IInv, [Next]_vars PROVE CallsOK'
<1> USE StoresStep
<1>1. ASSUME NEW c \in Clients, NEW p \in Providers, AskIndex(c, p) PROVE CallsOK'
  <2>1. Service!Waiting(p, VersionsOf(Stored(p))) \in Calls
    BY ListFacts DEF Service!Waiting, Calls, VersionsOf, Stored, Versions
  <2>2. PICK x \in Calls : x.state # "index" /\ call' = [call EXCEPT ![c] = x]
    BY <1>1, <2>1 DEF AskIndex, Service!Ask, Service!Waiting
  <2> QED
    BY <2>2, CallMoves
<1>2. ASSUME NEW c \in Clients, NEW list \in Service!Lists,
             AnswerIndex(c, list)
      PROVE  CallsOK'
  <2>1. PICK p \in Providers : p = call[c].provider /\ Backed(p, list)
    BY <1>2, AnswersBacked
  <2> DEFINE x == Service!Index(p, list)
  <2>2. x \in Calls /\ x.provider = p /\ x.list = list
    BY DEF Service!Index, Calls
  <2>3. call' = [call EXCEPT ![c] = x]
    BY <1>2, <2>1 DEF AnswerIndex, Service!Answer, IInv, TypeOK
  <2>4. Backed(p, list)'
    BY <2>1, BackedStays DEF Backed, IInv
  <2> HIDE DEF x
  <2>5. Backed(x.provider, x.list)'
    BY <2>2, <2>4 DEF Backed
  <2> QED
    BY <2>2, <2>3, <2>5, CallMoves
<1>3. ASSUME NEW c \in Clients, RefuseIndex(c) \/ IndexArrives(c) \/ Finish(c) PROVE CallsOK'
  <2>1. \A x \in {Service!None, Service!Refused} : x \in Calls /\ x.state # "index"
    BY DEF Service!None, Service!Refused, Calls
  <2>2. PICK x \in {Service!None, Service!Refused} : call' = [call EXCEPT ![c] = x]
    <3>1. CASE RefuseIndex(c)
      BY <3>1 DEF RefuseIndex, Service!Refuse
    <3>2. CASE IndexArrives(c)
      BY <3>2 DEF IndexArrives, Service!Forget
    <3>3. CASE Finish(c) /\ ~Service!Waits(c)
      BY <3>3 DEF Finish, Service!Forget
    <3>4. CASE Finish(c) /\ Service!Waits(c)
      BY <3>4 DEF Finish, Service!Drop, IInv, TypeOK
    <3> QED
      BY <1>3, <3>1, <3>2, <3>3, <3>4
  <2> QED
    BY <2>1, <2>2, CallMoves
<1>4. ASSUME \/ \E c \in Clients, p \in Providers : IndexKept(c, p)
             \/ \E p \in Providers, listed \in SUBSET Tuples : Refresh(p, listed)
             \/ \E c \in Clients, v \in Versions : \E a : GetVersion(c, v, a)
             \/ \E k \in Keys, i \in Ids, x \in Providers \X Tuples : Download(k, i, x)
             \/ \E k \in Keys : Publish(k)
             \/ \E c \in Clients, k \in Keys : GetArtifact(c, k)
             \/ \E c \in Clients : RedirectKeeps(c) \/ RedirectKept(c) \/ Follow(c)
             \/ Tick \/ UNCHANGED vars
      PROVE  UNCHANGED call
  BY <1>4 DEF IndexKept, Refresh, GetVersion, Download, Publish, GetArtifact, RedirectKeeps,
       RedirectKept,
       Redirect, Follow, Tick, vars, serverVars
<1> QED
  BY <1>1, <1>2, <1>3, <1>4, CallsSame DEF Next

\* The caches.
IndexesKept == \A p \in Providers : cachedIndex[p] # NULL => Backed(p, cachedIndex[p])

KeptOK(r, i) == Leads(r, i) /\ r.fresh + Expiry <= r.valid + Transit + MaxAge

RedirectsKept == \A i \in Ids : cachedRedirect[i] # NULL => KeptOK(cachedRedirect[i], i)

LEMMA KeptParts == KeptInv <=> IndexesKept /\ RedirectsKept
BY DEF KeptInv, IndexesKept, RedirectsKept, KeptOK

LEMMA IndexesSame ==
  ASSUME IInv, Grows, UNCHANGED cachedIndex PROVE IndexesKept'
BY BackedStays DEF IInv, KeptInv, IndexesKept, Backed

LEMMA IndexesStep ==
  ASSUME IInv, [Next]_vars PROVE IndexesKept'
<1> USE StoresStep
<1>1. ASSUME NEW c \in Clients, IndexArrives(c) PROVE IndexesKept'
  <2> DEFINE p == call[c].provider  list == call[c].list
  <2>1. \/ UNCHANGED cachedIndex
        \/ cachedIndex' = [cachedIndex EXCEPT ![p] = list]
    BY <1>1 DEF IndexArrives
  <2>2. rowId' = rowId /\ p \in Providers /\ Backed(p, list)
    BY <1>1, CallFacts DEF IndexArrives, TakeIndex, serverVars, catalogVars
  <2> HIDE DEF p, list
  <2>3. CASE cachedIndex' = [cachedIndex EXCEPT ![p] = list]
    BY <2>2, <2>3 DEF IndexesKept, Backed, IInv, TypeOK, KeptInv
  <2> QED
    BY <2>1, <2>3, IndexesSame
<1>3. ASSUME \/ \E c \in Clients, p \in Providers : IndexKept(c, p) \/ AskIndex(c, p)
             \/ \E c \in Clients, list \in Service!Lists : AnswerIndex(c, list)
             \/ \E c \in Clients : RefuseIndex(c)
             \/ \E p \in Providers, listed \in SUBSET Tuples : Refresh(p, listed)
             \/ \E c \in Clients, v \in Versions : \E a : GetVersion(c, v, a)
             \/ \E k \in Keys, i \in Ids, x \in Providers \X Tuples : Download(k, i, x)
             \/ \E k \in Keys : Publish(k)
             \/ \E c \in Clients, k \in Keys : GetArtifact(c, k)
             \/ \E c \in Clients : RedirectKeeps(c) \/ RedirectKept(c) \/ Follow(c) \/ Finish(c)
             \/ Tick \/ UNCHANGED vars
      PROVE  UNCHANGED cachedIndex
  BY <1>3 DEF IndexKept, TakeIndex, AskIndex, AnswerIndex, RefuseIndex, Refresh, GetVersion,
       Download, Publish, GetArtifact, RedirectKeeps, RedirectKept,
       Follow, Finish, Tick, cacheVars, vars, serverVars
<1> QED
  BY <1>1, <1>3, IndexesSame DEF Next

LEMMA RedirectsSame ==
  ASSUME IInv, Grows, UNCHANGED cachedRedirect PROVE RedirectsKept'
<1> SUFFICES ASSUME NEW i \in Ids, cachedRedirect[i] # NULL
             PROVE  KeptOK(cachedRedirect[i], i)'
  BY DEF RedirectsKept
<1>1. KeptOK(cachedRedirect[i], i) /\ cachedRedirect[i].key \in Keys
  BY KeptParts DEF IInv, RedirectsKept, TypeOK, Kept
<1> QED
  BY <1>1, LeadsStays DEF KeptOK, Leads

LEMMA RedirectsStep ==
  ASSUME IInv, [Next]_vars PROVE RedirectsKept'
<1> USE StoresStep
<1>1. ASSUME NEW c \in Clients, RedirectKeeps(c) PROVE RedirectsKept'
  <2> DEFINE r == redirect[c]
  <2>1. /\ r \in Redirects /\ Leads(r, id[c]) /\ r.direct /\ TimeInv(r) /\ id[c] \in Ids
    BY <1>1 DEF RedirectKeeps, IInv, TypeOK, ClientInv, FollowsInv, Listing
  <2>2. /\ objects' = objects
        /\ cachedRedirect' = [cachedRedirect EXCEPT ![id[c]] =
             [key |-> r.key, valid |-> r.valid, fresh |-> MaxAge]]
    BY <1>1 DEF RedirectKeeps, serverVars, storeVars
  <2>3. MaxAge + Expiry <= r.valid + Transit + MaxAge
    BY <2>1, TimeAssumption DEF TimeInv, Redirects
  <2> QED
    BY <2>1, <2>2, <2>3, KeptParts DEF RedirectsKept, KeptOK, Leads, IInv, TypeOK
<1>2. CASE Tick
  <2> SUFFICES ASSUME NEW i \in Ids, cachedRedirect'[i] # NULL
               PROVE  KeptOK(cachedRedirect[i], i)'
    BY DEF RedirectsKept
  <2>1. /\ cachedRedirect[i] # NULL /\ cachedRedirect[i].fresh # 1
        /\ cachedRedirect'[i] = [cachedRedirect[i] EXCEPT
             !.valid = IF @ = 0 THEN 0 ELSE @ - 1, !.fresh = @ - 1]
    BY <1>2 DEF Tick
  <2>2. KeptOK(cachedRedirect[i], i) /\ cachedRedirect[i] \in Kept
    BY <2>1, KeptParts DEF IInv, RedirectsKept, TypeOK
  <2>3. objects' = objects
    BY <1>2 DEF Tick, serverVars, storeVars
  <2>4. Leads(cachedRedirect[i], i)'
    BY <2>1, <2>2, <2>3 DEF KeptOK, Leads, Kept
  <2>5. cachedRedirect'[i].fresh + Expiry <= cachedRedirect'[i].valid + Transit + MaxAge
    BY <2>1, <2>2, TimeAssumption DEF KeptOK, Kept
  <2> QED
    BY <2>4, <2>5 DEF KeptOK
<1>3. ASSUME \/ \E c \in Clients, p \in Providers : AskIndex(c, p) \/ IndexKept(c, p)
             \/ \E c \in Clients, list \in Service!Lists : AnswerIndex(c, list)
             \/ \E c \in Clients : RefuseIndex(c) \/ IndexArrives(c)
             \/ \E p \in Providers, listed \in SUBSET Tuples : Refresh(p, listed)
             \/ \E c \in Clients, v \in Versions : \E a : GetVersion(c, v, a)
             \/ \E k \in Keys, i \in Ids, x \in Providers \X Tuples : Download(k, i, x)
             \/ \E k \in Keys : Publish(k)
             \/ \E c \in Clients, k \in Keys : GetArtifact(c, k)
             \/ \E c \in Clients : RedirectKept(c) \/ Follow(c) \/ Finish(c)
             \/ UNCHANGED vars
      PROVE  UNCHANGED cachedRedirect
  BY <1>3 DEF AskIndex, AnswerIndex, RefuseIndex, IndexArrives, IndexKept, TakeIndex, Refresh,
       GetVersion, Download, Publish, GetArtifact, RedirectKept, Redirect, Follow, Finish,
       cacheVars, vars, serverVars
<1> QED
  BY <1>1, <1>2, <1>3, RedirectsSame DEF Next

-----------------------------------------------------------------------------
\* Types.
ClientTypes ==
  /\ at       \in [Clients -> {"idle", "asked", "indexed"} \cup Listing]
  /\ provider \in [Clients -> Providers]
  /\ index    \in [Clients -> Service!Lists]
  /\ wanted   \in [Clients -> Tuples \cup {NULL}]
  /\ id       \in [Clients -> Ids \cup {NULL}]
  /\ redirect \in [Clients -> Redirects \cup {NULL}]
  /\ \A c \in Clients : at[c] \in Listing => wanted[c] \in Tuples /\ id[c] \in Ids
  /\ \A c \in Clients : at[c] \in {"redirected", "served"} => redirect[c] \in Redirects

CacheTypes ==
  /\ cachedIndex    \in [Providers -> Service!Lists \cup {NULL}]
  /\ cachedRedirect \in [Ids -> Kept \cup {NULL}]

AnswerTypes ==
  /\ binding \in [Ids -> Keys \cup {NULL}]
  /\ answer  \in [Clients -> [version : Ids, key : Keys] \cup {NULL}]

\* The rows a client is shown.
LEMMA BuildsFacts ==
  ASSUME IInv, NEW p \in Providers, NEW v, NEW a \in Builds(p, list_downloads(p, v)),
         NEW n \in DOMAIN a
  PROVE  \E t \in Tuples : /\ t.version = v /\ archive_name(t) = n
                           /\ a[n] = rowId[p][t] /\ a[n] \in Ids
<1>1. PICK t \in list_downloads(p, v) : archive_name(t) = n /\ a[n] = rowId[p][t]
  BY DEF Builds
<1>2. t \in Tuples /\ t.version = v /\ rowId[p][t] # NULL
  BY DEF list_downloads, Stored
<1> QED
  BY <1>1, <1>2 DEF IInv, TypeOK

LEMMA AnswerTypesStep ==
  ASSUME IInv, [Next]_vars PROVE AnswerTypes'
<1> USE DEF IInv, TypeOK, AnswerTypes
<1>1. ASSUME NEW c \in Clients, NEW k \in Keys, GetArtifact(c, k) PROVE AnswerTypes'
  <2>1. id[c] \in Ids
    BY <1>1 DEF GetArtifact, Redirect, Listing
  <2> QED
    BY <1>1, <2>1 DEF GetArtifact, Store!Answer
<1>2. ASSUME NEW c \in Clients, Finish(c) PROVE AnswerTypes'
  BY <1>2 DEF Finish, Store!Forget, storeVars
<1>3. ASSUME NEW k \in Keys, Publish(k)
      PROVE  AnswerTypes'
  BY <1>3 DEF Publish, Store!Publish
<1>4. ASSUME \/ \E c \in Clients, p \in Providers : AskIndex(c, p) \/ IndexKept(c, p)
             \/ \E c \in Clients, list \in Service!Lists : AnswerIndex(c, list)
             \/ \E c \in Clients : RefuseIndex(c) \/ IndexArrives(c)
             \/ \E p \in Providers, listed \in SUBSET Tuples : Refresh(p, listed)
             \/ \E c \in Clients, v \in Versions : \E a : GetVersion(c, v, a)
             \/ \E k \in Keys, i \in Ids, x \in Providers \X Tuples : Download(k, i, x)
             \/ \E c \in Clients : RedirectKeeps(c) \/ RedirectKept(c) \/ Follow(c)
             \/ Tick \/ UNCHANGED vars
      PROVE  UNCHANGED storeVars
  BY <1>4 DEF AskIndex, AnswerIndex, RefuseIndex, IndexArrives, IndexKept, TakeIndex, Refresh,
       GetVersion, Download, RedirectKeeps, RedirectKept, Redirect, Follow, Tick, vars, serverVars
<1>5. ASSUME UNCHANGED storeVars PROVE AnswerTypes'
  BY <1>5 DEF storeVars
<1> QED
  BY <1>1, <1>2, <1>3, <1>4, <1>5 DEF Next

LEMMA CacheTypesStep ==
  ASSUME IInv, [Next]_vars PROVE CacheTypes'
<1> USE DEF IInv, TypeOK, CacheTypes
<1>1. ASSUME NEW c \in Clients, IndexArrives(c) PROVE CacheTypes'
  <2>1. call[c].provider \in Providers /\ call[c].list \in Service!Lists
    BY <1>1, CallFacts DEF IndexArrives
  <2> QED
    BY <1>1, <2>1 DEF IndexArrives, TakeIndex
<1>4. ASSUME NEW c \in Clients, RedirectKeeps(c) PROVE CacheTypes'
  <2>1. redirect[c] \in Redirects
    BY <1>4 DEF RedirectKeeps
  <2>2. TimeInv(redirect[c]) /\ redirect[c].direct
    BY <1>4 DEF RedirectKeeps, ClientInv, FollowsInv
  <2>3. CASE MaxAge \in Nat \ {0}
    <3>1. [key |-> redirect[c].key, valid |-> redirect[c].valid, fresh |-> MaxAge] \in Kept
      BY <2>1, <2>3 DEF Redirects, Kept
    <3> QED
      BY <1>4, <3>1 DEF RedirectKeeps
  <2> QED
    BY <2>3, TimeAssumption
<1>5. CASE Tick
  <2> SUFFICES ASSUME NEW i \in Ids PROVE cachedRedirect'[i] \in Kept \cup {NULL}
    BY <1>5 DEF Tick
  <2>1. CASE cachedRedirect[i] = NULL \/ cachedRedirect[i].fresh = 1
    BY <1>5, <2>1 DEF Tick
  <2>2. CASE ~(cachedRedirect[i] = NULL \/ cachedRedirect[i].fresh = 1)
    <3>1. cachedRedirect[i] \in Kept
      BY <2>2
    <3>2. cachedRedirect'[i] = [cachedRedirect[i] EXCEPT
            !.valid = IF @ = 0 THEN 0 ELSE @ - 1, !.fresh = @ - 1]
      BY <1>5, <2>2 DEF Tick
    <3>3. /\ cachedRedirect'[i] = [key   |-> cachedRedirect[i].key,
                                    valid |-> cachedRedirect'[i].valid,
                                    fresh |-> cachedRedirect'[i].fresh]
          /\ cachedRedirect[i].key \in Keys
      BY <3>1, <3>2 DEF Kept
    <3>4. cachedRedirect'[i].valid \in 0..Expiry /\ cachedRedirect'[i].fresh \in 1..MaxAge
      <4>1. /\ cachedRedirect[i].valid \in 0..Expiry
            /\ cachedRedirect[i].fresh \in 1..MaxAge /\ cachedRedirect[i].fresh # 1
        BY <2>2, <3>1 DEF Kept
      <4>2. /\ cachedRedirect'[i].valid
                 = IF cachedRedirect[i].valid = 0 THEN 0 ELSE cachedRedirect[i].valid - 1
            /\ cachedRedirect'[i].fresh = cachedRedirect[i].fresh - 1
        BY <3>1, <3>2 DEF Kept
      <4>3. ASSUME NEW v \in 0..Expiry, NEW f \in 1..MaxAge, f # 1
            PROVE  (IF v = 0 THEN 0 ELSE v - 1) \in 0..Expiry /\ f - 1 \in 1..MaxAge
        BY <4>3, TimeAssumption
      <4> QED
        BY <4>1, <4>2, <4>3
    <3> QED
      BY <3>3, <3>4 DEF Kept
  <2> QED
    BY <2>1, <2>2
<1>6. ASSUME \/ \E c \in Clients, p \in Providers : AskIndex(c, p) \/ IndexKept(c, p)
             \/ \E c \in Clients, list \in Service!Lists : AnswerIndex(c, list)
             \/ \E c \in Clients : RefuseIndex(c)
             \/ \E p \in Providers, listed \in SUBSET Tuples : Refresh(p, listed)
             \/ \E c \in Clients, v \in Versions : \E a : GetVersion(c, v, a)
             \/ \E k \in Keys, i \in Ids, x \in Providers \X Tuples : Download(k, i, x)
             \/ \E k \in Keys : Publish(k)
             \/ \E c \in Clients, k \in Keys : GetArtifact(c, k)
             \/ \E c \in Clients : RedirectKept(c) \/ Follow(c) \/ Finish(c)
             \/ UNCHANGED vars
      PROVE  UNCHANGED cacheVars
  BY <1>6 DEF AskIndex, AnswerIndex, RefuseIndex, IndexKept, TakeIndex, Refresh, GetVersion,
       Download, Publish, GetArtifact, RedirectKept, Redirect, Follow, Finish, cacheVars, vars,
       serverVars
<1>7. ASSUME UNCHANGED cacheVars PROVE CacheTypes'
  BY <1>7 DEF cacheVars
<1> QED
  BY <1>1, <1>4, <1>5, <1>6, <1>7 DEF Next

\* A client's own types, after a step of its own and after any other.
ClientTypesOf(c) ==
  /\ at[c] \in {"idle", "asked", "indexed"} \cup Listing
  /\ provider[c] \in Providers
  /\ index[c] \in Service!Lists
  /\ wanted[c] \in Tuples \cup {NULL}
  /\ id[c] \in Ids \cup {NULL}
  /\ redirect[c] \in Redirects \cup {NULL}
  /\ at[c] \in Listing => wanted[c] \in Tuples /\ id[c] \in Ids
  /\ at[c] \in {"redirected", "served"} => redirect[c] \in Redirects

\* One client's variables change at one client.
Moves(c) ==
  /\ \E x : at' = [at EXCEPT ![c] = x]
  /\ \E x : provider' = [provider EXCEPT ![c] = x]
  /\ \E x : index' = [index EXCEPT ![c] = x]
  /\ \E x : wanted' = [wanted EXCEPT ![c] = x]
  /\ \E x : id' = [id EXCEPT ![c] = x]
  /\ \E x : redirect' = [redirect EXCEPT ![c] = x]

LEMMA MovesTypes ==
  ASSUME TypeOK, NEW c \in Clients, Moves(c), ClientTypesOf(c)'
  PROVE  ClientTypes'
<1>1. ASSUME NEW S, NEW f \in [Clients -> S], NEW x \in S
      PROVE  [f EXCEPT ![c] = x] \in [Clients -> S]
  OBVIOUS
<1>2. /\ at'       \in [Clients -> {"idle", "asked", "indexed"} \cup Listing]
      /\ provider' \in [Clients -> Providers]
      /\ index'    \in [Clients -> Service!Lists]
      /\ wanted'   \in [Clients -> Tuples \cup {NULL}]
      /\ id'       \in [Clients -> Ids \cup {NULL}]
      /\ redirect' \in [Clients -> Redirects \cup {NULL}]
  BY DEF Moves, TypeOK, ClientTypesOf
<1>3. ASSUME NEW d \in Clients, d # c
      PROVE  /\ at'[d] = at[d] /\ wanted'[d] = wanted[d] /\ id'[d] = id[d]
             /\ redirect'[d] = redirect[d]
  BY <1>3 DEF Moves, TypeOK
<1> QED
  BY <1>2, <1>3 DEF ClientTypes, ClientTypesOf, TypeOK

\* Another client's step leaves a client where it was.
LEMMA OthersFollow ==
  ASSUME IInv, Grows, NEW d \in Clients,
         at'[d] = at[d], provider'[d] = provider[d], index'[d] = index[d],
         wanted'[d] = wanted[d], id'[d] = id[d], redirect'[d] = redirect[d]
  PROVE  FollowsInv(d)'
<1>1. FollowsInv(d) /\ TypeOK
  BY DEF IInv, ClientInv
<1>2. at[d] = "indexed" => Backed(provider[d], index[d])'
  <2> SUFFICES ASSUME at[d] = "indexed" PROVE Backed(provider[d], index[d])'
    OBVIOUS
  <2>1. Backed(provider[d], index[d]) /\ provider[d] \in Providers
    BY <1>1 DEF FollowsInv, TypeOK
  <2>2. \A v \in index[d].packaged : \E t \in Tuples : t.version = v /\ rowId'[provider[d]][t] # NULL
    BY <1>1, <2>1, BackedStays
  <2> QED
    BY <2>2 DEF Backed
<1>3. at[d] \in Listing => rowId'[provider[d]][wanted[d]] = id[d]
  <2> SUFFICES ASSUME at[d] \in Listing PROVE rowId'[provider[d]][wanted[d]] = id[d]
    OBVIOUS
  <2>1. rowId[provider[d]][wanted[d]] = id[d] /\ id[d] # NULL
    BY <1>1, NullAssumption DEF FollowsInv, TypeOK
  <2> QED
    BY <1>1, <2>1 DEF Grows, TypeOK
<1>4. at[d] \in {"redirected", "served"} => Leads(redirect[d], id[d])'
  BY <1>1, LeadsStays DEF FollowsInv, Leads, TypeOK, Redirects
<1>5. at[d] = "redirected" => TimeInv(redirect[d])'
  BY <1>1 DEF FollowsInv, TimeInv
<1> QED
  BY <1>2, <1>3, <1>4, <1>5 DEF FollowsInv

LEMMA MovesFollow ==
  ASSUME IInv, Grows, NEW c \in Clients, Moves(c), FollowsInv(c)'
  PROVE  ClientInv'
<1> SUFFICES ASSUME NEW d \in Clients, d # c PROVE FollowsInv(d)'
  BY DEF ClientInv
<1>1. /\ at'[d] = at[d] /\ provider'[d] = provider[d] /\ index'[d] = index[d]
      /\ wanted'[d] = wanted[d] /\ id'[d] = id[d] /\ redirect'[d] = redirect[d]
  BY DEF Moves, IInv, TypeOK
<1> QED
  BY <1>1, OthersFollow

LEMMA Moved ==
  ASSUME IInv, Grows, NEW c \in Clients, Moves(c), ClientTypesOf(c)', FollowsInv(c)'
  PROVE  ClientTypes' /\ ClientInv'
BY MovesTypes, MovesFollow DEF IInv

LEMMA NobodyMoves ==
  ASSUME IInv, Grows, UNCHANGED clientVars
  PROVE  ClientTypes' /\ ClientInv'
<1>1. ClientTypes'
  BY DEF IInv, TypeOK, clientVars, ClientTypes
<1>2. ClientInv'
  BY OthersFollow DEF clientVars, ClientInv
<1> QED
  BY <1>1, <1>2

-----------------------------------------------------------------------------
\* The clients' steps.
LEMMA TakesIndex ==
  ASSUME IInv, Grows, NEW c \in Clients, NEW p \in Providers,
         NEW list \in Service!Lists, TakeIndex(c, p, list),
         \A v \in list.packaged : \E t \in Tuples : t.version = v /\ rowId'[p][t] # NULL
  PROVE  ClientTypes' /\ ClientInv'
<1>1. Moves(c)
  <2>1. wanted' = [wanted EXCEPT ![c] = wanted[c]] /\ id' = [id EXCEPT ![c] = id[c]]
        /\ redirect' = [redirect EXCEPT ![c] = redirect[c]]
    BY DEF TakeIndex, IInv, TypeOK
  <2> QED
    BY <2>1 DEF TakeIndex, Moves
<1>2. /\ at'[c] = "indexed" /\ provider'[c] = p /\ index'[c] = list
      /\ wanted'[c] = wanted[c] /\ id'[c] = id[c] /\ redirect'[c] = redirect[c]
  BY DEF TakeIndex, IInv, TypeOK
<1>3. ClientTypesOf(c)'
  BY <1>2 DEF ClientTypesOf, IInv, TypeOK, Listing
<1>4. FollowsInv(c)'
  BY <1>2 DEF FollowsInv, Backed, Listing
<1> QED
  BY <1>1, <1>3, <1>4, Moved

LEMMA Step_Index ==
  ASSUME IInv, Grows, NEW c \in Clients,
         IndexArrives(c) \/ \E p \in Providers : IndexKept(c, p)
  PROVE  ClientTypes' /\ ClientInv'
<1>1. CASE IndexArrives(c)
  <2>1. /\ call[c].provider \in Providers /\ call[c].list \in Service!Lists
        /\ Backed(call[c].provider, call[c].list)
    BY <1>1, CallFacts DEF IndexArrives
  <2> QED
    BY <1>1, <2>1, TakesIndex, BackedStays DEF IndexArrives, IInv
<1>2. ASSUME NEW p \in Providers, IndexKept(c, p) PROVE ClientTypes' /\ ClientInv'
  <2>1. cachedIndex[p] \in Service!Lists /\ Backed(p, cachedIndex[p])
    BY <1>2 DEF IndexKept, IInv, TypeOK, KeptInv
  <2> QED
    BY <1>2, <2>1, TakesIndex, BackedStays DEF IndexKept, IInv
<1> QED
  BY <1>1, <1>2

\* To ask is to wait.
LEMMA Step_Ask ==
  ASSUME IInv, Grows, NEW c \in Clients, NEW p \in Providers, AskIndex(c, p)
  PROVE  ClientTypes' /\ ClientInv'
<1>1. Moves(c)
  <2>1. /\ provider' = [provider EXCEPT ![c] = provider[c]]
        /\ index' = [index EXCEPT ![c] = index[c]]
        /\ wanted' = [wanted EXCEPT ![c] = wanted[c]] /\ id' = [id EXCEPT ![c] = id[c]]
        /\ redirect' = [redirect EXCEPT ![c] = redirect[c]]
    BY DEF AskIndex, IInv, TypeOK
  <2> QED
    BY <2>1 DEF AskIndex, Moves
<1>2. /\ at'[c] = "asked" /\ provider'[c] = provider[c] /\ index'[c] = index[c]
      /\ wanted'[c] = wanted[c] /\ id'[c] = id[c] /\ redirect'[c] = redirect[c]
  BY DEF AskIndex, IInv, TypeOK
<1>3. ClientTypesOf(c)' /\ FollowsInv(c)'
  BY <1>2 DEF ClientTypesOf, FollowsInv, IInv, TypeOK, Listing
<1> QED
  BY <1>1, <1>3, Moved

LEMMA Step_GetVersion ==
  ASSUME IInv, Grows, NEW c \in Clients, NEW v,
         NEW a \in Builds(provider[c], list_downloads(provider[c], v)), GetVersion(c, v, a)
  PROVE  ClientTypes' /\ ClientInv'
<1>1. Moves(c)
  <2>1. /\ provider' = [provider EXCEPT ![c] = provider[c]]
        /\ redirect' = [redirect EXCEPT ![c] = redirect[c]]
        /\ wanted = [wanted EXCEPT ![c] = wanted[c]] /\ id = [id EXCEPT ![c] = id[c]]
    BY DEF GetVersion, IInv, TypeOK
  <2> QED
    BY <2>1 DEF GetVersion, Moves
<1>2. /\ index'[c] = Service!Nothing /\ provider'[c] = provider[c] /\ redirect'[c] = redirect[c]
      /\ provider[c] \in Providers /\ rowId' = rowId
  BY DEF GetVersion, IInv, TypeOK, serverVars, catalogVars
<1>3. CASE DOMAIN a = {} /\ at'[c] = "idle" /\ UNCHANGED <<wanted, id>>
  <2>1. ClientTypesOf(c)'
    BY <1>2, <1>3, ListFacts DEF ClientTypesOf, IInv, TypeOK, Listing
  <2>2. FollowsInv(c)'
    BY <1>3 DEF FollowsInv, Listing
  <2> QED
    BY <1>1, <2>1, <2>2, Moved
<1>4. ASSUME NEW t \in Tuples, t.version = v, archive_name(t) \in DOMAIN a,
             wanted'[c] = t, id'[c] = a[archive_name(t)], at'[c] = "listed"
      PROVE  ClientTypes' /\ ClientInv'
  <2>1. PICK u \in Tuples : /\ u.version = v /\ archive_name(u) = archive_name(t)
                            /\ id'[c] = rowId[provider[c]][u] /\ id'[c] \in Ids
    BY <1>2, <1>4, BuildsFacts
  <2>2. u = t
    BY <1>4, <2>1, NamesDiffer
  <2>3. ClientTypesOf(c)'
    BY <1>2, <1>4, <2>1, ListFacts DEF ClientTypesOf, IInv, TypeOK, Listing
  <2>4. FollowsInv(c)'
    BY <1>2, <1>4, <2>1, <2>2 DEF FollowsInv, Listing
  <2> QED
    BY <1>1, <2>3, <2>4, Moved
<1> QED
  BY <1>3, <1>4 DEF GetVersion, IInv, TypeOK

LEMMA Redirected ==
  ASSUME IInv, Grows, NEW c \in Clients, NEW k \in Keys, NEW valid \in 0..Expiry,
         NEW direct \in BOOLEAN, Redirect(c, k, valid, direct), UNCHANGED <<rowId, objects>>,
         objects[k] # NULL, objects[k].version = id[c],
         Transit < valid, direct => valid = Expiry
  PROVE  ClientTypes' /\ ClientInv'
<1> DEFINE r == [key |-> k, valid |-> valid, patience |-> Transit, direct |-> direct]
<1>1. Moves(c)
  <2>1. /\ provider' = [provider EXCEPT ![c] = provider[c]]
        /\ index' = [index EXCEPT ![c] = index[c]]
        /\ wanted' = [wanted EXCEPT ![c] = wanted[c]] /\ id' = [id EXCEPT ![c] = id[c]]
    BY DEF Redirect, IInv, TypeOK
  <2> QED
    BY <2>1 DEF Redirect, Moves
<1>2. /\ at[c] = "listed" /\ at'[c] = "redirected" /\ redirect'[c] = r
      /\ provider'[c] = provider[c] /\ index'[c] = index[c]
      /\ wanted'[c] = wanted[c] /\ id'[c] = id[c]
  BY DEF Redirect, IInv, TypeOK
<1>3. r \in Redirects
  BY TimeAssumption DEF Redirects
<1>4. ClientTypesOf(c)'
  BY <1>2, <1>3 DEF ClientTypesOf, IInv, TypeOK, Listing
<1>5. TimeInv(r) /\ Leads(r, id[c])
  BY TimeAssumption DEF TimeInv, Leads
<1>6. FollowsInv(c)'
  <2>1. TimeInv(redirect'[c]) /\ Leads(redirect[c], id[c])'
    BY <1>2, <1>5 DEF Leads
  <2>2. rowId'[provider'[c]][wanted'[c]] = id'[c]
    BY <1>2 DEF IInv, ClientInv, FollowsInv, Listing
  <2> QED
    BY <1>2, <2>1, <2>2 DEF FollowsInv, TimeInv
<1> QED
  BY <1>1, <1>4, <1>6, Moved

LEMMA Step_Artifact ==
  ASSUME IInv, Grows, NEW c \in Clients, RedirectKept(c) \/ \E k \in Keys : GetArtifact(c, k)
  PROVE  ClientTypes' /\ ClientInv'
<1>1. ASSUME NEW k \in Keys, GetArtifact(c, k) PROVE ClientTypes' /\ ClientInv'
  <2>1. /\ Redirect(c, k, Expiry, TRUE) /\ UNCHANGED <<rowId, objects>>
        /\ objects[k] # NULL /\ objects[k].version = id[c]
    BY <1>1 DEF GetArtifact, Redirect, Store!Answer, Store!Holds, serverVars, catalogVars
  <2>2. Expiry \in 0..Expiry /\ Transit < Expiry /\ TRUE \in BOOLEAN
    BY TimeAssumption
  <2> QED
    BY <2>1, <2>2, Redirected
<1>2. CASE RedirectKept(c)
  <2> DEFINE r == cachedRedirect[id[c]]
  <2>1. id[c] \in Ids /\ r # NULL /\ Redirect(c, r.key, r.valid, FALSE)
        /\ UNCHANGED <<rowId, objects>>
    BY <1>2 DEF RedirectKept, Redirect, IInv, TypeOK, Listing, serverVars, catalogVars, storeVars
  <2>2. r \in Kept /\ Leads(r, id[c]) /\ r.fresh + Expiry <= r.valid + Transit + MaxAge
    BY <2>1 DEF IInv, TypeOK, KeptInv
  <2>3. r.key \in Keys /\ r.valid \in 0..Expiry /\ r.fresh \in 1..MaxAge
    BY <2>2 DEF Kept
  <2>4. Transit < r.valid
    <3>1. ASSUME NEW f \in 1..MaxAge, NEW v \in 0..Expiry, f + Expiry <= v + Transit + MaxAge
          PROVE  Transit < v
      BY <3>1, TimeAssumption
    <3> QED
      BY <2>2, <2>3, <3>1
  <2>5. FALSE \in BOOLEAN /\ objects[r.key] # NULL /\ objects[r.key].version = id[c]
    BY <2>2 DEF Leads
  <2> HIDE DEF r
  <2> QED
    BY <2>1, <2>3, <2>4, <2>5, Redirected
<1> QED
  BY <1>1, <1>2

LEMMA Step_Follow ==
  ASSUME IInv, Grows, NEW c \in Clients, Follow(c)
  PROVE  ClientTypes' /\ ClientInv'
<1>1. Moves(c)
  <2>1. /\ provider' = [provider EXCEPT ![c] = provider[c]]
        /\ index' = [index EXCEPT ![c] = index[c]]
        /\ wanted' = [wanted EXCEPT ![c] = wanted[c]] /\ id' = [id EXCEPT ![c] = id[c]]
        /\ redirect' = [redirect EXCEPT ![c] = redirect[c]]
    BY DEF Follow, IInv, TypeOK
  <2> QED
    BY <2>1 DEF Follow, Moves
<1>2. /\ at[c] = "redirected" /\ at'[c] = "served"
      /\ provider'[c] = provider[c] /\ index'[c] = index[c] /\ redirect'[c] = redirect[c]
      /\ wanted'[c] = wanted[c] /\ id'[c] = id[c] /\ rowId' = rowId /\ objects' = objects
  BY DEF Follow, IInv, TypeOK, serverVars, catalogVars, storeVars
<1>3. ClientTypesOf(c)'
  BY <1>2 DEF ClientTypesOf, IInv, TypeOK, Listing
<1>4. FollowsInv(c)'
  BY <1>2 DEF FollowsInv, IInv, ClientInv, Leads, Listing
<1> QED
  BY <1>1, <1>3, <1>4, Moved

LEMMA Step_Finish ==
  ASSUME IInv, Grows, NEW c \in Clients, Finish(c)
  PROVE  ClientTypes' /\ ClientInv'
<1>1. Moves(c)
  <2>1. provider' = [provider EXCEPT ![c] = provider[c]]
    BY DEF Finish, IInv, TypeOK
  <2> QED
    BY <2>1 DEF Finish, Moves
<1>2. /\ at'[c] = "idle" /\ provider'[c] = provider[c] /\ index'[c] = Service!Nothing
      /\ wanted'[c] = NULL /\ id'[c] = NULL /\ redirect'[c] = NULL
  BY DEF Finish, IInv, TypeOK
<1>3. ClientTypesOf(c)'
  BY <1>2, ListFacts DEF ClientTypesOf, IInv, TypeOK, Listing
<1>4. FollowsInv(c)'
  BY <1>2 DEF FollowsInv, Listing
<1> QED
  BY <1>1, <1>3, <1>4, Moved

\* What is left of every redirect shrinks together.
LEMMA Step_Tick ==
  ASSUME IInv, Grows, Tick
  PROVE  ClientTypes' /\ ClientInv'
<1>1. ASSUME NEW c \in Clients, at[c] # "redirected"
      PROVE  redirect'[c] = redirect[c]
  BY <1>1 DEF Tick
<1>2. ASSUME NEW c \in Clients, at[c] = "redirected"
      PROVE  redirect'[c] \in Redirects /\ TimeInv(redirect'[c]) /\ redirect'[c].key = redirect[c].key
  <2>1. /\ redirect[c] \in Redirects /\ TimeInv(redirect[c]) /\ redirect[c].patience > 0
        /\ redirect'[c] = [redirect[c] EXCEPT
             !.valid = IF @ = 0 THEN 0 ELSE @ - 1, !.patience = @ - 1]
    BY <1>2 DEF Tick, IInv, TypeOK, ClientInv, FollowsInv
  <2>2. redirect[c].valid \in 0..Expiry /\ redirect[c].patience \in 0..Transit
    BY <2>1 DEF Redirects
  <2>3. redirect[c].valid \in Nat \ {0} /\ redirect[c].patience \in Nat \ {0}
    BY <2>1, <2>2, TimeAssumption DEF TimeInv
  <2>4. redirect'[c] = [redirect[c] EXCEPT !.valid = redirect[c].valid - 1,
                                           !.patience = redirect[c].patience - 1]
    BY <2>1, <2>3
  <2>5. /\ redirect'[c].valid = redirect[c].valid - 1
        /\ redirect'[c].patience = redirect[c].patience - 1
        /\ redirect'[c].direct = redirect[c].direct /\ redirect'[c].key = redirect[c].key
    BY <2>1, <2>4 DEF Redirects
  <2>6. redirect[c].valid - 1 \in 0..Expiry /\ redirect[c].patience - 1 \in 0..Transit
    <3>1. ASSUME NEW n \in Nat, NEW m \in 0..n, m \in Nat \ {0} PROVE m - 1 \in 0..n
      BY <3>1
    <3> QED
      BY <2>2, <2>3, <3>1, TimeAssumption
  <2>7. redirect'[c] \in Redirects
    BY <2>1, <2>4, <2>6 DEF Redirects
  <2>8. TimeInv(redirect'[c])
    BY <2>1, <2>3, <2>5, TimeAssumption DEF TimeInv
  <2> QED
    BY <2>5, <2>7, <2>8
<1>3. UNCHANGED <<rowId, objects, at, provider, index, wanted, id>>
  BY DEF Tick, serverVars, catalogVars, storeVars
<1>4. ClientTypes'
  <2>1. redirect' \in [Clients -> Redirects \cup {NULL}]
    <3>1. \A c \in Clients : redirect'[c] \in Redirects \cup {NULL}
      BY <1>1, <1>2 DEF IInv, TypeOK
    <3>2. redirect' = [c \in Clients |-> redirect'[c]]
      BY DEF Tick
    <3> QED
      BY <3>1, <3>2
  <2>2. \A c \in Clients : at[c] \in {"redirected", "served"} => redirect'[c] \in Redirects
    BY <1>1, <1>2 DEF IInv, TypeOK
  <2> QED
    BY <1>3, <2>1, <2>2 DEF ClientTypes, IInv, TypeOK
<1>5. ASSUME NEW c \in Clients PROVE FollowsInv(c)'
  <2>1. CASE at[c] # "redirected"
    BY <1>1, <1>3, <2>1, OthersFollow
  <2>2. CASE at[c] = "redirected"
    <3>1. TimeInv(redirect'[c]) /\ redirect'[c].key = redirect[c].key
      BY <1>2, <2>2
    <3>2. FollowsInv(c)
      BY DEF IInv, ClientInv
    <3> QED
      BY <1>3, <2>2, <3>1, <3>2 DEF FollowsInv, TimeInv, Leads
  <2> QED
    BY <2>1, <2>2
<1> QED
  BY <1>4, <1>5 DEF ClientInv

LEMMA ClientsStep ==
  ASSUME IInv, [Next]_vars
  PROVE  ClientTypes' /\ ClientInv'
<1> USE StoresStep
<1>1. ASSUME NEW c \in Clients,
             IndexArrives(c) \/ \E p \in Providers : AskIndex(c, p) \/ IndexKept(c, p)
      PROVE  ClientTypes' /\ ClientInv'
  BY <1>1, Step_Index, Step_Ask
<1>2. ASSUME NEW c \in Clients, NEW v,
             NEW a \in Builds(provider[c], list_downloads(provider[c], v)), GetVersion(c, v, a)
      PROVE  ClientTypes' /\ ClientInv'
  BY <1>2, Step_GetVersion
<1>3. ASSUME NEW c \in Clients, RedirectKept(c) \/ \E k \in Keys : GetArtifact(c, k)
      PROVE  ClientTypes' /\ ClientInv'
  BY <1>3, Step_Artifact
<1>4. ASSUME NEW c \in Clients, Follow(c) \/ Finish(c)
      PROVE  ClientTypes' /\ ClientInv'
  BY <1>4, Step_Follow, Step_Finish
<1>5. CASE Tick
  BY <1>5, Step_Tick
<1>6. ASSUME \/ \E p \in Providers, listed \in SUBSET Tuples : Refresh(p, listed)
             \/ \E k \in Keys, i \in Ids, x \in Providers \X Tuples : Download(k, i, x)
             \/ \E k \in Keys : Publish(k)
             \/ \E c \in Clients, list \in Service!Lists : AnswerIndex(c, list)
             \/ \E c \in Clients : RefuseIndex(c) \/ RedirectKeeps(c)
             \/ UNCHANGED vars
      PROVE  UNCHANGED clientVars
  BY <1>6 DEF Refresh, Download, Publish, AnswerIndex, RefuseIndex, RedirectKeeps, vars, serverVars
<1> QED
  BY <1>1, <1>2, <1>3, <1>4, <1>5, <1>6, NobodyMoves DEF Next

LEMMA StepInv == IInv /\ [Next]_vars => IInv'
<1> SUFFICES ASSUME IInv, [Next]_vars PROVE IInv'
  OBVIOUS
<1>1. StoresOK' /\ AnswerTypes' /\ CacheTypes' /\ ClientTypes'
  BY StoresStep, AnswerTypesStep, CacheTypesStep, ClientsStep
<1>2. TypeOK'
  BY <1>1, CallsStep DEF StoresOK, CallsOK, AnswerTypes, CacheTypes, ClientTypes, TypeOK
<1>3. KeptInv'
  BY IndexesStep, RedirectsStep DEF KeptInv, IndexesKept, RedirectsKept, KeptOK
<1> QED
  BY <1>1, <1>2, <1>3, CallsStep, ClientsStep DEF StoresOK, CallsOK, IInv

LEMMA Inductive == Spec => []IInv
<1> QED
  BY InitInv, StepInv, PTL DEF Spec

\* Types, and: an artifact a client is shown is one that has a row.
THEOREM TypeCorrect == Spec => []TypeOK
<1>1. IInv => TypeOK
  BY DEF IInv
<1> QED
  BY <1>1, Inductive, PTL

LEMMA InvNeverStuck == IInv => NeverStuck
<1> SUFFICES ASSUME IInv, NEW c \in Clients
             PROVE  /\ at[c] = "indexed" =>
                         \A v \in index[c].packaged : list_downloads(provider[c], v) # {}
                    /\ at[c] = "listed" => RowOf(id[c]) # {}
                    /\ at[c] = "redirected" =>
                         redirect[c].valid > 0 /\ objects[redirect[c].key] # NULL
  BY DEF NeverStuck
<1>1. FollowsInv(c) /\ TypeOK
  BY DEF IInv, ClientInv
<1>2. at[c] = "indexed" => \A v \in index[c].packaged : list_downloads(provider[c], v) # {}
  BY <1>1 DEF FollowsInv, Backed, list_downloads, Stored
<1>3. at[c] = "listed" => RowOf(id[c]) # {}
  <2> SUFFICES ASSUME at[c] = "listed" PROVE <<provider[c], wanted[c]>> \in RowOf(id[c])
    OBVIOUS
  <2> QED
    BY <1>1 DEF FollowsInv, RowOf, TypeOK, Listing
<1>4. at[c] = "redirected" => redirect[c].valid > 0 /\ objects[redirect[c].key] # NULL
  BY <1>1, TimeAssumption DEF FollowsInv, TimeInv, Leads, TypeOK, Redirects
<1> QED
  BY <1>2, <1>3, <1>4

LEMMA InvOwnPackage == IInv => OwnPackage
<1> SUFFICES ASSUME IInv, NEW c \in Clients, at[c] = "served"
             PROVE  objects[redirect[c].key].row = <<provider[c], wanted[c]>>
  BY DEF OwnPackage
<1> DEFINE o == objects[redirect[c].key]  x == <<provider[c], wanted[c]>>
<1>1. /\ o # NULL /\ o.version = id[c] /\ redirect[c].key \in Keys
      /\ rowId[x[1]][x[2]] = id[c] /\ id[c] \in Ids /\ x \in Providers \X Tuples
  BY DEF IInv, TypeOK, ClientInv, FollowsInv, Leads, Listing, Redirects
<1>2. rowId[o.row[1]][o.row[2]] = o.version /\ o.row \in Providers \X Tuples
  BY <1>1 DEF IInv, TypeOK, ObjectsBacked, RowOfPackage, Packages, Rows
<1>3. rowId[x[1]][x[2]] # NULL
  BY <1>1, NullAssumption
<1> HIDE DEF o, x
<1>4. o.row = x
  BY <1>1, <1>2, <1>3 DEF IInv, Unique
<1> QED
  BY <1>4 DEF o, x

\* Nothing stored is taken back: a row keeps its id and a key its object for good.
THEOREM NothingTakenBack == Spec => [][Grows]_vars
<1>1. IInv /\ [Next]_vars => Grows
  BY StoresStep
<1> QED
  BY <1>1, Inductive, PTL DEF Spec

\* A client that follows an index is never led into a version without archives,
\* an artifact that is not found or a redirect that does not work any more,
\* however the caches on its way and the refreshers act.
THEOREM ClientsNeverStuck == Spec => []NeverStuck
<1> QED
  BY InvNeverStuck, Inductive, PTL

\* A client is served the package of the platform it asked for.
THEOREM ClientsGetTheirPackage == Spec => []OwnPackage
<1> QED
  BY InvOwnPackage, Inductive, PTL
==============================================================================
