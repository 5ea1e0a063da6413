--------------------------- MODULE CatalogStoreProofs ----------------------------
(***************************************************************************)
(* Proofs about CatalogStore, for any number of writers, providers, tuples *)
(* and row ids, and any responses.                                         *)
(*                                                                         *)
(* The argument rests on the row of terraform_provider: who inserts        *)
(* version rows of a provider holds it (LockInv), so that no two of them   *)
(* write rows of one provider.                                             *)
(***************************************************************************)
EXTENDS CatalogStore, TLAPS

Inside == {"insert", "commit"}

\* What the upsert is for.
LockInv == \A w \in Writers : phase[w] \in Inside => holder[target[w]] = w

\* A transaction writes rows that are missing from the catalogue, of its response.
WrittenInv ==
  \A w \in Writers, t \in Tuples : written[w][t] # NULL =>
    /\ phase[w] \in Inside
    /\ rowId[target[w]][t] = NULL
    /\ \E i \in DOMAIN response[w] : response[w][i] = t

\* Ids are drawn from the sequence.
DrawnInv ==
  /\ \A p \in Providers, t \in Tuples : rowId[p][t] # NULL => rowId[p][t] <= lastRowId
  /\ \A w \in Writers, t \in Tuples : written[w][t] # NULL => written[w][t] <= lastRowId

HasRow(w, t) == rowId[target[w]][t] # NULL \/ written[w][t] # NULL

\* The part of the response the insert has gone through.
Done(w) == Len(response[w]) - Len(rest[w])

\* What is left of a response is its end, and what is gone has rows.
ProgressInv ==
  \A w \in Writers : phase[w] # "idle" =>
    /\ response[w] \in Responses
    /\ Len(rest[w]) <= Len(response[w])
    /\ \A i \in 1..Len(rest[w]) : rest[w][i] = response[w][Done(w) + i]
    /\ phase[w] = "upsert" => Done(w) = 0
    /\ phase[w] = "commit" => rest[w] = <<>>
    /\ \A i \in 1..Done(w) : HasRow(w, response[w][i])

IInv == TypeOK /\ LockInv /\ WrittenInv /\ DrawnInv /\ RowIdsUnique /\ ProgressInv

-----------------------------------------------------------------------------
LEMMA InitInv == Init => IInv
<1> SUFFICES ASSUME Init PROVE IInv
  OBVIOUS
<1> USE DEF Init, NoRows, Ids
<1>1. TypeOK
  BY MaxRowIdAssumption DEF TypeOK
<1>2. LockInv /\ WrittenInv /\ DrawnInv /\ RowIdsUnique /\ ProgressInv
  BY DEF LockInv, WrittenInv, DrawnInv, RowIdsUnique, ProgressInv, Inside
<1> QED
  BY <1>1, <1>2 DEF IInv

\* What every step keeps of the other writers.
LEMMA TypeStep == TypeOK /\ [Next]_vars => TypeOK'
<1> SUFFICES ASSUME TypeOK, [Next]_vars PROVE TypeOK'
  OBVIOUS
<1> USE DEF TypeOK, Goto
<1>1. ASSUME NEW w \in Writers, NEW p \in Providers, NEW listed \in Responses, Begin(w, p, listed)
      PROVE  TypeOK'
  BY <1>1, ResponsesAssumption DEF Begin
<1>2. ASSUME NEW w \in Writers, UpsertProvider(w) PROVE TypeOK'
  BY <1>2 DEF UpsertProvider
<1>3. ASSUME NEW w \in Writers, InsertVersion(w) PROVE TypeOK'
  <2>1. lastRowId' \in 0..MaxRowId /\ lastRowId' \in Ids
    BY <1>3, MaxRowIdAssumption DEF InsertVersion, Ids
  <2>2. rest' \in [Writers -> Seq(Tuples)]
    <3>1. Tail(rest[w]) \in Seq(Tuples)
      BY <1>3 DEF InsertVersion
    <3> QED
      BY <1>3, <3>1 DEF InsertVersion
  <2>3. written' \in [Writers -> [Tuples -> Ids \cup {NULL}]]
    BY <1>3, <2>1 DEF InsertVersion
  <2> QED
    BY <1>3, <2>1, <2>2, <2>3 DEF InsertVersion
<1>4. ASSUME NEW w \in Writers, InsertEnds(w) PROVE TypeOK'
  BY <1>4 DEF InsertEnds
<1>5. ASSUME NEW w \in Writers, End(w)
      PROVE  /\ holder' \in [Providers -> Writers \cup {NULL}]
             /\ phase' \in [Writers -> {"idle", "upsert", "insert", "commit"}]
             /\ target' \in [Writers -> Providers]
             /\ response' \in [Writers -> Responses \cup {<<>>}]
             /\ rest' \in [Writers -> Seq(Tuples)]
             /\ written' \in [Writers -> [Tuples -> Ids \cup {NULL}]]
  BY <1>5 DEF End, NoRows
<1>6. ASSUME NEW w \in Writers, Commit(w) PROVE TypeOK'
  <2>1. End(w)
    BY <1>6 DEF Commit
  <2>2. known' \subseteq Providers
    BY <1>6 DEF Commit
  <2>3. rowId' \in [Providers -> [Tuples -> Ids \cup {NULL}]]
    BY <1>6 DEF Commit
  <2> QED
    BY <1>5, <1>6, <2>1, <2>2, <2>3 DEF Commit
<1>7. ASSUME NEW w \in Writers, Rollback(w) PROVE TypeOK'
  BY <1>5, <1>7 DEF Rollback
<1>8. CASE UNCHANGED vars
  BY <1>8 DEF vars, writerVars
<1> QED
  BY <1>1, <1>2, <1>3, <1>4, <1>6, <1>7, <1>8 DEF Next

\* The end of a transaction leaves those of the others their locks.
LEMMA EndKeepsLocks ==
  ASSUME TypeOK, LockInv, NEW w \in Writers, End(w)
  PROVE  LockInv'
<1> SUFFICES ASSUME NEW v \in Writers, phase'[v] \in Inside
             PROVE  holder'[target'[v]] = v
  BY DEF LockInv
<1>1. v # w /\ phase[v] \in Inside /\ target' = target
  BY DEF End, Goto, TypeOK, Inside
<1>2. holder[target[v]] = v /\ target[v] \in Providers
  BY <1>1 DEF LockInv, TypeOK
<1> QED
  BY <1>1, <1>2 DEF End, Held

LEMMA LockStep == TypeOK /\ LockInv /\ [Next]_vars => LockInv'
<1> SUFFICES ASSUME TypeOK, LockInv, [Next]_vars PROVE LockInv'
  OBVIOUS
<1> USE DEF LockInv, TypeOK, Goto, Inside
<1>1. ASSUME NEW w \in Writers, NEW p \in Providers, NEW listed \in Responses, Begin(w, p, listed)
      PROVE  LockInv'
  BY <1>1 DEF Begin
<1>2. ASSUME NEW w \in Writers, UpsertProvider(w) PROVE LockInv'
  BY <1>2, NullAssumption DEF UpsertProvider
<1>3. ASSUME NEW w \in Writers, InsertVersion(w) PROVE LockInv'
  BY <1>3 DEF InsertVersion
<1>4. ASSUME NEW w \in Writers, InsertEnds(w) PROVE LockInv'
  BY <1>4 DEF InsertEnds
<1>5. ASSUME NEW w \in Writers, Commit(w) \/ Rollback(w) PROVE LockInv'
  BY <1>5, EndKeepsLocks DEF Commit, Rollback
<1>6. CASE UNCHANGED vars
  BY <1>6 DEF vars, writerVars
<1> QED
  BY <1>1, <1>2, <1>3, <1>4, <1>5, <1>6 DEF Next

\* Two transactions with rows of one provider are one.
LEMMA OneInside ==
  ASSUME LockInv, NEW v \in Writers, NEW w \in Writers,
         phase[v] \in Inside, phase[w] \in Inside, target[v] = target[w]
  PROVE  v = w
BY DEF LockInv

LEMMA CommitsWritten ==
  ASSUME TypeOK, NEW w \in Writers, Commit(w)
  PROVE  /\ target[w] \in Providers
         /\ \A p \in Providers, t \in Tuples :
              rowId'[p][t] = IF p = target[w] /\ written[w][t] # NULL
                             THEN written[w][t] ELSE rowId[p][t]
         /\ \A v \in Writers, t \in Tuples :
              written'[v][t] = IF v = w THEN NULL ELSE written[v][t]
         /\ \A v \in Writers : phase'[v] = IF v = w THEN "idle" ELSE phase[v]
         /\ \A v \in Writers \ {w} : response'[v] = response[v] /\ rest'[v] = rest[v]
         /\ target' = target /\ lastRowId' = lastRowId
BY DEF Commit, End, Goto, NoRows, TypeOK

LEMMA RollsBack ==
  ASSUME TypeOK, NEW w \in Writers, Rollback(w)
  PROVE  /\ \A v \in Writers, t \in Tuples :
              written'[v][t] = IF v = w THEN NULL ELSE written[v][t]
         /\ \A v \in Writers : phase'[v] = IF v = w THEN "idle" ELSE phase[v]
         /\ \A v \in Writers \ {w} : response'[v] = response[v] /\ rest'[v] = rest[v]
         /\ target' = target /\ lastRowId' = lastRowId /\ rowId' = rowId
BY DEF Rollback, End, Goto, NoRows, TypeOK

\* An inserted row gets an id above all that were drawn before.
LEMMA Inserts ==
  ASSUME TypeOK, DrawnInv, NEW w \in Writers, InsertVersion(w)
  PROVE  /\ phase[w] = "insert" /\ rest[w] # <<>>
         /\ Head(rest[w]) \in Tuples
         /\ rowId' = rowId /\ lastRowId' = lastRowId + 1 /\ lastRowId \in Nat
         /\ lastRowId' # NULL
         /\ UNCHANGED <<phase, target, response, holder>>
         /\ \A v \in Writers : rest'[v] = IF v = w THEN Tail(rest[v]) ELSE rest[v]
         /\ \A v \in Writers, t \in Tuples :
              written'[v][t] =
                IF v = w /\ t = Head(rest[w]) /\ rowId[target[w]][t] = NULL /\ written[w][t] = NULL
                THEN lastRowId + 1 ELSE written[v][t]
<1>1. lastRowId \in Nat /\ lastRowId' = lastRowId + 1
  BY MaxRowIdAssumption DEF TypeOK, InsertVersion
<1>2. lastRowId' # NULL
  BY <1>1, NullAssumption
<1>3. Head(rest[w]) \in Tuples
  BY DEF TypeOK, InsertVersion
<1> QED
  BY <1>1, <1>2, <1>3 DEF InsertVersion, TypeOK

LEMMA WrittenStep ==
  TypeOK /\ LockInv /\ WrittenInv /\ DrawnInv /\ ProgressInv /\ [Next]_vars => WrittenInv'
<1> SUFFICES ASSUME TypeOK, LockInv, WrittenInv, DrawnInv, ProgressInv, [Next]_vars
             PROVE  WrittenInv'
  OBVIOUS
<1>1. ASSUME NEW w \in Writers, NEW p \in Providers, NEW listed \in Responses, Begin(w, p, listed)
      PROVE  WrittenInv'
  <2>1. \A t \in Tuples : written[w][t] = NULL
    BY <1>1 DEF WrittenInv, Begin, Inside
  <2> QED
    BY <1>1, <2>1 DEF WrittenInv, Begin, Goto, TypeOK
<1>2. ASSUME NEW w \in Writers, UpsertProvider(w) \/ InsertEnds(w) PROVE WrittenInv'
  <2>1. \A v \in Writers : phase[v] \in Inside => phase'[v] \in Inside
    BY <1>2 DEF UpsertProvider, InsertEnds, Goto, TypeOK, Inside
  <2>2. UNCHANGED <<rowId, target, response, written>>
    BY <1>2 DEF UpsertProvider, InsertEnds
  <2> QED
    BY <2>1, <2>2 DEF WrittenInv
<1>3. ASSUME NEW w \in Writers, InsertVersion(w) PROVE WrittenInv'
  <2> SUFFICES ASSUME NEW v \in Writers, NEW t \in Tuples, written'[v][t] # NULL
               PROVE  /\ phase[v] \in Inside
                      /\ rowId[target[v]][t] = NULL
                      /\ \E i \in DOMAIN response[v] : response[v][i] = t
    BY <1>3, Inserts DEF WrittenInv
  <2>1. CASE written[v][t] # NULL
    BY <2>1 DEF WrittenInv
  <2>2. CASE written[v][t] = NULL
    <3>1. v = w /\ t = Head(rest[w]) /\ rowId[target[w]][t] = NULL
      BY <1>3, <2>2, Inserts
    <3>2. phase[v] \in Inside
      BY <1>3, <3>1, Inserts DEF Inside
    <3>3. /\ rest[w] \in Seq(Tuples) /\ rest[w] # <<>>
          /\ response[w] \in Seq(Tuples)
          /\ Len(rest[w]) <= Len(response[w])
          /\ \A i \in 1..Len(rest[w]) : rest[w][i] = response[w][Done(w) + i]
      BY <1>3, Inserts, ResponsesAssumption DEF ProgressInv, TypeOK
    <3>4. Head(rest[w]) = response[w][Done(w) + 1] /\ Done(w) + 1 \in DOMAIN response[w]
      <4>1. Len(rest[w]) \in Nat \ {0} /\ Len(response[w]) \in Nat /\ Head(rest[w]) = rest[w][1]
        BY <3>3
      <4>2. DOMAIN response[w] = 1..Len(response[w])
        BY <3>3
      <4>3. Done(w) + 1 \in 1..Len(response[w]) /\ 1 \in 1..Len(rest[w])
        <5> DEFINE r == Len(rest[w])  l == Len(response[w])
        <5>1. r \in Nat \ {0} /\ l \in Nat /\ r <= l
          BY <3>3, <4>1
        <5> HIDE DEF r, l
        <5>2. l - r + 1 \in 1..l /\ 1 \in 1..r
          BY <5>1
        <5> QED
          BY <5>2 DEF Done, r, l
      <4> QED
        BY <3>3, <4>1, <4>2, <4>3
    <3> QED
      BY <3>1, <3>2, <3>4
  <2> QED
    BY <2>1, <2>2
<1>4. ASSUME NEW w \in Writers, Commit(w) PROVE WrittenInv'
  <2> SUFFICES ASSUME NEW v \in Writers, NEW t \in Tuples, written'[v][t] # NULL
               PROVE  /\ phase'[v] \in Inside
                      /\ rowId'[target'[v]][t] = NULL
                      /\ \E i \in DOMAIN response'[v] : response'[v][i] = t
    BY DEF WrittenInv
  <2>1. v # w /\ written[v][t] # NULL /\ phase'[v] = phase[v] /\ response'[v] = response[v]
    BY <1>4, CommitsWritten
  <2>2. target[v] # target[w]
    BY <1>4, <2>1, OneInside DEF WrittenInv, Commit, Inside
  <2>3. rowId'[target'[v]][t] = rowId[target[v]][t]
    BY <1>4, <2>2, CommitsWritten DEF TypeOK
  <2> QED
    BY <2>1, <2>3 DEF WrittenInv
<1>5. ASSUME NEW w \in Writers, Rollback(w) PROVE WrittenInv'
  BY <1>5, RollsBack DEF WrittenInv
<1>6. CASE UNCHANGED vars
  BY <1>6 DEF WrittenInv, vars, writerVars
<1> QED
  BY <1>1, <1>2, <1>3, <1>4, <1>5, <1>6 DEF Next

LEMMA DrawnStep == TypeOK /\ DrawnInv /\ [Next]_vars => DrawnInv'
<1> SUFFICES ASSUME TypeOK, DrawnInv, [Next]_vars PROVE DrawnInv'
  OBVIOUS
<1>1. ASSUME NEW w \in Writers,
             \/ \E p \in Providers, listed \in Responses : Begin(w, p, listed)
             \/ UpsertProvider(w) \/ InsertEnds(w)
      PROVE  DrawnInv'
  BY <1>1 DEF DrawnInv, Begin, UpsertProvider, InsertEnds
<1>2. ASSUME NEW w \in Writers, InsertVersion(w) PROVE DrawnInv'
  <2>1. \A i \in Ids : i <= lastRowId => i <= lastRowId + 1
    BY <1>2, Inserts DEF Ids
  <2>2. \A p \in Providers, t \in Tuples : rowId'[p][t] # NULL => rowId'[p][t] <= lastRowId'
    BY <1>2, <2>1, Inserts DEF DrawnInv, TypeOK
  <2>3. \A v \in Writers, t \in Tuples : written'[v][t] # NULL => written'[v][t] <= lastRowId'
    BY <1>2, <2>1, Inserts DEF DrawnInv, TypeOK
  <2> QED
    BY <2>2, <2>3 DEF DrawnInv
<1>3. ASSUME NEW w \in Writers, Commit(w) PROVE DrawnInv'
  BY <1>3, CommitsWritten DEF DrawnInv
<1>4. ASSUME NEW w \in Writers, Rollback(w) PROVE DrawnInv'
  BY <1>4, RollsBack DEF DrawnInv
<1>5. CASE UNCHANGED vars
  BY <1>5 DEF DrawnInv, vars, writerVars
<1> QED
  BY <1>1, <1>2, <1>3, <1>4, <1>5 DEF Next

LEMMA UniqueStep ==
  TypeOK /\ WrittenInv /\ DrawnInv /\ RowIdsUnique /\ [Next]_vars => RowIdsUnique'
<1> SUFFICES ASSUME TypeOK, WrittenInv, DrawnInv, RowIdsUnique, [Next]_vars PROVE RowIdsUnique'
  OBVIOUS
<1>1. ASSUME NEW w \in Writers,
             \/ \E p \in Providers, listed \in Responses : Begin(w, p, listed)
             \/ UpsertProvider(w) \/ InsertEnds(w)
      PROVE  RowIdsUnique'
  BY <1>1 DEF RowIdsUnique, Begin, UpsertProvider, InsertEnds
<1>2. ASSUME NEW w \in Writers, InsertVersion(w) PROVE RowIdsUnique'
  <2> DEFINE new == lastRowId + 1
  <2>1. /\ \A p \in Providers, t \in Tuples : rowId[p][t] # new
        /\ \A v \in Writers, t \in Tuples : written[v][t] # new
        /\ new # NULL
    <3>1. new # NULL /\ lastRowId \in Nat
      BY <1>2, Inserts
    <3>2. \A i \in Ids : i <= lastRowId => i # new
      BY <3>1 DEF Ids
    <3> QED
      BY <3>1, <3>2 DEF DrawnInv, TypeOK
  <2>2. \A v \in Writers, t \in Tuples :
          \/ written'[v][t] = written[v][t]
          \/ v = w /\ t = Head(rest[w]) /\ written'[v][t] = new
    BY <1>2, Inserts
  <2>3. rowId' = rowId
    BY <1>2, Inserts
  <2> HIDE DEF new
  <2>4. \A v, x \in Writers, t, u \in Tuples :
          written'[v][t] # NULL /\ written'[v][t] = written'[x][u] => v = x /\ t = u
    BY <2>1, <2>2 DEF RowIdsUnique
  <2>5. \A p \in Providers, v \in Writers, t, u \in Tuples :
          rowId'[p][t] # NULL => rowId'[p][t] # written'[v][u]
    BY <2>1, <2>2, <2>3 DEF RowIdsUnique
  <2> QED
    BY <2>3, <2>4, <2>5 DEF RowIdsUnique
<1>3. ASSUME NEW w \in Writers, Commit(w) PROVE RowIdsUnique'
  <2>1. \A p \in Providers, t \in Tuples :
          \/ rowId'[p][t] = rowId[p][t]
          \/ p = target[w] /\ rowId'[p][t] = written[w][t] /\ written[w][t] # NULL
    BY <1>3, CommitsWritten
  <2>2. \A v \in Writers, t \in Tuples :
          written'[v][t] = NULL \/ (v # w /\ written'[v][t] = written[v][t])
    BY <1>3, CommitsWritten
  <2>3. \A p, q \in Providers, t, u \in Tuples :
          rowId'[p][t] # NULL /\ rowId'[p][t] = rowId'[q][u] => p = q /\ t = u
    BY <2>1 DEF RowIdsUnique
  <2>4. \A v, x \in Writers, t, u \in Tuples :
          written'[v][t] # NULL /\ written'[v][t] = written'[x][u] => v = x /\ t = u
    BY <2>2 DEF RowIdsUnique
  <2>5. \A p \in Providers, v \in Writers, t, u \in Tuples :
          rowId'[p][t] # NULL => rowId'[p][t] # written'[v][u]
    BY <2>1, <2>2 DEF RowIdsUnique
  <2> QED
    BY <2>3, <2>4, <2>5 DEF RowIdsUnique
<1>4. ASSUME NEW w \in Writers, Rollback(w) PROVE RowIdsUnique'
  BY <1>4, RollsBack DEF RowIdsUnique
<1>5. CASE UNCHANGED vars
  BY <1>5 DEF RowIdsUnique, vars, writerVars
<1> QED
  BY <1>1, <1>2, <1>3, <1>4, <1>5 DEF Next

\* ProgressInv is kept for a writer whose own step this is not.
LEMMA OthersProgress ==
  ASSUME TypeOK, TypeOK', ProgressInv, NEW w \in Writers, phase[w] # "idle",
         phase'[w] = phase[w], response'[w] = response[w], rest'[w] = rest[w],
         \A t \in Tuples : HasRow(w, t) => HasRow(w, t)'
  PROVE  /\ response'[w] \in Responses
         /\ Len(rest'[w]) <= Len(response'[w])
         /\ \A i \in 1..Len(rest'[w]) : rest'[w][i] = response'[w][Done(w)' + i]
         /\ phase'[w] = "upsert" => Done(w)' = 0
         /\ phase'[w] = "commit" => rest'[w] = <<>>
         /\ \A i \in 1..Done(w)' : HasRow(w, response[w][i])'
<1>1. Done(w)' = Done(w)
  BY DEF Done
<1>2. \A i \in 1..Done(w) : response[w][i] \in Tuples
  <2>1. response[w] \in Seq(Tuples) /\ Len(rest[w]) \in Nat
    BY ResponsesAssumption DEF ProgressInv, TypeOK
  <2> DEFINE r == Len(rest[w])  l == Len(response[w])
  <2>2. r \in Nat /\ l \in Nat
    BY <2>1
  <2> HIDE DEF r, l
  <2>3. \A i \in 1..(l - r) : i \in 1..l
    BY <2>2
  <2>4. \A i \in 1..l : response[w][i] \in Tuples
    BY <2>1 DEF l
  <2> QED
    BY <2>3, <2>4 DEF Done, r, l
<1>3. \A i \in 1..Done(w) : HasRow(w, response[w][i])
  BY DEF ProgressInv
<1>4. \A i \in 1..Done(w)' : HasRow(w, response[w][i])'
  BY <1>1, <1>2, <1>3
<1> QED
  BY <1>1, <1>4 DEF ProgressInv

LEMMA KeepsRows ==
  ASSUME TypeOK, DrawnInv, NEW w \in Writers, InsertVersion(w)
  PROVE  \A v \in Writers, t \in Tuples : HasRow(v, t) => HasRow(v, t)'
BY Inserts DEF HasRow

LEMMA InsertProgress ==
  ASSUME TypeOK, TypeOK', DrawnInv, ProgressInv, NEW w \in Writers, InsertVersion(w)
  PROVE  ProgressInv'
<1>0. PICK r \in Seq(Tuples), l \in Seq(Tuples) : r = rest[w] /\ l = response[w]
  BY Inserts, ResponsesAssumption DEF ProgressInv, TypeOK
<1>1. /\ r \in Seq(Tuples) /\ r # <<>> /\ l \in Seq(Tuples) /\ l \in Responses
      /\ Len(r) <= Len(l) /\ phase[w] = "insert"
      /\ \A i \in 1..Len(r) : r[i] = l[Len(l) - Len(r) + i]
      /\ \A i \in 1..(Len(l) - Len(r)) : HasRow(w, l[i])
  BY <1>0, Inserts DEF ProgressInv, Done
<1>2. /\ rest'[w] = Tail(r) /\ response'[w] = l /\ phase'[w] = "insert"
  BY <1>0, Inserts
<1>3. HasRow(w, Head(r))'
  BY <1>0, Inserts DEF HasRow
<1>4. \A t \in Tuples : HasRow(w, t) => HasRow(w, t)'
  BY KeepsRows
<1>5. Len(Tail(r)) = Len(r) - 1 /\ Len(r) \in Nat \ {0} /\ Len(l) \in Nat
  BY <1>1
<1>6. \A i \in 1..Len(Tail(r)) : Tail(r)[i] = l[Len(l) - Len(Tail(r)) + i]
  <2> SUFFICES ASSUME NEW i \in 1..Len(Tail(r))
               PROVE  Tail(r)[i] = l[Len(l) - Len(Tail(r)) + i]
    OBVIOUS
  <2>1. Tail(r)[i] = r[i + 1] /\ i + 1 \in 1..Len(r)
    BY <1>1, <1>5
  <2>2. r[i + 1] = l[Len(l) - Len(r) + (i + 1)]
    BY <1>1, <2>1
  <2>3. Len(l) - Len(r) + (i + 1) = Len(l) - Len(Tail(r)) + i
    BY <1>5
  <2> QED
    BY <2>1, <2>2, <2>3
<1>7. \A i \in 1..(Len(l) - Len(Tail(r))) : HasRow(w, l[i])'
  <2> SUFFICES ASSUME NEW i \in 1..(Len(l) - Len(Tail(r)))
               PROVE  HasRow(w, l[i])'
    OBVIOUS
  <2>1. CASE i \in 1..(Len(l) - Len(r))
    <3>1. i \in 1..Len(l)
      BY <1>5, <2>1
    <3>2. l[i] \in Tuples
      BY <1>1, <3>1
    <3>3. HasRow(w, l[i])
      BY <1>1, <2>1
    <3> QED
      BY <1>4, <3>2, <3>3
  <2>2. CASE i = Len(l) - Len(r) + 1
    <3>1. 1 \in 1..Len(r)
      BY <1>5
    <3>2. l[i] = Head(r)
      BY <1>1, <2>2, <3>1
    <3> QED
      BY <1>3, <3>2
  <2> QED
    BY <1>5, <2>1, <2>2
<1>8. ASSUME NEW v \in Writers, v # w, phase'[v] # "idle"
      PROVE  /\ response'[v] \in Responses
             /\ Len(rest'[v]) <= Len(response'[v])
             /\ \A i \in 1..Len(rest'[v]) : rest'[v][i] = response'[v][Done(v)' + i]
             /\ phase'[v] = "upsert" => Done(v)' = 0
             /\ phase'[v] = "commit" => rest'[v] = <<>>
             /\ \A i \in 1..Done(v)' : HasRow(v, response[v][i])'
  <2>1. phase'[v] = phase[v] /\ response'[v] = response[v] /\ rest'[v] = rest[v]
    BY <1>8, Inserts
  <2> QED
    BY <1>8, <2>1, KeepsRows, OthersProgress
<1>9. Done(w)' = Len(l) - Len(Tail(r))
  BY <1>2 DEF Done
<1>10. Len(Tail(r)) <= Len(l)
  BY <1>1, <1>5
<1>11. /\ response'[w] \in Responses
       /\ Len(rest'[w]) <= Len(response'[w])
       /\ \A i \in 1..Len(rest'[w]) : rest'[w][i] = response'[w][Done(w)' + i]
       /\ \A i \in 1..Done(w)' : HasRow(w, response[w][i])'
  <2>1. \A i \in 1..Done(w)' : HasRow(w, response[w][i])'
    BY <1>2, <1>7, <1>9 DEF HasRow
  <2> QED
    BY <1>1, <1>2, <1>6, <1>9, <1>10, <2>1
<1>12. phase'[w] \notin {"upsert", "commit"}
  BY <1>2
<1> QED
  BY <1>8, <1>11, <1>12 DEF ProgressInv

LEMMA ProgressStep ==
  TypeOK /\ TypeOK' /\ DrawnInv /\ ProgressInv /\ [Next]_vars => ProgressInv'
<1> SUFFICES ASSUME TypeOK, TypeOK', DrawnInv, ProgressInv, [Next]_vars PROVE ProgressInv'
  OBVIOUS
<1>1. ASSUME NEW w \in Writers, NEW p \in Providers, NEW listed \in Responses, Begin(w, p, listed)
      PROVE  ProgressInv'
  <2>1. /\ phase'[w] = "upsert" /\ response'[w] = listed /\ rest'[w] = listed
        /\ Len(listed) \in Nat
    BY <1>1, ResponsesAssumption DEF Begin, Goto, TypeOK
  <2>2. Done(w)' = 0
    BY <2>1 DEF Done
  <2>3. ASSUME NEW v \in Writers, v # w
        PROVE  /\ phase'[v] = phase[v] /\ response'[v] = response[v] /\ rest'[v] = rest[v]
               /\ \A t \in Tuples : HasRow(v, t)' = HasRow(v, t)
    BY <1>1, <2>3 DEF Begin, Goto, TypeOK, HasRow
  <2>4. /\ \A i \in 1..Len(rest'[w]) : rest'[w][i] = response'[w][Done(w)' + i]
        /\ \A i \in 1..Done(w)' : HasRow(w, response[w][i])'
        /\ Len(rest'[w]) <= Len(response'[w])
    BY <2>1, <2>2
  <2> QED
    BY <2>1, <2>2, <2>3, <2>4, OthersProgress DEF ProgressInv
<1>2. ASSUME NEW w \in Writers, UpsertProvider(w) \/ InsertEnds(w) PROVE ProgressInv'
  <2>1. UNCHANGED <<rowId, target, response, rest, written>>
    BY <1>2 DEF UpsertProvider, InsertEnds
  <2>2. \A v \in Writers : Done(v)' = Done(v) /\ \A i \in 1..Done(v) : HasRow(v, response[v][i])' = HasRow(v, response[v][i])
    BY <2>1 DEF Done, HasRow
  <2>3. \A v \in Writers : /\ phase'[v] # "idle" => phase[v] # "idle"
                           /\ phase'[v] = "upsert" => phase[v] = "upsert"
                           /\ phase'[v] = "commit" => phase[v] = "commit" \/ rest[v] = <<>>
    BY <1>2 DEF UpsertProvider, InsertEnds, Goto, TypeOK
  <2> QED
    BY <2>1, <2>2, <2>3 DEF ProgressInv
<1>3. ASSUME NEW w \in Writers, InsertVersion(w) PROVE ProgressInv'
  BY <1>3, InsertProgress
<1>4. ASSUME NEW w \in Writers, Commit(w) PROVE ProgressInv'
  <2>1. ASSUME NEW v \in Writers, phase'[v] # "idle"
        PROVE  /\ phase'[v] = phase[v] /\ response'[v] = response[v] /\ rest'[v] = rest[v]
               /\ \A t \in Tuples : HasRow(v, t) => HasRow(v, t)'
    <3>1. v # w /\ phase[v] # "idle"
      BY <1>4, <2>1, CommitsWritten
    <3>2. target'[v] = target[v] /\ target[v] \in Providers
      BY <1>4, CommitsWritten DEF TypeOK
    <3>3. \A t \in Tuples : /\ rowId[target[v]][t] # NULL => rowId'[target[v]][t] # NULL
                            /\ written'[v][t] = written[v][t]
      BY <1>4, <3>1, <3>2, CommitsWritten
    <3>4. \A t \in Tuples : HasRow(v, t) => HasRow(v, t)'
      BY <3>2, <3>3 DEF HasRow
    <3> QED
      BY <1>4, <3>1, <3>4, CommitsWritten
  <2> QED
    BY <2>1, OthersProgress DEF ProgressInv
<1>5. ASSUME NEW w \in Writers, Rollback(w) PROVE ProgressInv'
  <2>1. ASSUME NEW v \in Writers, phase'[v] # "idle"
        PROVE  /\ phase'[v] = phase[v] /\ response'[v] = response[v] /\ rest'[v] = rest[v]
               /\ \A t \in Tuples : HasRow(v, t) => HasRow(v, t)'
    <3>1. v # w /\ phase[v] # "idle"
      BY <1>5, <2>1, RollsBack
    <3> QED
      BY <1>5, <3>1, RollsBack DEF HasRow
  <2> QED
    BY <2>1, OthersProgress DEF ProgressInv
<1>6. CASE UNCHANGED vars
  BY <1>6 DEF ProgressInv, Done, HasRow, vars, writerVars
<1> QED
  BY <1>1, <1>2, <1>3, <1>4, <1>5, <1>6 DEF Next

LEMMA Inductive == Spec => []IInv
<1>1. Init => IInv
  BY InitInv
<1>2. IInv /\ [Next]_vars => IInv'
  BY TypeStep, LockStep, WrittenStep, DrawnStep, UniqueStep, ProgressStep DEF IInv
<1> QED
  BY <1>1, <1>2, PTL DEF Spec

-----------------------------------------------------------------------------
\* The row of the provider admits one writer of its version rows at a time.
LEMMA InvRowIds == IInv => RowIdsUnique
BY DEF IInv

LEMMA InvInserts == IInv => InsertsNeverWait
<1> SUFFICES ASSUME IInv, NEW w \in Writers, phase[w] = "insert", NEW t \in Tuples,
                    NEW v \in Writers \ {w}, target[v] = target[w], written[v][t] # NULL
             PROVE  FALSE
  BY DEF InsertsNeverWait, Uncommitted
<1> QED
  BY OneInside DEF IInv, WrittenInv, Inside

LEMMA InvCommit == IInv => CommitStoresAll
<1> SUFFICES ASSUME IInv, NEW w \in Writers, phase[w] = "commit", NEW i \in DOMAIN response[w]
             PROVE  HasRow(w, response[w][i])
  BY DEF CommitStoresAll, HasRow
<1>1. /\ rest[w] = <<>> /\ response[w] \in Seq(Tuples)
      /\ \A j \in 1..Done(w) : HasRow(w, response[w][j])
  BY ResponsesAssumption DEF IInv, ProgressInv, TypeOK
<1>2. Done(w) = Len(response[w]) /\ DOMAIN response[w] = 1..Len(response[w])
  BY <1>1 DEF Done
<1> QED
  BY <1>1, <1>2

\* Types: the ids handed out never leave the sequence's range.
THEOREM TypeCorrect == Spec => []TypeOK
<1>1. IInv => TypeOK
  BY DEF IInv
<1> QED
  BY <1>1, Inductive, PTL

\* index.rs:281-285: no two rows, committed or about to be, have one id.
THEOREM IdsUnique == Spec => []RowIdsUnique
<1> QED
  BY InvRowIds, Inductive, PTL

\* Transactions for one provider never wait for each other's version rows.
THEOREM NoDeadlock == Spec => []InsertsNeverWait
<1> QED
  BY InvInserts, Inductive, PTL

\* At its commit a transaction has a row for every tuple of its response.
THEOREM StoresAll == Spec => []CommitStoresAll
<1> QED
  BY InvCommit, Inductive, PTL

-----------------------------------------------------------------------------
\* A commit is the abstract merge of the response, the inserted ids its choice.
LEMMA CommitMerges ==
  ASSUME IInv, NEW w \in Writers, Commit(w)
  PROVE  Abstract!Next
<1> DEFINE p      == target[w]
           listed == {response[w][i] : i \in DOMAIN response[w]}
           new    == {t \in listed : rowId[p][t] = NULL}
           free   == Ids \ {Abstract!Id(x) : x \in Abstract!Rows}
           ids    == [t \in new |-> written[w][t]]
<1>1. p \in Providers /\ response[w] \in Responses /\ phase[w] = "commit"
  BY DEF IInv, TypeOK, ProgressInv, Commit
<1>2. listed \subseteq Tuples
  BY <1>1, ResponsesAssumption
<1>3. \A t \in new : written[w][t] # NULL
  BY <1>1, InvCommit DEF CommitStoresAll
<1>4. ids \in [new -> free]
  <2> SUFFICES ASSUME NEW t \in new PROVE written[w][t] \in free
    OBVIOUS
  <2>1. written[w][t] \in Ids
    BY <1>2, <1>3 DEF IInv, TypeOK
  <2>2. \A x \in Abstract!Rows : Abstract!Id(x) # written[w][t]
    BY <1>2 DEF Abstract!Rows, Abstract!Id, IInv, RowIdsUnique
  <2> QED
    BY <2>1, <2>2
<1>5. \A t, u \in new : ids[t] = ids[u] => t = u
  BY <1>2, <1>3 DEF IInv, RowIdsUnique
<1>6. \A t \in Tuples : t \in new <=> written[w][t] # NULL
  BY <1>3 DEF IInv, WrittenInv
<1>7. rowId' = [rowId EXCEPT ![p] = [t \in Tuples |-> IF t \in new THEN ids[t] ELSE @[t]]]
  BY <1>6 DEF Commit
<1>8. known' = known \cup {p}
  BY DEF Commit
<1> HIDE DEF ids
<1>9. Abstract!Merge(p, listed)
  BY <1>4, <1>5, <1>7, <1>8 DEF Abstract!Merge
<1>10. listed \in {{l[i] : i \in DOMAIN l} : l \in Responses}
  BY <1>1
<1> QED
  BY <1>1, <1>9, <1>10 DEF Abstract!Next

\* Whatever writers do at once, responses become visible whole, one at a time,
\* and rows keep their ids: store_provider_versions implements Catalog.
THEOREM Implements == Spec => ImplementsCatalog
<1>1. Init => Abstract!Init
  BY DEF Init, Abstract!Init, NoRows
<1>2. IInv /\ [Next]_vars => [Abstract!Next]_(Abstract!catalogVars)
  <2> SUFFICES ASSUME IInv, [Next]_vars PROVE Abstract!Next \/ UNCHANGED <<known, rowId>>
    BY DEF Abstract!catalogVars
  <2>1. ASSUME NEW w \in Writers, Commit(w) PROVE Abstract!Next
    BY <2>1, CommitMerges
  <2>2. ASSUME NEW w \in Writers, NEW p \in Providers, NEW listed \in Responses, Begin(w, p, listed)
        PROVE  UNCHANGED <<known, rowId>>
    BY <2>2 DEF Begin
  <2>3. ASSUME NEW w \in Writers,
               UpsertProvider(w) \/ InsertVersion(w) \/ InsertEnds(w) \/ Rollback(w)
        PROVE  UNCHANGED <<known, rowId>>
    BY <2>3 DEF UpsertProvider, InsertVersion, InsertEnds, Rollback
  <2> QED
    BY <2>1, <2>2, <2>3 DEF Next, vars
<1> QED
  BY <1>1, <1>2, Inductive, PTL DEF Spec, ImplementsCatalog, Abstract!Spec

-----------------------------------------------------------------------------
(***************************************************************************)
(* What StoreEnds rests on, besides the fairness: nobody waits for a       *)
(* writer that waits, and a store is over in a number of steps that its    *)
(* response bounds.                                                        *)
(***************************************************************************)

\* Who holds a provider's row has come past the upsert, for that provider.
HolderInv ==
  \A p \in Providers : holder[p] # NULL =>
    phase[holder[p]] \in Inside /\ target[holder[p]] = p

LEMMA HolderStep == TypeOK /\ LockInv /\ HolderInv /\ [Next]_vars => HolderInv'
<1> SUFFICES ASSUME TypeOK, LockInv, HolderInv, [Next]_vars PROVE HolderInv'
  OBVIOUS
<1> USE DEF TypeOK, HolderInv, Inside
<1>1. ASSUME NEW w \in Writers, NEW p \in Providers, NEW listed \in Responses, Begin(w, p, listed)
      PROVE  HolderInv'
  BY <1>1 DEF Begin, Goto
<1>2. ASSUME NEW w \in Writers, UpsertProvider(w) PROVE HolderInv'
  BY <1>2 DEF UpsertProvider, Goto
<1>3. ASSUME NEW w \in Writers, InsertVersion(w) \/ InsertEnds(w) PROVE HolderInv'
  <2>1. /\ UNCHANGED <<holder, target>>
        /\ \A v \in Writers : phase[v] \in Inside => phase'[v] \in Inside
    BY <1>3 DEF InsertVersion, InsertEnds, Goto
  <2> QED
    BY <2>1
<1>4. ASSUME NEW w \in Writers, Commit(w) \/ Rollback(w) PROVE HolderInv'
  <2>1. End(w)
    BY <1>4 DEF Commit, Rollback
  <2> QED
    BY <2>1 DEF End, Goto, Held
<1>5. CASE UNCHANGED vars
  BY <1>5 DEF vars, writerVars
<1> QED
  BY <1>1, <1>2, <1>3, <1>4, <1>5 DEF Next

\* The one statement of a transaction that may have to wait, besides the upsert.
Waits(w) == phase[w] = "insert" /\ rest[w] # <<>> /\ Head(rest[w]) \in Uncommitted(w, target[w])

WaitsAreShort ==
  \A w \in Writers : phase[w] = "upsert" /\ holder[target[w]] # NULL =>
    phase[holder[target[w]]] \in Inside /\ ~Waits(holder[target[w]])

\* Where a provider's row is waited for, its holder is a transaction that waits
\* for nothing itself: there are no chains of waiting writers, and no cycles.
THEOREM NobodyWaitsForAWaiter == Spec => []WaitsAreShort
<1>1. Init => HolderInv
  BY DEF Init, HolderInv
<1>2. IInv /\ HolderInv /\ [Next]_vars => HolderInv'
  BY HolderStep DEF IInv
<1>3. Spec => []HolderInv
  BY <1>1, <1>2, Inductive, PTL DEF Spec
<1>4. IInv /\ HolderInv => WaitsAreShort
  <2> SUFFICES ASSUME IInv, HolderInv, NEW w \in Writers, holder[target[w]] # NULL
               PROVE  phase[holder[target[w]]] \in Inside /\ ~Waits(holder[target[w]])
    BY DEF WaitsAreShort
  <2> DEFINE v == holder[target[w]]
  <2>1. v \in Writers /\ phase[v] \in Inside
    BY DEF IInv, TypeOK, HolderInv
  <2>2. rest[v] # <<>> => Head(rest[v]) \in Tuples
    BY <2>1 DEF IInv, TypeOK
  <2> QED
    BY <2>1, <2>2, InvInserts DEF InsertsNeverWait, Waits
<1> QED
  BY <1>3, <1>4, Inductive, PTL

\* The steps a store has yet to take, if it takes all: the upsert, one for each
\* row, the end of the statement, and the commit.
StepsLeft(w) ==
  CASE phase[w] = "upsert" -> Len(rest[w]) + 3
    [] phase[w] = "insert" -> Len(rest[w]) + 2
    [] phase[w] = "commit" -> 1
    [] phase[w] = "idle"   -> 0

CountsDown ==
  \A w \in Writers : phase[w] # "idle" =>
    StepsLeft(w)' < StepsLeft(w) \/ UNCHANGED <<phase[w], rest[w]>>

\* Whatever the other writers do, no step of a store is taken twice: each brings
\* it closer to its end, from which it is as far as its response is long.
THEOREM EveryStepCounts == Spec => [][CountsDown]_vars
<1>1. ASSUME TypeOK, Next PROVE CountsDown
  <2>1. PICK w \in Writers :
          \/ \E p \in Providers, listed \in Responses : Begin(w, p, listed)
          \/ UpsertProvider(w) \/ InsertVersion(w) \/ InsertEnds(w)
          \/ Commit(w) \/ Rollback(w)
    BY <1>1 DEF Next
  <2>2. ASSUME NEW v \in Writers, v # w PROVE UNCHANGED <<phase[v], rest[v]>>
    BY <1>1, <2>1, <2>2 DEF TypeOK, Begin, UpsertProvider, InsertVersion, InsertEnds, Commit,
         Rollback, End, Goto
  <2>3. Len(rest[w]) \in Nat /\ rest[w] \in Seq(Tuples)
    BY <1>1 DEF TypeOK
  <2>4. phase[w] # "idle" => StepsLeft(w)' < StepsLeft(w)
    <3>1. CASE \E p \in Providers, listed \in Responses : Begin(w, p, listed)
      BY <3>1 DEF Begin
    <3>2. CASE UpsertProvider(w)
      BY <1>1, <2>3, <3>2 DEF TypeOK, UpsertProvider, Goto, StepsLeft
    <3>3. CASE InsertVersion(w)
      <4>1. /\ rest'[w] = Tail(rest[w]) /\ phase'[w] = "insert" /\ phase[w] = "insert"
            /\ rest[w] # <<>>
        BY <1>1, <3>3 DEF TypeOK, InsertVersion
      <4>2. Len(Tail(rest[w])) = Len(rest[w]) - 1
        BY <2>3, <4>1
      <4> QED
        BY <2>3, <4>1, <4>2 DEF StepsLeft
    <3>4. CASE InsertEnds(w)
      BY <1>1, <2>3, <3>4 DEF TypeOK, InsertEnds, Goto, StepsLeft
    <3>5. CASE Commit(w) \/ Rollback(w)
      <4>1. phase'[w] = "idle"
        BY <1>1, <3>5 DEF TypeOK, Commit, Rollback, End, Goto
      <4>2. phase[w] # "idle" => StepsLeft(w) > 0
        BY <1>1, <2>3 DEF TypeOK, StepsLeft
      <4> QED
        BY <4>1, <4>2 DEF StepsLeft
    <3> QED
      BY <2>1, <3>1, <3>2, <3>3, <3>4, <3>5
  <2> QED
    BY <2>2, <2>4 DEF CountsDown
<1>2. TypeOK /\ [Next]_vars => [CountsDown]_vars
  BY <1>1
<1> QED
  BY <1>2, TypeCorrect, PTL DEF Spec
==============================================================================
