-------------------------- MODULE StashUploadProofs --------------------------
(***************************************************************************)
(* Theorems about StashUpload, for packages, chunks and parts of any size: *)
(* what is completed is the body, its completion is accepted, and the      *)
(* buffer stays small.                                                     *)
(***************************************************************************)
EXTENDS StashUpload, TLAPS

\* The initial state satisfies the inductive invariant.
LEMMA InitIInv == Init => IInv
  BY SizesAssumption, MinimumAssumption, MaxPartsAssumption
  DEF Init, IInv, TypeOK, PartsInOrder, PartsLarge, Phasing, BufferBounded, Buffered, ObjectIsBody

\* A chunk is added to the buffer, and the buffer is uploaded once it holds
\* the minimum.
LEMMA ChunkIInv ==
  ASSUME IInv, NEW n \in 0..MaxChunk, Chunk(n)
  PROVE  IInv'
<1> USE SizesAssumption, MinimumAssumption, MaxPartsAssumption DEF Chunk, bufferVars
<1>1. TypeOK'
  BY DEF IInv, TypeOK
<1>2. PartsInOrder' /\ PartsLarge'
  BY DEF IInv, PartsInOrder, PartsLarge, Length
<1>3. Phasing' /\ BufferBounded'
  BY DEF IInv, TypeOK, Phasing, BufferBounded, Buffered
<1>4. ObjectIsBody'
  BY DEF IInv, ObjectIsBody, Covers
<1> QED
  BY <1>1, <1>2, <1>3, <1>4 DEF IInv

\* The part that upload_part adds is the next one, and begins where the last
\* one ended.
LEMMA PartAppended ==
  ASSUME IInv, pc \in {"upload", "tail"}, upload_part,
         upload_parts' = Append(upload_parts, part_number), start' = received
  PROVE  /\ upload_parts' \in Seq(1..MaxParts)
         /\ Len(upload_parts') = part_number
         /\ part_number = Len(upload_parts) + 1
         /\ part_number \in 1..MaxParts
         /\ stored' \in [1..MaxParts -> Ranges \cup {NULL}]
         /\ stored'[part_number] = [from |-> start, to |-> received]
         /\ \A i \in 1..Len(upload_parts) : upload_parts'[i] = i /\ stored'[i] = stored[i]
         /\ \A i \in 1..Len(upload_parts') : upload_parts'[i] = i /\ stored'[i] # NULL
         /\ stored'[1].from = 0
         /\ \A i \in 1..(Len(upload_parts') - 1) : stored'[i].to = stored'[i + 1].from
         /\ start' = stored'[Len(upload_parts')].to
<1> USE SizesAssumption, MaxPartsAssumption DEF upload_part
<1> DEFINE n == Len(upload_parts)
<1>1. /\ n \in Nat
      /\ part_number = n + 1
      /\ part_number \in 1..MaxParts
  BY DEF IInv, TypeOK, PartsLarge
<1>2. /\ upload_parts' \in Seq(1..MaxParts)
      /\ Len(upload_parts') = n + 1
      /\ \A i \in 1..n : upload_parts'[i] = upload_parts[i]
      /\ upload_parts'[n + 1] = part_number
  BY <1>1 DEF IInv, TypeOK
<1>3. [from |-> start, to |-> received] \in Ranges
  BY DEF IInv, TypeOK, Ranges
<1>4. /\ stored' \in [1..MaxParts -> Ranges \cup {NULL}]
      /\ stored'[part_number] = [from |-> start, to |-> received]
      /\ \A i \in 1..n : stored'[i] = stored[i]
  BY <1>1, <1>3 DEF IInv, TypeOK
<1>5. \A i \in 1..n : upload_parts[i] = i /\ stored[i] # NULL
  BY DEF IInv, PartsInOrder
<1>6. \A i \in 1..(n + 1) : upload_parts'[i] = i /\ stored'[i] # NULL
  BY <1>1, <1>2, <1>3, <1>4, <1>5, NullAssumption
<1>7. stored'[1].from = 0
  <2>1. CASE n = 0
    BY <2>1, <1>1, <1>4 DEF IInv, PartsInOrder
  <2>2. CASE n > 0
    BY <2>2, <1>1, <1>4 DEF IInv, PartsInOrder
  <2> QED
    BY <2>1, <2>2, <1>1
<1>8. \A i \in 1..n : stored'[i].to = stored'[i + 1].from
  <2> SUFFICES ASSUME NEW i \in 1..n PROVE stored'[i].to = stored'[i + 1].from
    OBVIOUS
  <2>1. CASE i < n
    BY <2>1, <1>1, <1>4 DEF IInv, PartsInOrder
  <2>2. CASE i = n
    BY <2>2, <1>1, <1>4 DEF IInv, PartsInOrder
  <2> QED
    BY <2>1, <2>2, <1>1
<1> QED
  BY <1>1, <1>2, <1>4, <1>5, <1>6, <1>7, <1>8

\* A part uploaded from within the stream holds the minimum, and empties the
\* buffer.
LEMMA UploadPartIInv ==
  ASSUME IInv, UploadPart
  PROVE  IInv'
<1> USE SizesAssumption, MinimumAssumption, MaxPartsAssumption DEF UploadPart, streamVars
<1>1. /\ pc \in {"upload", "tail"} /\ upload_part
      /\ upload_parts' = Append(upload_parts, part_number) /\ start' = received
  OBVIOUS
<1>2. TypeOK'
  BY <1>1, PartAppended DEF IInv, TypeOK
<1>3. PartsInOrder'
  BY <1>1, PartAppended DEF PartsInOrder
<1>4. PartsLarge'
  <2>1. Length(stored'[part_number]) >= Minimum
    BY <1>1, PartAppended DEF IInv, TypeOK, Phasing, Buffered, Length
  <2>2. \A i \in 1..Len(upload_parts) : Length(stored'[i]) >= Minimum
    BY <1>1, PartAppended DEF IInv, PartsLarge, Length
  <2> QED
    BY <2>1, <2>2, <1>1, PartAppended DEF IInv, TypeOK, PartsLarge, Length
<1>5. Phasing' /\ BufferBounded'
  BY DEF IInv, TypeOK, Phasing, BufferBounded, Buffered
<1>6. ObjectIsBody'
  BY DEF IInv, ObjectIsBody, Covers
<1> QED
  BY <1>2, <1>3, <1>4, <1>5, <1>6 DEF IInv

\* The end of the stream leaves a tail or nothing to upload.
LEMMA StreamEndsIInv ==
  ASSUME IInv, StreamEnds
  PROVE  IInv'
<1> USE SizesAssumption, MinimumAssumption, MaxPartsAssumption DEF StreamEnds, streamVars, bufferVars
<1>1. TypeOK'
  BY DEF IInv, TypeOK
<1>2. PartsInOrder'
  BY DEF IInv, PartsInOrder
<1>3. PartsLarge'
  BY DEF IInv, TypeOK, PartsLarge, Buffered, Length
<1>4. Phasing' /\ BufferBounded'
  BY DEF IInv, TypeOK, Phasing, BufferBounded, Buffered
<1>5. ObjectIsBody'
  BY DEF IInv, ObjectIsBody, Covers
<1> QED
  BY <1>1, <1>2, <1>3, <1>4, <1>5 DEF IInv

\* The last part may have any size.
LEMMA UploadTailIInv ==
  ASSUME IInv, UploadTail
  PROVE  IInv'
<1> USE SizesAssumption, MinimumAssumption, MaxPartsAssumption DEF UploadTail, streamVars
<1>1. /\ pc \in {"upload", "tail"} /\ upload_part
      /\ upload_parts' = Append(upload_parts, part_number) /\ start' = received
  OBVIOUS
<1>2. TypeOK'
  BY <1>1, PartAppended DEF IInv, TypeOK
<1>3. PartsInOrder'
  BY <1>1, PartAppended DEF PartsInOrder
<1>4. PartsLarge'
  <2>1. start' = size'
    BY DEF IInv, Phasing
  <2>2. \A i \in 1..Len(upload_parts) : Length(stored'[i]) >= Minimum
    BY <1>1, PartAppended DEF IInv, PartsLarge, Length
  <2> QED
    BY <2>1, <2>2, <1>1, PartAppended DEF IInv, TypeOK, PartsLarge, Length
<1>5. Phasing' /\ BufferBounded'
  BY DEF IInv, TypeOK, Phasing, BufferBounded, Buffered
<1>6. ObjectIsBody'
  BY DEF IInv, ObjectIsBody, Covers
<1> QED
  BY <1>2, <1>3, <1>4, <1>5, <1>6 DEF IInv

\* The object of an accepted completion is the body.
LEMMA CompletedIsBody ==
  ASSUME IInv, pc = "complete", complete_multipart_upload
  PROVE  /\ object' \in Seq(Ranges)
         /\ stored' \in [1..MaxParts -> Ranges \cup {NULL}]
         /\ Covers(object', size)
<1> USE SizesAssumption, MaxPartsAssumption DEF complete_multipart_upload
<1> DEFINE n == Len(upload_parts)
<1>1. /\ n \in Nat \ {0}
      /\ DOMAIN upload_parts = 1..n
      /\ \A i \in 1..n : i \in 1..MaxParts /\ upload_parts[i] = i /\ stored[i] # NULL
  BY DEF IInv, TypeOK, PartsInOrder, Acceptable
<1>2. object' = [i \in 1..n |-> stored[i]]
  BY <1>1
<1>3. \A i \in 1..n : stored[i] \in Ranges
  BY <1>1 DEF IInv, TypeOK
<1>4. object' \in Seq(Ranges) /\ Len(object') = n
  BY <1>1, <1>2, <1>3
<1>5. stored' \in [1..MaxParts -> Ranges \cup {NULL}]
  OBVIOUS
<1>6. Covers(object', size)
  <2>1. stored[1].from = 0 /\ stored[n].to = size
    BY <1>1 DEF IInv, PartsInOrder, PartsLarge
  <2>2. \A i \in 1..(n - 1) : stored[i].to = stored[i + 1].from
    BY <1>1 DEF IInv, PartsInOrder
  <2> QED
    BY <1>1, <1>2, <1>4, <2>1, <2>2 DEF Covers
<1> QED
  BY <1>4, <1>5, <1>6

LEMMA CompleteUploadIInv ==
  ASSUME IInv, CompleteUpload
  PROVE  IInv'
<1> USE SizesAssumption, MinimumAssumption, MaxPartsAssumption
    DEF CompleteUpload, streamVars, bufferVars
<1>1. TypeOK'
  BY CompletedIsBody DEF IInv, TypeOK
<1>2. PartsInOrder' /\ PartsLarge' /\ Phasing' /\ BufferBounded'
  BY DEF IInv, PartsInOrder, PartsLarge, Phasing, BufferBounded, Buffered
<1>3. ObjectIsBody'
  BY CompletedIsBody DEF ObjectIsBody
<1> QED
  BY <1>1, <1>2, <1>3 DEF IInv

\* The ends of a call other than a completion that is answered.
LEMMA EndsIInv ==
  ASSUME IInv, StreamBreaks \/ AbortUpload \/ Fails
  PROVE  IInv'
<1> USE SizesAssumption, MinimumAssumption, MaxPartsAssumption
    DEF StreamBreaks, AbortUpload, Fails, streamVars, bufferVars
<1>1. UNCHANGED <<size, received, start, part_number, upload_parts>> /\ pc' \in {"abort", "failed"}
  OBVIOUS
<1>2. stored' \in [1..MaxParts -> Ranges \cup {NULL}]
  <2>1. [from |-> start, to |-> received] \in Ranges
    BY DEF IInv, TypeOK, Ranges
  <2>2. CASE Fails
    BY <2>1, <2>2, CompletedIsBody DEF IInv, TypeOK, upload_part
  <2>3. CASE StreamBreaks \/ AbortUpload
    BY <2>3 DEF IInv, TypeOK
  <2> QED
    BY <2>2, <2>3
<1>3. object' \in Seq(Ranges) \cup {NULL} /\ ObjectIsBody'
  <2>1. CASE UNCHANGED object
    BY <2>1, <1>1 DEF IInv, TypeOK, ObjectIsBody, Covers
  <2>2. CASE pc = "complete" /\ complete_multipart_upload
    BY <2>2, <1>1, CompletedIsBody DEF ObjectIsBody
  <2> QED
    BY <2>1, <2>2
<1>4. TypeOK'
  BY <1>1, <1>2, <1>3 DEF IInv, TypeOK
<1>5. PartsInOrder' /\ PartsLarge' /\ Phasing' /\ BufferBounded'
  BY <1>1 DEF IInv, PartsInOrder, PartsLarge, Phasing, BufferBounded, Buffered
<1> QED
  BY <1>3, <1>4, <1>5 DEF IInv

LEMMA NextIInv == IInv /\ [Next]_vars => IInv'
<1> SUFFICES ASSUME IInv, [Next]_vars PROVE IInv'
  OBVIOUS
<1>1. ASSUME NEW n \in 0..MaxChunk, Chunk(n) PROVE IInv'
  BY <1>1, ChunkIInv
<1>2. CASE UploadPart
  BY <1>2, UploadPartIInv
<1>3. CASE StreamEnds
  BY <1>3, StreamEndsIInv
<1>4. CASE UploadTail
  BY <1>4, UploadTailIInv
<1>5. CASE CompleteUpload
  BY <1>5, CompleteUploadIInv
<1>6. CASE StreamBreaks \/ AbortUpload \/ Fails
  BY <1>6, EndsIInv
<1>7. CASE UNCHANGED vars
  BY <1>7 DEF vars, streamVars, bufferVars, IInv, TypeOK, PartsInOrder, PartsLarge, Phasing,
              BufferBounded, Buffered, ObjectIsBody, Covers, Length
<1> QED
  BY <1>1, <1>2, <1>3, <1>4, <1>5, <1>6, <1>7 DEF Next

\* The inductive invariant holds in every reachable state.
THEOREM Invariance == Spec => []IInv
  BY InitIInv, NextIInv, PTL DEF Spec

\* No variable leaves its type; part numbers stay within those S3 accepts.
THEOREM TypeCorrect == Spec => []TypeOK
<1>1. IInv => TypeOK
  BY DEF IInv
<1> QED
  BY <1>1, Invariance, PTL

\* What stash_artifact completes is the body, every byte of it once and in
\* order, for any sizes of packages and chunks.
THEOREM CompletesTheBody == Spec => []ObjectIsBody
<1>1. IInv => ObjectIsBody
  BY DEF IInv
<1> QED
  BY <1>1, Invariance, PTL

\* The completion of a body that is not empty satisfies what S3 asks of it,
\* because the minimum is no less than S3's.
THEOREM CompletionIsAccepted == Spec => []CompletionAccepted
<1>1. IInv => CompletionAccepted
  <2> SUFFICES ASSUME IInv, pc = "complete", size # 0 PROVE Acceptable(upload_parts)
    BY DEF CompletionAccepted
  <2> DEFINE n == Len(upload_parts)
  <2>1. /\ n \in Nat
        /\ DOMAIN upload_parts = 1..n
        /\ \A i \in 1..n : i \in 1..MaxParts /\ upload_parts[i] = i /\ stored[i] # NULL
    BY MaxPartsAssumption DEF IInv, TypeOK, PartsInOrder
  <2>2. n # 0
    BY DEF IInv, PartsInOrder, PartsLarge
  <2>3. \A i \in 1..(n - 1) : Length(stored[i]) >= S3Minimum
    <3> TAKE i \in 1..(n - 1)
    <3>1. stored[i] \in Ranges
      BY <2>1 DEF IInv, TypeOK
    <3>2. Length(stored[i]) >= Minimum
      BY DEF IInv, PartsLarge
    <3> QED
      BY <3>1, <3>2, MinimumAssumption DEF Ranges, Length
  <2> QED
    BY <2>1, <2>2, <2>3 DEF Acceptable
<1> QED
  BY <1>1, Invariance, PTL

\* The buffer holds less than the minimum and one chunk.
THEOREM BufferIsBounded == Spec => []BufferBounded
<1>1. IInv => BufferBounded
  BY DEF IInv
<1> QED
  BY <1>1, Invariance, PTL
==============================================================================
