----------------------------- MODULE StashUpload -----------------------------
(***************************************************************************)
(* stash_artifact (src/http/artifacts.rs): how the body of a package is    *)
(* cut into the parts of an S3 multipart upload.  The body arrives in      *)
(* chunks of any size; they are collected in a buffer, which is uploaded   *)
(* as the next part once it holds the minimum, and what is left in it when *)
(* the body ends is the last part.  ArtifactCache has the same call with   *)
(* its neighbours and the database, and counts the parts.                  *)
(*                                                                         *)
(* Bytes are their offsets in the body, and consecutive bytes a range.     *)
(* The body ends at its size or breaks off with an error: HTTP delimits    *)
(* it, by its length or by its last chunk.                                 *)
(***************************************************************************)
EXTENDS Naturals, Sequences

CONSTANTS Sizes,      \* sizes of packages
          MaxChunk,   \* the largest chunk a body arrives in
          Minimum,    \* S3_MINIMUM_UPLOAD_CHUNK_BYTES, 10485760
          S3Minimum,  \* the smallest part S3 accepts, 5 MiB, except as the last
          MaxParts,   \* the largest part number S3 accepts, 10000
          NULL

ASSUME SizesAssumption    == Sizes \subseteq Nat /\ MaxChunk \in Nat
ASSUME MinimumAssumption  == Minimum \in Nat /\ S3Minimum \in 1..Minimum
ASSUME MaxPartsAssumption == MaxParts \in Nat \ {0}

Ranges == [from : Nat, to : Nat]
ASSUME NullAssumption == NULL \notin Ranges

VARIABLES
  size,          \* what the registry sends, if nothing goes wrong
  received,      \* bytes taken from the stream
  start,         \* offset of the first byte in upload_buffer
  part_number,
  upload_parts,  \* the numbers of the parts to complete the upload with
  stored,        \* what S3 holds of the upload, by part number
  object,        \* the ranges the completed object is put together from
  pc             \* where the call stands in stash_artifact

streamVars == <<size, received>>
bufferVars == <<start, part_number, upload_parts>>
vars       == <<streamVars, bufferVars, stored, object, pc>>

TypeOK ==
  /\ size         \in Sizes
  /\ received     \in 0..size
  /\ start        \in 0..received
  /\ part_number  \in 1..(MaxParts + 1)
  /\ upload_parts \in Seq(1..MaxParts)
  /\ stored       \in [1..MaxParts -> Ranges \cup {NULL}]
  /\ object       \in Seq(Ranges) \cup {NULL}
  /\ pc           \in {"stream", "upload", "tail", "abort", "complete", "done", "failed"}

\* Mutant: parts are numbered from zero.
MutantFromZero ==
  /\ size \in Sizes
  /\ received = 0
  /\ start = 0
  /\ part_number = 0
  /\ upload_parts = <<>>
  /\ stored = [n \in 1..MaxParts |-> NULL]
  /\ object = NULL
  /\ pc = "stream"

Init ==
  /\ size \in Sizes
  /\ received = 0
  /\ start = 0
  /\ part_number = 1
  /\ upload_parts = <<>>
  /\ stored = [n \in 1..MaxParts |-> NULL]
  /\ object = NULL
  /\ pc = "stream"

Buffered == received - start

\* Mutant: the chunk, and not the buffer, is compared with the minimum.
MutantChunkSize(n) ==
  /\ pc = "stream"
  /\ received + n <= size
  /\ received' = received + n
  /\ pc' = IF n < Minimum THEN "stream" ELSE "upload"
  /\ UNCHANGED <<size, bufferVars, stored, object>>

\* Mutant: every chunk is uploaded.
MutantEveryChunk(n) ==
  /\ pc = "stream"
  /\ received + n <= size
  /\ received' = received + n
  /\ pc' = IF n = 0 THEN "stream" ELSE "upload"
  /\ UNCHANGED <<size, bufferVars, stored, object>>

Chunk(n) ==
  /\ pc = "stream"
  /\ received + n <= size
  /\ received' = received + n
  /\ pc' = IF received' - start < Minimum THEN "stream" ELSE "upload"
  /\ UNCHANGED <<size, bufferVars, stored, object>>

upload_part ==
  /\ part_number <= MaxParts
  /\ stored' = [stored EXCEPT ![part_number] = [from |-> start, to |-> received]]

\* Mutant: the buffer is copied into the part and kept.
MutantKeepBuffer ==
  /\ pc = "upload"
  /\ upload_part
  /\ upload_parts' = Append(upload_parts, part_number)
  /\ part_number' = part_number + 1
  /\ pc' = "stream"
  /\ UNCHANGED <<streamVars, start, object>>

UploadPart ==
  /\ pc = "upload"
  /\ upload_part
  /\ upload_parts' = Append(upload_parts, part_number)
  /\ part_number' = part_number + 1
  /\ start' = received
  /\ pc' = "stream"
  /\ UNCHANGED <<streamVars, object>>

StreamEnds ==
  /\ pc = "stream"
  /\ received = size
  /\ pc' = IF Buffered = 0 THEN "complete" ELSE "tail"
  /\ UNCHANGED <<streamVars, bufferVars, stored, object>>

UploadTail ==
  /\ pc = "tail"
  /\ upload_part
  /\ upload_parts' = Append(upload_parts, part_number)
  /\ start' = received
  /\ pc' = "complete"
  /\ UNCHANGED <<streamVars, part_number, object>>

StreamBreaks ==
  /\ pc = "stream"
  /\ pc' = "abort"
  /\ UNCHANGED <<streamVars, bufferVars, stored, object>>

\* abort_multipart_upload throws the parts away, or fails.
AbortUpload ==
  /\ pc = "abort"
  /\ pc' = "failed"
  /\ stored' \in {stored, [n \in 1..MaxParts |-> NULL]}
  /\ UNCHANGED <<streamVars, bufferVars, object>>

Length(part) == part.to - part.from

\* What S3 asks of the list a completion names: there is a part, the parts
\* ascend and are there, and none but the last is too small.
Acceptable(parts) ==
  /\ parts # <<>>
  /\ \A i \in DOMAIN parts : stored[parts[i]] # NULL
  /\ \A i \in 1..(Len(parts) - 1) : /\ parts[i] < parts[i + 1]
                                    /\ Length(stored[parts[i]]) >= S3Minimum

complete_multipart_upload ==
  /\ Acceptable(upload_parts)
  /\ object' = [i \in DOMAIN upload_parts |-> stored[upload_parts[i]]]
  /\ stored' = [n \in 1..MaxParts |-> NULL]

CompleteUpload ==
  /\ pc = "complete"
  /\ complete_multipart_upload
  /\ pc' = "done"
  /\ UNCHANGED <<streamVars, bufferVars>>

\* An operation fails, or its answer is lost; S3 refuses a part number beyond
\* its last, and a completion without parts.
Fails ==
  /\ \/ pc \in {"upload", "tail"} /\ upload_part /\ UNCHANGED object
     \/ pc = "complete" /\ complete_multipart_upload
     \/ pc \in {"upload", "tail", "complete"} /\ UNCHANGED <<stored, object>>
  /\ pc' = "failed"
  /\ UNCHANGED <<streamVars, bufferVars>>

Next ==
  \/ \E n \in 0..MaxChunk : Chunk(n)
  \/ UploadPart \/ StreamEnds \/ UploadTail
  \/ StreamBreaks \/ AbortUpload
  \/ CompleteUpload
  \/ Fails

Spec == Init /\ [][Next]_vars

-----------------------------------------------------------------------------
(***************************************************************************)
(* Properties.                                                             *)
(***************************************************************************)

\* The ranges, one after the other, are the bytes from zero to last.
Covers(ranges, last) ==
  /\ Len(ranges) > 0 => ranges[1].from = 0
  /\ \A i \in 1..(Len(ranges) - 1) : ranges[i].to = ranges[i + 1].from
  /\ last = IF Len(ranges) = 0 THEN 0 ELSE ranges[Len(ranges)].to

\* An object that exists is the body: all of it, every byte once, in order,
\* however the body was cut into chunks and wherever the call failed.
ObjectIsBody == object # NULL => Covers(object, size)

\* S3 is never asked for a completion it refuses, unless the body is empty: a
\* part is uploaded before the end of the body only when the buffer, which
\* may have been filled by many small chunks, holds enough.
CompletionAccepted == pc = "complete" => size = 0 \/ Acceptable(upload_parts)

\* The buffer never holds the minimum and another chunk: what a download needs
\* of memory does not grow with its package.
BufferBounded == Buffered < Minimum + MaxChunk

\* The strengthening that makes the three inductive: the parts in the list are
\* the first ones, they cover what has left the buffer, and those uploaded from
\* within the stream hold the minimum.
PartsInOrder ==
  pc \in {"stream", "upload", "tail", "complete"} =>
    /\ \A i \in 1..Len(upload_parts) : upload_parts[i] = i /\ stored[i] # NULL
    /\ Len(upload_parts) > 0 => stored[1].from = 0
    /\ \A i \in 1..(Len(upload_parts) - 1) : stored[i].to = stored[i + 1].from
    /\ start = IF Len(upload_parts) = 0 THEN 0 ELSE stored[Len(upload_parts)].to

PartsLarge ==
  /\ pc \in {"stream", "upload", "tail"} =>
       /\ part_number = Len(upload_parts) + 1
       /\ \A i \in 1..Len(upload_parts) : Length(stored[i]) >= Minimum
  /\ pc = "complete" =>
       /\ start = size
       /\ \A i \in 1..(Len(upload_parts) - 1) : Length(stored[i]) >= Minimum

Phasing ==
  /\ pc = "stream" => Buffered < Minimum
  /\ pc = "upload" => Buffered >= Minimum
  /\ pc = "tail" => received = size /\ Buffered > 0

IInv ==
  /\ TypeOK
  /\ PartsInOrder
  /\ PartsLarge
  /\ Phasing
  /\ BufferBounded
  /\ ObjectIsBody
==============================================================================
