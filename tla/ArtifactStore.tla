---------------------------- MODULE ArtifactStore ----------------------------
(***************************************************************************)
(* What the artifact cache promises, with the work that produces it left   *)
(* out.  A bucket holds immutable packages; the catalogue binds a provider *)
(* version to the package to serve for it; a request is answered with a    *)
(* redirect to a key.  A key is written at most once, and a version is     *)
(* bound, and a client redirected, only to a package that is already there *)
(* and that belongs to that version.                                       *)
(*                                                                         *)
(* ArtifactCache implements this module.                                   *)
(***************************************************************************)
CONSTANTS Requests,     \* calls of the artifact endpoint in flight
          Versions,     \* provider versions, one per platform
          Keys,         \* object keys of the bucket
          Packages,     \* the packages upstream serves, a record with a version
          NULL          \* nothing there

VARIABLES objects,      \* the package stored under each key, or NULL
          binding,      \* the key each version is bound to, or NULL
          answer        \* the redirect each request was answered with, or NULL

storeVars == <<objects, binding, answer>>

Holds(k, v) == /\ objects[k] # NULL
               /\ objects[k].version = v

Init == /\ objects = [k \in Keys |-> NULL]
        /\ binding = [v \in Versions |-> NULL]
        /\ answer  = [r \in Requests |-> NULL]

Publish(k, p) == /\ objects[k] = NULL
                 /\ objects' = [objects EXCEPT ![k] = p]
                 /\ UNCHANGED <<binding, answer>>

Bind(v, k) == /\ Holds(k, v)
              /\ binding' = [binding EXCEPT ![v] = k]
              /\ UNCHANGED <<objects, answer>>

Answer(r, v, k) == /\ answer[r] = NULL
                   /\ Holds(k, v)
                   /\ answer' = [answer EXCEPT ![r] = [version |-> v, key |-> k]]
                   /\ UNCHANGED <<objects, binding>>

Forget(r) == /\ answer[r] # NULL
             /\ answer' = [answer EXCEPT ![r] = NULL]
             /\ UNCHANGED <<objects, binding>>

Next == \/ \E k \in Keys, p \in Packages : Publish(k, p)
        \/ \E v \in Versions, k \in Keys : Bind(v, k)
        \/ \E r \in Requests, v \in Versions, k \in Keys : Answer(r, v, k)
        \/ \E r \in Requests : Forget(r)

Spec == Init /\ [][Next]_storeVars
==============================================================================
