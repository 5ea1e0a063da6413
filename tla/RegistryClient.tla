---------------------------- MODULE RegistryClient ----------------------------
(***************************************************************************)
(* The registry client (src/registry/client.rs) over the credential store: *)
(* provider_get discovers a registry's provider service, reads the token   *)
(* of its host, and asks for metadata with it, while the handlers of       *)
(* src/http/api/v1/credential.rs change tokens.                            *)
(*                                                                         *)
(* Registries are external: they answer or fail, with a body of any size   *)
(* in chunks of any size.  Sizes are in a unit of which the limits are     *)
(* small multiples; what a body says is decided when it is parsed.         *)
(***************************************************************************)
EXTENDS Naturals, Credentials

CONSTANTS Fetches,          \* the callers that are calls of provider_get
          DiscoveryLimit,   \* DISCOVERY_RESPONSE_SIZE_MAX_BYTES
          MetadataLimit,    \* REGISTRY_METADATA_SIZE_MAX_BYTES
          MaxBody           \* the size from which a body stands for any larger one

ASSUME FetchesAssumption == Fetches \subseteq Callers
ASSUME LimitsAssumption  == {DiscoveryLimit, MetadataLimit, MaxBody} \subseteq Nat

VARIABLES
  at,         \* where each provider_get stands
  target,     \* the host it is for
  body,       \* the size of the body it reads
  buffer,     \* the size of response_buffer
  outcome     \* how it has ended, or NULL

fetchVars == <<at, target, body, buffer, outcome>>
vars      == <<storeVars, fetchVars>>

\* How a provider_get ends: the errors other than the limit's are one.
Outcomes == {"ok", "ProviderResponseTooLarge", "error"}

ASSUME OutcomesAssumption == NULL \notin Outcomes

FetchTypeOK ==
  /\ at      \in [Fetches -> {"idle", "discover", "discovery", "token", "request", "metadata"}]
  /\ target  \in [Fetches -> Hosts \cup {NULL}]
  /\ \A f \in Fetches : at[f] # "idle" => target[f] \in Hosts
  /\ body    \in [Fetches -> 0..MaxBody]
  /\ buffer  \in [Fetches -> 0..MaxBody]
  /\ outcome \in [Fetches -> Outcomes \cup {NULL}]

TypeOK == StoreTypeOK /\ FetchTypeOK

Init ==
  /\ StoreInit
  /\ at      = [f \in Fetches |-> "idle"]
  /\ target  = [f \in Fetches |-> NULL]
  /\ body    = [f \in Fetches |-> 0]
  /\ buffer  = [f \in Fetches |-> 0]
  /\ outcome = [f \in Fetches |-> NULL]

Running(f) == at[f] # "idle" /\ outcome[f] = NULL

End(f, result) ==
  /\ outcome' = [outcome EXCEPT ![f] = result]
  /\ UNCHANGED <<at, target, body, buffer>>

ProviderGet(f, h) ==
  /\ at[f] = "idle"
  /\ step[f] = "idle"
  /\ at'     = [at EXCEPT ![f] = "discover"]
  /\ target' = [target EXCEPT ![f] = h]
  /\ UNCHANGED <<storeVars, body, buffer, outcome>>

\* A registry answers 2xx, with a body of n units to read.
Respond(f, n) ==
  /\ Running(f)
  /\ \/ at[f] = "discover" /\ at' = [at EXCEPT ![f] = "discovery"]
     \/ at[f] = "request"  /\ at' = [at EXCEPT ![f] = "metadata"]
  /\ body'   = [body EXCEPT ![f] = n]
  /\ buffer' = [buffer EXCEPT ![f] = 0]
  /\ UNCHANGED <<storeVars, target, outcome>>

\* No answer within the client's timeout, another status, or a broken body.
ResponseFails(f) ==
  /\ Running(f)
  /\ at[f] # "token"
  /\ End(f, "error")
  /\ UNCHANGED storeVars

Limit(f) == IF at[f] = "discovery" THEN DiscoveryLimit ELSE MetadataLimit

\* Mutant: the limit is compared with what has been read, without the chunk.
MutantLateCheck(f, n) ==
  /\ Running(f)
  /\ at[f] \in {"discovery", "metadata"}
  /\ buffer[f] + n <= body[f]
  /\ IF buffer[f] > Limit(f)
     THEN End(f, "ProviderResponseTooLarge")
     ELSE /\ buffer' = [buffer EXCEPT ![f] = @ + n]
          /\ UNCHANGED <<at, target, body, outcome>>
  /\ UNCHANGED storeVars

\* Mutant: no limit, and a chunk is not cut off at the end of the body.
MutantGrow(f, n) ==
  /\ Running(f)
  /\ at[f] \in {"discovery", "metadata"}
  /\ buffer[f] < body[f]
  /\ buffer' = [buffer EXCEPT ![f] = @ + n]
  /\ UNCHANGED <<storeVars, at, target, body, outcome>>

ReadChunk(f, n) ==
  /\ Running(f)
  /\ at[f] \in {"discovery", "metadata"}
  /\ buffer[f] + n <= body[f]
  /\ IF buffer[f] + n > Limit(f)
     THEN End(f, "ProviderResponseTooLarge")
     ELSE /\ buffer' = [buffer EXCEPT ![f] = @ + n]
          /\ UNCHANGED <<at, target, body, outcome>>
  /\ UNCHANGED storeVars

\* The whole body is there and is not JSON of the type asked for, or names no
\* provider service or one whose URL cannot be built.
Unusable(f) ==
  /\ Running(f)
  /\ at[f] \in {"discovery", "metadata"}
  /\ buffer[f] = body[f]
  /\ End(f, "error")
  /\ UNCHANGED storeVars

\* Mutant: the token is read when the client is built, and no more.
MutantReadOnce(f) ==
  /\ Running(f)
  /\ at[f] = "discovery"
  /\ buffer[f] = body[f]
  /\ step[f] = "idle"
  /\ step'    = [step EXCEPT ![f] = "done"]
  /\ command' = [command EXCEPT ![f] = [op |-> "get", host |-> target[f], token |-> NULL]]
  /\ calm'    = [calm EXCEPT ![f] = Changing(target[f]) = {}]
  /\ at' = [at EXCEPT ![f] = "token"]
  /\ UNCHANGED <<helper, token, seen, settled, target, body, buffer, outcome>>

\* The provider service is discovered: transform asks the store for the token.
Discovered(f) ==
  /\ Running(f)
  /\ at[f] = "discovery"
  /\ buffer[f] = body[f]
  /\ Begin(f, [op |-> "get", host |-> target[f], token |-> NULL])
  /\ at' = [at EXCEPT ![f] = "token"]
  /\ UNCHANGED <<target, body, buffer, outcome>>

\* Mutant: an error of the store is no reason to give up.
MutantRetry(f) ==
  /\ Running(f)
  /\ at[f] = "token"
  /\ Answer(f)
  /\ at' = [at EXCEPT ![f] = IF step[f] = "done" THEN "request" ELSE "discovery"]
  /\ UNCHANGED <<target, body, buffer, outcome>>

\* The request is sent, with the token that was found, if one was.
Authorize(f) ==
  /\ Running(f)
  /\ at[f] = "token"
  /\ Answer(f)
  /\ IF step[f] = "done"
     THEN at' = [at EXCEPT ![f] = "request"] /\ UNCHANGED <<target, body, buffer, outcome>>
     ELSE End(f, "error")

Succeed(f) ==
  /\ Running(f)
  /\ at[f] = "metadata"
  /\ buffer[f] = body[f]
  /\ End(f, "ok")
  /\ UNCHANGED storeVars

\* The slot of a call that is over is that of another.
Reset(f) ==
  /\ at'      = [at EXCEPT ![f] = "idle"]
  /\ target'  = [target EXCEPT ![f] = NULL]
  /\ body'    = [body EXCEPT ![f] = 0]
  /\ buffer'  = [buffer EXCEPT ![f] = 0]
  /\ outcome' = [outcome EXCEPT ![f] = NULL]

\* The caller, refresh_versions or get_upstream, takes the outcome.
Return(f) ==
  /\ outcome[f] # NULL
  /\ Reset(f)
  /\ UNCHANGED storeVars

\* The caller is dropped.
Abandon(f) ==
  /\ Running(f)
  /\ IF step[f] = "idle" THEN UNCHANGED storeVars ELSE Drop(f)
  /\ Reset(f)

Calls == Callers \ Fetches

HandlerStep(c) == \/ \E cmd \in Commands : Begin(c, cmd)
                  \/ Answer(c)
                  \/ Drop(c)

FetchStep(f) == \/ \E n \in 0..MaxBody : Respond(f, n)
                \/ \E n \in 1..MaxBody : ReadChunk(f, n)
                \/ ResponseFails(f) \/ Unusable(f)
                \/ Discovered(f) \/ Authorize(f) \/ Succeed(f)
                \/ Return(f)

Next ==
  \/ \E c \in Callers : Proceed(c) /\ UNCHANGED fetchVars
  \/ \E c \in Calls : HandlerStep(c) /\ UNCHANGED fetchVars
  \/ \E f \in Fetches : \/ \E h \in Hosts : ProviderGet(f, h)
                        \/ FetchStep(f)
                        \/ Abandon(f)

Spec == Init /\ [][Next]_vars

(***************************************************************************)
(* Fairness.  What a provider_get does next is done: a statement ends, and *)
(* the HTTP client fails a request that is not answered in time.  Nothing  *)
(* is asked of the handlers, for the registry client never waits for them. *)
(***************************************************************************)
Fairness ==
  \A f \in Fetches : /\ WF_vars(Proceed(f) /\ UNCHANGED fetchVars)
                     /\ WF_vars(FetchStep(f))

FairSpec == Spec /\ Fairness

-----------------------------------------------------------------------------
(***************************************************************************)
(* Properties.                                                             *)
(***************************************************************************)

\* client.rs:39-51, a body is parsed only when all of it has been read, it is
\* refused only if it is larger than its limit, and no more of it than the
\* limit is ever kept, however it is cut into chunks.
BodyReadWhole ==
  \A f \in Fetches : at[f] \in {"discovery", "metadata"} =>
    /\ buffer[f] <= Limit(f)
    /\ outcome[f] = "ProviderResponseTooLarge" => body[f] > Limit(f)
    /\ outcome[f] = "ok" => buffer[f] = body[f]

\* Every provider_get ends, whatever is done to the credentials meanwhile, even
\* if handlers keep the store busy, and whatever size the bodies are.
FetchEnds == \A f \in Fetches : at[f] # "idle" ~> at[f] = "idle"
==============================================================================
