----------------------------- MODULE Credentials ------------------------------
(***************************************************************************)
(* The credential store (src/credhelper) and the calls made on it: by the  *)
(* handlers of /api/v1/credentials/{hostname} (src/http/api) and by the    *)
(* registry client, which is module RegistryClient.                        *)
(*                                                                         *)
(* The handlers and the client are generic in CredentialHelper.  The       *)
(* server runs them with DatabaseCredentials, any number of instances over *)
(* one table; their tests with MemoryCredentials and FaultyCredentials.    *)
(* The behaviours below start with one of these and keep to it.            *)
(*                                                                         *)
(* The last two variables are history: what somebody who makes the calls   *)
(* may conclude from the answers.                                          *)
(***************************************************************************)
CONSTANTS Callers,      \* calls of the store in flight
          Hosts, Tokens,
          Helpers,      \* the implementations to look at
          NULL,
          Unknown       \* no conclusion

ASSUME HelpersAssumption == Helpers \subseteq {"database", "memory", "faulty"}
ASSUME NullAssumption    == NULL \notin Tokens
ASSUME UnknownAssumption == Unknown \notin Tokens \cup {NULL}

VARIABLES
  helper,     \* the implementation of CredentialHelper
  token,      \* the token in each host's row or map entry, NULL if there is none
  step,       \* where each call stands
  command,    \* what it is to do
  seen,       \* the token a get has found, NULL for Credential::NotFound
  calm,       \* no other change of its host has been under way during the call
  settled     \* the token a host has, to judge by the answers given

callVars  == <<step, command, seen, calm>>
storeVars == <<helper, token, settled, callVars>>

Commands == [op : {"store"}, host : Hosts, token : Tokens]
              \cup [op : {"forget", "get"}, host : Hosts, token : {NULL}]

Changes(c) == command[c].op # "get"

StoreTypeOK ==
  /\ helper  \in Helpers
  /\ token   \in [Hosts -> Tokens \cup {NULL}]
  /\ step    \in [Callers -> {"idle", "begun", "locked", "done", "failed", "lost", "dropped"}]
  /\ command \in [Callers -> Commands \cup {NULL}]
  /\ \A c \in Callers : step[c] # "idle" => command[c] \in Commands
  /\ \A c \in Callers : step[c] = "lost" => helper = "database"
  /\ seen    \in [Callers -> Tokens \cup {NULL}]
  /\ calm    \in [Callers -> BOOLEAN]
  /\ settled \in [Hosts -> Tokens \cup {NULL, Unknown}]

StoreInit ==
  /\ helper  \in Helpers
  /\ token   = [h \in Hosts |-> NULL]
  /\ step    = [c \in Callers |-> "idle"]
  /\ command = [c \in Callers |-> NULL]
  /\ seen    = [c \in Callers |-> NULL]
  /\ calm    = [c \in Callers |-> FALSE]
  /\ settled = [h \in Hosts |-> NULL]

\* The changes of h that may take effect or have not been answered.
Changing(h) ==
  {c \in Callers : step[c] # "idle" /\ Changes(c) /\ command[c].host = h}

Begin(c, cmd) ==
  /\ step[c] = "idle"
  /\ step'    = [step EXCEPT ![c] = "begun"]
  /\ command' = [command EXCEPT ![c] = cmd]
  /\ calm'    = [d \in Callers |->
                  IF d = c THEN Changing(cmd.host) = {}
                  ELSE calm[d] /\ (cmd.op = "get" \/ command[d].host # cmd.host)]
  /\ UNCHANGED <<helper, token, seen, settled>>

\* The handler is done with the call: no conclusion about c is kept.
Over(c) ==
  /\ step'    = [step EXCEPT ![c] = "idle"]
  /\ command' = [command EXCEPT ![c] = NULL]
  /\ seen'    = [seen EXCEPT ![c] = NULL]
  /\ calm'    = [calm EXCEPT ![c] = FALSE]

\* The handler leaves the call, and a statement that may still be executed goes
\* on without it.
Leave(c, pending) ==
  IF pending THEN step' = [step EXCEPT ![c] = "dropped"] /\ UNCHANGED <<command, seen, calm>>
  ELSE Over(c)

\* Mutant: on conflict do nothing.
MutantKeepOld(c) ==
  /\ token' = IF Changes(c) /\ (token[command[c].host] = NULL \/ command[c].op = "forget")
              THEN [token EXCEPT ![command[c].host] = command[c].token]
              ELSE token
  /\ seen'  = IF Changes(c) THEN seen ELSE [seen EXCEPT ![c] = token[command[c].host]]

\* What each operation does: one statement on one row, or one access of the map.
Perform(c) ==
  /\ token' = IF Changes(c) THEN [token EXCEPT ![command[c].host] = command[c].token]
              ELSE token
  /\ seen'  = IF Changes(c) THEN seen ELSE [seen EXCEPT ![c] = token[command[c].host]]

DatabaseExecutes(c) ==
  /\ helper = "database"
  /\ step[c] = "begun"
  /\ Perform(c)
  /\ step' = [step EXCEPT ![c] = "done"]
  /\ UNCHANGED <<helper, command, calm, settled>>

\* No connection from the pool, or the connection fails: before the statement is
\* sent or after it has been executed, or between the two, when it may be yet.
DatabaseFails(c) ==
  /\ helper = "database"
  /\ \/ step[c] \in {"begun", "done"} /\ step' = [step EXCEPT ![c] = "failed"]
     \/ step[c] = "begun" /\ step' = [step EXCEPT ![c] = "lost"]
  /\ UNCHANGED <<helper, token, command, seen, calm, settled>>

Locked == {c \in Callers : step[c] = "locked"}

\* try_read and try_write: the lock at once, or an error.
TryLock(c) ==
  LET refused == IF Changes(c) THEN Locked # {} ELSE \E d \in Locked : Changes(d)
  IN
  /\ helper = "memory"
  /\ step[c] = "begun"
  /\ step' = [step EXCEPT ![c] = IF refused THEN "failed" ELSE "locked"]
  /\ UNCHANGED <<helper, token, command, seen, calm, settled>>

Access(c) ==
  /\ step[c] = "locked"
  /\ Perform(c)
  /\ step' = [step EXCEPT ![c] = "done"]
  /\ UNCHANGED <<helper, command, calm, settled>>

Refuse(c) ==
  /\ helper = "faulty"
  /\ step[c] = "begun"
  /\ step' = [step EXCEPT ![c] = "failed"]
  /\ UNCHANGED <<helper, token, command, seen, calm, settled>>

\* The handler answers: 200, or 404 to a get that found nothing, if the call is
\* done, 500 if it has failed.  A change answered with 200 is in force if no
\* other change was under way; one answered with 500 may be, in the database, or
\* may come to be.
Answer(c) ==
  /\ step[c] \in {"done", "failed", "lost"}
  /\ settled' = IF ~Changes(c) \/ (step[c] = "failed" /\ helper # "database") THEN settled
                ELSE [settled EXCEPT ![command[c].host] =
                       IF step[c] = "done" /\ calm[c] THEN command[c].token ELSE Unknown]
  /\ Leave(c, step[c] = "lost")
  /\ UNCHANGED <<helper, token>>

\* The client disconnects, or the instance is lost, and the handler with it.  A
\* statement that has been sent may still be executed.
Drop(c) ==
  /\ step[c] \in {"begun", "done", "failed", "lost"}
  /\ settled' = IF Changes(c) THEN [settled EXCEPT ![command[c].host] = Unknown] ELSE settled
  /\ Leave(c, step[c] \in {"begun", "lost"} /\ helper = "database")
  /\ UNCHANGED <<helper, token>>

\* Postgres comes to a statement whose connection has failed, while the handler
\* has yet to answer,
LostExecutes(c) ==
  /\ step[c] = "lost"
  /\ Perform(c)
  /\ step' = [step EXCEPT ![c] = "failed"]
  /\ UNCHANGED <<helper, command, calm, settled>>

\* and to one for which there is no handler any more; or it never does.
DroppedExecutes(c) ==
  /\ step[c] = "dropped"
  /\ \/ /\ Changes(c)
        /\ token' = [token EXCEPT ![command[c].host] = command[c].token]
     \/ UNCHANGED token
  /\ Over(c)
  /\ UNCHANGED <<helper, settled>>

\* A call goes on, up to its answer.
Proceed(c) ==
  \/ DatabaseExecutes(c) \/ DatabaseFails(c)
  \/ TryLock(c) \/ Access(c)
  \/ Refuse(c)
  \/ LostExecutes(c) \/ DroppedExecutes(c)

StoreNext ==
  \E c \in Callers :
    \/ \E cmd \in Commands : Begin(c, cmd)
    \/ Proceed(c)
    \/ Answer(c)
    \/ Drop(c)

StoreSpec == StoreInit /\ [][StoreNext]_storeVars

-----------------------------------------------------------------------------
(***************************************************************************)
(* Properties.                                                             *)
(***************************************************************************)

\* credential.rs:29 and 49, a change that is answered with 200 is in force, on
\* every instance and across restarts, until another one is under way; and one
\* that a memory store answered with 500 has not happened.
AcknowledgedInForce ==
  \A h \in Hosts :
    Changing(h) = {} /\ settled[h] # Unknown => token[h] = settled[h]

\* client.rs:95 and credential.rs:67, a get that no change of its host overlaps
\* finds the token that was acknowledged last, whichever instance it is made
\* on: in particular no request to a registry carries a token whose deletion
\* has been acknowledged before.
ReadsInForce ==
  \A c \in Callers :
    step[c] = "done" /\ ~Changes(c) /\ calm[c] =>
      settled[command[c].host] \in {Unknown, seen[c]}

-----------------------------------------------------------------------------
(***************************************************************************)
(* The inductive invariant: where a host's token is not the acknowledged   *)
(* one, a change that has happened is about to be answered; a calm change  *)
(* that is done is in force, and is the only one; a change without a       *)
(* client leaves no conclusion.                                            *)
(***************************************************************************)
Happened(c) == step[c] = "done" \/ (step[c] = "failed" /\ helper = "database")

SettledUnlessHappened ==
  \A h \in Hosts :
    settled[h] \in {Unknown, token[h]} \/ \E c \in Changing(h) : Happened(c)

CalmChangeInForce ==
  \A c \in Callers : step[c] = "done" /\ Changes(c) /\ calm[c] =>
    token[command[c].host] = command[c].token

CalmIsAlone ==
  \A c \in Callers : step[c] # "idle" /\ calm[c] => Changing(command[c].host) \subseteq {c}

DroppedIsUnknown ==
  \A c \in Callers : step[c] = "dropped" /\ Changes(c) => settled[command[c].host] = Unknown

StoreInv == /\ SettledUnlessHappened
            /\ CalmChangeInForce
            /\ CalmIsAlone
            /\ DroppedIsUnknown
            /\ ReadsInForce
==============================================================================
