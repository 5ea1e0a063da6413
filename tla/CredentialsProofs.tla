-------------------------- MODULE CredentialsProofs ---------------------------
(***************************************************************************)
(* The credential store for any number of calls, hosts and tokens, on each *)
(* of its implementations: what was acknowledged is in force and is read.  *)
(* The registry client is one of its users, so the same holds of it, and   *)
(* it keeps within the limits on what it reads.                            *)
(***************************************************************************)
EXTENDS RegistryClient, TLAPS

\* The shape of a call's command.
LEMMA CommandFacts ==
  \A cmd \in Commands : /\ cmd.op \in {"store", "forget", "get"}
                        /\ cmd.host \in Hosts
                        /\ cmd.token \in Tokens \cup {NULL}
BY DEF Commands

LEMMA StoreInitTyped == StoreInit => StoreTypeOK
BY DEF StoreInit, StoreTypeOK

LEMMA StoreTypeStep == StoreTypeOK /\ [StoreNext]_storeVars => StoreTypeOK'
<1>1. SUFFICES ASSUME StoreTypeOK, [StoreNext]_storeVars PROVE StoreTypeOK'
  OBVIOUS
<1>2. CASE UNCHANGED storeVars
  BY <1>1, <1>2 DEF StoreTypeOK, storeVars, callVars
<1>3. ASSUME NEW c \in Callers, NEW cmd \in Commands, Begin(c, cmd) PROVE StoreTypeOK'
  BY <1>1, <1>3 DEF StoreTypeOK, Begin
<1>4. ASSUME NEW c \in Callers, Over(c)
      PROVE  /\ step' = [step EXCEPT ![c] = "idle"]
             /\ command' \in [Callers -> Commands \cup {NULL}]
             /\ \A d \in Callers : step'[d] # "idle" => command'[d] \in Commands
             /\ seen' \in [Callers -> Tokens \cup {NULL}]
             /\ calm' \in [Callers -> BOOLEAN]
  BY <1>1, <1>4 DEF StoreTypeOK, Over
<1>5. ASSUME NEW c \in Callers, step[c] # "idle", Perform(c)
      PROVE  /\ token' \in [Hosts -> Tokens \cup {NULL}]
             /\ seen' \in [Callers -> Tokens \cup {NULL}]
  BY <1>1, <1>5, CommandFacts DEF StoreTypeOK, Perform
<1>6. ASSUME NEW c \in Callers, Proceed(c) PROVE StoreTypeOK'
  <2>1. CASE DatabaseExecutes(c)
    BY <1>1, <1>5, <2>1 DEF StoreTypeOK, DatabaseExecutes
  <2>2. CASE DatabaseFails(c) \/ TryLock(c) \/ Refuse(c)
    BY <1>1, <2>2 DEF StoreTypeOK, DatabaseFails, TryLock, Refuse
  <2>3. CASE Access(c)
    BY <1>1, <1>5, <2>3 DEF StoreTypeOK, Access
  <2>4. CASE DroppedExecutes(c)
    <3>1. token' \in [Hosts -> Tokens \cup {NULL}]
      BY <1>1, <2>4, CommandFacts DEF StoreTypeOK, DroppedExecutes
    <3>2. QED  BY <1>1, <1>4, <2>4, <3>1 DEF StoreTypeOK, DroppedExecutes
  <2>5. CASE LostExecutes(c)
    BY <1>1, <1>5, <2>5 DEF StoreTypeOK, LostExecutes
  <2>6. QED  BY <1>6, <2>1, <2>2, <2>3, <2>4, <2>5 DEF Proceed
<1>7. ASSUME NEW c \in Callers, step[c] # "idle"
      PROVE  command[c].host \in Hosts /\ command[c].token \in Tokens \cup {NULL}
  BY <1>1, <1>7, CommandFacts DEF StoreTypeOK
<1>8. ASSUME NEW c \in Callers, Answer(c) \/ Drop(c) PROVE StoreTypeOK'
  <2>1. settled' \in [Hosts -> Tokens \cup {NULL, Unknown}] /\ UNCHANGED <<helper, token>>
    BY <1>1, <1>7, <1>8 DEF StoreTypeOK, Answer, Drop
  <2>2. CASE step' = [step EXCEPT ![c] = "dropped"] /\ UNCHANGED <<command, seen, calm>>
    BY <1>1, <1>8, <2>1, <2>2 DEF StoreTypeOK, Answer, Drop
  <2>3. CASE Over(c)
    BY <1>1, <1>4, <2>1, <2>3 DEF StoreTypeOK, Over
  <2>4. QED  BY <1>8, <2>2, <2>3 DEF Answer, Drop, Leave
<1>9. QED  BY <1>1, <1>2, <1>3, <1>6, <1>8 DEF StoreNext

-----------------------------------------------------------------------------
\* A call that is under way, read off the sets the invariant is written with.
LEMMA ChangingFacts ==
  ASSUME StoreTypeOK
  PROVE  /\ \A h \in Hosts, c \in Callers :
              c \in Changing(h) <=> step[c] # "idle" /\ Changes(c) /\ command[c].host = h
         /\ \A h \in Hosts : Changing(h) \subseteq Callers
         /\ \A c \in Callers : step[c] # "idle" => command[c].host \in Hosts
BY CommandFacts DEF StoreTypeOK, Changing

LEMMA InitStoreInv == StoreInit => StoreInv
BY DEF StoreInit, StoreInv, SettledUnlessHappened, CalmChangeInForce, CalmIsAlone,
       DroppedIsUnknown, ReadsInForce

\* A new call is alone or not calm, and a new change leaves nobody of its host
\* calm.
LEMMA BeginKeepsInv ==
  ASSUME StoreTypeOK, StoreInv, NEW c \in Callers, NEW cmd \in Commands, Begin(c, cmd)
  PROVE  StoreInv'
<1>1. /\ step' = [step EXCEPT ![c] = "begun"] /\ command' = [command EXCEPT ![c] = cmd]
      /\ step[c] = "idle"
      /\ UNCHANGED <<helper, token, seen, settled>>
      /\ \A d \in Callers : calm'[d] = (IF d = c THEN Changing(cmd.host) = {}
             ELSE calm[d] /\ (cmd.op = "get" \/ command[d].host # cmd.host))
  BY DEF Begin
<1>2. \A d \in Callers \ {c} : /\ step'[d] = step[d] /\ command'[d] = command[d]
                               /\ Changes(d)' = Changes(d) /\ Happened(d)' = Happened(d)
  BY <1>1 DEF StoreTypeOK, Changes, Happened
<1>3. /\ step'[c] = "begun" /\ command'[c] = cmd /\ (Changes(c)' <=> cmd.op # "get")
      /\ ~Happened(c)
  BY <1>1 DEF StoreTypeOK, Changes, Happened
<1>4. \A h \in Hosts : Changing(h)' = Changing(h) \cup
                         (IF cmd.op # "get" /\ cmd.host = h THEN {c} ELSE {})
  BY <1>1, <1>2, <1>3 DEF Changing
<1>5. SettledUnlessHappened'
  BY <1>1, <1>2, <1>3, <1>4, ChangingFacts DEF StoreInv, SettledUnlessHappened
<1>6. CalmChangeInForce' /\ DroppedIsUnknown' /\ ReadsInForce'
  <2>1. CalmChangeInForce'
    BY <1>1, <1>2, <1>3 DEF StoreInv, CalmChangeInForce
  <2>2. DroppedIsUnknown'
    BY <1>1, <1>2, <1>3 DEF StoreInv, DroppedIsUnknown
  <2>3. ReadsInForce'
    BY <1>1, <1>2, <1>3 DEF StoreInv, ReadsInForce
  <2>4. QED  BY <2>1, <2>2, <2>3
<1>7. CalmIsAlone'
  <2>1. SUFFICES ASSUME NEW d \in Callers, step'[d] # "idle", calm'[d],
                        NEW e \in Callers, e # d, step'[e] # "idle", Changes(e)',
                        command'[e].host = command'[d].host
                 PROVE  FALSE
    BY DEF CalmIsAlone, Changing
  <2>2. CASE d = c
    <3>1. e \in Changing(cmd.host)
      BY <1>2, <1>3, <2>1, <2>2, CommandFacts, ChangingFacts
    <3>2. QED  BY <1>1, <2>1, <2>2, <3>1
  <2>3. CASE d # c
    <3>1. /\ step[d] # "idle" /\ calm[d] /\ command'[d] = command[d]
          /\ cmd.op = "get" \/ command[d].host # cmd.host
      BY <1>1, <1>2, <2>1, <2>3
    <3>2. e # c
      BY <1>3, <2>1, <3>1
    <3>3. e \in Changing(command[d].host)
      BY <1>2, <2>1, <3>1, <3>2 DEF Changing
    <3>4. QED  BY <2>1, <3>1, <3>3 DEF StoreInv, CalmIsAlone
  <2>4. QED  BY <2>2, <2>3
<1>8. QED  BY <1>5, <1>6, <1>7 DEF StoreInv

\* The steps of a call that touch neither tokens nor what was acknowledged.
LEMMA WaitKeepsInv ==
  ASSUME StoreTypeOK, StoreInv, NEW c \in Callers,
         DatabaseFails(c) \/ TryLock(c) \/ Refuse(c)
  PROVE  StoreInv'
<1>1. /\ UNCHANGED <<helper, token, command, seen, calm, settled>>
      /\ step[c] \in {"begun", "done"} /\ step'[c] \in {"locked", "failed", "lost"}
      /\ \A d \in Callers \ {c} : step'[d] = step[d]
      /\ Happened(c) => Happened(c)'
  BY DEF StoreTypeOK, DatabaseFails, TryLock, Refuse, Happened
<1>2. \A d \in Callers : (Changes(d)' <=> Changes(d)) /\ (Happened(d) => Happened(d)')
  BY <1>1 DEF Changes, Happened
<1>3. \A h \in Hosts : Changing(h)' = Changing(h)
  BY <1>1, <1>2 DEF Changing
<1>4. QED  BY <1>1, <1>2, <1>3, ChangingFacts DEF StoreInv, SettledUnlessHappened,
             CalmChangeInForce, CalmIsAlone, DroppedIsUnknown, ReadsInForce

\* An operation takes effect: a change of a calm host is the only one there,
\* and a get of a calm host finds what was acknowledged.
LEMMA PerformKeepsInv ==
  ASSUME StoreTypeOK, StoreInv, NEW c \in Callers, step[c] \in {"begun", "locked", "lost"},
         Perform(c), NEW s, step' = [step EXCEPT ![c] = s],
         s = "done" \/ (s = "failed" /\ helper = "database"),
         UNCHANGED <<helper, command, calm, settled>>
  PROVE  StoreInv'
<1>1. /\ step'[c] \in {"done", "failed"}
      /\ \A d \in Callers \ {c} : step'[d] = step[d]
      /\ Happened(c)'
  BY DEF StoreTypeOK, Happened
<1>2. \A d \in Callers : (Changes(d)' <=> Changes(d)) /\ (Happened(d) => Happened(d)')
  BY <1>1 DEF Changes, Happened
<1>3. \A h \in Hosts : Changing(h)' = Changing(h)
  BY <1>1, <1>2 DEF Changing
<1>4. command[c] \in Commands /\ command[c].host \in Hosts
  BY CommandFacts DEF StoreTypeOK
<1>5. CASE Changes(c)
  <2>1. /\ \A h \in Hosts : token'[h] = IF h = command[c].host THEN command[c].token ELSE token[h]
        /\ seen' = seen
    BY <1>4, <1>5 DEF Perform, StoreTypeOK
  <2>2. c \in Changing(command[c].host)
    BY <1>4, <1>5, ChangingFacts
  <2>3. SettledUnlessHappened'
    <3>1. SUFFICES ASSUME NEW h \in Hosts
                   PROVE  settled[h] \in {Unknown, token'[h]} \/ \E d \in Changing(h)' : Happened(d)'
      BY DEF SettledUnlessHappened
    <3>2. CASE h = command[c].host
      BY <1>1, <1>3, <2>2, <3>2
    <3>3. CASE h # command[c].host
      <4>1. token'[h] = token[h]
        BY <2>1, <3>3
      <4>2. settled[h] \in {Unknown, token[h]} \/ \E d \in Changing(h) : Happened(d)
        BY DEF StoreInv, SettledUnlessHappened
      <4>3. QED  BY <1>2, <1>3, <4>1, <4>2, ChangingFacts
    <3>4. QED  BY <3>2, <3>3
  <2>4. \A d \in Callers \ {c} : step[d] # "idle" /\ calm[d] => command[d].host # command[c].host
    BY <2>2 DEF StoreInv, CalmIsAlone
  <2>5. CalmChangeInForce'
    BY <1>1, <1>2, <2>1, <2>4, <1>4, ChangingFacts DEF StoreInv, CalmChangeInForce
  <2>6. CalmIsAlone' /\ DroppedIsUnknown' /\ ReadsInForce'
    BY <1>1, <1>2, <1>3, <1>5, <2>1, ChangingFacts
       DEF StoreInv, CalmIsAlone, DroppedIsUnknown, ReadsInForce
  <2>7. QED  BY <2>3, <2>5, <2>6 DEF StoreInv
<1>6. CASE ~Changes(c)
  <2>1. token' = token /\ seen' = [seen EXCEPT ![c] = token[command[c].host]]
    BY <1>6 DEF Perform
  <2>2. calm[c] => Changing(command[c].host) = {}
    BY <1>4, <1>6, ChangingFacts DEF StoreInv, CalmIsAlone
  <2>3. ReadsInForce'
    BY <1>1, <1>2, <1>4, <1>6, <2>1, <2>2
       DEF StoreInv, ReadsInForce, SettledUnlessHappened, StoreTypeOK
  <2>4. QED  BY <1>1, <1>2, <1>3, <1>6, <2>1, <2>3, ChangingFacts
               DEF StoreInv, SettledUnlessHappened, CalmChangeInForce, CalmIsAlone, DroppedIsUnknown
<1>7. QED  BY <1>5, <1>6

\* A call that is over leaves the others as they are.
LEMMA OverFacts ==
  ASSUME StoreTypeOK, NEW c \in Callers, Over(c), UNCHANGED helper
  PROVE  /\ step'[c] = "idle"
         /\ \A d \in Callers \ {c} :
              /\ step'[d] = step[d] /\ command'[d] = command[d] /\ seen'[d] = seen[d]
              /\ calm'[d] = calm[d] /\ (Changes(d)' <=> Changes(d)) /\ (Happened(d)' <=> Happened(d))
         /\ \A h \in Hosts : Changing(h)' = Changing(h) \ {c}
<1>1. /\ step'[c] = "idle"
      /\ \A d \in Callers \ {c} : /\ step'[d] = step[d] /\ command'[d] = command[d]
                                  /\ seen'[d] = seen[d] /\ calm'[d] = calm[d]
  BY DEF StoreTypeOK, Over
<1>2. \A d \in Callers \ {c} : (Changes(d)' <=> Changes(d)) /\ (Happened(d)' <=> Happened(d))
  BY <1>1 DEF Changes, Happened
<1>3. QED  BY <1>1, <1>2 DEF Changing

\* The end of a call that has changed nothing: a get, or one that was refused.
LEMMA QuietEndKeepsInv ==
  ASSUME StoreTypeOK, StoreInv, NEW c \in Callers, step[c] # "idle", Over(c),
         ~Changes(c) \/ ~Happened(c), UNCHANGED <<helper, token, settled>>
  PROVE  StoreInv'
<1>1. SettledUnlessHappened'
  BY OverFacts, ChangingFacts DEF StoreInv, SettledUnlessHappened
<1>2. CalmChangeInForce' /\ DroppedIsUnknown' /\ ReadsInForce'
  BY OverFacts DEF StoreInv, CalmChangeInForce, DroppedIsUnknown, ReadsInForce
<1>3. CalmIsAlone'
  BY OverFacts, ChangingFacts DEF StoreInv, CalmIsAlone
<1>4. QED  BY <1>1, <1>2, <1>3 DEF StoreInv

\* The end of a change, with a conclusion that is none or is right.
LEMMA ChangeEndKeepsInv ==
  ASSUME StoreTypeOK, StoreInv, NEW c \in Callers, step[c] # "idle", Over(c), Changes(c),
         NEW v, settled' = [settled EXCEPT ![command[c].host] = v],
         v = Unknown \/ (calm[c] /\ v = token[command[c].host]),
         UNCHANGED <<helper, token>>
  PROVE  StoreInv'
<1> DEFINE host == command[c].host
<1>1. host \in Hosts /\ c \in Changing(host)
  BY ChangingFacts
<1>2. /\ settled'[host] = v
      /\ \A h \in Hosts \ {host} : settled'[h] = settled[h] /\ c \notin Changing(h)
  BY <1>1, ChangingFacts DEF StoreTypeOK
<1>3. SettledUnlessHappened'
  <2>1. settled'[host] \in {Unknown, token'[host]}
    BY <1>2
  <2>2. QED  BY <1>2, <2>1, OverFacts, ChangingFacts DEF StoreInv, SettledUnlessHappened
<1>4. \A d \in Callers \ {c} : step[d] # "idle" /\ calm[d] => command[d].host # host
  BY <1>1 DEF StoreInv, CalmIsAlone
<1>5. CalmChangeInForce'
  BY OverFacts DEF StoreInv, CalmChangeInForce
<1>6. CalmIsAlone'
  BY OverFacts, ChangingFacts DEF StoreInv, CalmIsAlone
<1>7. DroppedIsUnknown'
  <2>1. SUFFICES ASSUME NEW d \in Callers \ {c}, step[d] = "dropped", Changes(d)
                 PROVE  settled'[command[d].host] = Unknown
    BY OverFacts DEF DroppedIsUnknown
  <2>2. CASE command[d].host = host
    <3>1. d \in Changing(host)
      BY <1>1, <2>1, <2>2, ChangingFacts
    <3>2. ~calm[c]
      BY <2>1, <3>1 DEF StoreInv, CalmIsAlone
    <3>3. QED  BY <1>2, <2>2, <3>2
  <2>3. CASE command[d].host # host
    BY <1>2, <2>1, <2>3, ChangingFacts DEF StoreInv, DroppedIsUnknown
  <2>4. QED  BY <2>2, <2>3
<1>8. ReadsInForce'
  <2>1. SUFFICES ASSUME NEW d \in Callers \ {c}, step[d] = "done", ~Changes(d), calm[d]
                 PROVE  settled'[command[d].host] \in {Unknown, seen[d]}
    BY OverFacts DEF ReadsInForce
  <2>2. QED  BY <1>2, <1>4, <2>1, ChangingFacts DEF StoreInv, ReadsInForce
<1>9. QED  BY <1>3, <1>5, <1>6, <1>7, <1>8 DEF StoreInv

\* A handler leaves a statement that may still come: nothing is known of the
\* host from now on.
LEMMA LeaveKeepsInv ==
  ASSUME StoreTypeOK, StoreInv, NEW c \in Callers, step[c] \in {"begun", "lost"},
         step' = [step EXCEPT ![c] = "dropped"], UNCHANGED <<command, seen, calm>>,
         settled' = IF Changes(c) THEN [settled EXCEPT ![command[c].host] = Unknown] ELSE settled,
         UNCHANGED <<helper, token>>
  PROVE  StoreInv'
<1>1. /\ step'[c] = "dropped" /\ ~Happened(c)
      /\ \A d \in Callers \ {c} : step'[d] = step[d]
      /\ command[c].host \in Hosts
  BY ChangingFacts DEF StoreTypeOK, Happened
<1>2. \A d \in Callers : (Changes(d)' <=> Changes(d)) /\ (Happened(d) => Happened(d)')
  BY <1>1 DEF Changes, Happened
<1>3. \A h \in Hosts : Changing(h)' = Changing(h)
  BY <1>1, <1>2 DEF Changing
<1>4. \A h \in Hosts : settled'[h] \in {Unknown, settled[h]}
  BY <1>1 DEF StoreTypeOK
<1>5. \A d \in Callers : step[d] # "idle" => command[d].host \in Hosts
  BY ChangingFacts
<1>6. SettledUnlessHappened'
  BY <1>2, <1>3, <1>4, ChangingFacts DEF StoreInv, SettledUnlessHappened
<1>7. CalmChangeInForce' /\ CalmIsAlone'
  BY <1>1, <1>2, <1>3, <1>5 DEF StoreInv, CalmChangeInForce, CalmIsAlone
<1>8. DroppedIsUnknown'
  <2>1. Changes(c) => settled'[command[c].host] = Unknown
    BY <1>1 DEF StoreTypeOK
  <2>2. QED  BY <1>1, <1>2, <1>4, <1>5, <2>1 DEF StoreInv, DroppedIsUnknown
<1>9. ReadsInForce'
  BY <1>1, <1>2, <1>4, <1>5 DEF StoreInv, ReadsInForce
<1>10. QED  BY <1>6, <1>7, <1>8, <1>9 DEF StoreInv

LEMMA AnswerKeepsInv ==
  ASSUME StoreTypeOK, StoreInv, NEW c \in Callers, Answer(c)
  PROVE  StoreInv'
<1>1. step[c] # "idle" /\ UNCHANGED <<helper, token>>
  BY DEF Answer
<1>2. CASE step[c] = "lost"
  BY <1>1, <1>2, LeaveKeepsInv DEF Answer, Leave
<1>3. CASE step[c] # "lost" /\ (~Changes(c) \/ (step[c] = "failed" /\ helper # "database"))
  BY <1>1, <1>3, QuietEndKeepsInv DEF Answer, Leave, Happened
<1>4. CASE step[c] # "lost" /\ Changes(c) /\ ~(step[c] = "failed" /\ helper # "database")
  <2> DEFINE v == IF step[c] = "done" /\ calm[c] THEN command[c].token ELSE Unknown
  <2>1. Over(c) /\ settled' = [settled EXCEPT ![command[c].host] = v]
    BY <1>4 DEF Answer, Leave
  <2>2. v = Unknown \/ (calm[c] /\ v = token[command[c].host])
    BY <1>4 DEF StoreInv, CalmChangeInForce
  <2> HIDE DEF v
  <2>3. QED  BY <1>1, <1>4, <2>1, <2>2, ChangeEndKeepsInv
<1>5. QED  BY <1>2, <1>3, <1>4

LEMMA DropKeepsInv ==
  ASSUME StoreTypeOK, StoreInv, NEW c \in Callers, Drop(c)
  PROVE  StoreInv'
<1>1. step[c] # "idle" /\ UNCHANGED <<helper, token>>
  BY DEF Drop
<1>2. CASE step[c] \in {"begun", "lost"} /\ helper = "database"
  BY <1>1, <1>2, LeaveKeepsInv DEF Drop, Leave
<1>3. CASE ~(step[c] \in {"begun", "lost"} /\ helper = "database")
  <2>1. Over(c)
    BY <1>3 DEF Drop, Leave
  <2>2. CASE Changes(c)
    BY <1>1, <2>1, <2>2, ChangeEndKeepsInv DEF Drop
  <2>3. CASE ~Changes(c)
    BY <1>1, <2>1, <2>3, QuietEndKeepsInv DEF Drop
  <2>4. QED  BY <2>2, <2>3
<1>4. QED  BY <1>2, <1>3

\* A statement without a client comes late, to a host of which nothing is known.
LEMMA DroppedKeepsInv ==
  ASSUME StoreTypeOK, StoreInv, NEW c \in Callers, DroppedExecutes(c)
  PROVE  StoreInv'
<1>1. step[c] = "dropped" /\ Over(c) /\ ~Happened(c) /\ UNCHANGED <<helper, settled>>
  BY DEF DroppedExecutes, Happened
<1>2. CASE token' = token
  BY <1>1, <1>2, QuietEndKeepsInv
<1>3. CASE Changes(c) /\ token' = [token EXCEPT ![command[c].host] = command[c].token]
  <2> DEFINE host == command[c].host
  <2>1. /\ host \in Hosts /\ c \in Changing(host) /\ settled[host] = Unknown
        /\ \A h \in Hosts \ {host} : token'[h] = token[h] /\ c \notin Changing(h)
    BY <1>1, <1>3, ChangingFacts DEF StoreInv, DroppedIsUnknown, StoreTypeOK
  <2>2. SettledUnlessHappened'
    BY <1>1, <2>1, OverFacts, ChangingFacts DEF StoreInv, SettledUnlessHappened
  <2>3. \A d \in Callers \ {c} : step[d] # "idle" /\ calm[d] => command[d].host # host
    BY <1>1, <2>1 DEF StoreInv, CalmIsAlone
  <2>4. CalmChangeInForce'
    BY <1>1, <2>1, <2>3, OverFacts, ChangingFacts DEF StoreInv, CalmChangeInForce
  <2>5. CalmIsAlone'
    BY <1>1, OverFacts, ChangingFacts DEF StoreInv, CalmIsAlone
  <2>6. DroppedIsUnknown' /\ ReadsInForce'
    BY <1>1, OverFacts DEF StoreInv, DroppedIsUnknown, ReadsInForce
  <2>7. QED  BY <2>2, <2>4, <2>5, <2>6 DEF StoreInv
<1>4. QED  BY <1>2, <1>3 DEF DroppedExecutes

LEMMA StoreInvStep == StoreTypeOK /\ StoreInv /\ [StoreNext]_storeVars => StoreInv'
<1>1. SUFFICES ASSUME StoreTypeOK, StoreInv, [StoreNext]_storeVars PROVE StoreInv'
  OBVIOUS
<1>2. CASE UNCHANGED storeVars
  BY <1>1, <1>2 DEF storeVars, callVars, StoreInv, SettledUnlessHappened, CalmChangeInForce,
     CalmIsAlone, DroppedIsUnknown, ReadsInForce, Changing, Changes, Happened
<1>3. ASSUME NEW c \in Callers, Proceed(c) PROVE StoreInv'
  <2>1. CASE DatabaseExecutes(c) \/ Access(c)
    BY <1>1, <2>1, PerformKeepsInv DEF DatabaseExecutes, Access
  <2>2. CASE DatabaseFails(c) \/ TryLock(c) \/ Refuse(c)
    BY <1>1, <2>2, WaitKeepsInv
  <2>3. CASE DroppedExecutes(c)
    BY <1>1, <2>3, DroppedKeepsInv
  <2>4. CASE LostExecutes(c)
    <3>1. helper = "database"
      BY <1>1, <2>4 DEF StoreTypeOK, LostExecutes
    <3>2. QED  BY <1>1, <2>4, <3>1, PerformKeepsInv DEF LostExecutes
  <2>5. QED  BY <1>3, <2>1, <2>2, <2>3, <2>4 DEF Proceed
<1>4. QED  BY <1>1, <1>2, <1>3, BeginKeepsInv, AnswerKeepsInv, DropKeepsInv DEF StoreNext

\* Every behaviour of the store keeps its types and its inductive invariant.
THEOREM StoreInvariance == StoreSpec => [](StoreTypeOK /\ StoreInv)
<1>1. StoreInit => StoreTypeOK /\ StoreInv
  BY StoreInitTyped, InitStoreInv
<1>2. StoreTypeOK /\ StoreInv /\ [StoreNext]_storeVars => (StoreTypeOK /\ StoreInv)'
  BY StoreTypeStep, StoreInvStep
<1>3. QED  BY <1>1, <1>2, PTL DEF StoreSpec

-----------------------------------------------------------------------------
\* A provider_get makes no step on the store but the store's own.
LEMMA FetchUsesStore ==
  ASSUME TypeOK, NEW f \in Fetches, FetchStep(f) \/ Abandon(f)
  PROVE  StoreNext \/ UNCHANGED storeVars
<1>1. CASE Discovered(f)
  <2>1. [op |-> "get", host |-> target[f], token |-> NULL] \in Commands
    BY <1>1 DEF TypeOK, FetchTypeOK, Commands, Discovered
  <2>2. QED  BY <1>1, <2>1, FetchesAssumption DEF Discovered, StoreNext
<1>2. CASE Authorize(f) \/ Abandon(f)
  BY <1>2, FetchesAssumption DEF Authorize, Abandon, StoreNext
<1>3. QED  BY <1>1, <1>2 DEF FetchStep, Respond, ReadChunk, ResponseFails, Unusable, Succeed,
             Return

LEMMA ClientUsesStore == TypeOK /\ [Next]_vars => [StoreNext]_storeVars
<1>1. SUFFICES ASSUME TypeOK, [Next]_vars PROVE [StoreNext]_storeVars
  OBVIOUS
<1>2. CASE UNCHANGED vars
  BY <1>2 DEF vars
<1>3. ASSUME NEW c \in Callers, Proceed(c) \/ HandlerStep(c) PROVE StoreNext
  BY <1>3 DEF StoreNext, HandlerStep
<1>4. QED  BY <1>1, <1>2, <1>3, FetchUsesStore DEF Next, ProviderGet, Calls

\* The registry client's own variables.
LEMMA FetchKeepsTypes ==
  ASSUME FetchTypeOK, NEW f \in Fetches, FetchStep(f) \/ Abandon(f)
  PROVE  FetchTypeOK'
<1>1. MaxBody \in Nat
  BY LimitsAssumption
<1>2. ASSUME NEW n \in 0..MaxBody, Respond(f, n) PROVE FetchTypeOK'
  BY <1>1, <1>2 DEF FetchTypeOK, Respond, Running
<1>3. ASSUME NEW n \in 1..MaxBody, ReadChunk(f, n) PROVE FetchTypeOK'
  BY <1>1, <1>3 DEF FetchTypeOK, ReadChunk, Running, End, Outcomes
<1>4. CASE ResponseFails(f) \/ Unusable(f) \/ Succeed(f)
  BY <1>4 DEF FetchTypeOK, ResponseFails, Unusable, Succeed, End, Outcomes
<1>5. CASE Discovered(f) \/ Authorize(f)
  BY <1>5 DEF FetchTypeOK, Discovered, Authorize, Running, End, Outcomes
<1>6. CASE Return(f) \/ Abandon(f)
  BY <1>1, <1>6 DEF FetchTypeOK, Return, Abandon, Reset
<1>7. QED  BY <1>2, <1>3, <1>4, <1>5, <1>6 DEF FetchStep

LEMMA TypeStep == TypeOK /\ [Next]_vars => TypeOK'
<1>1. SUFFICES ASSUME TypeOK, [Next]_vars PROVE TypeOK'
  OBVIOUS
<1>2. StoreTypeOK'
  BY <1>1, ClientUsesStore, StoreTypeStep DEF TypeOK
<1>3. FetchTypeOK'
  <2>1. CASE UNCHANGED fetchVars
    BY <1>1, <2>1 DEF TypeOK, FetchTypeOK, fetchVars
  <2>2. ASSUME NEW f \in Fetches, NEW h \in Hosts, ProviderGet(f, h) PROVE FetchTypeOK'
    BY <1>1, <2>2 DEF TypeOK, FetchTypeOK, ProviderGet
  <2>3. QED  BY <1>1, <2>1, <2>2, FetchKeepsTypes DEF TypeOK, Next, vars
<1>4. QED  BY <1>2, <1>3 DEF TypeOK

\* The registry client and the store it uses keep their types.
THEOREM ClientTypeCorrect == Spec => []TypeOK
<1>1. Init => TypeOK
  <2>1. Init => FetchTypeOK
    BY LimitsAssumption DEF Init, FetchTypeOK
  <2>2. QED  BY <2>1, StoreInitTyped DEF Init, TypeOK
<1>2. QED  BY <1>1, TypeStep, PTL DEF Spec

\* client.rs:95 is all the registry client does with the store: whatever holds
\* of the store holds of it.
THEOREM ClientIsStoreUser == Spec => StoreSpec
<1>1. Init => StoreInit
  BY DEF Init
<1>2. QED  BY <1>1, ClientTypeCorrect, ClientUsesStore, PTL DEF Spec, StoreSpec

\* credential.rs:29 and 49, a change that was answered with 200 is in force
\* until the next change of its host.
THEOREM Acknowledged == Spec => []AcknowledgedInForce
<1>1. StoreTypeOK /\ StoreInv => AcknowledgedInForce
  BY DEF StoreInv, SettledUnlessHappened, AcknowledgedInForce
<1>2. QED  BY <1>1, StoreInvariance, ClientIsStoreUser, PTL

\* client.rs:95 and credential.rs:67, what is read of a host is what was
\* acknowledged last, unless a change of it is under way.
THEOREM NoStaleToken == Spec => []ReadsInForce
<1>1. StoreInv => ReadsInForce
  BY DEF StoreInv
<1>2. QED  BY <1>1, StoreInvariance, ClientIsStoreUser, PTL

\* client.rs:39-51, for all limits, body sizes and chunks.
THEOREM BodiesReadWhole == Spec => []BodyReadWhole
<1>1. Init => BodyReadWhole
  BY DEF Init, BodyReadWhole
<1>2. TypeOK /\ BodyReadWhole /\ [Next]_vars => BodyReadWhole'
  <2>1. SUFFICES ASSUME TypeOK, BodyReadWhole, [Next]_vars PROVE BodyReadWhole'
    OBVIOUS
  <2>2. DiscoveryLimit \in Nat /\ MetadataLimit \in Nat /\ MaxBody \in Nat
    BY LimitsAssumption
  <2>3. CASE UNCHANGED fetchVars
    BY <2>1, <2>3 DEF BodyReadWhole, Limit, fetchVars
  <2>4. ASSUME NEW f \in Fetches, NEW h \in Hosts, ProviderGet(f, h) PROVE BodyReadWhole'
    BY <2>1, <2>4 DEF TypeOK, FetchTypeOK, BodyReadWhole, Limit, ProviderGet
  <2>5. ASSUME NEW f \in Fetches, NEW n \in 0..MaxBody, Respond(f, n) PROVE BodyReadWhole'
    BY <2>1, <2>2, <2>5, OutcomesAssumption
       DEF TypeOK, FetchTypeOK, BodyReadWhole, Limit, Respond, Running, Outcomes
  <2>6. ASSUME NEW f \in Fetches, NEW n \in 1..MaxBody, ReadChunk(f, n) PROVE BodyReadWhole'
    BY <2>1, <2>2, <2>6, OutcomesAssumption
       DEF TypeOK, FetchTypeOK, BodyReadWhole, Limit, ReadChunk, Running, End, Outcomes
  <2>7. ASSUME NEW f \in Fetches, ResponseFails(f) \/ Unusable(f) \/ Succeed(f)
        PROVE  BodyReadWhole'
    BY <2>1, <2>7, OutcomesAssumption
       DEF TypeOK, FetchTypeOK, BodyReadWhole, Limit, ResponseFails, Unusable, Succeed, Running,
           End, Outcomes
  <2>8. ASSUME NEW f \in Fetches, Discovered(f) \/ Authorize(f) PROVE BodyReadWhole'
    BY <2>1, <2>8 DEF TypeOK, FetchTypeOK, BodyReadWhole, Limit, Discovered, Authorize, End
  <2>9. ASSUME NEW f \in Fetches, Return(f) \/ Abandon(f) PROVE BodyReadWhole'
    BY <2>1, <2>9 DEF TypeOK, FetchTypeOK, BodyReadWhole, Limit, Return, Abandon, Reset
  <2>10. QED  BY <2>1, <2>3, <2>4, <2>5, <2>6, <2>7, <2>8, <2>9 DEF Next, FetchStep, vars
<1>3. QED  BY <1>1, <1>2, ClientTypeCorrect, PTL DEF Spec

-----------------------------------------------------------------------------
(***************************************************************************)
(* What FetchEnds rests on, besides the fairness: a provider_get waits for *)
(* no other caller's step, and its own are bounded by the sizes of the two *)
(* bodies.                                                                 *)
(***************************************************************************)

\* The store works for a provider_get only while it waits for its token, or when
\* it has given up because the connection failed, and a body is never read past
\* its end.
InStore(f) == step[f] \in {"begun", "locked", "done", "failed", "lost"}

InStep(f) ==
  /\ step[f] # "idle" => /\ at[f] = "token"
                         /\ IF outcome[f] = NULL THEN InStore(f) ELSE step[f] = "dropped"
  /\ at[f] \in {"discovery", "metadata"} => buffer[f] <= body[f]

FetchInv == \A f \in Fetches : at[f] # "idle" => InStep(f)

\* The steps left of the call of the store.
StoreLeft(f) ==
  CASE step[f] = "begun"              -> 3
    [] step[f] \in {"locked", "lost"}  -> 2
    [] step[f] \in {"done", "dropped"} -> 1
    [] OTHER                          -> 0

\* The steps left of a provider_get, if every chunk is as small as it can be and
\* the bodies still to come are as large as they can.
StepsLeft(f) ==
  IF outcome[f] # NULL THEN 1 + StoreLeft(f)
  ELSE CASE at[f] = "metadata"  -> 2 + (body[f] - buffer[f])
         [] at[f] = "request"   -> 3 + MaxBody
         [] at[f] = "token"     -> 4 + MaxBody + StoreLeft(f)
         [] at[f] = "discovery" -> 8 + MaxBody + (body[f] - buffer[f])
         [] at[f] = "discover"  -> 9 + MaxBody + MaxBody
         [] OTHER               -> 0

Stands(f) == <<at[f], body[f], buffer[f], outcome[f], step[f]>>

CountsDown ==
  \A f \in Fetches : at[f] # "idle" => StepsLeft(f)' < StepsLeft(f) \/ UNCHANGED Stands(f)

\* The others leave a provider_get alone.
LEMMA OthersLeaveFetch ==
  ASSUME TypeOK, NEW f \in Fetches, NEW c \in Callers, c # f,
         \/ Proceed(c) /\ UNCHANGED fetchVars
         \/ c \in Calls /\ HandlerStep(c) /\ UNCHANGED fetchVars
         \/ c \in Fetches /\ (FetchStep(c) \/ Abandon(c) \/ \E h \in Hosts : ProviderGet(c, h))
  PROVE  UNCHANGED Stands(f)
<1> f \in Callers
  BY FetchesAssumption
<1> USE DEF TypeOK, StoreTypeOK, FetchTypeOK, Stands
<1>1. ASSUME \/ Proceed(c) \/ Answer(c) \/ Drop(c) \/ \E cmd : Begin(c, cmd)
      PROVE  UNCHANGED step[f]
  BY <1>1 DEF Proceed, DatabaseExecutes, DatabaseFails, TryLock, Access, Refuse, LostExecutes,
       DroppedExecutes, Answer, Drop, Leave, Over, Begin
<1>2. CASE (Proceed(c) \/ HandlerStep(c)) /\ UNCHANGED fetchVars
  BY <1>1, <1>2 DEF HandlerStep, fetchVars
<1>3. ASSUME c \in Fetches, FetchStep(c) \/ Abandon(c) \/ \E h \in Hosts : ProviderGet(c, h)
      PROVE  UNCHANGED step[f]
  BY <1>1, <1>3 DEF FetchStep, Abandon, ProviderGet, Respond, ReadChunk, ResponseFails, Unusable,
       Discovered, Authorize, Succeed, Return, storeVars, callVars
<1>4. ASSUME c \in Fetches, FetchStep(c) \/ Abandon(c) \/ \E h \in Hosts : ProviderGet(c, h)
      PROVE  UNCHANGED <<at[f], body[f], buffer[f], outcome[f]>>
  BY <1>4 DEF FetchStep, Abandon, ProviderGet, Respond, ReadChunk, ResponseFails, Unusable,
       Discovered, Authorize, Succeed, Return, Reset, End
<1> QED
  BY <1>2, <1>3, <1>4

\* What a provider_get, and the store for it, do to the two invariants above.
LEMMA OwnFetchStep ==
  ASSUME TypeOK, FetchInv, NEW f \in Fetches, at[f] # "idle",
         (Proceed(f) /\ UNCHANGED fetchVars) \/ FetchStep(f)
  PROVE  StepsLeft(f)' < StepsLeft(f) /\ (at'[f] # "idle" => InStep(f)')
<1> f \in Callers /\ MaxBody \in Nat
  BY FetchesAssumption, LimitsAssumption
<1> USE DEF TypeOK, StoreTypeOK, FetchTypeOK
<1>1. CASE Proceed(f) /\ UNCHANGED fetchVars
  <2>1. step[f] # "idle"
    BY <1>1 DEF Proceed, DatabaseExecutes, DatabaseFails, TryLock, Access, Refuse, LostExecutes,
         DroppedExecutes
  <2>2. /\ at[f] = "token"
        /\ IF outcome[f] = NULL THEN InStore(f) ELSE step[f] = "dropped"
    BY <2>1 DEF FetchInv, InStep
  <2>3. at'[f] = "token" /\ outcome'[f] = outcome[f]
    BY <1>1, <2>2 DEF fetchVars
  <2>4. StoreLeft(f)' < StoreLeft(f)
    BY <1>1 DEF Proceed, DatabaseExecutes, DatabaseFails, TryLock, Access, Refuse, LostExecutes,
         DroppedExecutes, Over, StoreLeft
  <2>5. StoreLeft(f) \in 0..3 /\ StoreLeft(f)' \in 0..3
    BY DEF StoreLeft
  <2>6. InStep(f)'
    <3>1. CASE outcome[f] = NULL
      <4>1. InStore(f)'
        BY <1>1, <2>2, <3>1 DEF Proceed, DatabaseExecutes, DatabaseFails, TryLock, Access, Refuse,
             LostExecutes, DroppedExecutes, InStore
      <4> QED
        BY <2>3, <3>1, <4>1 DEF InStep
    <3>2. CASE outcome[f] # NULL
      <4>1. step'[f] = "idle"
        BY <1>1, <2>2, <3>2 DEF Proceed, DatabaseExecutes, DatabaseFails, TryLock, Access, Refuse,
             LostExecutes, DroppedExecutes, Over
      <4> QED
        BY <2>3, <4>1 DEF InStep
    <3> QED
      BY <3>1, <3>2
  <2> QED
    BY <2>2, <2>3, <2>4, <2>5, <2>6 DEF StepsLeft
<1>2. ASSUME NEW n \in 0..MaxBody, Respond(f, n)
      PROVE  /\ StepsLeft(f)' < StepsLeft(f) /\ UNCHANGED step /\ at[f] # "token"
             /\ buffer'[f] <= body'[f] /\ at'[f] # "token"
  BY <1>2 DEF Respond, Running, StepsLeft, storeVars, callVars
<1>3. ASSUME NEW n \in 1..MaxBody, ReadChunk(f, n)
      PROVE  /\ StepsLeft(f)' < StepsLeft(f) /\ UNCHANGED step /\ at[f] # "token"
             /\ buffer'[f] <= body'[f] /\ at'[f] # "token"
  <2>1. /\ Running(f) /\ at[f] \in {"discovery", "metadata"} /\ buffer[f] + n <= body[f]
        /\ UNCHANGED <<step, at, body>>
    BY <1>3 DEF ReadChunk, End, storeVars, callVars
  <2>2. CASE End(f, "ProviderResponseTooLarge")
    <3>1. step'[f] = "idle" /\ outcome'[f] # NULL /\ UNCHANGED buffer
      BY <2>1, <2>2, OutcomesAssumption DEF End, Outcomes, FetchInv, InStep
    <3>2. StepsLeft(f)' = 1
      BY <3>1 DEF StepsLeft, StoreLeft
    <3>3. StepsLeft(f) > 1
      BY <2>1 DEF Running, StepsLeft
    <3> QED
      BY <2>1, <3>1, <3>2, <3>3
  <2>3. CASE buffer' = [buffer EXCEPT ![f] = @ + n] /\ UNCHANGED outcome
    BY <2>1, <2>3 DEF Running, StepsLeft
  <2> QED
    BY <1>3, <2>1, <2>2, <2>3 DEF ReadChunk
<1>4. ASSUME ResponseFails(f) \/ Unusable(f) \/ Succeed(f)
      PROVE  /\ StepsLeft(f)' < StepsLeft(f) /\ UNCHANGED <<step, at, buffer, body>>
             /\ at[f] # "token"
  <2>1. Running(f) /\ at[f] # "token" /\ UNCHANGED step
    BY <1>4 DEF ResponseFails, Unusable, Succeed, storeVars, callVars
  <2>2. outcome'[f] # NULL /\ UNCHANGED <<at, buffer, body>>
    BY <1>4, OutcomesAssumption DEF ResponseFails, Unusable, Succeed, End, Outcomes
  <2>3. StepsLeft(f) > 1 /\ step[f] = "idle"
    BY <2>1 DEF Running, StepsLeft, FetchInv, InStep
  <2> QED
    BY <2>1, <2>2, <2>3 DEF StepsLeft, StoreLeft
<1>5. ASSUME Discovered(f)
      PROVE  /\ StepsLeft(f)' < StepsLeft(f) /\ step'[f] = "begun"
             /\ at'[f] = "token" /\ outcome'[f] = NULL
  <2>1. /\ Running(f) /\ at[f] = "discovery" /\ buffer[f] = body[f] /\ step'[f] = "begun"
        /\ at'[f] = "token" /\ outcome' = outcome
    BY <1>5 DEF Discovered, Begin
  <2> QED
    BY <2>1 DEF StepsLeft, StoreLeft, Running
<1>6. ASSUME Authorize(f)
      PROVE  StepsLeft(f)' < StepsLeft(f) /\ InStep(f)'
  <2>1. Running(f) /\ at[f] = "token"
    BY <1>6 DEF Authorize
  <2>2. StoreLeft(f) \in 0..3
    BY DEF StoreLeft
  <2>3. CASE step[f] = "done"
    <3>1. step'[f] = "idle" /\ at'[f] = "request" /\ outcome' = outcome
      BY <1>6, <2>3 DEF Authorize, Answer, Leave, Over
    <3> QED
      BY <2>1, <2>2, <3>1 DEF StepsLeft, Running, InStep
  <2>4. CASE step[f] # "done"
    <3>1. step'[f] \in {"idle", "dropped"} /\ at' = at /\ outcome'[f] # NULL
      BY <1>6, <2>4, OutcomesAssumption DEF Authorize, Answer, Leave, Over, End, Outcomes
    <3>2. StoreLeft(f)' \in 0..1
      BY <3>1 DEF StoreLeft
    <3> QED
      BY <2>1, <2>2, <3>1, <3>2 DEF StepsLeft, Running, InStep
  <2> QED
    BY <2>3, <2>4
<1>7. ASSUME Return(f) PROVE StepsLeft(f)' < StepsLeft(f) /\ at'[f] = "idle"
  BY <1>7 DEF Return, Reset, StepsLeft, StoreLeft
<1> QED
  BY <1>1, <1>2, <1>3, <1>4, <1>5, <1>6, <1>7 DEF FetchStep, FetchInv, InStep, InStore

\* Where a provider_get stands after a step, whoever has taken it.
LEMMA FetchMoves ==
  ASSUME TypeOK, [Next]_vars, NEW f \in Fetches
  PROVE  \/ UNCHANGED Stands(f)
         \/ (Proceed(f) /\ UNCHANGED fetchVars) \/ FetchStep(f)
         \/ Abandon(f) \/ \E h \in Hosts : ProviderGet(f, h)
<1> f \in Callers /\ f \notin Calls /\ Calls \subseteq Callers
  BY FetchesAssumption DEF Calls
<1>1. CASE UNCHANGED vars
  BY <1>1 DEF vars, storeVars, callVars, fetchVars, Stands
<1>2. ASSUME NEW c \in Callers, Proceed(c), UNCHANGED fetchVars, c # f PROVE UNCHANGED Stands(f)
  BY <1>2, OthersLeaveFetch
<1>3. ASSUME NEW c \in Calls, HandlerStep(c), UNCHANGED fetchVars PROVE UNCHANGED Stands(f)
  BY <1>3, OthersLeaveFetch
<1>4. ASSUME NEW c \in Fetches, c # f,
             FetchStep(c) \/ Abandon(c) \/ \E h \in Hosts : ProviderGet(c, h)
      PROVE  UNCHANGED Stands(f)
  BY <1>4, OthersLeaveFetch, FetchesAssumption
<1> QED
  BY <1>1, <1>2, <1>3, <1>4 DEF Next

LEMMA FetchInvHolds == Spec => [](TypeOK /\ FetchInv)
<1>1. Init => FetchInv
  BY DEF Init, FetchInv
<1>2. ASSUME TypeOK, FetchInv, [Next]_vars PROVE FetchInv'
  <2> SUFFICES ASSUME NEW f \in Fetches, at'[f] # "idle"
               PROVE  InStep(f)'
    BY DEF FetchInv
  <2>1. CASE UNCHANGED Stands(f)
    BY <1>2, <2>1 DEF Stands, FetchInv, InStep, InStore
  <2>2. CASE (Proceed(f) /\ UNCHANGED fetchVars) \/ FetchStep(f)
    <3>1. at[f] # "idle"
      <4>1. CASE UNCHANGED fetchVars
        BY <4>1 DEF fetchVars
      <4>2. CASE Return(f)
        BY <1>2, <4>2 DEF Return, Reset, TypeOK, FetchTypeOK
      <4>3. CASE FetchStep(f) /\ ~Return(f)
        BY <4>3 DEF FetchStep, Respond, ReadChunk, ResponseFails, Unusable, Discovered, Authorize,
             Succeed, Running
      <4> QED
        BY <2>2, <4>1, <4>2, <4>3
    <3> QED
      BY <1>2, <2>2, <3>1, OwnFetchStep
  <2>3. CASE Abandon(f)
    BY <1>2, <2>3 DEF Abandon, Reset, TypeOK, FetchTypeOK
  <2>4. ASSUME NEW h \in Hosts, ProviderGet(f, h)
        PROVE  at'[f] = "discover" /\ step'[f] = "idle"
    BY <1>2, <2>4 DEF ProviderGet, storeVars, callVars, TypeOK, FetchTypeOK
  <2> QED
    BY <1>2, <2>1, <2>2, <2>3, <2>4, FetchMoves DEF InStep
<1> QED
  BY <1>1, <1>2, ClientTypeCorrect, PTL DEF Spec

\* Every step that changes where a provider_get stands brings it closer to its
\* end, and no step of another caller changes it: it cannot be made to start
\* again, nor be held up by small chunks for longer than the body lasts.
THEOREM EveryFetchStepCounts == Spec => [][CountsDown]_vars
<1>1. ASSUME TypeOK, FetchInv, [Next]_vars PROVE CountsDown
  <2> SUFFICES ASSUME NEW f \in Fetches, at[f] # "idle"
               PROVE  StepsLeft(f)' < StepsLeft(f) \/ UNCHANGED Stands(f)
    BY DEF CountsDown
  <2>1. CASE (Proceed(f) /\ UNCHANGED fetchVars) \/ FetchStep(f)
    BY <1>1, <2>1, OwnFetchStep
  <2>2. CASE Abandon(f)
    <3>1. StepsLeft(f)' = 0
      BY <1>1, <2>2 DEF Abandon, Reset, StepsLeft, TypeOK, FetchTypeOK
    <3>2. StepsLeft(f) > 0
      <4>1. StoreLeft(f) \in Nat /\ MaxBody \in Nat
        BY LimitsAssumption DEF StoreLeft
      <4> QED
        BY <1>1, <4>1 DEF StepsLeft, FetchInv, InStep, TypeOK, FetchTypeOK
    <3> QED
      BY <3>1, <3>2
  <2>3. ~\E h \in Hosts : ProviderGet(f, h)
    BY DEF ProviderGet
  <2> QED
    BY <1>1, <2>1, <2>2, <2>3, FetchMoves
<1> QED
  BY <1>1, FetchInvHolds, PTL DEF Spec
==============================================================================
