----------------------- MODULE IdempotentRepositoryProofs -----------------------
(***************************************************************************)
(* What execute_idempotent promises over two separate stores, for any      *)
(* number of callers, keys and aggregates, any decision function and any   *)
(* combination of faults.                                                  *)
(***************************************************************************)
EXTENDS IdempotentRepository, EventStoreProofs

PendingEntry == [state : {"pending"}, owner : Callers, expired : BOOLEAN]
CompleteEntry == [state : {"complete"}, value : Seq(Envelope)]
Entry == {Absent} \cup PendingEntry \cup CompleteEntry

CallTypeOK ==
    /\ entries \in [Keys -> Entry]
    /\ pc \in [Callers -> PCs]
    /\ key \in [Callers -> Keys \cup {NoKey}]
    /\ committed \in [Callers -> Seq(Envelope)]
    /\ answer \in [Callers -> Answers]
    /\ \A c \in Callers : pc[c] # "idle" => key[c] \in Keys

(* IsCommitOf and Executions on a given log. *)
CommitIn(log, value, k) ==
    /\ Len(value) = 1
    /\ value[1].payload = k
    /\ value[1].sequence \in 1..Len(log)
    /\ log[value[1].sequence] = value[1]

ExecutionsIn(log, k) == {i \in 1..Len(log) : log[i].payload = k}

(* Whatever a caller will answer or has recorded is in the log. *)
ResultsInv ==
    /\ \A c \in Callers : answer[c] = "ok" => pc[c] = "done"
    /\ \A c \in Callers :
          pc[c] = "save" \/ answer[c] = "ok" => CommitIn(global, committed[c], key[c])
    /\ \A k \in Keys : entries[k].state = "complete" => CommitIn(global, entries[k].value, k)

(* The owner of a reservation executes it until it ends it. *)
Unbroken == faults \cap {"crash", "idempotency_failure", "idempotency_reply_lost"} = {}

OwnerInv ==
    Unbroken =>
       \A k \in Keys :
          entries[k].state = "pending" =>
             Executing(entries[k].owner) /\ key[entries[k].owner] = k

(* While no caller loses its key, who executes owns the reservation. *)
ExclusiveInv ==
    ~LosesItsKey =>
       /\ \A c \in Callers : Executing(c) => entries[key[c]] = Pending(c)
       /\ \A k \in Keys : entries[k].state = "pending" => entries[k].expired = FALSE

(* A key that was executed is never free, and nobody is about to execute   *)
(* or to release it.                                                       *)
OnceInv ==
    ~LosesItsKey /\ faults \cap {"purge", "append_reply_lost"} = {} =>
       /\ \A k \in Keys : \A i, j \in ExecutionsIn(global, k) : i = j
       /\ \A k \in Keys : entries[k] = Absent => ExecutionsIn(global, k) = {}
       /\ \A c \in Callers :
             pc[c] \in {"load", "append", "release"} => ExecutionsIn(global, key[c]) = {}

IdempotentInv ==
    /\ StoreInv
    /\ CallTypeOK
    /\ ResultsInv
    /\ OwnerInv
    /\ ExclusiveInv
    /\ OnceInv

-------------------------------------------------------------------------------
(* The three kinds of records are told apart by their state. *)
LEMMA EntryKinds ==
    ASSUME NEW e \in Entry
    PROVE  /\ e.state = "absent" => e = Absent
           /\ e.state = "pending" => e \in PendingEntry
           /\ e.state = "complete" => e \in CompleteEntry
           /\ e.state \in {"absent", "pending", "complete"}
BY DEF Entry, PendingEntry, CompleteEntry, Absent

LEMMA NewEntries ==
    /\ Absent \in Entry
    /\ \A c \in Callers : Pending(c) \in Entry
    /\ \A v \in Seq(Envelope) : Complete(v) \in Entry
BY DEF Entry, PendingEntry, CompleteEntry, Absent, Pending, Complete

LEMMA EntryFields ==
    /\ Absent.state = "absent"
    /\ \A c : Pending(c).state = "pending" /\ Pending(c).owner = c /\ Pending(c).expired = FALSE
    /\ \A v : Complete(v).state = "complete" /\ Complete(v).value = v
    /\ \A c, d : Pending(c) = Pending(d) => c = d
    /\ \A c : Pending(c) # Absent
    /\ \A v : Complete(v) # Absent
BY DEF Absent, Pending, Complete

-------------------------------------------------------------------------------
(* The command's append: one envelope at the end of the log. *)
LEMMA AppendOne ==
    ASSUME StoreInv, NEW k \in Keys, NEW expected,
           AppendEvents(Target[k], expected, <<k>>)
    PROVE  /\ StoreInv'
           /\ NewEnvelopes(Target[k], <<k>>) \in Seq(Envelope)
           /\ Len(global) \in Nat
           /\ Len(global') = Len(global) + 1
           /\ \A i \in 1..Len(global) : global'[i] = global[i]
           /\ global'[Len(global) + 1].payload = k
           /\ CommitIn(global', NewEnvelopes(Target[k], <<k>>), k)
<1>1. Target[k] \in Ids /\ <<k>> \in Seq(Payloads) /\ Len(<<k>>) = 1 /\ <<k>>[1] = k
  BY IdempotentAssumption DEF IdempotentAssumption
<1>2. StoreTypeOK
  BY DEF StoreInv
<1>3. StoreInv'
  BY <1>1, AppendKeepsStoreInv
<1>4. /\ Len(global) \in Nat
      /\ next_sequence = Len(global) + 1
      /\ Len(streams[Target[k]]) \in Nat
  BY <1>1, <1>2, LenProperties DEF StoreInv, StoreTypeOK, NumberedInOrder
<1> DEFINE id == Target[k]
           payloads == <<k>>
           new == NewEnvelopes(id, payloads)
<1>5. /\ Len(global') = Len(global) + Len(payloads)
      /\ \A i \in 1..Len(global) : global'[i] = global[i]
      /\ \A i \in 1..Len(payloads) : global'[Len(global) + i] = new[i]
  BY <1>1, <1>2, AppendAdds
<1>6. /\ new \in [1..1 -> Envelope]
      /\ new[1].sequence = Len(global) + 1
      /\ new[1].payload = k
  <2>1. [id |-> id, revision |-> Len(streams[id]) + 1, sequence |-> next_sequence + (1 - 1),
         payload |-> k] \in Envelope
    BY <1>1, <1>4, IdempotentAssumption DEF Envelope, IdempotentAssumption
  <2> QED
    BY <1>1, <1>4, <2>1 DEF NewEnvelopes, ActualRevision
<1>7. new \in Seq(Envelope) /\ Len(new) = 1
  BY <1>6, FunctionIsSeq
<1> HIDE DEF new, id, payloads
<1>8. global'[Len(global) + 1] = new[1] /\ Len(global') = Len(global) + 1
  BY <1>1, <1>5 DEF payloads
<1>9. CommitIn(global', new, k)
  BY <1>4, <1>6, <1>7, <1>8 DEF CommitIn
<1> QED
  BY <1>3, <1>4, <1>5, <1>6, <1>7, <1>8, <1>9 DEF new, id, payloads

(* A step of the system leaves the log alone or is a command's append. *)
Appends(c) ==
    /\ pc[c] = "append"
    /\ AppendEvents(Target[key[c]], Exact(loaded[c].revision), <<key[c]>>)

LEMMA StoreSteps ==
    ASSUME [Next]_vars
    PROVE  UNCHANGED storeVars \/ \E c \in Callers : Appends(c)
<1>1. ASSUME NEW c \in Callers, Invoke(c) \/ Crash(c)
      PROVE  UNCHANGED storeVars
  BY <1>1 DEF Invoke, Crash, Reset
<1>2. ASSUME NEW c \in Callers, Step(c)
      PROVE  UNCHANGED storeVars \/ Appends(c)
  <2>1. CASE AppendCommand(c) \/ AppendReplyLost(c)
    BY <2>1 DEF AppendCommand, AppendReplyLost, Appends
  <2>2. CASE Lookup(c) \/ Reserve(c) \/ IdempotencyCallFails(c) \/ LoadAggregate(c)
    BY <2>2 DEF Lookup, Reserve, IdempotencyCallFails, LoadAggregate
  <2>3. CASE CommandFails(c) \/ SaveResult(c) \/ Release(c)
    BY <2>3 DEF CommandFails, Fail, SaveResult, Release
  <2>4. CASE IdempotencyReplyLost(c) \/ Return(c)
    BY <2>4 DEF IdempotencyReplyLost, Return, Reset
  <2> QED
    BY <1>2, <2>1, <2>2, <2>3, <2>4 DEF Step
<1>3. ASSUME NEW k \in Keys, LeaseExpires(k) \/ \E owner \in Callers : Heartbeat(k, owner)
      PROVE  UNCHANGED storeVars
  BY <1>3 DEF LeaseExpires, Heartbeat
<1>4. CASE ExpireStalePending \/ ExpireCompletedBefore \/ ClearEntries
  BY <1>4 DEF ExpireStalePending, ExpireCompletedBefore, ClearEntries
<1>5. CASE UNCHANGED vars
  BY <1>5 DEF vars
<1> QED
  BY <1>1, <1>2, <1>3, <1>4, <1>5 DEF Next

(* The log only grows: the store keeps its invariant, and a committed      *)
(* result stays where it is.                                               *)
LEMMA LogExtends ==
    ASSUME StoreInv, CallTypeOK, [Next]_vars
    PROVE  /\ StoreInv'
           /\ \A v, k : CommitIn(global, v, k) => CommitIn(global', v, k)
<1>1. CASE UNCHANGED storeVars
  <2>1. StoreInv'
    BY <1>1 DEF storeVars, StoreInv, StoreTypeOK, StreamsIndexTheLog, LogIsIndexed, NumberedInOrder
  <2>2. global' = global
    BY <1>1 DEF storeVars
  <2> QED
    BY <2>1, <2>2
<1>2. ASSUME NEW c \in Callers, Appends(c)
      PROVE  /\ StoreInv'
             /\ \A v, k : CommitIn(global, v, k) => CommitIn(global', v, k)
  <2>0. PICK k \in Keys : key[c] = k
    BY <1>2 DEF Appends, CallTypeOK
  <2>1. PICK expected : AppendEvents(Target[k], expected, <<k>>)
    BY <1>2, <2>0 DEF Appends
  <2>2. /\ StoreInv'
        /\ Len(global) \in Nat
        /\ Len(global') = Len(global) + 1
        /\ \A i \in 1..Len(global) : global'[i] = global[i]
    BY <2>1, AppendOne
  <2> QED
    BY <2>2 DEF CommitIn
<1> QED
  BY <1>1, <1>2, StoreSteps

-------------------------------------------------------------------------------
(* Expiring or renewing a lease keeps the record pending and its owner. *)
LEMMA LeaseChange ==
    ASSUME CallTypeOK, NEW k \in Keys, entries[k].state = "pending", NEW b \in BOOLEAN,
           entries' = [entries EXCEPT ![k].expired = b]
    PROVE  /\ entries' \in [Keys -> Entry]
           /\ entries'[k].state = "pending"
           /\ entries'[k].owner = entries[k].owner
           /\ \A j \in Keys : entries'[j].state = entries[j].state
           /\ \A j \in Keys \ {k} : entries'[j] = entries[j]
<1>1. entries[k] \in PendingEntry /\ entries \in [Keys -> Entry]
  BY EntryKinds DEF CallTypeOK
<1> DEFINE e == [entries[k] EXCEPT !.expired = b]
<1>2. e \in PendingEntry /\ e.owner = entries[k].owner /\ e.state = "pending"
  BY <1>1 DEF PendingEntry
<1>3. entries' = [entries EXCEPT ![k] = e]
  OBVIOUS
<1> HIDE DEF e
<1>4. e \in Entry
  BY <1>2 DEF Entry
<1> QED
  BY <1>1, <1>2, <1>3, <1>4

LEMMA CallTypes ==
    ASSUME IdempotentInv, [Next]_vars
    PROVE  CallTypeOK'
<1> USE DEF CallTypeOK
<1>0. CallTypeOK /\ StoreInv
  BY DEF IdempotentInv
<1>1. ASSUME NEW c \in Callers, Invoke(c)
      PROVE  CallTypeOK'
  BY <1>0, <1>1 DEF Invoke, PCs
<1>2. ASSUME NEW c \in Callers, Crash(c) \/ Return(c)
      PROVE  CallTypeOK'
  <2>1. <<>> \in Seq(Envelope)
    OBVIOUS
  <2>2. Reset(c)
    BY <1>2 DEF Crash, Return
  <2>3. committed' \in [Callers -> Seq(Envelope)] /\ entries' = entries
    BY <1>0, <2>1, <2>2 DEF Reset
  <2>4. /\ pc' \in [Callers -> PCs] /\ key' \in [Callers -> Keys \cup {NoKey}]
        /\ answer' \in [Callers -> Answers]
        /\ pc'[c] = "idle"
        /\ \A d \in Callers \ {c} : pc'[d] = pc[d] /\ key'[d] = key[d]
    BY <1>0, <2>2 DEF Reset, PCs, Answers
  <2> QED
    BY <1>0, <2>3, <2>4
<1>3. ASSUME NEW c \in Callers, Lookup(c)
      PROVE  CallTypeOK'
  <2>1. key[c] \in Keys /\ pc[c] = "lookup"
    BY <1>0, <1>3 DEF Lookup
  <2>2. entries[key[c]].state = "complete" => entries[key[c]].value \in Seq(Envelope)
    BY <1>0, <2>1, EntryKinds DEF CompleteEntry
  <2>3. /\ entries' = entries /\ key' = key
        /\ pc' \in [Callers -> PCs] /\ answer' \in [Callers -> Answers]
        /\ \A d \in Callers \ {c} : pc'[d] = pc[d]
    <3>1. CASE Wait(c)
      BY <1>0, <1>3, <3>1 DEF Lookup, Wait, Answer, PCs, Answers
    <3>2. CASE ~Wait(c)
      BY <1>0, <1>3, <3>2 DEF Lookup, Answer, PCs, Answers
    <3> QED
      BY <3>1, <3>2
  <2>4. committed' \in [Callers -> Seq(Envelope)]
    BY <1>0, <1>3, <2>2 DEF Lookup
  <2> QED
    BY <1>0, <2>1, <2>3, <2>4
<1>4. ASSUME NEW c \in Callers, Reserve(c)
      PROVE  CallTypeOK'
  <2>1. key[c] \in Keys /\ pc[c] = "reserve"
    BY <1>0, <1>4 DEF Reserve
  <2> QED
    BY <1>0, <1>4, <2>1, NewEntries DEF Reserve, Wait, Answer, PCs, Answers
<1>5. ASSUME NEW c \in Callers, IdempotencyCallFails(c) \/ LoadAggregate(c) \/ CommandFails(c)
      PROVE  CallTypeOK'
  BY <1>0, <1>5 DEF IdempotencyCallFails, LoadAggregate, CommandFails, Fail, Answer, PCs, Answers
<1>6. ASSUME NEW c \in Callers, AppendCommand(c)
      PROVE  CallTypeOK'
  <2>1. key[c] \in Keys /\ pc[c] = "append"
    BY <1>0, <1>6 DEF AppendCommand
  <2>2. NewEnvelopes(Target[key[c]], <<key[c]>>) \in Seq(Envelope)
    BY <1>0, <1>6, <2>1, AppendOne DEF AppendCommand
  <2> QED
    BY <1>0, <1>6, <2>1, <2>2 DEF AppendCommand, PCs
<1>7. ASSUME NEW c \in Callers, AppendReplyLost(c)
      PROVE  CallTypeOK'
  BY <1>0, <1>7 DEF AppendReplyLost, PCs, Answers
<1>8. ASSUME NEW c \in Callers, SaveResult(c) \/ Release(c)
      PROVE  CallTypeOK'
  <2>1. key[c] \in Keys /\ pc[c] \in {"save", "release"}
    BY <1>0, <1>8 DEF SaveResult, Release
  <2>2. Complete(committed[c]) \in Entry /\ Absent \in Entry
    BY <1>0, NewEntries
  <2>3. CASE SaveResult(c)
    <3>1. entries' \in [Keys -> Entry] /\ key' = key /\ committed' = committed
      BY <1>0, <2>1, <2>2, <2>3 DEF SaveResult
    <3>2. /\ pc' \in [Callers -> PCs] /\ answer' \in [Callers -> Answers]
          /\ \A d \in Callers \ {c} : pc'[d] = pc[d]
      BY <1>0, <2>3 DEF SaveResult, RetryOrGiveUp, Answer, PCs, Answers
    <3> QED
      BY <1>0, <2>1, <3>1, <3>2
  <2>4. CASE Release(c)
    BY <1>0, <2>1, <2>2, <2>4 DEF Release, RetryOrGiveUp, Answer, PCs, Answers
  <2> QED
    BY <1>8, <2>3, <2>4
<1>9. ASSUME NEW c \in Callers, IdempotencyReplyLost(c)
      PROVE  CallTypeOK'
  <2>1. key[c] \in Keys /\ pc[c] \in {"reserve", "save", "release"}
    BY <1>0, <1>9 DEF IdempotencyReplyLost
  <2>2. Complete(committed[c]) \in Entry /\ Absent \in Entry /\ Pending(c) \in Entry
    BY <1>0, NewEntries
  <2>3. entries' \in [Keys -> Entry] /\ key' = key /\ committed' = committed
    BY <1>0, <1>9, <2>1, <2>2 DEF IdempotencyReplyLost
  <2>4. /\ pc' \in [Callers -> PCs] /\ answer' \in [Callers -> Answers]
        /\ \A d \in Callers \ {c} : pc'[d] = pc[d]
    <3>1. CASE Wait(c)
      BY <1>0, <1>9, <3>1 DEF IdempotencyReplyLost, Wait, RetryOrGiveUp, Answer, PCs, Answers
    <3>2. CASE ~Wait(c)
      BY <1>0, <1>9, <3>2 DEF IdempotencyReplyLost, RetryOrGiveUp, Answer, PCs, Answers
    <3> QED
      BY <3>1, <3>2
  <2> QED
    BY <1>0, <2>1, <2>3, <2>4
<1>10. ASSUME NEW k \in Keys, LeaseExpires(k)
       PROVE  CallTypeOK'
  <2>1. entries' \in [Keys -> Entry]
    BY <1>0, <1>10, LeaseChange DEF LeaseExpires, IsLeased
  <2> QED
    BY <1>0, <1>10, <2>1 DEF LeaseExpires, callVars
<1>11. ASSUME NEW k \in Keys, NEW owner \in Callers, Heartbeat(k, owner)
       PROVE  CallTypeOK'
  <2>1. entries' \in [Keys -> Entry]
    BY <1>0, <1>11, LeaseChange DEF Heartbeat, IsExpiredPending
  <2> QED
    BY <1>0, <1>11, <2>1 DEF Heartbeat, callVars
<1>12. CASE ExpireStalePending \/ ExpireCompletedBefore \/ ClearEntries
  BY <1>0, <1>12, NewEntries DEF ExpireStalePending, ExpireCompletedBefore, ClearEntries, callVars
<1>13. CASE UNCHANGED vars
  BY <1>0, <1>13 DEF vars, callVars
<1> QED
  BY <1>1, <1>2, <1>3, <1>4, <1>5, <1>6, <1>7, <1>8, <1>9, <1>10, <1>11, <1>12, <1>13
  DEF Next, Step

(* A result comes from the caller's own append or from a recorded one. *)
LEMMA Results ==
    ASSUME IdempotentInv, [Next]_vars
    PROVE  ResultsInv'
<1> USE DEF ResultsInv
<1>0. CallTypeOK /\ StoreInv /\ ResultsInv
  BY DEF IdempotentInv
<1>a. \A v, k : CommitIn(global, v, k) => CommitIn(global', v, k)
  BY <1>0, LogExtends
<1>1. ASSUME NEW c \in Callers, Invoke(c)
      PROVE  ResultsInv'
  BY <1>0, <1>a, <1>1 DEF Invoke, CallTypeOK
<1>2. ASSUME NEW c \in Callers, Crash(c) \/ Return(c)
      PROVE  ResultsInv'
  <2>1. Reset(c)
    BY <1>2 DEF Crash, Return
  <2>2. /\ pc'[c] = "idle" /\ answer'[c] = "none" /\ entries' = entries
        /\ \A d \in Callers \ {c} : /\ pc'[d] = pc[d] /\ key'[d] = key[d]
                                    /\ answer'[d] = answer[d] /\ committed'[d] = committed[d]
    BY <1>0, <2>1 DEF Reset, CallTypeOK
  <2> QED
    BY <1>0, <1>a, <2>2
<1>3. ASSUME NEW c \in Callers, Lookup(c)
      PROVE  ResultsInv'
  <2>1. key[c] \in Keys /\ pc[c] = "lookup" /\ answer[c] # "ok"
    BY <1>0, <1>3 DEF Lookup, CallTypeOK
  <2>2. /\ entries' = entries /\ key' = key
        /\ \A d \in Callers \ {c} : /\ pc'[d] = pc[d] /\ answer'[d] = answer[d]
                                    /\ committed'[d] = committed[d]
    BY <1>0, <1>3 DEF Lookup, Wait, Answer, CallTypeOK
  <2>3. \/ /\ entries[key[c]].state = "complete" /\ committed'[c] = entries[key[c]].value
           /\ pc'[c] = "done"
        \/ pc'[c] # "save" /\ answer'[c] # "ok"
    <3>1. CASE Wait(c)
      BY <1>0, <2>1, <3>1 DEF Wait, Answer, CallTypeOK
    <3>2. CASE ~Wait(c)
      BY <1>0, <1>3, <2>1, <3>2 DEF Lookup, Answer, CallTypeOK
    <3> QED
      BY <3>1, <3>2
  <2> QED
    BY <1>0, <1>a, <2>1, <2>2, <2>3
<1>4. ASSUME NEW c \in Callers,
             Reserve(c) \/ (IdempotencyReplyLost(c) /\ pc[c] = "reserve")
      PROVE  ResultsInv'
  <2>1. key[c] \in Keys /\ pc[c] = "reserve" /\ answer[c] # "ok"
    BY <1>0, <1>4 DEF Reserve, CallTypeOK
  <2>2. /\ key' = key /\ committed' = committed
        /\ \A d \in Callers \ {c} : pc'[d] = pc[d] /\ answer'[d] = answer[d]
    BY <1>0, <1>4, <2>1 DEF Reserve, IdempotencyReplyLost, Wait, Answer, CallTypeOK
  <2>3. pc'[c] # "save" /\ answer'[c] # "ok"
    <3>1. CASE Wait(c)
      BY <1>0, <2>1, <3>1 DEF Wait, Answer, CallTypeOK
    <3>2. CASE ~Wait(c)
      BY <1>0, <1>4, <2>1, <3>2 DEF Reserve, IdempotencyReplyLost, Answer, CallTypeOK
    <3> QED
      BY <3>1, <3>2
  <2>4. entries' = entries \/ entries' = [entries EXCEPT ![key[c]] = Pending(c)]
    BY <1>4, <2>1 DEF Reserve, IdempotencyReplyLost
  <2>5. \A k \in Keys : entries'[k] = entries[k] \/ entries'[k].state # "complete"
    BY <1>0, <2>1, <2>4, EntryFields DEF CallTypeOK
  <2> QED
    BY <1>0, <1>a, <2>1, <2>2, <2>3, <2>5
<1>5. ASSUME NEW c \in Callers, IdempotencyCallFails(c) \/ LoadAggregate(c) \/ CommandFails(c)
      PROVE  ResultsInv'
  <2>1. /\ entries' = entries /\ key' = key /\ committed' = committed
        /\ pc'[c] # "save" /\ answer'[c] # "ok"
        /\ \A d \in Callers \ {c} : pc'[d] = pc[d] /\ answer'[d] = answer[d]
    BY <1>0, <1>5
    DEF IdempotencyCallFails, LoadAggregate, CommandFails, Fail, Answer, CallTypeOK
  <2> QED
    BY <1>0, <1>a, <2>1
<1>6. ASSUME NEW c \in Callers, AppendCommand(c)
      PROVE  ResultsInv'
  <2>1. key[c] \in Keys /\ pc[c] = "append" /\ answer[c] # "ok"
    BY <1>0, <1>6 DEF AppendCommand, CallTypeOK
  <2>0. PICK k \in Keys : key[c] = k
    BY <2>1
  <2>2. PICK expected : AppendEvents(Target[k], expected, <<k>>)
    BY <1>6, <2>0 DEF AppendCommand
  <2>3. CommitIn(global', NewEnvelopes(Target[k], <<k>>), k)
    BY <1>0, <2>2, AppendOne
  <2>4. /\ entries' = entries /\ key' = key /\ answer' = answer
        /\ committed'[c] = NewEnvelopes(Target[k], <<k>>)
        /\ \A d \in Callers \ {c} : pc'[d] = pc[d] /\ committed'[d] = committed[d]
    BY <1>0, <1>6, <2>0 DEF AppendCommand, CallTypeOK
  <2> QED
    BY <1>0, <1>a, <2>0, <2>1, <2>3, <2>4
<1>7. ASSUME NEW c \in Callers, AppendReplyLost(c)
      PROVE  ResultsInv'
  <2>1. /\ entries' = entries /\ key' = key /\ committed' = committed
        /\ pc'[c] # "save" /\ answer'[c] # "ok"
        /\ \A d \in Callers \ {c} : pc'[d] = pc[d] /\ answer'[d] = answer[d]
    BY <1>0, <1>7 DEF AppendReplyLost, CallTypeOK
  <2> QED
    BY <1>0, <1>a, <2>1
<1>8. ASSUME NEW c \in Callers,
             SaveResult(c) \/ (IdempotencyReplyLost(c) /\ pc[c] = "save")
      PROVE  ResultsInv'
  <2>1. /\ key[c] \in Keys /\ pc[c] = "save"
        /\ answer[c] # "ok" /\ CommitIn(global, committed[c], key[c])
    BY <1>0, <1>8 DEF SaveResult, CallTypeOK
  <2>2. /\ key' = key /\ committed' = committed
        /\ \A d \in Callers \ {c} : pc'[d] = pc[d] /\ answer'[d] = answer[d]
        /\ pc'[c] = "done" \/ answer'[c] # "ok"
    BY <1>0, <1>8, <2>1
    DEF SaveResult, IdempotencyReplyLost, RetryOrGiveUp, Answer, CallTypeOK
  <2>3. entries' = entries \/ entries' = [entries EXCEPT ![key[c]] = Complete(committed[c])]
    BY <1>8, <2>1 DEF SaveResult, IdempotencyReplyLost
  <2>4. \A k \in Keys :
           \/ entries'[k] = entries[k]
           \/ k = key[c] /\ entries'[k].value = committed[c]
    <3>1. Complete(committed[c]).value = committed[c]
      BY EntryFields
    <3> QED
      BY <1>0, <2>1, <2>3, <3>1 DEF CallTypeOK
  <2>5. ASSUME NEW k \in Keys, entries'[k].state = "complete"
        PROVE  CommitIn(global', entries'[k].value, k)
    <3>1. CASE entries'[k] = entries[k]
      BY <1>0, <1>a, <2>5, <3>1
    <3>2. CASE k = key[c] /\ entries'[k].value = committed[c]
      BY <1>a, <2>1, <3>2
    <3> QED
      BY <2>4, <3>1, <3>2
  <2>6. ASSUME NEW d \in Callers, pc'[d] = "save" \/ answer'[d] = "ok"
        PROVE  CommitIn(global', committed'[d], key'[d])
    <3>1. CASE d = c
      BY <1>a, <2>1, <2>2, <3>1
    <3>2. CASE d # c
      BY <1>0, <1>a, <2>2, <2>6, <3>2
    <3> QED
      BY <3>1, <3>2
  <2>7. \A d \in Callers : answer'[d] = "ok" => pc'[d] = "done"
    BY <1>0, <2>2
  <2> QED
    BY <2>5, <2>6, <2>7
<1>9. ASSUME NEW c \in Callers,
             Release(c) \/ (IdempotencyReplyLost(c) /\ pc[c] = "release")
      PROVE  ResultsInv'
  <2>1. key[c] \in Keys /\ pc[c] = "release" /\ answer[c] # "ok"
    BY <1>0, <1>9 DEF Release, CallTypeOK
  <2>2. /\ key' = key /\ committed' = committed
        /\ \A d \in Callers \ {c} : pc'[d] = pc[d] /\ answer'[d] = answer[d]
        /\ pc'[c] # "save" /\ answer'[c] # "ok"
    BY <1>0, <1>9, <2>1
    DEF Release, IdempotencyReplyLost, RetryOrGiveUp, Answer, CallTypeOK
  <2>3. entries' = entries \/ entries' = [entries EXCEPT ![key[c]] = Absent]
    BY <1>9, <2>1 DEF Release, IdempotencyReplyLost
  <2>4. \A k \in Keys : entries'[k] = entries[k] \/ entries'[k].state # "complete"
    BY <1>0, <2>1, <2>3, EntryFields DEF CallTypeOK
  <2> QED
    BY <1>0, <1>a, <2>1, <2>2, <2>4
<1>10. ASSUME NEW k \in Keys, LeaseExpires(k)
       PROVE  ResultsInv'
  <2>1. /\ entries'[k].state = "pending"
        /\ \A j \in Keys \ {k} : entries'[j] = entries[j]
    BY <1>0, <1>10, LeaseChange DEF LeaseExpires, IsLeased
  <2> QED
    BY <1>0, <1>10, <1>a, <2>1 DEF LeaseExpires, callVars
<1>11. ASSUME NEW k \in Keys, NEW owner \in Callers, Heartbeat(k, owner)
       PROVE  ResultsInv'
  <2>1. /\ entries'[k].state = "pending"
        /\ \A j \in Keys \ {k} : entries'[j] = entries[j]
    BY <1>0, <1>11, LeaseChange DEF Heartbeat, IsExpiredPending
  <2> QED
    BY <1>0, <1>11, <1>a, <2>1 DEF Heartbeat, callVars
<1>12. CASE ExpireStalePending \/ ExpireCompletedBefore \/ ClearEntries
  <2>1. \A k \in Keys : entries'[k] = entries[k] \/ entries'[k].state # "complete"
    BY <1>12, EntryFields DEF ExpireStalePending, ExpireCompletedBefore, ClearEntries
  <2>2. UNCHANGED callVars
    BY <1>12 DEF ExpireStalePending, ExpireCompletedBefore, ClearEntries
  <2> QED
    BY <1>0, <1>a, <2>1, <2>2 DEF callVars
<1>13. CASE UNCHANGED vars
  BY <1>0, <1>a, <1>13 DEF vars, callVars
<1>14. ASSUME NEW c \in Callers, IdempotencyReplyLost(c)
       PROVE  ResultsInv'
  <2>1. pc[c] = "reserve" \/ pc[c] = "save" \/ pc[c] = "release"
    BY <1>14 DEF IdempotencyReplyLost
  <2> QED
    BY <1>4, <1>8, <1>9, <1>14, <2>1, Zenon
<1>15. ASSUME NEW c \in Callers, Step(c)
       PROVE  ResultsInv'
  BY <1>2, <1>3, <1>4, <1>5, <1>6, <1>7, <1>8, <1>9, <1>14, <1>15, Zenon DEF Step
<1> QED
  BY <1>1, <1>2, <1>10, <1>11, <1>12, <1>13, <1>15, Zenon DEF Next

-------------------------------------------------------------------------------
(* What a step may do to the reservations.  Frame(c): only caller c moves. *)
Frame(c) ==
    /\ faults' = faults
    /\ pc' \in [Callers -> PCs]
    /\ \A d \in Callers \ {c} : pc'[d] = pc[d] /\ key'[d] = key[d]

(* A step that starts no execution; it leaves one only by a fault. *)
Quiet(c) ==
    /\ Frame(c)
    /\ entries' = entries
    /\ global' = global
    /\ \/ /\ Executing(c) /\ key'[c] = key[c]
          /\ \/ pc'[c] = pc[c]
             \/ pc[c] \in {"load", "append"} /\ pc'[c] \in {"append", "release"}
       \/ ~Executing(c) /\ pc'[c] \notin {"load", "append", "save", "release"}
       \/ /\ pc'[c] \notin {"load", "append", "save", "release"}
          /\ ~Unbroken

Reserves(c) ==
    /\ Frame(c)
    /\ pc[c] = "reserve" /\ key[c] \in Keys /\ key'[c] = key[c]
    /\ entries[key[c]] = Absent \/ IsExpiredPending(key[c])
    /\ entries' = [entries EXCEPT ![key[c]] = Pending(c)]
    /\ global' = global
    /\ pc'[c] = "load" \/ (LosesItsKey /\ ~Unbroken)

Commits(c) ==
    /\ Frame(c)
    /\ Appends(c) /\ key'[c] = key[c]
    /\ entries' = entries
    /\ \/ pc'[c] = "save"
       \/ pc'[c] = "release" /\ "append_reply_lost" \in faults

Ends(c) ==
    /\ Frame(c)
    /\ key[c] \in Keys /\ key'[c] = key[c]
    /\ \/ pc[c] = "save" /\ entries' = [entries EXCEPT ![key[c]] = Complete(committed[c])]
       \/ pc[c] = "release" /\ entries' = [entries EXCEPT ![key[c]] = Absent]
    /\ global' = global
    /\ pc'[c] = "done" \/ (LosesItsKey /\ ~Unbroken /\ pc'[c] = pc[c])

LEMMA QuietKeeps ==
    ASSUME IdempotentInv, NEW c \in Callers, Quiet(c)
    PROVE  OwnerInv' /\ ExclusiveInv' /\ OnceInv'
<1>0. CallTypeOK /\ OwnerInv /\ ExclusiveInv /\ OnceInv /\ faults' = faults
  BY DEF IdempotentInv, Quiet, Frame
<1>1. \A d \in Callers : Executing(d)' => Executing(d) /\ key'[d] = key[d]
  BY DEF Quiet, Frame, Executing
<1>2. \A d \in Callers : Unbroken /\ Executing(d) => Executing(d)' /\ key'[d] = key[d]
  BY DEF Quiet, Frame, Executing
<1>3. OwnerInv'
  <2>1. \A k \in Keys : entries[k].state = "pending" => entries[k].owner \in Callers
    BY <1>0, EntryKinds DEF CallTypeOK, PendingEntry
  <2>2. entries' = entries
    BY DEF Quiet
  <2> QED
    BY <1>0, <1>2, <2>1, <2>2 DEF OwnerInv, Unbroken
<1>4. ExclusiveInv'
  BY <1>0, <1>1 DEF ExclusiveInv, LosesItsKey, Quiet
<1>5. OnceInv'
  BY <1>0 DEF OnceInv, LosesItsKey, Quiet, Frame, Executing
<1> QED
  BY <1>3, <1>4, <1>5

LEMMA ReservesKeeps ==
    ASSUME IdempotentInv, NEW c \in Callers, Reserves(c)
    PROVE  OwnerInv' /\ ExclusiveInv' /\ OnceInv'
<1>0. CallTypeOK /\ OwnerInv /\ ExclusiveInv /\ OnceInv /\ faults' = faults
  BY DEF IdempotentInv, Reserves, Frame
<1>1. PICK k \in Keys : key[c] = k /\ key'[c] = k
  BY DEF Reserves
<1>2. /\ entries'[k] = Pending(c)
      /\ \A j \in Keys \ {k} : entries'[j] = entries[j]
  BY <1>0, <1>1 DEF Reserves, CallTypeOK
<1>3. /\ \A d \in Callers \ {c} : pc'[d] = pc[d] /\ key'[d] = key[d]
      /\ pc[c] = "reserve" /\ ~Executing(c)
      /\ pc'[c] = "load" \/ (LosesItsKey /\ ~Unbroken)
      /\ global' = global
  BY DEF Reserves, Frame, Executing
<1>4. OwnerInv'
  <2> SUFFICES ASSUME Unbroken, NEW j \in Keys, entries'[j].state = "pending"
               PROVE  pc'[entries'[j].owner] \in {"load", "append", "save", "release"} /\ key'[entries'[j].owner] = j
    BY <1>0 DEF OwnerInv, Unbroken, Executing
  <2>1. CASE j = k
    BY <1>1, <1>2, <1>3, <2>1, EntryFields DEF Executing
  <2>2. CASE j # k
    <3>1. PICK d \in Callers : d = entries[j].owner
      BY <1>0, <1>2, <2>2, EntryKinds DEF CallTypeOK, PendingEntry
    <3>2. Executing(d) /\ key[d] = j /\ entries'[j].owner = d
      BY <1>0, <1>2, <2>2, <3>1 DEF OwnerInv
    <3>3. d # c
      BY <1>3, <3>2
    <3> QED
      BY <1>3, <3>2, <3>3 DEF Executing
  <2> QED
    BY <2>1, <2>2
<1>5. ASSUME ~LosesItsKey
      PROVE  /\ entries[k] = Absent
             /\ \A d \in Callers \ {c} : Executing(d) => key[d] # k
             /\ pc'[c] = "load"
  <2>1. entries[k] = Absent
    BY <1>0, <1>1, <1>5 DEF Reserves, ExclusiveInv, IsExpiredPending
  <2>2. \A d \in Callers : Executing(d) => entries[key[d]] # Absent
    BY <1>0, <1>5, EntryFields DEF ExclusiveInv
  <2> QED
    BY <1>3, <1>5, <2>1, <2>2
<1>6. ExclusiveInv'
  <2> SUFFICES ASSUME ~LosesItsKey
               PROVE  /\ \A d \in Callers : Executing(d)' => entries'[key'[d]] = Pending(d)
                      /\ \A j \in Keys : entries'[j].state = "pending" => entries'[j].expired = FALSE
    BY <1>0 DEF ExclusiveInv, LosesItsKey
  <2>1. ASSUME NEW d \in Callers, Executing(d)'
        PROVE  entries'[key'[d]] = Pending(d)
    <3>1. CASE d = c
      BY <1>1, <1>2, <3>1
    <3>2. CASE d # c
      <4>1. Executing(d) /\ key'[d] = key[d] /\ key[d] # k /\ key[d] \in Keys
        BY <1>0, <1>3, <1>5, <2>1, <3>2 DEF Executing, CallTypeOK
      <4> QED
        BY <1>0, <1>2, <4>1 DEF ExclusiveInv
    <3> QED
      BY <3>1, <3>2
  <2>2. ASSUME NEW j \in Keys, entries'[j].state = "pending"
        PROVE  entries'[j].expired = FALSE
    <3>1. CASE j = k
      BY <1>2, <3>1, EntryFields
    <3>2. CASE j # k
      BY <1>0, <1>2, <2>2, <3>2 DEF ExclusiveInv
    <3> QED
      BY <3>1, <3>2
  <2> QED
    BY <2>1, <2>2
<1>7. OnceInv'
  <2> SUFFICES ASSUME ~LosesItsKey, faults \cap {"purge", "append_reply_lost"} = {}
               PROVE  /\ \A j \in Keys : \A x, y \in ExecutionsIn(global', j) : x = y
                      /\ \A j \in Keys : entries'[j] = Absent => ExecutionsIn(global', j) = {}
                      /\ \A d \in Callers :
                            pc'[d] \in {"load", "append", "release"} =>
                               ExecutionsIn(global', key'[d]) = {}
    BY <1>0 DEF OnceInv, LosesItsKey
  <2>1. /\ \A j \in Keys : \A x, y \in ExecutionsIn(global, j) : x = y
        /\ \A j \in Keys : entries[j] = Absent => ExecutionsIn(global, j) = {}
        /\ \A d \in Callers :
              pc[d] \in {"load", "append", "release"} => ExecutionsIn(global, key[d]) = {}
    BY <1>0 DEF OnceInv
  <2>2. \A j \in Keys : entries'[j] = Absent => entries[j] = Absent
    BY <1>2, EntryFields
  <2>3. ExecutionsIn(global, k) = {}
    BY <1>5, <2>1
  <2> QED
    BY <1>1, <1>3, <2>1, <2>2, <2>3
<1> QED
  BY <1>4, <1>6, <1>7

LEMMA CommitsKeeps ==
    ASSUME IdempotentInv, NEW c \in Callers, Commits(c)
    PROVE  OwnerInv' /\ ExclusiveInv' /\ OnceInv'
<1>0. CallTypeOK /\ OwnerInv /\ ExclusiveInv /\ OnceInv /\ StoreInv /\ faults' = faults
  BY DEF IdempotentInv, Commits, Frame
<1>1. PICK k \in Keys : key[c] = k /\ key'[c] = k
  BY <1>0 DEF Commits, Appends, CallTypeOK
<1>2. PICK expected : AppendEvents(Target[k], expected, <<k>>)
  BY <1>1 DEF Commits, Appends
<1>3. /\ Len(global) \in Nat
      /\ Len(global') = Len(global) + 1
      /\ \A i \in 1..Len(global) : global'[i] = global[i]
      /\ global'[Len(global) + 1].payload = k
  BY <1>0, <1>2, AppendOne
<1>4. /\ \A d \in Callers \ {c} : pc'[d] = pc[d] /\ key'[d] = key[d]
      /\ pc[c] = "append" /\ Executing(c)
      /\ pc'[c] \in {"save", "release"}
      /\ entries' = entries
  BY DEF Commits, Appends, Frame, Executing
<1>5. \A d \in Callers : Executing(d)' = Executing(d) /\ key'[d] = key[d]
  BY <1>1, <1>4 DEF Executing
<1>6. OwnerInv'
  <2>1. \A j \in Keys : entries[j].state = "pending" => entries[j].owner \in Callers
    BY <1>0, EntryKinds DEF CallTypeOK, PendingEntry
  <2> QED
    BY <1>0, <1>4, <1>5, <2>1 DEF OwnerInv, Unbroken
<1>7. ExclusiveInv'
  BY <1>0, <1>4, <1>5 DEF ExclusiveInv, LosesItsKey
<1>8. OnceInv'
  <2> SUFFICES ASSUME ~LosesItsKey, faults \cap {"purge", "append_reply_lost"} = {}
               PROVE  /\ \A j \in Keys : \A x, y \in ExecutionsIn(global', j) : x = y
                      /\ \A j \in Keys : entries'[j] = Absent => ExecutionsIn(global', j) = {}
                      /\ \A d \in Callers :
                            pc'[d] \in {"load", "append", "release"} =>
                               ExecutionsIn(global', key'[d]) = {}
    BY <1>0 DEF OnceInv, LosesItsKey
  <2>1. /\ \A j \in Keys : \A x, y \in ExecutionsIn(global, j) : x = y
        /\ \A j \in Keys : entries[j] = Absent => ExecutionsIn(global, j) = {}
        /\ \A d \in Callers :
              pc[d] \in {"load", "append", "release"} => ExecutionsIn(global, key[d]) = {}
    BY <1>0 DEF OnceInv
  <2>2. \A j \in Keys \ {k} : ExecutionsIn(global', j) = ExecutionsIn(global, j)
    BY <1>3 DEF ExecutionsIn
  <2>3. ExecutionsIn(global', k) = {Len(global) + 1}
    <3>1. ExecutionsIn(global, k) = {}
      BY <1>1, <1>4, <2>1
    <3> QED
      BY <1>3, <3>1 DEF ExecutionsIn
  <2>4. entries[k] = Pending(c)
    BY <1>0, <1>1, <1>4 DEF ExclusiveInv
  <2>5. ASSUME NEW d \in Callers, pc'[d] \in {"load", "append", "release"}
        PROVE  ExecutionsIn(global', key'[d]) = {}
    <3>1. pc'[c] = "save"
      BY <1>4 DEF Commits
    <3>2. d # c /\ pc'[d] = pc[d] /\ Executing(d) /\ key'[d] = key[d] /\ key[d] \in Keys
      BY <1>0, <1>4, <2>5, <3>1 DEF Executing, CallTypeOK
    <3>3. key[d] # k
      <4>1. entries[key[d]] = Pending(d)
        BY <1>0, <3>2 DEF ExclusiveInv
      <4> QED
        BY <2>4, <3>2, <4>1, EntryFields
    <3> QED
      BY <2>1, <2>2, <2>5, <3>2, <3>3
  <2>6. entries[k] # Absent
    BY <2>4, EntryFields
  <2> QED
    BY <1>4, <2>1, <2>2, <2>3, <2>5, <2>6
<1> QED
  BY <1>6, <1>7, <1>8

LEMMA EndsKeeps ==
    ASSUME IdempotentInv, NEW c \in Callers, Ends(c)
    PROVE  OwnerInv' /\ ExclusiveInv' /\ OnceInv'
<1>0. CallTypeOK /\ OwnerInv /\ ExclusiveInv /\ OnceInv /\ faults' = faults
  BY DEF IdempotentInv, Ends, Frame
<1>1. PICK k \in Keys : key[c] = k /\ key'[c] = k
  BY DEF Ends
<1>2. /\ entries'[k] = Absent \/ entries'[k] = Complete(committed[c])
      /\ pc[c] = "save" => entries'[k] # Absent
      /\ \A j \in Keys \ {k} : entries'[j] = entries[j]
  BY <1>0, <1>1, EntryFields DEF Ends, CallTypeOK
<1>3. entries'[k].state # "pending"
  BY <1>2, EntryFields
<1>4. /\ \A d \in Callers \ {c} : pc'[d] = pc[d] /\ key'[d] = key[d]
      /\ Executing(c) /\ pc[c] \in {"save", "release"}
      /\ pc'[c] = "done" \/ (LosesItsKey /\ ~Unbroken)
      /\ global' = global
  BY DEF Ends, Frame, Executing
<1>5. OwnerInv'
  <2> SUFFICES ASSUME Unbroken, NEW j \in Keys, entries'[j].state = "pending"
               PROVE  /\ pc'[entries'[j].owner] \in {"load", "append", "save", "release"}
                      /\ key'[entries'[j].owner] = j
    BY <1>0 DEF OwnerInv, Unbroken, Executing
  <2>1. j # k /\ entries'[j] = entries[j]
    BY <1>2, <1>3
  <2>2. PICK d \in Callers : d = entries[j].owner
    BY <1>0, <2>1, EntryKinds DEF CallTypeOK, PendingEntry
  <2>3. Executing(d) /\ key[d] = j
    BY <1>0, <2>1, <2>2 DEF OwnerInv
  <2> QED
    BY <1>1, <1>4, <2>1, <2>2, <2>3 DEF Executing
<1>6. ASSUME ~LosesItsKey, NEW d \in Callers, Executing(d)'
      PROVE  d # c /\ Executing(d) /\ key'[d] = key[d] /\ key[d] \in Keys \ {k}
  <2>1. d # c /\ pc'[d] = pc[d] /\ key'[d] = key[d] /\ Executing(d)
    BY <1>4, <1>6 DEF Executing
  <2>2. key[d] \in Keys
    BY <1>0, <2>1 DEF Executing, CallTypeOK
  <2>3. entries[key[d]] = Pending(d) /\ entries[k] = Pending(c)
    BY <1>0, <1>1, <1>4, <1>6, <2>1 DEF ExclusiveInv
  <2>4. key[d] # k
    BY <2>1, <2>3, EntryFields
  <2> QED
    BY <2>1, <2>2, <2>4
<1>7. ExclusiveInv'
  <2> SUFFICES ASSUME ~LosesItsKey
               PROVE  /\ \A d \in Callers : Executing(d)' => entries'[key'[d]] = Pending(d)
                      /\ \A j \in Keys : entries'[j].state = "pending" => entries'[j].expired = FALSE
    BY <1>0 DEF ExclusiveInv, LosesItsKey
  <2> QED
    BY <1>0, <1>2, <1>3, <1>6 DEF ExclusiveInv
<1>8. OnceInv'
  <2> SUFFICES ASSUME ~LosesItsKey, faults \cap {"purge", "append_reply_lost"} = {}
               PROVE  /\ \A j \in Keys : \A x, y \in ExecutionsIn(global', j) : x = y
                      /\ \A j \in Keys : entries'[j] = Absent => ExecutionsIn(global', j) = {}
                      /\ \A d \in Callers :
                            pc'[d] \in {"load", "append", "release"} =>
                               ExecutionsIn(global', key'[d]) = {}
    BY <1>0 DEF OnceInv, LosesItsKey
  <2>1. /\ \A j \in Keys : \A x, y \in ExecutionsIn(global, j) : x = y
        /\ \A j \in Keys : entries[j] = Absent => ExecutionsIn(global, j) = {}
        /\ \A d \in Callers :
              pc[d] \in {"load", "append", "release"} => ExecutionsIn(global, key[d]) = {}
    BY <1>0 DEF OnceInv
  <2>2. entries'[k] = Absent => ExecutionsIn(global, k) = {}
    BY <1>1, <1>2, <1>4, <2>1
  <2>3. \A j \in Keys : entries'[j] = Absent => ExecutionsIn(global, j) = {}
    BY <1>2, <2>1, <2>2
  <2>4. ASSUME NEW d \in Callers, pc'[d] \in {"load", "append", "release"}
        PROVE  ExecutionsIn(global, key'[d]) = {}
    BY <1>4, <2>1, <2>4
  <2> QED
    BY <1>4, <2>1, <2>3, <2>4
<1> QED
  BY <1>5, <1>7, <1>8

(* Time and maintenance: they drop or age records, and move no caller. *)
Maintains ==
    /\ UNCHANGED <<storeVars, callVars>>
    /\ \A k \in Keys :
          entries'[k].state = "pending" =>
             entries[k].state = "pending" /\ entries'[k].owner = entries[k].owner
    /\ ~LosesItsKey =>
          \A k \in Keys :
             \/ entries'[k] = entries[k]
             \/ /\ "purge" \in faults
                /\ entries[k].state = "complete" /\ entries'[k] = Absent
             \/ entries[k].state = "pending" /\ entries[k].expired # FALSE

LEMMA MaintainsKeeps ==
    ASSUME IdempotentInv, Maintains
    PROVE  OwnerInv' /\ ExclusiveInv' /\ OnceInv'
<1>0. CallTypeOK /\ OwnerInv /\ ExclusiveInv /\ OnceInv
  BY DEF IdempotentInv
<1>1. faults' = faults /\ pc' = pc /\ key' = key /\ global' = global
  BY DEF Maintains, callVars, storeVars
<1>2. OwnerInv'
  BY <1>0, <1>1 DEF OwnerInv, Unbroken, Executing, Maintains
<1>3. ASSUME ~LosesItsKey, NEW k \in Keys
      PROVE  /\ entries'[k].state = "pending" => entries'[k] = entries[k]
             /\ entries[k].state = "pending" => entries'[k] = entries[k]
             /\ "purge" \notin faults => entries'[k] = entries[k]
  BY <1>0, <1>3, EntryFields DEF ExclusiveInv, Maintains
<1>4. ExclusiveInv'
  <2> SUFFICES ASSUME ~LosesItsKey
               PROVE  /\ \A d \in Callers : Executing(d) => entries'[key[d]] = Pending(d)
                      /\ \A j \in Keys : entries'[j].state = "pending" => entries'[j].expired = FALSE
    BY <1>0, <1>1 DEF ExclusiveInv, LosesItsKey, Executing
  <2>1. \A d \in Callers : Executing(d) => key[d] \in Keys /\ entries[key[d]] = Pending(d)
    BY <1>0 DEF Executing, CallTypeOK, ExclusiveInv
  <2>2. \A d \in Callers : Executing(d) => entries[key[d]].state = "pending"
    BY <2>1, EntryFields
  <2> QED
    BY <1>0, <1>3, <2>1, <2>2 DEF ExclusiveInv
<1>5. OnceInv'
  BY <1>0, <1>1, <1>3 DEF OnceInv, LosesItsKey
<1> QED
  BY <1>2, <1>4, <1>5

Shape(c) == Quiet(c) \/ Reserves(c) \/ Commits(c) \/ Ends(c)

(* Every step of a caller has one of the four shapes. *)
LEMMA CallerShapes ==
    ASSUME CallTypeOK, CallTypeOK', NEW c \in Callers, Invoke(c) \/ Step(c) \/ Crash(c)
    PROVE  Shape(c)
<1> USE DEF Shape
<1>0. pc' \in [Callers -> PCs]
  BY DEF CallTypeOK
<1>a. ASSUME Wait(c), pc[c] \in {"lookup", "reserve"}, UNCHANGED <<storeVars, faults, entries, key>>
      PROVE  Quiet(c)
  BY <1>0, <1>a DEF Wait, Answer, Quiet, Frame, Executing, CallTypeOK, storeVars
<1>b. ASSUME NEW error, RetryOrGiveUp(c, error), pc[c] \in {"save", "release"},
             "idempotency_failure" \in faults, UNCHANGED <<storeVars, faults, entries, key>>
      PROVE  Quiet(c)
  <2>1. ~Unbroken
    BY <1>b DEF Unbroken
  <2> QED
    BY <1>0, <1>b, <2>1 DEF RetryOrGiveUp, Answer, Quiet, Frame, Executing, CallTypeOK, storeVars
<1>1. CASE Invoke(c)
  BY <1>0, <1>1 DEF Invoke, Quiet, Frame, Executing, CallTypeOK, storeVars
<1>2. CASE Crash(c)
  <2>1. ~Unbroken
    BY <1>2 DEF Crash, Unbroken
  <2> QED
    BY <1>0, <1>2, <2>1 DEF Crash, Reset, Quiet, Frame, Executing, CallTypeOK, storeVars
<1>3. CASE Return(c)
  BY <1>0, <1>3 DEF Return, Reset, Quiet, Frame, Executing, CallTypeOK, storeVars
<1>4. CASE Lookup(c)
  <2>1. CASE Wait(c)
    BY <1>4, <1>a, <2>1 DEF Lookup
  <2>2. CASE ~Wait(c)
    BY <1>0, <1>4, <2>2 DEF Lookup, Answer, Quiet, Frame, Executing, CallTypeOK, storeVars
  <2> QED
    BY <2>1, <2>2
<1>5. CASE Reserve(c)
  <2>1. CASE entries[key[c]] = Absent \/ IsExpiredPending(key[c])
    BY <1>0, <1>5, <2>1 DEF Reserve, Reserves, Frame, CallTypeOK, storeVars
  <2>2. CASE ~(entries[key[c]] = Absent \/ IsExpiredPending(key[c]))
    BY <1>5, <1>a, <2>2 DEF Reserve
  <2> QED
    BY <2>1, <2>2
<1>6. CASE IdempotencyCallFails(c)
  BY <1>0, <1>6 DEF IdempotencyCallFails, Answer, Quiet, Frame, Executing, CallTypeOK, storeVars
<1>7. CASE LoadAggregate(c)
  BY <1>0, <1>7 DEF LoadAggregate, Quiet, Frame, Executing, CallTypeOK, storeVars
<1>8. CASE CommandFails(c)
  BY <1>0, <1>8 DEF CommandFails, Fail, Quiet, Frame, Executing, CallTypeOK, storeVars
<1>9. CASE AppendCommand(c) \/ AppendReplyLost(c)
  BY <1>0, <1>9 DEF AppendCommand, AppendReplyLost, Commits, Appends, Frame, CallTypeOK
<1>10. CASE SaveResult(c)
  <2>1. CASE RetryOrGiveUp(c, "idempotency_error") /\ "idempotency_failure" \in faults /\ UNCHANGED entries
    BY <1>10, <1>b, <2>1 DEF SaveResult
  <2>2. CASE entries' = [entries EXCEPT ![key[c]] = Complete(committed[c])] /\ Answer(c, "ok")
    BY <1>0, <1>10, <2>2 DEF SaveResult, Answer, Ends, Frame, CallTypeOK, storeVars
  <2> QED
    BY <1>10, <2>1, <2>2 DEF SaveResult
<1>11. CASE Release(c)
  <2>1. CASE RetryOrGiveUp(c, "release_failed") /\ "idempotency_failure" \in faults /\ UNCHANGED entries
    BY <1>11, <1>b, <2>1 DEF Release
  <2>2. CASE entries' = [entries EXCEPT ![key[c]] = Absent] /\ pc' = [pc EXCEPT ![c] = "done"]
    BY <1>0, <1>11, <2>2 DEF Release, Ends, Frame, CallTypeOK, storeVars
  <2> QED
    BY <1>11, <2>1, <2>2 DEF Release
<1>12. CASE IdempotencyReplyLost(c)
  <2>1. ~Unbroken /\ LosesItsKey
    BY <1>12 DEF IdempotencyReplyLost, Unbroken, LosesItsKey
  <2>2. CASE pc[c] = "reserve"
    BY <1>0, <1>12, <2>1, <2>2
    DEF IdempotencyReplyLost, Wait, Answer, Reserves, Frame, CallTypeOK, storeVars
  <2>3. CASE pc[c] \in {"save", "release"}
    BY <1>0, <1>12, <2>1, <2>3
    DEF IdempotencyReplyLost, RetryOrGiveUp, Answer, Ends, Frame, CallTypeOK, storeVars
  <2> QED
    BY <1>12, <2>2, <2>3 DEF IdempotencyReplyLost
<1> QED
  BY <1>1, <1>2, <1>3, <1>4, <1>5, <1>6, <1>7, <1>8, <1>9, <1>10, <1>11, <1>12, Zenon DEF Step

(* A step that is no caller's maintains, and drops a result only by purging. *)
DropsNoResult ==
    \A k \in Keys : entries[k].state = "complete" => entries'[k] = entries[k]

LEMMA StoreShapes ==
    ASSUME IdempotentInv, [Next]_vars, \A c \in Callers : ~(Invoke(c) \/ Step(c) \/ Crash(c))
    PROVE  Maintains /\ (DropsNoResult \/ ExpireCompletedBefore \/ ClearEntries)
<1>0. CallTypeOK
  BY DEF IdempotentInv
<1>1. ASSUME NEW k \in Keys, LeaseExpires(k)
      PROVE  Maintains /\ DropsNoResult
  <2>1. /\ entries[k].state = "pending"
        /\ entries'[k].state = "pending"
        /\ entries'[k].owner = entries[k].owner
        /\ \A j \in Keys \ {k} : entries'[j] = entries[j]
    BY <1>0, <1>1, LeaseChange DEF LeaseExpires, IsLeased
  <2>2. LosesItsKey
    BY <1>1 DEF LeaseExpires, LosesItsKey
  <2>3. UNCHANGED <<storeVars, callVars>>
    BY <1>1 DEF LeaseExpires
  <2> QED
    BY <2>1, <2>2, <2>3 DEF Maintains, DropsNoResult
<1>2. ASSUME NEW k \in Keys, NEW owner \in Callers, Heartbeat(k, owner)
      PROVE  Maintains /\ DropsNoResult
  <2>1. /\ entries[k].state = "pending" /\ entries[k].expired
        /\ entries'[k].state = "pending"
        /\ entries'[k].owner = entries[k].owner
        /\ \A j \in Keys \ {k} : entries'[j] = entries[j]
    BY <1>0, <1>2, LeaseChange DEF Heartbeat, IsExpiredPending
  <2>2. entries[k].expired # FALSE
    BY <2>1, Zenon
  <2>3. UNCHANGED <<storeVars, callVars>>
    BY <1>2 DEF Heartbeat
  <2> QED
    BY <2>1, <2>2, <2>3 DEF Maintains, DropsNoResult
<1>3. CASE ExpireStalePending
  <2>1. /\ \A k \in Keys : entries'[k] = IF IsExpiredPending(k) THEN Absent ELSE entries[k]
        /\ UNCHANGED <<storeVars, callVars>>
    BY <1>3 DEF ExpireStalePending
  <2>2. \A k \in Keys : IsExpiredPending(k) => entries[k].state = "pending" /\ entries[k].expired # FALSE
    BY Zenon DEF IsExpiredPending
  <2> QED
    BY <2>1, <2>2, EntryFields DEF Maintains, DropsNoResult
<1>4. CASE ExpireCompletedBefore
  <2>1. PICK old \in SUBSET {k \in Keys : entries[k].state = "complete"} :
           entries' = [k \in Keys |-> IF k \in old THEN Absent ELSE entries[k]]
    BY <1>4 DEF ExpireCompletedBefore
  <2>2. "purge" \in faults /\ UNCHANGED <<storeVars, callVars>>
    BY <1>4 DEF ExpireCompletedBefore
  <2> QED
    BY <1>4, <2>1, <2>2, EntryFields DEF Maintains
<1>5. CASE ClearEntries
  <2>1. LosesItsKey
    BY <1>5 DEF ClearEntries, LosesItsKey
  <2> QED
    BY <1>5, <2>1, EntryFields DEF ClearEntries, Maintains
<1>6. CASE UNCHANGED vars
  <2>1. entries' = entries /\ UNCHANGED <<storeVars, callVars>>
    BY <1>6 DEF vars
  <2> QED
    BY <2>1 DEF Maintains, DropsNoResult
<1> QED
  BY <1>1, <1>2, <1>3, <1>4, <1>5, <1>6, Zenon DEF Next

-------------------------------------------------------------------------------
LEMMA IdempotentInitInv == Init => IdempotentInv
<1> SUFFICES ASSUME Init PROVE IdempotentInv
  OBVIOUS
<1>1. StoreInv
  BY StoreInitInv DEF Init
<1>2. CallTypeOK
  <2>1. <<>> \in Seq(Envelope)
    OBVIOUS
  <2>2. entries \in [Keys -> Entry] /\ committed \in [Callers -> Seq(Envelope)]
    BY <2>1, NewEntries DEF Init
  <2> QED
    BY <2>2 DEF Init, CallTypeOK, PCs, Answers
<1>3. /\ \A k \in Keys : entries[k] = Absent /\ entries[k].state = "absent"
      /\ \A c \in Callers : pc[c] = "idle" /\ answer[c] = "none" /\ ~Executing(c)
  BY EntryFields DEF Init, Executing
<1>4. ResultsInv /\ OwnerInv /\ ExclusiveInv
  BY <1>3 DEF ResultsInv, OwnerInv, ExclusiveInv
<1>5. OnceInv
  <2>1. \A k : ExecutionsIn(global, k) = {}
    <3>1. Len(global) = 0
      BY DEF Init, StoreInit
    <3> QED
      BY <3>1 DEF ExecutionsIn
  <2> QED
    BY <2>1 DEF OnceInv
<1> QED
  BY <1>1, <1>2, <1>4, <1>5 DEF IdempotentInv

LEMMA IdempotentNextInv == IdempotentInv /\ [Next]_vars => IdempotentInv'
<1> SUFFICES ASSUME IdempotentInv, [Next]_vars PROVE IdempotentInv'
  OBVIOUS
<1>0. StoreInv /\ CallTypeOK
  BY DEF IdempotentInv
<1>1. StoreInv' /\ CallTypeOK' /\ ResultsInv'
  BY <1>0, LogExtends, CallTypes, Results
<1>2. OwnerInv' /\ ExclusiveInv' /\ OnceInv'
  <2>1. ASSUME NEW c \in Callers, Invoke(c) \/ Step(c) \/ Crash(c)
        PROVE  OwnerInv' /\ ExclusiveInv' /\ OnceInv'
    <3>1. Shape(c)
      BY <1>0, <1>1, <2>1, CallerShapes
    <3> QED
      BY <3>1, QuietKeeps, ReservesKeeps, CommitsKeeps, EndsKeeps DEF Shape
  <2>2. CASE \A c \in Callers : ~(Invoke(c) \/ Step(c) \/ Crash(c))
    BY <2>2, StoreShapes, MaintainsKeeps
  <2> QED
    BY <2>1, <2>2
<1> QED
  BY <1>1, <1>2 DEF IdempotentInv

LEMMA IdempotentAlways == Spec => []IdempotentInv
BY IdempotentInitInv, IdempotentNextInv, PTL DEF Spec

(* No two callers are between reserve and their answer for one key while   *)
(* leases outlast commands, replies arrive and nobody clears the store:    *)
(* whoever executes owns the pending record (see SingleExecutor).          *)
THEOREM KeysHaveOneExecutor == Spec => []SingleExecutor
<1>1. IdempotentInv => SingleExecutor
  <2> SUFFICES ASSUME IdempotentInv, ~LosesItsKey, NEW c \in Callers, NEW d \in Callers,
                      Executing(c), Executing(d), key[c] = key[d]
               PROVE  c = d
    BY DEF SingleExecutor
  <2>1. entries[key[c]] = Pending(c) /\ entries[key[d]] = Pending(d)
    BY DEF IdempotentInv, ExclusiveInv
  <2> QED
    BY <2>1, EntryFields
<1> QED
  BY <1>1, IdempotentAlways, PTL

(* A key is executed at most once, whatever crashes or fails in between    *)
(* (see KeyExecutesOnce for the faults that permit a second run).          *)
THEOREM KeysExecuteOnce == Spec => []KeyExecutesOnce
<1>1. IdempotentInv => KeyExecutesOnce
  <2> SUFFICES ASSUME IdempotentInv, ~LosesItsKey, faults \cap {"purge", "append_reply_lost"} = {},
                      NEW k \in Keys
               PROVE  Cardinality(Executions(k)) <= 1
    BY DEF KeyExecutesOnce
  <2>1. \A i, j \in Executions(k) : i = j
    BY DEF IdempotentInv, OnceInv, ExecutionsIn, Executions
  <2>2. CASE Executions(k) = {}
    BY <2>2, FS_EmptySet
  <2>3. CASE Executions(k) # {}
    <3>1. PICK i : Executions(k) = {i}
      BY <2>1, <2>3
    <3>2. Cardinality({i}) = 1
      BY FS_Singleton
    <3> QED
      BY <3>1, <3>2
  <2> QED
    BY <2>2, <2>3
<1> QED
  BY <1>1, IdempotentAlways, PTL

(* A result that is answered or kept is in the log, under every fault (see *)
(* OkMeansCommitted).                                                      *)
THEOREM AnswersAreCommitted == Spec => []OkMeansCommitted
<1>1. IdempotentInv => OkMeansCommitted
  BY DEF IdempotentInv, ResultsInv, CommitIn, OkMeansCommitted, IsCommitOf
<1> QED
  BY <1>1, IdempotentAlways, PTL

(* No key is left behind pending while callers run to their end and the    *)
(* idempotency store answers (see PendingIsOwned).                         *)
THEOREM PendingKeysAreOwned == Spec => []PendingIsOwned
<1>1. IdempotentInv => PendingIsOwned
  <2>1. ASSUME IdempotentInv, NEW k \in Keys, entries[k].state = "pending"
        PROVE  entries[k].owner \in Callers
    BY <2>1, EntryKinds DEF IdempotentInv, CallTypeOK, PendingEntry
  <2> QED
    BY <2>1 DEF IdempotentInv, OwnerInv, Unbroken, PendingIsOwned
<1> QED
  BY <1>1, IdempotentAlways, PTL

(* A recorded result is dropped by the purging operations only, while no   *)
(* caller loses its key (see CompletedIsKept).                             *)
THEOREM ResultsStay == Spec => CompletedIsKept
<1>1. ASSUME IdempotentInv, IdempotentInv', [Next]_vars
      PROVE  [LosesItsKey \/ KeepsResults]_vars
  <2> SUFFICES ASSUME ~LosesItsKey PROVE KeepsResults
    OBVIOUS
  <2>0. CallTypeOK /\ CallTypeOK' /\ ExclusiveInv
    BY <1>1 DEF IdempotentInv
  <2>1. ASSUME NEW c \in Callers, Invoke(c) \/ Step(c) \/ Crash(c)
        PROVE  DropsNoResult
    <3>1. Shape(c)
      BY <2>0, <2>1, CallerShapes
    <3>2. CASE Quiet(c) \/ Commits(c)
      BY <3>2 DEF Quiet, Commits, DropsNoResult
    <3>3. CASE Reserves(c)
      <4>1. entries[key[c]].state # "complete"
        BY <3>3, EntryFields DEF Reserves, IsExpiredPending
      <4>2. \A k \in Keys \ {key[c]} : entries'[k] = entries[k]
        BY <2>0, <3>3 DEF Reserves, CallTypeOK
      <4> QED
        BY <4>1, <4>2 DEF DropsNoResult
    <3>4. CASE Ends(c)
      <4>1. entries[key[c]] = Pending(c)
        BY <2>0, <3>4 DEF Ends, ExclusiveInv, Executing
      <4>2. entries[key[c]].state # "complete"
        BY <4>1, EntryFields
      <4>3. \A k \in Keys \ {key[c]} : entries'[k] = entries[k]
        BY <2>0, <3>4 DEF Ends, CallTypeOK
      <4> QED
        BY <4>2, <4>3 DEF DropsNoResult
    <3> QED
      BY <3>1, <3>2, <3>3, <3>4 DEF Shape
  <2>2. CASE \A c \in Callers : ~(Invoke(c) \/ Step(c) \/ Crash(c))
    BY <1>1, <2>2, StoreShapes DEF DropsNoResult, KeepsResults
  <2> QED
    BY <2>1, <2>2 DEF DropsNoResult, KeepsResults
<1> QED
  BY <1>1, IdempotentAlways, PTL DEF Spec, CompletedIsKept
===============================================================================
