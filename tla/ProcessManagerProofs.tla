------------------------- MODULE ProcessManagerProofs -------------------------
(***************************************************************************)
(* The process-manager runner never skips a command and never reorders a   *)
(* batch, for every number of runners, events, commands, faults and        *)
(* redeliveries, on both kinds of bus and checkpoint.                      *)
(***************************************************************************)
EXTENDS ProcessManager, SequenceTheorems, FiniteSetTheorems, TLAPS

(* The shape of the state. *)
RunTypeOK ==
    /\ dispatch_index \in [Events -> Nat]
    /\ executed \in Seq(Events \X Nat)
    /\ run \in [Runners -> [pc : {"idle", "load", "handle", "dispatch", "save", "ok"},
                            event : Events \cup {"none"}, index : Nat]]
    /\ \A r \in Runners : run[r].pc # "idle" => run[r].event \in Events

(* Between dispatching a command and saving its index, the command itself  *)
(* has taken effect.                                                       *)
SavedAreExecuted ==
    \A r \in Runners : run[r].pc = "save" => Executed(<<run[r].event, run[r].index>>)

ManagerInv == RunTypeOK /\ SkippedAreExecuted /\ SavedAreExecuted /\ ExecutedInOrder

-------------------------------------------------------------------------------
(* What took effect stays in effect when a command is added to the record  *)
(* of the bus.                                                             *)
LEMMA AppendKeepsExecuted ==
    ASSUME NEW s \in Seq(Events \X Nat), NEW c \in Events \X Nat
    PROVE  /\ Append(s, c) \in Seq(Events \X Nat)
           /\ DOMAIN Append(s, c) = 1..(Len(s) + 1)
           /\ DOMAIN s = 1..Len(s)
           /\ Len(s) \in Nat
           /\ \A k \in DOMAIN s : Append(s, c)[k] = s[k]
           /\ Append(s, c)[Len(s) + 1] = c
    OBVIOUS

(* A taken command is in the record afterwards, whatever the bus does with *)
(* its key; what was there stays, and order is kept when its predecessor   *)
(* is there.                                                               *)
LEMMA EffectIsRecorded ==
    ASSUME NEW e \in Events, NEW i \in Nat, executed \in Seq(Events \X Nat), TakeEffect(e, i),
           ExecutedInOrder, i > 0 => Executed(<<e, i - 1>>)
    PROVE  /\ executed' \in Seq(Events \X Nat)
           /\ Executed(<<e, i>>)'
           /\ \A c \in Events \X Nat : Executed(c) => Executed(c)'
           /\ ExecutedInOrder'
<1> DEFINE seen == {IdempotencyKey(executed[k][1], executed[k][2]) : k \in DOMAIN executed}
<1>1. CASE deduplicates /\ <<e, i>> \in seen
  <2>1. executed' = executed
    BY <1>1 DEF TakeEffect, IdempotencyKey
  <2>2. PICK k \in DOMAIN executed : <<executed[k][1], executed[k][2]>> = <<e, i>>
    BY <1>1 DEF IdempotencyKey
  <2>3. executed[k] \in Events \X Nat
    BY <2>2, ElementOfSeq
  <2>4. executed[k] = <<e, i>>
    BY <2>2, <2>3
  <2> QED
    BY <2>1, <2>2, <2>4 DEF Executed, Executions, ExecutedInOrder
<1>2. CASE ~(deduplicates /\ <<e, i>> \in seen)
  <2>1. executed' = Append(executed, <<e, i>>)
    BY <1>2 DEF TakeEffect, IdempotencyKey
  <2> DEFINE n == Len(executed)
  <2>2. /\ executed' \in Seq(Events \X Nat)
        /\ DOMAIN executed' = 1..(n + 1)
        /\ DOMAIN executed = 1..n
        /\ n \in Nat
        /\ \A k \in DOMAIN executed : executed'[k] = executed[k]
        /\ executed'[n + 1] = <<e, i>>
    BY <2>1, AppendKeepsExecuted
  <2> HIDE DEF n
  <2>3. Executed(<<e, i>>)'
    <3>1. n + 1 \in DOMAIN executed' /\ executed'[n + 1] = <<e, i>>
      BY <2>2
    <3> QED
      BY <3>1 DEF Executed, Executions
  <2>4. \A c \in Events \X Nat : Executed(c) => Executed(c)'
    <3>1. \A k \in DOMAIN executed : k \in DOMAIN executed' /\ executed'[k] = executed[k]
      BY <2>2
    <3> QED
      BY <3>1 DEF Executed, Executions
  <2>5. ExecutedInOrder'
    <3> SUFFICES ASSUME NEW k \in 1..(n + 1), executed'[k][2] > 0
                 PROVE  \E j \in 1..(k - 1) :
                           executed'[j] = <<executed'[k][1], executed'[k][2] - 1>>
      BY <2>2 DEF ExecutedInOrder
    <3>1. CASE k \in 1..n
      <4>1. PICK j \in 1..(k - 1) : executed[j] = <<executed[k][1], executed[k][2] - 1>>
        BY <3>1, <2>2 DEF ExecutedInOrder
      <4>2. j \in 1..n
        BY <4>1, <3>1, <2>2
      <4> QED
        BY <4>1, <4>2, <3>1, <2>2
    <3>2. CASE k = n + 1
      <4>1. executed'[k] = <<e, i>>
        BY <3>2, <2>2
      <4>2. Executed(<<e, i - 1>>)
        BY <4>1
      <4>3. PICK j \in DOMAIN executed : executed[j] = <<e, i - 1>>
        BY <4>2 DEF Executed, Executions
      <4>4. j \in 1..(k - 1) /\ executed'[j] = <<e, i - 1>>
        BY <4>3, <3>2, <2>2
      <4>5. executed'[k][1] = e /\ executed'[k][2] = i
        BY <4>1
      <4> QED
        BY <4>4, <4>5
    <3> QED
      BY <3>1, <3>2, <2>2
  <2> QED
    BY <2>2, <2>3, <2>4, <2>5
<1> QED
  BY <1>1, <1>2

-------------------------------------------------------------------------------
LEMMA ManagerInit == Init => ManagerInv
<1> SUFFICES ASSUME Init PROVE ManagerInv
  OBVIOUS
<1>1. RunTypeOK
  BY ProcessManagerAssumption DEF Init, RunTypeOK, Idle
<1>2. SkippedAreExecuted /\ SavedAreExecuted
  BY DEF Init, SkippedAreExecuted, SavedAreExecuted, Idle
<1>3. ExecutedInOrder
  BY DEF Init, ExecutedInOrder
<1> QED
  BY <1>1, <1>2, <1>3 DEF ManagerInv

(* A step of a runner that only adds to the record of the bus keeps the    *)
(* invariant if the runner's new position and the saved indices skip only  *)
(* executed commands.                                                      *)
LEMMA RunnerStep ==
    ASSUME ManagerInv, RunTypeOK', ExecutedInOrder',
           \A c \in Events \X Nat : Executed(c) => Executed(c)',
           NEW r \in Runners,
           \A s \in Runners \ {r} : run'[s] = run[s],
           (\A e \in Events : \A i \in 0..(dispatch_index[e] - 1) : Executed(<<e, i>>))',
           (run[r].pc # "idle" =>
               \A i \in 0..(run[r].index - 1) : Executed(<<run[r].event, i>>))',
           (run[r].pc = "save" => Executed(<<run[r].event, run[r].index>>))'
    PROVE  ManagerInv'
<1>1. \A s \in Runners :
          (run[s].pc # "idle" => \A i \in 0..(run[s].index - 1) : Executed(<<run[s].event, i>>))'
  <2> SUFFICES ASSUME NEW s \in Runners \ {r}
               PROVE  (run[s].pc # "idle" =>
                          \A i \in 0..(run[s].index - 1) : Executed(<<run[s].event, i>>))'
    OBVIOUS
  <2>1. run'[s] = run[s]
    OBVIOUS
  <2>2. CASE run[s].pc # "idle"
    <3>1. PICK e \in Events, n \in Nat : run[s].event = e /\ run[s].index = n
      BY <2>2 DEF ManagerInv, RunTypeOK
    <3>2. \A i \in 0..(n - 1) : Executed(<<e, i>>)
      BY <2>2, <3>1 DEF ManagerInv, SkippedAreExecuted
    <3>3. \A i \in 0..(n - 1) : <<e, i>> \in Events \X Nat
      BY <3>1
    <3>4. \A i \in 0..(n - 1) : Executed(<<e, i>>)'
      BY <3>2, <3>3
    <3> QED
      BY <2>1, <3>1, <3>4
  <2> QED
    BY <2>1, <2>2
<1>2. \A s \in Runners : (run[s].pc = "save" => Executed(<<run[s].event, run[s].index>>))'
  <2> SUFFICES ASSUME NEW s \in Runners \ {r}
               PROVE  (run[s].pc = "save" => Executed(<<run[s].event, run[s].index>>))'
    OBVIOUS
  <2>1. run'[s] = run[s]
    OBVIOUS
  <2>2. CASE run[s].pc = "save"
    <3>1. PICK e \in Events, n \in Nat : run[s].event = e /\ run[s].index = n
      BY <2>2 DEF ManagerInv, RunTypeOK
    <3>2. Executed(<<e, n>>)
      BY <2>2, <3>1 DEF ManagerInv, SavedAreExecuted
    <3>3. Executed(<<e, n>>)'
      BY <3>1, <3>2
    <3> QED
      BY <2>1, <3>1, <3>3
  <2> QED
    BY <2>1, <2>2
<1>3. SkippedAreExecuted'
  BY <1>1 DEF SkippedAreExecuted
<1>4. SavedAreExecuted'
  BY <1>2 DEF SavedAreExecuted
<1> QED
  BY <1>3, <1>4 DEF ManagerInv

(* A step that leaves the record and the saved indices alone and ends the  *)
(* run keeps the invariant: an error, a crash, a return.                   *)
LEMMA EndOfRun ==
    ASSUME ManagerInv, NEW r \in Runners, run' = [run EXCEPT ![r] = Idle],
           executed' = executed, dispatch_index' = dispatch_index
    PROVE  ManagerInv'
<1>1. /\ run'[r] = Idle
      /\ \A s \in Runners \ {r} : run'[s] = run[s]
  BY DEF ManagerInv, RunTypeOK
<1>2. RunTypeOK'
  BY DEF ManagerInv, RunTypeOK, Idle
<1>3. ExecutedInOrder'
  BY DEF ManagerInv, ExecutedInOrder
<1>4. \A c : Executed(c) <=> Executed(c)'
  BY DEF Executed, Executions
<1>5. (\A e \in Events : \A i \in 0..(dispatch_index[e] - 1) : Executed(<<e, i>>))'
  BY <1>4 DEF ManagerInv, SkippedAreExecuted
<1>6. run'[r].pc = "idle"
  BY <1>1 DEF Idle
<1> QED
  BY <1>1, <1>2, <1>3, <1>4, <1>5, <1>6, RunnerStep

(* A step that moves one runner, with the record of the bus unchanged.     *)
LEMMA QuietStep ==
    ASSUME ManagerInv, executed' = executed, RunTypeOK',
           NEW r \in Runners,
           \A s \in Runners \ {r} : run'[s] = run[s],
           NEW e \in Events, NEW n \in Nat, run'[r].event = e, run'[r].index = n,
           \A d \in Events : \A i \in 0..(dispatch_index'[d] - 1) : Executed(<<d, i>>),
           \A i \in 0..(n - 1) : Executed(<<e, i>>),
           run'[r].pc # "save"
    PROVE  ManagerInv'
<1>1. ExecutedInOrder'
  BY DEF ManagerInv, ExecutedInOrder
<1>2. \A c : Executed(c) <=> Executed(c)'
  BY DEF Executed, Executions
<1>3. (\A d \in Events : \A i \in 0..(dispatch_index[d] - 1) : Executed(<<d, i>>))'
  BY <1>2
<1>4. (\A i \in 0..(run[r].index - 1) : Executed(<<run[r].event, i>>))'
  <2>1. \A i \in 0..(n - 1) : Executed(<<e, i>>)'
    BY <1>2
  <2> QED
    BY <2>1
<1> QED
  BY <1>1, <1>2, <1>3, <1>4, RunnerStep

-------------------------------------------------------------------------------
LEMMA DeliverStep ==
    ASSUME ManagerInv, NEW r \in Runners, NEW e \in Events, Deliver(r, e)
    PROVE  ManagerInv'
<1>1. RunTypeOK'
  BY DEF ManagerInv, RunTypeOK, Deliver
<1>2. /\ run'[r] = [pc |-> "load", event |-> e, index |-> 0]
      /\ \A s \in Runners \ {r} : run'[s] = run[s]
      /\ executed' = executed
      /\ dispatch_index' = dispatch_index
  BY DEF ManagerInv, RunTypeOK, Deliver
<1>3. \A d \in Events : \A i \in 0..(dispatch_index'[d] - 1) : Executed(<<d, i>>)
  BY <1>2 DEF ManagerInv, SkippedAreExecuted
<1>4. \A i \in 0..(0 - 1) : Executed(<<e, i>>)
  OBVIOUS
<1> QED
  BY <1>1, <1>2, <1>3, <1>4, QuietStep

LEMMA LoadDispatchIndexStep ==
    ASSUME ManagerInv, NEW r \in Runners, LoadDispatchIndex(r)
    PROVE  ManagerInv'
<1>1. PICK e \in Events : run[r].event = e
  BY DEF ManagerInv, RunTypeOK, LoadDispatchIndex
<1>2. PICK i \in Nat : /\ i \in {0, dispatch_index[e]}
                       /\ run' = [run EXCEPT ![r].pc = "handle", ![r].index = i]
  BY <1>1 DEF LoadDispatchIndex, ManagerInv, RunTypeOK
<1>3. executed' = executed /\ dispatch_index' = dispatch_index
  BY DEF LoadDispatchIndex
<1>4. /\ run'[r].pc = "handle" /\ run'[r].event = e /\ run'[r].index = i
      /\ \A s \in Runners \ {r} : run'[s] = run[s]
  BY <1>1, <1>2 DEF ManagerInv, RunTypeOK
<1>5. RunTypeOK'
  <2>1. run' \in [Runners -> [pc : {"idle", "load", "handle", "dispatch", "save", "ok"},
                             event : Events \cup {"none"}, index : Nat]]
    <3> DEFINE Run == [pc : {"idle", "load", "handle", "dispatch", "save", "ok"},
                       event : Events \cup {"none"}, index : Nat]
    <3>1. run \in [Runners -> Run]
      BY DEF ManagerInv, RunTypeOK
    <3>2. [run[r] EXCEPT !.pc = "handle", !.index = i] \in Run
      BY <3>1
    <3>3. run' = [run EXCEPT ![r] = [run[r] EXCEPT !.pc = "handle", !.index = i]]
      BY <1>2, <3>1
    <3> HIDE DEF Run
    <3>4. run' \in [Runners -> Run]
      BY <3>1, <3>2, <3>3
    <3> QED
      BY <3>4 DEF Run
  <2>2. \A s \in Runners : run'[s].pc # "idle" => run'[s].event \in Events
    BY <1>4 DEF ManagerInv, RunTypeOK
  <2> QED
    BY <1>3, <2>1, <2>2 DEF ManagerInv, RunTypeOK
<1>6. \A d \in Events : \A j \in 0..(dispatch_index'[d] - 1) : Executed(<<d, j>>)
  BY <1>3 DEF ManagerInv, SkippedAreExecuted
<1>7. \A j \in 0..(i - 1) : Executed(<<e, j>>)
  BY <1>2, <1>3, <1>6
<1> QED
  BY <1>3, <1>4, <1>5, <1>6, <1>7, QuietStep

LEMMA HandleEnvelopeStep ==
    ASSUME ManagerInv, NEW r \in Runners, HandleEnvelope(r)
    PROVE  ManagerInv'
<1>1. CASE Goto(r, "dispatch")
  <2>0. PICK e \in Events, n \in Nat : run[r].event = e /\ run[r].index = n
    BY DEF ManagerInv, RunTypeOK, HandleEnvelope
  <2>1. RunTypeOK'
    BY <1>1 DEF ManagerInv, RunTypeOK, HandleEnvelope, Goto
  <2>2. /\ run'[r].pc = "dispatch" /\ run'[r].event = e /\ run'[r].index = n
        /\ \A s \in Runners \ {r} : run'[s] = run[s]
        /\ executed' = executed
        /\ dispatch_index' = dispatch_index
        /\ run[r].pc = "handle"
    BY <1>1, <2>0 DEF ManagerInv, RunTypeOK, HandleEnvelope, Goto
  <2>3. \A d \in Events : \A j \in 0..(dispatch_index'[d] - 1) : Executed(<<d, j>>)
    BY <2>2 DEF ManagerInv, SkippedAreExecuted
  <2>4. \A j \in 0..(n - 1) : Executed(<<e, j>>)
    BY <2>0, <2>2 DEF ManagerInv, SkippedAreExecuted
  <2> QED
    BY <2>1, <2>2, <2>3, <2>4, QuietStep
<1>2. CASE ReturnError(r)
  BY <1>2, EndOfRun DEF HandleEnvelope, ReturnError
<1> QED
  BY <1>1, <1>2 DEF HandleEnvelope

LEMMA DispatchCommandStep ==
    ASSUME ManagerInv, NEW r \in Runners, DispatchCommand(r)
    PROVE  ManagerInv'
<1>1. PICK e \in Events, n \in Nat :
          run[r].event = e /\ run[r].index = n /\ run[r].pc = "dispatch"
  BY DEF ManagerInv, RunTypeOK, DispatchCommand
<1>2. dispatch_index' = dispatch_index
  BY DEF DispatchCommand
<1>3. \A j \in 0..(n - 1) : Executed(<<e, j>>)
  BY <1>1 DEF ManagerInv, SkippedAreExecuted
<1>4. CASE executed' = executed /\ ReturnError(r)
  BY <1>2, <1>4, EndOfRun DEF ReturnError
<1>5. CASE TakeEffect(e, n) /\ (Goto(r, "save") \/ ReturnError(r))
  <2>1. n > 0 => Executed(<<e, n - 1>>)
    BY <1>1, <1>3
  <2>2. /\ executed' \in Seq(Events \X Nat)
        /\ Executed(<<e, n>>)'
        /\ \A c \in Events \X Nat : Executed(c) => Executed(c)'
        /\ ExecutedInOrder'
    BY <1>1, <1>5, <2>1, EffectIsRecorded DEF ManagerInv, RunTypeOK
  <2>3. (\A d \in Events : \A j \in 0..(dispatch_index[d] - 1) : Executed(<<d, j>>))'
    <3> SUFFICES ASSUME NEW d \in Events, NEW j \in 0..(dispatch_index[d] - 1)
                 PROVE  Executed(<<d, j>>)'
      BY <1>2
    <3>1. Executed(<<d, j>>)
      BY DEF ManagerInv, SkippedAreExecuted
    <3>2. <<d, j>> \in Events \X Nat
      BY DEF ManagerInv, RunTypeOK
    <3> QED
      BY <3>1, <3>2, <2>2
  <2>4. \A j \in 0..(n - 1) : Executed(<<e, j>>)'
    <3> SUFFICES ASSUME NEW j \in 0..(n - 1)
                 PROVE  Executed(<<e, j>>)'
      OBVIOUS
    <3>1. <<e, j>> \in Events \X Nat
      BY <1>1
    <3> QED
      BY <1>3, <2>2, <3>1
  <2>5. CASE Goto(r, "save")
    <3>1. RunTypeOK'
      BY <1>1, <1>2, <2>2, <2>5 DEF ManagerInv, RunTypeOK, Goto
    <3>2. /\ run'[r].event = e /\ run'[r].index = n
          /\ \A s \in Runners \ {r} : run'[s] = run[s]
      BY <1>1, <2>5 DEF ManagerInv, RunTypeOK, Goto
    <3>3. (\A j \in 0..(run[r].index - 1) : Executed(<<run[r].event, j>>))'
      BY <2>4, <3>2
    <3>4. Executed(<<run[r].event, run[r].index>>)'
      BY <2>2, <3>2
    <3> QED
      BY <2>2, <2>3, <3>1, <3>2, <3>3, <3>4, RunnerStep
  <2>6. CASE ReturnError(r)
    <3>1. RunTypeOK'
      BY <1>2, <2>2, <2>6 DEF ManagerInv, RunTypeOK, ReturnError, Idle
    <3>2. /\ run'[r].pc = "idle"
          /\ \A s \in Runners \ {r} : run'[s] = run[s]
      BY <2>6 DEF ManagerInv, RunTypeOK, ReturnError, Idle
    <3> QED
      BY <2>2, <2>3, <3>1, <3>2, RunnerStep
  <2> QED
    BY <1>5, <2>5, <2>6
<1> QED
  BY <1>1, <1>4, <1>5 DEF DispatchCommand

LEMMA SaveDispatchIndexStep ==
    ASSUME ManagerInv, NEW r \in Runners, SaveDispatchIndex(r)
    PROVE  ManagerInv'
<1>1. PICK e \in Events, n \in Nat :
          run[r].event = e /\ run[r].index = n /\ run[r].pc = "save"
  BY DEF ManagerInv, RunTypeOK, SaveDispatchIndex
<1>2. executed' = executed
  BY DEF SaveDispatchIndex
<1>3. \A j \in 0..n : Executed(<<e, j>>)
  <2>1. \A j \in 0..(n - 1) : Executed(<<e, j>>)
    BY <1>1 DEF ManagerInv, SkippedAreExecuted
  <2>2. Executed(<<e, n>>)
    BY <1>1 DEF ManagerInv, SavedAreExecuted
  <2> QED
    BY <1>1, <2>1, <2>2
<1>4. CASE ReturnError(r) /\ dispatch_index' = dispatch_index
  BY <1>2, <1>4, EndOfRun DEF ReturnError
<1>5. CASE /\ dispatch_index' \in {dispatch_index, [dispatch_index EXCEPT ![e] = n + 1]}
           /\ run' = [run EXCEPT ![r].pc = "dispatch", ![r].index = @ + 1]
  <2>1. RunTypeOK'
    BY <1>1, <1>2, <1>5 DEF ManagerInv, RunTypeOK
  <2>2. /\ run'[r].pc = "dispatch" /\ run'[r].event = e /\ run'[r].index = n + 1
        /\ \A s \in Runners \ {r} : run'[s] = run[s]
    BY <1>1, <1>5 DEF ManagerInv, RunTypeOK
  <2>3. \A d \in Events : \/ dispatch_index'[d] = dispatch_index[d]
                          \/ d = e /\ dispatch_index'[d] = n + 1
    BY <1>5 DEF ManagerInv, RunTypeOK
  <2>4. \A d \in Events : \A j \in 0..(dispatch_index[d] - 1) : Executed(<<d, j>>)
    BY DEF ManagerInv, SkippedAreExecuted
  <2>5. \A j \in 0..((n + 1) - 1) : Executed(<<e, j>>)
    BY <1>1, <1>3
  <2>6. \A d \in Events : \A j \in 0..(dispatch_index'[d] - 1) : Executed(<<d, j>>)
    BY <2>3, <2>4, <2>5
  <2>7. n + 1 \in Nat
    OBVIOUS
  <2> QED
    BY <1>2, <2>1, <2>2, <2>5, <2>6, <2>7, QuietStep
<1> QED
  BY <1>1, <1>4, <1>5 DEF SaveDispatchIndex, SavedIndex

LEMMA ClearDispatchIndexStep ==
    ASSUME ManagerInv, NEW r \in Runners, ClearDispatchIndex(r)
    PROVE  ManagerInv'
<1>1. PICK e \in Events, n \in Nat :
          /\ run[r].event = e /\ run[r].index = n
          /\ run[r].pc = "dispatch" /\ executed' = executed
  BY DEF ManagerInv, RunTypeOK, ClearDispatchIndex
<1>2. CASE ReturnError(r) /\ dispatch_index' = dispatch_index
  BY <1>1, <1>2, EndOfRun DEF ReturnError
<1>3. CASE /\ dispatch_index' = [dispatch_index EXCEPT ![e] = 0]
           /\ run' = [run EXCEPT ![r].pc = "ok"]
  <2>1. RunTypeOK'
    BY <1>1, <1>3 DEF ManagerInv, RunTypeOK
  <2>2. /\ run'[r].pc = "ok" /\ run'[r].event = e /\ run'[r].index = n
        /\ \A s \in Runners \ {r} : run'[s] = run[s]
    BY <1>1, <1>3 DEF ManagerInv, RunTypeOK
  <2>3. \A d \in Events : \/ dispatch_index'[d] = dispatch_index[d]
                          \/ dispatch_index'[d] = 0
    BY <1>3 DEF ManagerInv, RunTypeOK
  <2>4. \A d \in Events : \A j \in 0..(dispatch_index[d] - 1) : Executed(<<d, j>>)
    BY DEF ManagerInv, SkippedAreExecuted
  <2>5. \A d \in Events : \A j \in 0..(dispatch_index'[d] - 1) : Executed(<<d, j>>)
    <3> SUFFICES ASSUME NEW d \in Events, NEW j \in 0..(dispatch_index'[d] - 1)
                 PROVE  Executed(<<d, j>>)
      OBVIOUS
    <3>1. dispatch_index'[d] = dispatch_index[d]
      BY <2>3
    <3> QED
      BY <2>4, <3>1
  <2>6. \A j \in 0..(n - 1) : Executed(<<e, j>>)
    BY <1>1 DEF ManagerInv, SkippedAreExecuted
  <2> QED
    BY <1>1, <2>1, <2>2, <2>5, <2>6, QuietStep
<1> QED
  BY <1>1, <1>2, <1>3 DEF ClearDispatchIndex

-------------------------------------------------------------------------------
(* The invariant is inductive: every step of every runner keeps it. *)
LEMMA ManagerNext == ManagerInv /\ [Next]_vars => ManagerInv'
<1> SUFFICES ASSUME ManagerInv, [Next]_vars
             PROVE  ManagerInv'
  OBVIOUS
<1>1. CASE UNCHANGED vars
  <2>1. dispatch_index' = dispatch_index /\ executed' = executed /\ run' = run
    BY <1>1 DEF vars
  <2>2. \A c : Executed(c) <=> Executed(c)'
    BY <2>1 DEF Executed, Executions
  <2>3. RunTypeOK' /\ ExecutedInOrder'
    BY <2>1 DEF ManagerInv, RunTypeOK, ExecutedInOrder
  <2>4. SkippedAreExecuted'
    BY <2>1, <2>2 DEF ManagerInv, SkippedAreExecuted
  <2>5. SavedAreExecuted'
    BY <2>1, <2>2 DEF ManagerInv, SavedAreExecuted
  <2> QED
    BY <2>3, <2>4, <2>5 DEF ManagerInv
<1>2. CASE Next
  <2>1. PICK r \in Runners : (\E e \in Events : Deliver(r, e)) \/ Step(r) \/ Crash(r)
    BY <1>2 DEF Next
  <2>2. CASE \E e \in Events : Deliver(r, e)
    BY <2>2, DeliverStep
  <2>3. CASE Step(r)
    <3>1. CASE ReturnOk(r)
      BY <3>1, EndOfRun DEF ReturnOk
    <3> QED
      BY <2>3, <3>1, LoadDispatchIndexStep, HandleEnvelopeStep, DispatchCommandStep,
         SaveDispatchIndexStep, ClearDispatchIndexStep DEF Step
  <2>4. CASE Crash(r)
    BY <2>4, EndOfRun DEF Crash
  <2> QED
    BY <2>1, <2>2, <2>3, <2>4
<1> QED
  BY <1>1, <1>2

LEMMA ManagerInvariant == Spec => []ManagerInv
  BY ManagerInit, ManagerNext, PTL DEF Spec

(* The saved index and the position of a run never pass a command that has *)
(* not taken effect, whatever load, dispatch, save or clear failed, whoever*)
(* crashed, and however many runners work on one event: a resumed run in   *)
(* ProcessManagerRunner::run skips only finished commands.                 *)
THEOREM NothingUndoneIsSkipped == Spec => []SkippedAreExecuted
<1>1. ManagerInv => SkippedAreExecuted
  BY DEF ManagerInv
<1> QED
  BY <1>1, ManagerInvariant, PTL

(* The commands of one event take effect in the order in which the manager *)
(* returned them.                                                          *)
THEOREM BatchOrderIsKept == Spec => []ExecutedInOrder
<1>1. ManagerInv => ExecutedInOrder
  BY DEF ManagerInv
<1> QED
  BY <1>1, ManagerInvariant, PTL

-------------------------------------------------------------------------------
(* What a repetition costs.  A command is covered when its one free        *)
(* execution may have happened since its event was last cleared: it lies   *)
(* below the saved index and, while a run of the event is under way, below *)
(* the position of the run too, so that a run that starts over after a     *)
(* failed load is entitled to the commands it repeats.                     *)
Covered(w, saved, e, i) ==
    IF w.event = e /\ w.pc = "save" THEN i <= w.index
    ELSE i < saved /\ (w.event = e /\ w.pc \in {"handle", "dispatch"} => i < w.index)

Paid(count, credit, covered) == count <= credit + 1 /\ (~covered => count <= credit)

Occurrences(s, c) == Cardinality({k \in DOMAIN s : s[k] = c})

LedgerTypeOK ==
    /\ active \subseteq Runners
    /\ faults \in Nat
    /\ completed \in [Events -> Nat]

OthersAreIdle == \A r \in Runners \ active : run[r].pc = "idle"

RepetitionsArePaid ==
    \A a \in Runners : checkpointing /\ active = {a} =>
       \A e \in Events : \A i \in Nat :
          Paid(Occurrences(executed, <<e, i>>), faults + completed[e],
               Covered(run[a], dispatch_index[e], e, i))

LedgerInv == LedgerTypeOK /\ OthersAreIdle /\ RepetitionsArePaid

LEMMA OccurrencesAreFinite ==
    ASSUME NEW s \in Seq(Events \X Nat), NEW c
    PROVE  /\ IsFiniteSet({k \in DOMAIN s : s[k] = c})
           /\ Occurrences(s, c) \in Nat
<1>1. DOMAIN s = 1..Len(s) /\ Len(s) \in Nat
  OBVIOUS
<1>2. IsFiniteSet(1..Len(s))
  BY <1>1, FS_Interval
<1>3. {k \in DOMAIN s : s[k] = c} \in SUBSET (1..Len(s))
  BY <1>1
<1>4. IsFiniteSet({k \in DOMAIN s : s[k] = c})
  BY <1>2, <1>3, FS_Subset
<1> QED
  BY <1>4, FS_CardinalityType DEF Occurrences

(* A command added to the record of the bus counts once, for itself.       *)
LEMMA AppendCountsOnce ==
    ASSUME NEW s \in Seq(Events \X Nat), NEW d \in Events \X Nat, NEW c
    PROVE  Occurrences(Append(s, d), c) =
              IF c = d THEN Occurrences(s, c) + 1 ELSE Occurrences(s, c)
<1> DEFINE before == {k \in DOMAIN s : s[k] = c}
           t == Append(s, d)
           after == {k \in DOMAIN t : t[k] = c}
           n == Len(s)
<1>1. /\ DOMAIN t = 1..(n + 1) /\ DOMAIN s = 1..n /\ n \in Nat
      /\ \A k \in DOMAIN s : t[k] = s[k]
      /\ t[n + 1] = d
  BY AppendKeepsExecuted
<1>2. IsFiniteSet(before)
  BY OccurrencesAreFinite
<1> HIDE DEF t, n
<1>3. CASE c = d
  <2>1. after = before \cup {n + 1} /\ n + 1 \notin before
    BY <1>1, <1>3
  <2>2. Cardinality(after) = Cardinality(before) + 1
    BY <1>2, <2>1, FS_AddElement
  <2> QED
    BY <1>3, <2>2 DEF Occurrences, t
<1>4. CASE c # d
  <2>1. after = before
    BY <1>1, <1>4
  <2> QED
    BY <1>4, <2>1 DEF Occurrences, t
<1> QED
  BY <1>3, <1>4

(* Whatever the bus does with the key, a taken command adds at most one    *)
(* occurrence, its own.                                                    *)
LEMMA EffectCountsOnce ==
    ASSUME NEW e \in Events, NEW n \in Nat, executed \in Seq(Events \X Nat), TakeEffect(e, n)
    PROVE  \A c : \/ Occurrences(executed', c) = Occurrences(executed, c)
                  \/ /\ c = <<e, n>>
                     /\ Occurrences(executed', c) = Occurrences(executed, c) + 1
<1>1. executed' = executed \/ executed' = Append(executed, <<e, n>>)
  BY DEF TakeEffect
<1>2. PICK s \in Seq(Events \X Nat) : s = executed
  OBVIOUS
<1>3. <<e, n>> \in Events \X Nat
  OBVIOUS
<1>4. \A c : Occurrences(Append(s, <<e, n>>), c) =
                IF c = <<e, n>> THEN Occurrences(s, c) + 1 ELSE Occurrences(s, c)
  BY <1>3, AppendCountsOnce
<1> QED
  BY <1>1, <1>2, <1>4

-------------------------------------------------------------------------------
LEMMA LedgerInit == Init => LedgerInv
<1> SUFFICES ASSUME Init PROVE LedgerInv
  OBVIOUS
<1>1. LedgerTypeOK /\ OthersAreIdle
  BY DEF Init, LedgerTypeOK, OthersAreIdle, Idle
<1>2. RepetitionsArePaid
  <2> SUFFICES ASSUME NEW a \in Runners, NEW e \in Events, NEW i \in Nat
               PROVE  Paid(Occurrences(executed, <<e, i>>), faults + completed[e],
                           Covered(run[a], dispatch_index[e], e, i))
    BY DEF RepetitionsArePaid
  <2>1. {k \in DOMAIN executed : executed[k] = <<e, i>>} = {}
    BY DEF Init
  <2>2. Occurrences(executed, <<e, i>>) = 0
    BY <2>1, FS_EmptySet DEF Occurrences
  <2>3. faults + completed[e] = 0
    BY DEF Init
  <2> QED
    BY <2>2, <2>3 DEF Paid
<1> QED
  BY <1>1, <1>2 DEF LedgerInv

(* The only deployed runner of a deployment of one takes every step.       *)
LEMMA OnlyActiveRunnersMove ==
    ASSUME LedgerInv, NEW r \in Runners,
           (\E e \in Events : Deliver(r, e)) \/ Step(r) \/ Crash(r)
    PROVE  r \in active
<1>1. CASE run[r].pc # "idle"
  BY <1>1 DEF LedgerInv, OthersAreIdle
<1>2. CASE run[r].pc = "idle"
  BY <1>2 DEF Deliver, Step, Crash, LoadDispatchIndex, HandleEnvelope, DispatchCommand,
     SaveDispatchIndex, ClearDispatchIndex, ReturnOk
<1> QED
  BY <1>1, <1>2

LEMMA LedgerTypeStep ==
    ASSUME ManagerInv, LedgerInv, [Next]_vars
    PROVE  LedgerTypeOK' /\ OthersAreIdle' /\ active' = active /\ checkpointing' = checkpointing
<1>1. CASE UNCHANGED vars
  BY <1>1 DEF vars, LedgerInv, LedgerTypeOK, OthersAreIdle
<1>2. CASE Next
  <2>1. PICK r \in Runners : (\E e \in Events : Deliver(r, e)) \/ Step(r) \/ Crash(r)
    BY <1>2 DEF Next
  <2>2. active' = active /\ checkpointing' = checkpointing
    BY <2>1 DEF Deliver, Step, Crash, LoadDispatchIndex, HandleEnvelope, DispatchCommand,
       SaveDispatchIndex, ClearDispatchIndex, ReturnOk, setup
  <2>3. r \in active
    BY <2>1, OnlyActiveRunnersMove
  <2>4. \A s \in Runners \ {r} : run'[s] = run[s]
    <3>1. run \in [Runners -> [pc : {"idle", "load", "handle", "dispatch", "save", "ok"},
                               event : Events \cup {"none"}, index : Nat]]
      BY DEF ManagerInv, RunTypeOK
    <3> QED
      BY <2>1, <3>1 DEF Deliver, Step, Crash, LoadDispatchIndex, HandleEnvelope,
         DispatchCommand, SaveDispatchIndex, ClearDispatchIndex, ReturnOk, Goto, ReturnError
  <2>5. OthersAreIdle'
    BY <2>2, <2>3, <2>4 DEF LedgerInv, OthersAreIdle
  <2>6. faults' = faults \/ faults' = faults + 1
    BY <2>1 DEF Deliver, Step, Crash, LoadDispatchIndex, HandleEnvelope, DispatchCommand,
       SaveDispatchIndex, ClearDispatchIndex, ReturnOk, Faulty
  <2>7. completed' = completed \/ completed' = [completed EXCEPT ![run[r].event] = @ + 1]
    BY <2>1 DEF Deliver, Step, Crash, LoadDispatchIndex, HandleEnvelope, DispatchCommand,
       SaveDispatchIndex, ClearDispatchIndex, ReturnOk
  <2>8. LedgerTypeOK'
    BY <2>2, <2>6, <2>7 DEF LedgerInv, LedgerTypeOK
  <2> QED
    BY <2>2, <2>5, <2>8
<1> QED
  BY <1>1, <1>2

-------------------------------------------------------------------------------
PaidUp(a) ==
    \A e \in Events : \A i \in Nat :
       Paid(Occurrences(executed, <<e, i>>), faults + completed[e],
            Covered(run[a], dispatch_index[e], e, i))

LEMMA OccurrenceType ==
    ASSUME ManagerInv
    PROVE  \A c : Occurrences(executed, c) \in Nat
<1>1. PICK s \in Seq(Events \X Nat) : s = executed
  BY DEF ManagerInv, RunTypeOK
<1>2. \A c : Occurrences(s, c) \in Nat
  BY OccurrencesAreFinite
<1> QED
  BY <1>1, <1>2

(* A step that adds nothing to the record of the bus and pays a fault      *)
(* settles every command, wherever the run and the saved indices go.       *)
LEMMA FaultSettles ==
    ASSUME ManagerInv, LedgerTypeOK, NEW a \in Runners, PaidUp(a),
           executed' = executed, completed' = completed, faults' = faults + 1
    PROVE  PaidUp(a)'
<1> SUFFICES ASSUME NEW e \in Events, NEW i \in Nat
             PROVE  Paid(Occurrences(executed', <<e, i>>), faults' + completed'[e],
                         Covered(run'[a], dispatch_index'[e], e, i))
  BY DEF PaidUp
<1>1. PICK n \in Nat : n = Occurrences(executed, <<e, i>>)
  BY OccurrenceType
<1>2. PICK f \in Nat, c \in Nat : f = faults /\ c = completed[e]
  BY DEF LedgerTypeOK
<1>3. n <= f + c + 1
  BY <1>1, <1>2 DEF PaidUp, Paid
<1> QED
  BY <1>1, <1>2, <1>3 DEF Paid

(* A step that adds nothing to the record and covers no less than before   *)
(* needs no payment.                                                       *)
LEMMA CoverIsKept ==
    ASSUME ManagerInv, LedgerTypeOK, NEW a \in Runners, PaidUp(a),
           executed' = executed, completed' = completed, faults' = faults,
           \A e \in Events : \A i \in Nat :
              Covered(run[a], dispatch_index[e], e, i)
                 => Covered(run'[a], dispatch_index'[e], e, i)
    PROVE  PaidUp(a)'
<1> SUFFICES ASSUME NEW e \in Events, NEW i \in Nat
             PROVE  Paid(Occurrences(executed', <<e, i>>), faults' + completed'[e],
                         Covered(run'[a], dispatch_index'[e], e, i))
  BY DEF PaidUp
<1>1. Paid(Occurrences(executed, <<e, i>>), faults + completed[e],
           Covered(run[a], dispatch_index[e], e, i))
  BY DEF PaidUp
<1> QED
  BY <1>1 DEF Paid

LEMMA DeliverIsPaid ==
    ASSUME ManagerInv, LedgerTypeOK, NEW a \in Runners, PaidUp(a), NEW d \in Events, Deliver(a, d)
    PROVE  PaidUp(a)'
<1>1. /\ run[a].pc = "idle" /\ run'[a].pc = "load"
      /\ dispatch_index' = dispatch_index
      /\ executed' = executed /\ completed' = completed /\ faults' = faults
  BY DEF ManagerInv, RunTypeOK, Deliver
<1>2. \A e \in Events : \A i \in Nat :
          Covered(run[a], dispatch_index[e], e, i) => Covered(run'[a], dispatch_index'[e], e, i)
  BY <1>1 DEF Covered
<1> QED
  BY <1>1, <1>2, CoverIsKept

(* A successful load resumes at the saved index and covers what it covers; *)
(* one that fails is a fault.                                              *)
LEMMA LoadIsPaid ==
    ASSUME ManagerInv, LedgerTypeOK, NEW a \in Runners, PaidUp(a), LoadDispatchIndex(a)
    PROVE  PaidUp(a)'
<1>1. /\ run[a].pc = "load" /\ dispatch_index' = dispatch_index
      /\ executed' = executed /\ completed' = completed
  BY DEF LoadDispatchIndex
<1>2. CASE faults' = faults + 1
  BY <1>1, <1>2, FaultSettles
<1>3. CASE /\ run' = [run EXCEPT ![a].pc = "handle",
                                 ![a].index = dispatch_index[run[a].event]]
           /\ faults' = faults
  <2>1. PICK d \in Events, n \in Nat : d = run[a].event /\ n = dispatch_index[d]
    BY <1>1 DEF ManagerInv, RunTypeOK
  <2>2. /\ run'[a].pc = "handle" /\ run'[a].event = d /\ run'[a].index = n
    BY <1>3, <2>1 DEF ManagerInv, RunTypeOK
  <2>3. \A e \in Events : \A i \in Nat :
            Covered(run[a], dispatch_index[e], e, i) => Covered(run'[a], dispatch_index'[e], e, i)
    BY <1>1, <2>1, <2>2 DEF Covered
  <2> QED
    BY <1>1, <1>3, <2>3, CoverIsKept
<1> QED
  BY <1>2, <1>3 DEF LoadDispatchIndex, Faulty

LEMMA HandleIsPaid ==
    ASSUME ManagerInv, LedgerTypeOK, NEW a \in Runners, PaidUp(a), HandleEnvelope(a)
    PROVE  PaidUp(a)'
<1>1. /\ run[a].pc = "handle" /\ dispatch_index' = dispatch_index
      /\ executed' = executed /\ completed' = completed
  BY DEF HandleEnvelope
<1>2. CASE faults' = faults + 1
  BY <1>1, <1>2, FaultSettles
<1>3. CASE Goto(a, "dispatch") /\ faults' = faults
  <2>1. /\ run'[a].pc = "dispatch" /\ run'[a].event = run[a].event
        /\ run'[a].index = run[a].index
    BY <1>3 DEF ManagerInv, RunTypeOK, Goto
  <2>2. \A e \in Events : \A i \in Nat :
            Covered(run[a], dispatch_index[e], e, i) => Covered(run'[a], dispatch_index'[e], e, i)
    BY <1>1, <2>1 DEF Covered
  <2> QED
    BY <1>1, <1>3, <2>2, CoverIsKept
<1> QED
  BY <1>2, <1>3 DEF HandleEnvelope, Faulty

(* The command at the position of the run was not covered: its execution   *)
(* uses its free one, or the fault that loses the reply pays for it.       *)
LEMMA DispatchIsPaid ==
    ASSUME ManagerInv, LedgerTypeOK, NEW a \in Runners, PaidUp(a), DispatchCommand(a)
    PROVE  PaidUp(a)'
<1>1. PICK d \in Events, p \in Nat : d = run[a].event /\ p = run[a].index /\ run[a].pc = "dispatch"
  BY DEF ManagerInv, RunTypeOK, DispatchCommand
<1>2. dispatch_index' = dispatch_index /\ completed' = completed
  BY DEF DispatchCommand
<1>3. CASE executed' = executed /\ faults' = faults /\ ReturnError(a)
  <2>1. run'[a].pc = "idle"
    BY <1>3 DEF ManagerInv, RunTypeOK, ReturnError, Idle
  <2>2. \A e \in Events : \A i \in Nat :
            Covered(run[a], dispatch_index[e], e, i) => Covered(run'[a], dispatch_index'[e], e, i)
    BY <1>1, <1>2, <2>1 DEF Covered
  <2> QED
    BY <1>2, <1>3, <2>2, CoverIsKept
<1>4. CASE TakeEffect(d, p)
  <2> SUFFICES ASSUME NEW e \in Events, NEW i \in Nat,
                      \/ Goto(a, "save") /\ faults' = faults
                      \/ faults' = faults + 1
               PROVE  Paid(Occurrences(executed', <<e, i>>), faults' + completed'[e],
                           Covered(run'[a], dispatch_index'[e], e, i))
    BY <1>3 DEF PaidUp, DispatchCommand, Faulty
  <2>1. PICK n \in Nat : n = Occurrences(executed, <<e, i>>)
    BY OccurrenceType
  <2>2. PICK m \in Nat : /\ m = Occurrences(executed', <<e, i>>)
                         /\ m = n \/ (e = d /\ i = p /\ m = n + 1)
    <3>1. \/ Occurrences(executed', <<e, i>>) = n
          \/ <<e, i>> = <<d, p>> /\ Occurrences(executed', <<e, i>>) = n + 1
      BY <1>4, <2>1, EffectCountsOnce DEF ManagerInv, RunTypeOK
    <3> QED
      BY <3>1, <2>1
  <2>3. PICK f \in Nat, c \in Nat, s \in Nat :
            f = faults /\ c = completed[e] /\ s = dispatch_index[e]
    BY DEF LedgerTypeOK, ManagerInv, RunTypeOK
  <2>4. Paid(n, f + c, Covered(run[a], s, e, i))
    BY <2>1, <2>3 DEF PaidUp
  <2>5. e = d => (Covered(run[a], s, e, i) => i < p)
    BY <1>1 DEF Covered
  <2>6. n <= f + c + 1 /\ (e = d /\ i >= p => n <= f + c)
    BY <2>4, <2>5 DEF Paid
  <2>7. CASE faults' = faults + 1
    <3>1. m <= f + 1 + c
      BY <2>2, <2>3, <2>6
    <3> QED
      BY <1>2, <2>2, <2>3, <2>7, <3>1 DEF Paid
  <2>8. CASE Goto(a, "save") /\ faults' = faults
    <3>1. run'[a].pc = "save" /\ run'[a].event = d /\ run'[a].index = p
      BY <1>1, <2>8 DEF ManagerInv, RunTypeOK, Goto
    <3>2. Covered(run'[a], s, e, i) <=> IF e = d THEN i <= p ELSE i < s
      BY <3>1 DEF Covered
    <3>3. e # d => (Covered(run[a], s, e, i) <=> i < s)
      BY <1>1 DEF Covered
    <3>4. e # d => m = n
      BY <2>2
    <3>5. m <= f + c + 1
      BY <2>2, <2>6
    <3>6. ~Covered(run'[a], s, e, i) => m <= f + c
      <4>1. CASE e # d
        BY <4>1, <3>2, <3>3, <3>4, <2>4 DEF Paid
      <4>2. CASE e = d
        BY <4>2, <3>2, <2>2, <2>6
      <4> QED
        BY <4>1, <4>2
    <3> QED
      BY <1>2, <2>2, <2>3, <2>8, <3>5, <3>6 DEF Paid
  <2> QED
    BY <2>7, <2>8
<1> QED
  BY <1>1, <1>3, <1>4 DEF DispatchCommand

(* Saving the index covers the command just dispatched and those before    *)
(* it; with the checkpoint at hand, nothing after it stays covered.        *)
LEMMA SaveIsPaid ==
    ASSUME ManagerInv, LedgerTypeOK, checkpointing, NEW a \in Runners, PaidUp(a),
           SaveDispatchIndex(a)
    PROVE  PaidUp(a)'
<1>1. PICK d \in Events, p \in Nat : d = run[a].event /\ p = run[a].index /\ run[a].pc = "save"
  BY DEF ManagerInv, RunTypeOK, SaveDispatchIndex
<1>2. executed' = executed /\ completed' = completed
  BY DEF SaveDispatchIndex
<1>3. CASE faults' = faults + 1
  BY <1>2, <1>3, FaultSettles
<1>4. CASE /\ dispatch_index' = [dispatch_index EXCEPT ![d] = p + 1]
           /\ run' = [run EXCEPT ![a].pc = "dispatch", ![a].index = @ + 1]
           /\ faults' = faults
  <2>1. run'[a].pc = "dispatch" /\ run'[a].event = d /\ run'[a].index = p + 1
    BY <1>1, <1>4 DEF ManagerInv, RunTypeOK
  <2>2. \A e \in Events : dispatch_index'[e] = IF e = d THEN p + 1 ELSE dispatch_index[e]
    BY <1>4 DEF ManagerInv, RunTypeOK
  <2>3. \A e \in Events : \A i \in Nat :
            Covered(run[a], dispatch_index[e], e, i) => Covered(run'[a], dispatch_index'[e], e, i)
    <3> SUFFICES ASSUME NEW e \in Events, NEW i \in Nat, Covered(run[a], dispatch_index[e], e, i)
                 PROVE  Covered(run'[a], dispatch_index'[e], e, i)
      OBVIOUS
    <3>1. CASE e = d
      <4>1. i <= p
        BY <1>1, <3>1 DEF Covered
      <4> QED
        BY <2>1, <2>2, <3>1, <4>1 DEF Covered
    <3>2. CASE e # d
      BY <1>1, <2>1, <2>2, <3>2 DEF Covered
    <3> QED
      BY <3>1, <3>2
  <2> QED
    BY <1>2, <1>4, <2>3, CoverIsKept
<1> QED
  BY <1>1, <1>3, <1>4 DEF SaveDispatchIndex, SavedIndex, Faulty

(* Clearing the index uncovers the commands of the event and grants each   *)
(* of them a further execution.                                            *)
LEMMA ClearIsPaid ==
    ASSUME ManagerInv, LedgerTypeOK, NEW a \in Runners, PaidUp(a), ClearDispatchIndex(a)
    PROVE  PaidUp(a)'
<1>1. PICK d \in Events : d = run[a].event /\ run[a].pc = "dispatch" /\ executed' = executed
  BY DEF ManagerInv, RunTypeOK, ClearDispatchIndex
<1>2. CASE faults' = faults + 1 /\ completed' = completed
  BY <1>1, <1>2, FaultSettles
<1>3. CASE /\ dispatch_index' = [dispatch_index EXCEPT ![d] = 0]
           /\ completed' = [completed EXCEPT ![d] = @ + 1]
           /\ run' = [run EXCEPT ![a].pc = "ok"]
           /\ faults' = faults
  <2> SUFFICES ASSUME NEW e \in Events, NEW i \in Nat
               PROVE  Paid(Occurrences(executed', <<e, i>>), faults' + completed'[e],
                           Covered(run'[a], dispatch_index'[e], e, i))
    BY DEF PaidUp
  <2>1. PICK n \in Nat : n = Occurrences(executed, <<e, i>>)
    BY OccurrenceType
  <2>2. PICK f \in Nat, c \in Nat, s \in Nat :
            f = faults /\ c = completed[e] /\ s = dispatch_index[e]
    BY DEF LedgerTypeOK, ManagerInv, RunTypeOK
  <2>3. Paid(n, f + c, Covered(run[a], s, e, i))
    BY <2>1, <2>2 DEF PaidUp
  <2>4. CASE e = d
    <3>1. completed'[e] = c + 1
      BY <1>3, <2>2, <2>4 DEF LedgerTypeOK
    <3>2. n <= f + c + 1
      BY <2>3 DEF Paid
    <3> QED
      BY <1>1, <1>3, <2>1, <2>2, <3>1, <3>2 DEF Paid
  <2>5. CASE e # d
    <3>1. completed'[e] = c /\ dispatch_index'[e] = s
      BY <1>3, <2>2, <2>5 DEF LedgerTypeOK, ManagerInv, RunTypeOK
    <3>2. run'[a].event = d
      BY <1>1, <1>3 DEF ManagerInv, RunTypeOK
    <3>3. Covered(run'[a], s, e, i) <=> Covered(run[a], s, e, i)
      BY <1>1, <2>5, <3>2 DEF Covered
    <3> QED
      BY <1>1, <1>3, <2>1, <2>2, <2>3, <3>1, <3>3 DEF Paid
  <2> QED
    BY <2>4, <2>5
<1> QED
  BY <1>1, <1>2, <1>3 DEF ClearDispatchIndex, Faulty

LEMMA ReturnOkIsPaid ==
    ASSUME ManagerInv, LedgerTypeOK, NEW a \in Runners, PaidUp(a), ReturnOk(a)
    PROVE  PaidUp(a)'
<1>1. /\ run[a].pc = "ok" /\ run'[a].pc = "idle"
      /\ dispatch_index' = dispatch_index
      /\ executed' = executed /\ completed' = completed /\ faults' = faults
  BY DEF ManagerInv, RunTypeOK, ReturnOk, Idle
<1>2. \A e \in Events : \A i \in Nat :
          Covered(run[a], dispatch_index[e], e, i) => Covered(run'[a], dispatch_index'[e], e, i)
  BY <1>1 DEF Covered
<1> QED
  BY <1>1, <1>2, CoverIsKept

LEMMA LedgerNext == ManagerInv /\ LedgerInv /\ [Next]_vars => LedgerInv'
<1> SUFFICES ASSUME ManagerInv, LedgerInv, [Next]_vars
             PROVE  LedgerInv'
  OBVIOUS
<1>1. /\ LedgerTypeOK /\ LedgerTypeOK' /\ OthersAreIdle'
      /\ active' = active /\ checkpointing' = checkpointing
  BY LedgerTypeStep DEF LedgerInv
<1>2. RepetitionsArePaid'
  <2> SUFFICES ASSUME NEW a \in Runners, checkpointing, active = {a}
               PROVE  PaidUp(a)'
    BY <1>1 DEF RepetitionsArePaid, PaidUp
  <2>1. PaidUp(a)
    BY DEF LedgerInv, RepetitionsArePaid, PaidUp
  <2>2. CASE UNCHANGED vars
    BY <2>1, <2>2 DEF vars, PaidUp
  <2>3. CASE Next
    <3>1. PICK r \in Runners : (\E e \in Events : Deliver(r, e)) \/ Step(r) \/ Crash(r)
      BY <2>3 DEF Next
    <3>2. r = a
      BY <3>1, OnlyActiveRunnersMove
    <3>3. CASE \E e \in Events : Deliver(a, e)
      BY <1>1, <2>1, <3>3, DeliverIsPaid
    <3>4. CASE Step(a)
      BY <1>1, <2>1, <3>4, LoadIsPaid, HandleIsPaid, DispatchIsPaid, SaveIsPaid, ClearIsPaid,
         ReturnOkIsPaid DEF Step
    <3>5. CASE Crash(a)
      BY <1>1, <2>1, <3>5, FaultSettles DEF Crash, Faulty
    <3> QED
      BY <3>1, <3>2, <3>3, <3>4, <3>5
  <2> QED
    BY <2>2, <2>3
<1> QED
  BY <1>1, <1>2 DEF LedgerInv

(* With one runner and a dispatch checkpoint, every repetition of a        *)
(* command is paid for by a fault or by a delivery of a completed event:   *)
(* a refusal by the bus, at any position of the batch and any number of    *)
(* times, never makes an earlier command of it run again, on a bus that    *)
(* ignores the keys as well.                                               *)
THEOREM ResumptionRepeatsNothing == Spec => []ResumeDoesNotRepeat
<1>1. LedgerInv /\ ManagerInv => ResumeDoesNotRepeat
  <2> SUFFICES ASSUME LedgerInv, ManagerInv, checkpointing, Cardinality(active) = 1,
                      NEW command \in Commands
               PROVE  Cardinality(Executions(command)) <= 1 + faults + completed[command[1]]
    BY DEF ResumeDoesNotRepeat
  <2>1. IsFiniteSet(active)
    BY ProcessManagerAssumption, FS_Subset DEF LedgerInv, LedgerTypeOK
  <2>2. PICK a \in Runners : active = {a}
    <3>1. \E x : active = {x}
      BY <2>1, FS_Singleton
    <3> QED
      BY <3>1 DEF LedgerInv, LedgerTypeOK
  <2>3. PICK e \in Events, i \in Nat : command = <<e, i>>
    BY ProcessManagerAssumption DEF Commands
  <2>4. PICK n \in Nat : n = Occurrences(executed, <<e, i>>)
    BY OccurrenceType
  <2>5. PICK f \in Nat, c \in Nat : f = faults /\ c = completed[e]
    BY DEF LedgerInv, LedgerTypeOK
  <2>6. n <= f + c + 1
    BY <2>2, <2>4, <2>5 DEF LedgerInv, RepetitionsArePaid, Paid
  <2>7. Cardinality(Executions(command)) = n
    BY <2>3, <2>4 DEF Executions, Occurrences
  <2> QED
    BY <2>3, <2>5, <2>6, <2>7
<1>2. Spec => [](LedgerInv /\ ManagerInv)
  BY LedgerInit, LedgerNext, ManagerInit, ManagerNext, PTL DEF Spec
<1> QED
  BY <1>1, <1>2, PTL
===============================================================================
