---------------------------- MODULE ProcessManager ----------------------------
(***************************************************************************)
(* The process-manager runner (src/src/process_manager.rs): for a          *)
(* delivered envelope it asks the manager for commands, dispatches them in *)
(* order under the keys manager:event:index, and after each one records    *)
(* the next index in a dispatch checkpoint, so that a later delivery of    *)
(* the same envelope resumes where this one failed.                        *)
(*                                                                         *)
(* The manager answers the same envelope with the same commands (the       *)
(* trait asks for idempotent event handling); they are named by their      *)
(* event and index.  The subscription delivers an envelope again until a   *)
(* run of it returns Ok, and a bounded number of times after that.         *)
(***************************************************************************)
EXTENDS Integers, Sequences, FiniteSets

CONSTANTS
    Runners,
    Events,
    NumCommands,        \* event -> how many commands the manager emits for it
    MaxRejections,      \* bound on commands the bus refuses
    MaxFaults,          \* bound on the other failures and crashes
    MaxRedeliveries     \* bound on deliveries after a run returned Ok

ASSUME ProcessManagerAssumption ==
    /\ IsFiniteSet(Runners)
    /\ NumCommands \in [Events -> Nat]
    /\ MaxRejections \in Nat
    /\ MaxFaults \in Nat
    /\ MaxRedeliveries \in Nat

VARIABLES
    active,         \* the runners that are deployed
    deduplicates,   \* does dispatch_idempotent look at the key
    checkpointing,  \* is there a dispatch checkpoint, or the unit one
    dispatch_index, \* event -> saved index, 0 for none
    executed,       \* commands that took effect, in order
    run,            \* runner -> its run
    completed,      \* event -> how many runs have cleared its index
    rejections,     \* refused commands so far
    faults          \* other failures so far

vars == <<active, deduplicates, checkpointing, dispatch_index, executed, run,
          completed, rejections, faults>>
setup == <<active, deduplicates, checkpointing>>

-------------------------------------------------------------------------------
(* Mutant: the key names the manager and the event only. *)
MutIdempotencyKey(event, index) == <<event, 0>>

(* process_manager_command_idempotency_key. *)
IdempotencyKey(event, index) == <<event, index>>

Commands == UNION {{<<e, i>> : i \in 0..(NumCommands[e] - 1)} : e \in Events}

Executions(command) == {k \in DOMAIN executed : executed[k] = command}
Executed(command) == Executions(command) # {}

Idle == [pc |-> "idle", event |-> "none", index |-> 0]

Goto(r, pc) == run' = [run EXCEPT ![r].pc = pc]
ReturnError(r) == run' = [run EXCEPT ![r] = Idle]
Faulty == faults < MaxFaults /\ faults' = faults + 1

Init ==
    /\ active \in SUBSET Runners \ {{}}
    /\ deduplicates \in BOOLEAN
    /\ checkpointing \in BOOLEAN
    /\ dispatch_index = [e \in Events |-> 0]
    /\ executed = <<>>
    /\ run = [r \in Runners |-> Idle]
    /\ completed = [e \in Events |-> 0]
    /\ rejections = 0
    /\ faults = 0

Deliver(r, e) ==
    /\ r \in active
    /\ run[r].pc = "idle"
    /\ completed[e] <= MaxRedeliveries
    /\ run' = [run EXCEPT ![r] = [pc |-> "load", event |-> e, index |-> 0]]
    /\ UNCHANGED <<setup, dispatch_index, executed, completed, rejections, faults>>

(* load_dispatch_index(..).unwrap_or(0): a failed load starts over. *)
LoadDispatchIndex(r) ==
    /\ run[r].pc = "load"
    /\ \/ /\ run' = [run EXCEPT ![r].pc = "handle", ![r].index = dispatch_index[run[r].event]]
          /\ UNCHANGED faults
       \/ /\ Faulty
          /\ run' = [run EXCEPT ![r].pc = "handle", ![r].index = 0]
    /\ UNCHANGED <<setup, dispatch_index, executed, completed, rejections>>

HandleEnvelope(r) ==
    /\ run[r].pc = "handle"
    /\ \/ Goto(r, "dispatch") /\ UNCHANGED faults
       \/ Faulty /\ ReturnError(r)
    /\ UNCHANGED <<setup, dispatch_index, executed, completed, rejections>>

(* What the bus does with a command it takes: an idempotency-aware one     *)
(* drops a key it has seen, the default one ignores the key.               *)
TakeEffect(event, index) ==
    LET key == IdempotencyKey(event, index)
        seen == {IdempotencyKey(executed[k][1], executed[k][2]) : k \in DOMAIN executed}
    IN  executed' = IF deduplicates /\ key \in seen THEN executed
                    ELSE Append(executed, <<event, index>>)

(* Mutant: a refused command is skipped and the batch goes on. *)
MutDispatchCommand(r) ==
    LET event == run[r].event  index == run[r].index
    IN  /\ run[r].pc = "dispatch"
        /\ index < NumCommands[event]
        /\ \/ TakeEffect(event, index) /\ Goto(r, "save") /\ UNCHANGED <<rejections, faults>>
           \/ /\ rejections < MaxRejections
              /\ rejections' = rejections + 1
              /\ run' = [run EXCEPT ![r].index = @ + 1]
              /\ UNCHANGED <<executed, faults>>
           \/ /\ Faulty
              /\ TakeEffect(event, index)
              /\ ReturnError(r)
              /\ UNCHANGED rejections
        /\ UNCHANGED <<setup, dispatch_index, completed>>

(* dispatch_idempotent: the command is taken, or refused without effect,   *)
(* or takes effect and the reply is an error.  An error ends the run.      *)
DispatchCommand(r) ==
    LET event == run[r].event  index == run[r].index
    IN  /\ run[r].pc = "dispatch"
        /\ index < NumCommands[event]
        /\ \/ TakeEffect(event, index) /\ Goto(r, "save") /\ UNCHANGED <<rejections, faults>>
           \/ /\ rejections < MaxRejections
              /\ rejections' = rejections + 1
              /\ ReturnError(r)
              /\ UNCHANGED <<executed, faults>>
           \/ /\ Faulty
              /\ TakeEffect(event, index)
              /\ ReturnError(r)
              /\ UNCHANGED rejections
        /\ UNCHANGED <<setup, dispatch_index, completed>>

(* Mutant: the index of the command is saved, not the one after it. *)
MutSavedIndex(index) == index

SavedIndex(index) == index + 1

(* save_dispatch_index after each command; the unit checkpoint keeps       *)
(* nothing.                                                                *)
SaveDispatchIndex(r) ==
    /\ run[r].pc = "save"
    /\ \/ /\ dispatch_index' = IF checkpointing
                               THEN [dispatch_index EXCEPT ![run[r].event] = SavedIndex(run[r].index)]
                               ELSE dispatch_index
          /\ run' = [run EXCEPT ![r].pc = "dispatch", ![r].index = @ + 1]
          /\ UNCHANGED faults
       \/ Faulty /\ ReturnError(r) /\ UNCHANGED dispatch_index
    /\ UNCHANGED <<setup, executed, completed, rejections>>

(* clear_dispatch_index when every command has been dispatched. *)
ClearDispatchIndex(r) ==
    /\ run[r].pc = "dispatch"
    /\ run[r].index >= NumCommands[run[r].event]
    /\ \/ /\ dispatch_index' = [dispatch_index EXCEPT ![run[r].event] = 0]
          /\ completed' = [completed EXCEPT ![run[r].event] = @ + 1]
          /\ run' = [run EXCEPT ![r].pc = "ok"]
          /\ UNCHANGED faults
       \/ Faulty /\ ReturnError(r) /\ UNCHANGED <<dispatch_index, completed>>
    /\ UNCHANGED <<setup, executed, rejections>>

ReturnOk(r) ==
    /\ run[r].pc = "ok"
    /\ run' = [run EXCEPT ![r] = Idle]
    /\ UNCHANGED <<setup, dispatch_index, executed, completed, rejections, faults>>

(* The process stops between two calls. *)
Crash(r) ==
    /\ run[r].pc \notin {"idle", "ok"}
    /\ Faulty
    /\ run' = [run EXCEPT ![r] = Idle]
    /\ UNCHANGED <<setup, dispatch_index, executed, completed, rejections>>

Step(r) ==
    \/ LoadDispatchIndex(r)
    \/ HandleEnvelope(r)
    \/ DispatchCommand(r)
    \/ SaveDispatchIndex(r)
    \/ ClearDispatchIndex(r)
    \/ ReturnOk(r)

Next ==
    \E r \in Runners :
       \/ \E e \in Events : Deliver(r, e)
       \/ Step(r)
       \/ Crash(r)

Spec == Init /\ [][Next]_vars

(* Runners are scheduled, and the subscription keeps delivering. *)
FairSpec ==
    /\ Spec
    /\ \A r \in Runners : WF_vars(Step(r))
    /\ \A r \in Runners, e \in Events : SF_vars(Deliver(r, e))

-------------------------------------------------------------------------------
MaxCommands == CHOOSE n \in {NumCommands[e] : e \in Events} :
                  \A e \in Events : NumCommands[e] <= n

(* The saved index never runs ahead of the effects, also when a second     *)
(* runner of the same event saves an older one or clears it: a delivery    *)
(* that resumes there skips only commands that took effect, and one that   *)
(* returns Ok leaves none undone.                                          *)
SkippedAreExecuted ==
    /\ \A e \in Events : \A i \in 0..(dispatch_index[e] - 1) : Executed(<<e, i>>)
    /\ \A r \in Runners :
          run[r].pc # "idle" =>
             \A i \in 0..(run[r].index - 1) : Executed(<<run[r].event, i>>)

(* Later commands of a batch may build on earlier ones: none takes effect  *)
(* before its predecessor has.                                             *)
ExecutedInOrder ==
    \A k \in DOMAIN executed :
       executed[k][2] > 0 => \E j \in 1..(k - 1) : executed[j] = <<executed[k][1], executed[k][2] - 1>>

(* What the checkpoint is for, on a bus that ignores keys: with a single   *)
(* runner a refused command never makes the ones before it run again; each *)
(* repetition is paid for by a fault or by a delivery of a completed event.*)
ResumeDoesNotRepeat ==
    checkpointing /\ Cardinality(active) = 1 =>
       \A command \in Commands :
          Cardinality(Executions(command)) <= 1 + faults + completed[command[1]]

(* Every command of every event takes effect, once refusals and faults     *)
(* have stopped.                                                           *)
EveryCommandIsExecuted == \A command \in Commands : <>Executed(command)
===============================================================================
