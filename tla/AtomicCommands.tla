---------------------------- MODULE AtomicCommands ----------------------------
(***************************************************************************)
(* What the repository promises its callers: a command behaves as if it    *)
(* were decided and committed in one instant against the current state of  *)
(* its aggregate.  There are no revisions, no snapshots and no log here.   *)
(*                                                                         *)
(* An aggregate's state is the sequence of events applied to it, so that   *)
(* two states are equal exactly when every Aggregate::apply must agree on  *)
(* them; Handle is Aggregate::handle.                                      *)
(***************************************************************************)
EXTENDS Integers, Sequences

CONSTANTS
    Ids,            \* aggregate identifiers
    Callers,        \* threads or tasks that execute commands
    Commands,
    Handle(_, _)    \* (state, command) -> [ok, events]

VARIABLES
    log,    \* id -> events committed to the aggregate
    call    \* caller -> the command it is executing, and how far it is

atomicVars == <<log, call>>

Idle == [status |-> "idle"]
Calling(status, id, command) == [status |-> status, id |-> id, command |-> command]

Init ==
    /\ log = [id \in Ids |-> <<>>]
    /\ call = [c \in Callers |-> Idle]

Invoke(c) ==
    /\ call[c] = Idle
    /\ \E id \in Ids, command \in Commands :
          call' = [call EXCEPT ![c] = Calling("pending", id, command)]
    /\ UNCHANGED log

(* The command is accepted by the state it finds, and its events follow it. *)
Commit(c) ==
    /\ call[c].status = "pending"
    /\ Handle(log[call[c].id], call[c].command).ok
    /\ log' = [log EXCEPT ![call[c].id] = @ \o Handle(@, call[c].command).events]
    /\ call' = [call EXCEPT ![c].status = "committed"]

(* The command is refused by the state it finds. *)
Reject(c) ==
    /\ call[c].status = "pending"
    /\ ~Handle(log[call[c].id], call[c].command).ok
    /\ call' = [call EXCEPT ![c].status = "rejected"]
    /\ UNCHANGED log

(* Another caller got in between: the command has no effect. *)
Conflict(c) ==
    /\ call[c].status = "pending"
    /\ call' = [call EXCEPT ![c].status = "conflict"]
    /\ UNCHANGED log

(* The caller gets its answer, or goes away without one. *)
Finish(c) ==
    /\ call[c] # Idle
    /\ call' = [call EXCEPT ![c] = Idle]
    /\ UNCHANGED log

Next ==
    \E c \in Callers : Invoke(c) \/ Commit(c) \/ Reject(c) \/ Conflict(c) \/ Finish(c)

Spec == Init /\ [][Next]_atomicVars
===============================================================================
