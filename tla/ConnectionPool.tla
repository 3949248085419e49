---------------------------- MODULE ConnectionPool ----------------------------
(***************************************************************************)
(* The bounded connection pool of the SQL stores (src/src/pool.rs): idle   *)
(* connections, a count of leased ones, a queue of connections handed to   *)
(* waiting threads, and a condition variable.  A step is one critical      *)
(* section of the pool's mutex; a thread leaves the condition variable in  *)
(* two steps, when it is woken and when it has the mutex again, and in     *)
(* between others may enter.                                               *)
(*                                                                         *)
(* Connections are counted, not named: Rust's ownership keeps each one in  *)
(* one place.  The threads run read or write (ConnectionPool::read and     *)
(* ::write), which retry once on a fresh connection after a transport      *)
(* error.                                                                  *)
(***************************************************************************)
EXTENDS Integers, FiniteSets

CONSTANTS
    Threads,
    MaxSize     \* size of a pool that has a connect factory

ASSUME PoolAssumption == MaxSize \in Nat \ {0} /\ IsFiniteSet(Threads)

VARIABLES
    factory,    \* does the pool have a connect factory
    max_size,
    idle,       \* number of idle connections
    leased,     \* the pool's count of leased connections
    handoffs,   \* connections returned while threads were waiting
    waiters,    \* the pool's count of threads blocked in acquire
    pc,         \* thread -> where it is
    attempt,    \* thread -> which attempt of its operation this is
    expired     \* thread -> its acquire deadline has passed

shared == <<factory, max_size>>
poolVars == <<factory, max_size, idle, leased, handoffs, waiters, pc, attempt, expired>>

In(where) == {t \in Threads : pc[t] \in where}

-------------------------------------------------------------------------------
(* build: `single` wraps one connection, has room for no other and cannot  *)
(* reconnect; a pool with a factory starts with or without a seed.         *)
PoolInit ==
    /\ \/ factory = FALSE /\ max_size = 1 /\ idle = 1
       \/ factory = TRUE /\ max_size = MaxSize /\ idle \in {0, 1}
    /\ leased = 0
    /\ handoffs = 0
    /\ waiters = 0
    /\ pc = [t \in Threads |-> "idle"]
    /\ attempt = [t \in Threads |-> 0]
    /\ expired = [t \in Threads |-> FALSE]

(* A thread starts a read or a write. *)
Start(t) ==
    /\ pc[t] = "idle"
    /\ pc' = [pc EXCEPT ![t] = "acquire"]
    /\ attempt' = [attempt EXCEPT ![t] = 1]
    /\ expired' = [expired EXCEPT ![t] = FALSE]
    /\ UNCHANGED <<shared, idle, leased, handoffs, waiters>>

-------------------------------------------------------------------------------
HasCapacity == leased < max_size

(* Mutant: the deadline is not looked at. *)
MutTimesOut(t) == FALSE

TimesOut(t) == expired[t]

(* The body of acquire's loop, with `waiting` threads counted before it.   *)
(* Idle connections are popped until one is usable (any of them may be     *)
(* stale or dead); then a new one is opened if there is room; then the     *)
(* thread fails on its deadline or goes to sleep.                          *)
TryAcquire(t, waiting) ==
    /\ \/ \E discarded \in 0..(idle - 1) :
             /\ idle' = idle - discarded - 1
             /\ leased' = leased + 1
             /\ pc' = [pc EXCEPT ![t] = "using"]
             /\ waiters' = waiting
       \/ /\ idle' = 0
          /\ HasCapacity
          /\ IF factory
             THEN leased' = leased + 1 /\ pc' = [pc EXCEPT ![t] = "connecting"]
             ELSE UNCHANGED leased /\ pc' = [pc EXCEPT ![t] = "idle"]
          /\ waiters' = waiting
       \/ /\ idle' = 0
          /\ ~HasCapacity
          /\ IF TimesOut(t)
             THEN pc' = [pc EXCEPT ![t] = "idle"] /\ waiters' = waiting
             ELSE pc' = [pc EXCEPT ![t] = "waiting"] /\ waiters' = waiting + 1
          /\ UNCHANGED leased
    /\ UNCHANGED <<shared, handoffs, attempt, expired>>

Acquire(t) == pc[t] = "acquire" /\ TryAcquire(t, waiters)

(* Mutant: a woken thread does not look at the handoff queue. *)
MutWake(t) == pc[t] = "woken" /\ TryAcquire(t, waiters - 1)

(* A woken thread has the mutex again: it takes the oldest handoff, or     *)
(* goes round the loop.                                                    *)
Wake(t) ==
    /\ pc[t] = "woken"
    /\ IF handoffs > 0
       THEN /\ handoffs' = handoffs - 1
            /\ waiters' = waiters - 1
            /\ pc' = [pc EXCEPT ![t] = "using"]
            /\ UNCHANGED <<shared, idle, leased, attempt, expired>>
       ELSE TryAcquire(t, waiters - 1)

(* Time: the deadline of a call to acquire passes; wait_timeout returns    *)
(* then, and a condition variable may also wake a thread for no reason.    *)
DeadlinePasses(t) ==
    /\ pc[t] \in {"acquire", "waiting", "woken"}
    /\ ~expired[t]
    /\ expired' = [expired EXCEPT ![t] = TRUE]
    /\ UNCHANGED <<shared, idle, leased, handoffs, waiters, pc, attempt>>

WaitReturns(t) ==
    /\ pc[t] = "waiting"
    /\ pc' = [pc EXCEPT ![t] = "woken"]
    /\ UNCHANGED <<shared, idle, leased, handoffs, waiters, attempt, expired>>

-------------------------------------------------------------------------------
(* Condvar::notify_one, after thread t has moved to `next`: it wakes one   *)
(* of the sleeping threads, and nobody when none sleeps.                   *)
NotifyOne(t, next) ==
    LET moved == [pc EXCEPT ![t] = next]
    IN  IF In({"waiting"}) = {} THEN pc' = moved
        ELSE \E w \in In({"waiting"}) : pc' = [moved EXCEPT ![w] = "woken"]

ConnectSucceeds(t) ==
    /\ pc[t] = "connecting"
    /\ pc' = [pc EXCEPT ![t] = "using"]
    /\ UNCHANGED <<shared, idle, leased, handoffs, waiters, attempt, expired>>

(* Mutant: the slot of a failed connect is not returned. *)
MutConnectFails(t) ==
    /\ pc[t] = "connecting"
    /\ NotifyOne(t, "idle")
    /\ UNCHANGED <<shared, idle, leased, handoffs, waiters, attempt, expired>>

(* The factory fails, panics or exceeds the connect timeout: the drop of   *)
(* PendingLeaseSlot returns the slot.                                      *)
ConnectFails(t) ==
    /\ pc[t] = "connecting"
    /\ leased' = leased - 1
    /\ NotifyOne(t, "idle")
    /\ UNCHANGED <<shared, idle, handoffs, waiters, attempt, expired>>

(* The operation ends, well or with an error that is not about transport:  *)
(* give_back(Some), to a waiting thread if there is one.                   *)
GiveBack(t) ==
    /\ pc[t] = "using"
    /\ IF waiters > 0
       THEN handoffs' = handoffs + 1 /\ UNCHANGED <<idle, leased>>
       ELSE leased' = leased - 1 /\ idle' = idle + 1 /\ UNCHANGED handoffs
    /\ NotifyOne(t, "idle")
    /\ UNCHANGED <<shared, waiters, attempt, expired>>

(* A transport error: give_back(None), and one more attempt on a fresh     *)
(* connection if the pool can open one.                                    *)
TransportError(t) ==
    /\ pc[t] = "using"
    /\ leased' = leased - 1
    /\ IF factory /\ attempt[t] = 1
       THEN /\ NotifyOne(t, "acquire")
            /\ attempt' = [attempt EXCEPT ![t] = 2]
            /\ expired' = [expired EXCEPT ![t] = FALSE]
       ELSE /\ NotifyOne(t, "idle")
            /\ UNCHANGED <<attempt, expired>>
    /\ UNCHANGED <<shared, idle, handoffs, waiters>>

-------------------------------------------------------------------------------
Step(t) ==
    \/ Acquire(t)
    \/ Wake(t)
    \/ ConnectSucceeds(t)
    \/ ConnectFails(t)
    \/ GiveBack(t)
    \/ TransportError(t)

PoolNext ==
    \E t \in Threads :
       \/ Start(t)
       \/ Step(t)
       \/ DeadlinePasses(t)
       \/ WaitReturns(t)

PoolSpec == PoolInit /\ [][PoolNext]_poolVars

(* Threads are scheduled, clocks run and wait_timeout returns. *)
FairPoolSpec ==
    /\ PoolSpec
    /\ \A t \in Threads :
          WF_poolVars(Step(t)) /\ WF_poolVars(DeadlinePasses(t)) /\ WF_poolVars(WaitReturns(t))

-------------------------------------------------------------------------------
(* The two counters are exact on every path: leased is what is in use,     *)
(* being opened or handed over, waiters what is asleep or waking up.  A    *)
(* path that forgets one shrinks the pool for good, one that returns it    *)
(* twice opens more connections than max_size.                             *)
CountsAreExact ==
    /\ leased = Cardinality(In({"using", "connecting"})) + handoffs
    /\ waiters = Cardinality(In({"waiting", "woken"}))
    /\ idle + leased <= max_size

(* The pool is never lost to its own handoff queue: when nobody uses it,   *)
(* some connection or slot can still be acquired.                          *)
CapacityRemains == In({"using", "connecting", "woken"}) = {} => handoffs < max_size

(* acquire never blocks its caller forever: "then fails with a connection  *)
(* error instead of blocking the caller indefinitely".                     *)
EveryAcquireReturns ==
    \A t \in Threads :
       pc[t] \in {"acquire", "waiting", "woken"} ~> pc[t] \in {"idle", "using", "connecting"}

===============================================================================
