----------------------------- MODULE WorkerLock -----------------------------
(***************************************************************************)
(* The Redis lock that is meant to leave one background worker running:    *)
(* acquire_worker_consumer_lock_with_retry, the renewal task it spawns,    *)
(* and what run_worker does with the handle.                               *)
(*                                                                         *)
(* Time passes in seconds (Tick): the key's time to live, the sleeps of    *)
(* the retries and the interval of the renewal count down together.        *)
(* worker::run loops forever and never looks at the lock, so the call of   *)
(* release after it is not reached and has no action here.                 *)
(*                                                                         *)
(* An owner string is new at every acquisition.  The key's owner is here   *)
(* the instance that wrote it: a later incarnation of the same instance    *)
(* compares the key with its own string only after a SET of its own.       *)
(***************************************************************************)
EXTENDS Integers

CONSTANTS
  Instances,         \* processes in worker mode
  LockTtlSeconds,    \* redis.worker_lock_ttl_seconds, i64
  LockRenewSeconds,  \* redis.worker_lock_renew_seconds, u64
  MaxRetries,        \* MAX_RETRIES
  InitialBackoff,    \* INITIAL_BACKOFF_SECS
  MaxBackoff         \* MAX_BACKOFF_SECS

Nobody == "nobody"

ASSUME LockAssumption ==
  /\ LockTtlSeconds \in Int /\ LockRenewSeconds \in Nat
  /\ MaxRetries \in Nat \ {0} /\ InitialBackoff \in Nat /\ MaxBackoff \in Nat
  /\ Nobody \notin Instances

AtLeast(a, b) == IF a >= b THEN a ELSE b
AtMost(a, b) == IF a <= b THEN a ELSE b

\* The values acquire_worker_consumer_lock works with.
Ttl == AtLeast(LockTtlSeconds, 1)

\* Faulty variant: the interval is not cut down below the time to live.
RenewUncut == AtLeast(LockRenewSeconds, 1)

RenewEvery ==
  IF LockRenewSeconds = 0
  THEN 1
  ELSE AtMost(LockRenewSeconds, AtLeast(Ttl - 1, 1))

\* Faulty variant: every retry comes after the same time.
BackoffFlat(attempt) == AtMost(InitialBackoff, MaxBackoff)

Backoff(attempt) == AtMost(InitialBackoff ^ (attempt + 1), MaxBackoff)

VARIABLES
  key,      \* backend:worker:consumer-lock: owner, seconds to live
  proc,     \* where each instance is in run_worker
  attempt,  \* its attempt at the lock, from 0
  wait,     \* seconds left of its sleep
  renewal,  \* its renewal task: on, and the seconds to its next tick
  calm      \* history: no Redis call has failed, no renewal has been late

vars == <<key, proc, attempt, wait, renewal, calm>>

\* "failed": run_worker returned the error of the last attempt.
States == {"down", "acquiring", "sleeping", "holding", "running", "failed"}

NoKey == [owner |-> Nobody, ttl |-> 0]
NoRenewal == [on |-> FALSE, due |-> 0]

Init ==
  /\ key = NoKey
  /\ proc = [i \in Instances |-> "down"]
  /\ attempt = [i \in Instances |-> 0]
  /\ wait = [i \in Instances |-> 0]
  /\ renewal = [i \in Instances |-> NoRenewal]
  /\ calm = TRUE

Start(i) ==
  /\ proc[i] \in {"down", "failed"}
  /\ proc' = [proc EXCEPT ![i] = "acquiring"]
  /\ UNCHANGED <<key, attempt, wait, renewal, calm>>

\* SET key owner NX EX ttl, and the renewal task, whose interval ticks at once.
Acquire(i) ==
  /\ proc[i] = "acquiring" /\ key.owner = Nobody
  /\ key' = [owner |-> i, ttl |-> Ttl]
  /\ proc' = [proc EXCEPT ![i] = "holding"]
  /\ renewal' = [renewal EXCEPT ![i] = [on |-> TRUE, due |-> 0]]
  /\ attempt' = [attempt EXCEPT ![i] = 0]
  /\ UNCHANGED <<wait, calm>>

AttemptsLeft(i) == attempt[i] < MaxRetries - 1

\* The key is held, or the call fails.  When only its answer is lost the key
\* has been written all the same, and this process will not renew it.
AcquireFails(i) ==
  /\ proc[i] = "acquiring"
  /\ \/ key.owner # Nobody /\ UNCHANGED <<key, calm>>
     \/ /\ key.owner = Nobody /\ calm' = FALSE
        /\ UNCHANGED key \/ key' = [owner |-> i, ttl |-> Ttl]
  /\ IF AttemptsLeft(i)
     THEN /\ proc' = [proc EXCEPT ![i] = "sleeping"]
          /\ wait' = [wait EXCEPT ![i] = Backoff(attempt[i])]
          /\ UNCHANGED attempt
     ELSE /\ proc' = [proc EXCEPT ![i] = "failed"]
          /\ attempt' = [attempt EXCEPT ![i] = 0]
          /\ UNCHANGED wait
  /\ UNCHANGED renewal

Retry(i) ==
  /\ proc[i] = "sleeping" /\ wait[i] = 0
  /\ proc' = [proc EXCEPT ![i] = "acquiring"]
  /\ attempt' = [attempt EXCEPT ![i] = @ + 1]
  /\ UNCHANGED <<key, wait, renewal, calm>>

\* AppState::from_config: worker::run begins, or run_worker returns early and
\* drops the handle, which ends the renewal task and nothing else.
BuildState(i) ==
  /\ proc[i] = "holding"
  /\ \/ proc' = [proc EXCEPT ![i] = "running"] /\ UNCHANGED renewal
     \/ /\ proc' = [proc EXCEPT ![i] = "down"]
        /\ renewal' = [renewal EXCEPT ![i] = NoRenewal]
  /\ UNCHANGED <<key, attempt, wait, calm>>

\* Faulty variant: EXPIRE without the comparison.
OwnsAny(i) == key.owner # Nobody

Owns(i) == key.owner = i

\* One tick of the renewal task.  An interval that is late catches up, so its
\* next tick may come sooner.  A key that is another's or gone, or a call that
\* fails, ends the task.
Renew(i) ==
  /\ renewal[i].on /\ renewal[i].due = 0
  /\ \/ /\ Owns(i)
        /\ key' = [key EXCEPT !.ttl = Ttl]
        /\ \E due \in IF calm THEN {RenewEvery} ELSE 0 .. RenewEvery :
             renewal' = [renewal EXCEPT ![i].due = due]
        /\ UNCHANGED calm
     \/ /\ renewal' = [renewal EXCEPT ![i] = NoRenewal]
        /\ calm' = (calm /\ ~Owns(i))
        /\ UNCHANGED key
  /\ UNCHANGED <<proc, attempt, wait>>

\* The process is terminated; nothing in it releases the key.
Stop(i) ==
  /\ proc[i] \notin {"down", "failed"}
  /\ proc' = [proc EXCEPT ![i] = "down"]
  /\ attempt' = [attempt EXCEPT ![i] = 0]
  /\ wait' = [wait EXCEPT ![i] = 0]
  /\ renewal' = [renewal EXCEPT ![i] = NoRenewal]
  /\ UNCHANGED <<key, calm>>

Less(n) == AtLeast(n - 1, 0)

Late == \E i \in Instances : renewal[i].on /\ renewal[i].due = 0

\* A second passes, and the key expires when its time is up.
Tick ==
  /\ calm' = (calm /\ ~Late)
  /\ key' = IF key.ttl > 1 THEN [key EXCEPT !.ttl = @ - 1] ELSE NoKey
  /\ wait' = [i \in Instances |-> Less(wait[i])]
  /\ renewal' = [i \in Instances |-> [on |-> renewal[i].on,
                                      due |-> Less(renewal[i].due)]]
  /\ UNCHANGED <<proc, attempt>>

Step(i) == Acquire(i) \/ AcquireFails(i) \/ Retry(i) \/ BuildState(i) \/ Renew(i)

Next ==
  \/ \E i \in Instances : Start(i) \/ Step(i) \/ Stop(i)
  \/ Tick

Spec == Init /\ [][Next]_vars

\* The behaviours in which every renewal runs in the second it is due.
PunctualSpec == Init /\ [][Next /\ (Tick => ~Late)]_vars

\* Time passes.
FairSpec == Spec /\ WF_vars(Tick)

-----------------------------------------------------------------------------
Live(i) == proc[i] \in {"holding", "running"}

\* At most one instance runs the worker.
OneWorker == \A i, j \in Instances : Live(i) /\ Live(j) => i = j

\* The lock does what it is for until a Redis call fails or a renewal is late:
\* the interval acquire_worker_consumer_lock settles on always renews the key
\* before it expires.
OneWorkerWhileCalm == calm => OneWorker

\* A key whose owner is gone is not kept alive by anybody, and expires,
\* whatever failed or came late before.
AbandonedExpires ==
  \A i \in Instances : key.owner = i /\ ~Live(i) ~> key.owner # i

\* An instance that starts after every other one is gone, and stays alone, is
\* not turned away by the key they left: the retries outlast its time to live.
TakeOver ==
  \A i \in Instances :
    [](proc[i] = "acquiring" /\ attempt[i] = 0
         /\ [](calm /\ \A j \in Instances \ {i} : proc[j] = "down")
         => [](proc[i] # "failed"))
=============================================================================
