-------------------------- MODULE WorkerLockProofs --------------------------
(***************************************************************************)
(* The lock does what it is for as long as Redis has answered, renewals    *)
(* have run in the second they are due and the configured time to live is  *)
(* more than one second: for any number of instances, any renewal interval *)
(* and any pattern of starts and stops, one worker runs at a time.         *)
(***************************************************************************)
EXTENDS WorkerLock, TLAPS

\* The normalisation in acquire_worker_consumer_lock puts the renewal before
\* the expiry, whatever was configured, unless the time to live is 1.
LEMMA RenewBeforeExpiry ==
  ASSUME LockTtlSeconds > 1
  PROVE  RenewEvery \in Int /\ Ttl \in Int /\ 0 < RenewEvery /\ RenewEvery < Ttl
BY LockAssumption DEF RenewEvery, Ttl, AtLeast, AtMost

\* A live worker owns the key and will renew it while it is alive.
Guarded(i) ==
  Live(i) => /\ key.owner = i
             /\ renewal[i].on = TRUE
             /\ 0 <= renewal[i].due /\ renewal[i].due < key.ttl

LockTypes ==
  /\ key \in [owner : Instances \cup {Nobody}, ttl : Int]
  /\ proc \in [Instances -> States]
  /\ renewal \in [Instances -> [on : BOOLEAN, due : Int]]
  /\ calm \in BOOLEAN

LockInv == LockTypes /\ (calm => \A i \in Instances : Guarded(i))

LEMMA LockInit == Init => LockInv
BY LockAssumption
   DEF Init, LockInv, LockTypes, NoKey, NoRenewal, States, Guarded, Live

LEMMA TypesNext ==
  ASSUME LockTypes, [Next]_vars
  PROVE  LockTypes'
<1> USE LockAssumption DEF LockTypes, States, NoRenewal
<1>1. Ttl \in Int /\ RenewEvery \in Int
  BY DEF RenewEvery, Ttl, AtLeast, AtMost
<1>0. ASSUME NEW i \in Instances, renewal' = [renewal EXCEPT ![i] = NoRenewal]
      PROVE  renewal' \in [Instances -> [on : BOOLEAN, due : Int]]
  BY <1>0
<1>2. CASE UNCHANGED vars
  BY <1>2 DEF vars
<1>3. ASSUME NEW i \in Instances, Start(i) PROVE LockTypes'
  BY <1>3 DEF Start
<1>4. ASSUME NEW i \in Instances, Acquire(i) PROVE LockTypes'
  BY <1>1, <1>4 DEF Acquire
<1>5. ASSUME NEW i \in Instances, AcquireFails(i) PROVE LockTypes'
  <2>1. proc' \in [Instances -> States] /\ UNCHANGED renewal
    BY <1>5 DEF AcquireFails
  <2>2. key' \in [owner : Instances \cup {Nobody}, ttl : Int]
    BY <1>1, <1>5 DEF AcquireFails
  <2>3. calm' \in BOOLEAN
    BY <1>5, Zenon DEF AcquireFails
  <2>. QED BY <2>1, <2>2, <2>3
<1>6. ASSUME NEW i \in Instances, Retry(i) PROVE LockTypes'
  BY <1>6 DEF Retry
<1>7. ASSUME NEW i \in Instances, BuildState(i) PROVE LockTypes'
  <2>1. proc' \in [Instances -> States] /\ UNCHANGED <<key, calm>>
    BY <1>7 DEF BuildState
  <2>2. \/ UNCHANGED renewal
        \/ renewal' = [renewal EXCEPT ![i] = NoRenewal]
    BY <1>7 DEF BuildState
  <2>. QED BY <1>0, <2>1, <2>2
<1>8. ASSUME NEW i \in Instances, Renew(i) PROVE LockTypes'
  <2>1. ASSUME NEW due \in Int, renewal' = [renewal EXCEPT ![i].due = due]
        PROVE  renewal' \in [Instances -> [on : BOOLEAN, due : Int]]
    BY <2>1
  <2>2. renewal' \in [Instances -> [on : BOOLEAN, due : Int]]
    <3>1. \/ \E due \in Int : renewal' = [renewal EXCEPT ![i].due = due]
          \/ renewal' = [renewal EXCEPT ![i] = NoRenewal]
      BY <1>1, <1>8 DEF Renew
    <3>. QED BY <1>0, <2>1, <3>1
  <2>3. key' \in [owner : Instances \cup {Nobody}, ttl : Int] /\ UNCHANGED proc
    BY <1>1, <1>8 DEF Renew
  <2>4. calm' \in BOOLEAN
    BY <1>8, Zenon DEF Renew
  <2>. QED BY <2>2, <2>3, <2>4
<1>9. ASSUME NEW i \in Instances, Stop(i) PROVE LockTypes'
  BY <1>9 DEF Stop
<1>10. CASE Tick
  BY <1>10 DEF Tick, NoKey, Less, AtLeast
<1>. QED BY <1>2, <1>3, <1>4, <1>5, <1>6, <1>7, <1>8, <1>9, <1>10
        DEF Next, Step

\* Once a call has failed or a renewal has been late, it stays so.
LEMMA CalmEnds ==
  ASSUME [Next]_vars, calm', calm \in BOOLEAN
  PROVE  calm
BY Zenon DEF vars, Next, Step, Start, Acquire, AcquireFails, Retry, BuildState, Renew,
       Stop, Tick

\* In a calm step every live worker still guards the key.
LEMMA GuardNext ==
  ASSUME LockTtlSeconds > 1, LockTypes, LockTypes', [Next]_vars,
         calm, calm', \A i \in Instances : Guarded(i)
  PROVE  \A i \in Instances : Guarded(i)'
<1> USE LockAssumption DEF LockTypes, Guarded, Live, States
<1>0. RenewEvery \in Int /\ Ttl \in Int /\ 0 < RenewEvery /\ RenewEvery < Ttl
  BY RenewBeforeExpiry
<1>1. SUFFICES ASSUME NEW j \in Instances, Live(j)'
               PROVE  /\ key'.owner = j /\ renewal'[j].on = TRUE
                      /\ 0 <= renewal'[j].due /\ renewal'[j].due < key'.ttl
  BY Zenon
<1>2. CASE UNCHANGED vars
  BY <1>1, <1>2 DEF vars
<1>3. ASSUME NEW i \in Instances, Start(i) PROVE Guarded(j)'
  BY <1>1, <1>3 DEF Start
<1>4. ASSUME NEW i \in Instances, Acquire(i) PROVE Guarded(j)'
  <2>1. \A k \in Instances : ~Live(k)
    BY <1>4 DEF Acquire
  <2>. QED BY <1>0, <1>4, <2>1 DEF Acquire
<1>5. ASSUME NEW i \in Instances, AcquireFails(i) PROVE Guarded(j)'
  <2>1. UNCHANGED <<key, renewal>>
    BY <1>5 DEF AcquireFails
  <2>2. proc'[i] \in {"sleeping", "failed"} /\ (j # i => proc'[j] = proc[j])
    BY <1>5 DEF AcquireFails
  <2>. QED BY <2>1, <2>2
<1>6. ASSUME NEW i \in Instances, Retry(i) PROVE Guarded(j)'
  BY <1>6 DEF Retry
<1>7. ASSUME NEW i \in Instances, BuildState(i) PROVE Guarded(j)'
  <2>1. CASE proc' = [proc EXCEPT ![i] = "running"] /\ UNCHANGED renewal
    BY <1>7, <2>1 DEF BuildState
  <2>2. CASE /\ proc' = [proc EXCEPT ![i] = "down"]
             /\ renewal' = [renewal EXCEPT ![i] = NoRenewal]
    BY <1>7, <2>2 DEF BuildState, NoRenewal
  <2>. QED BY <1>7, <2>1, <2>2 DEF BuildState
<1>8. ASSUME NEW i \in Instances, Renew(i) PROVE Guarded(j)'
  <2>1. CASE Owns(i)
    <3>1. /\ key' = [key EXCEPT !.ttl = Ttl]
          /\ renewal' = [renewal EXCEPT ![i].due = RenewEvery]
          /\ UNCHANGED proc
      BY <1>8, <2>1, Zenon DEF Renew
    <3>2. key'.owner = key.owner /\ key'.ttl = Ttl
      BY <1>0, <3>1
    <3>3. renewal'[i].on = renewal[i].on /\ renewal'[i].due = RenewEvery
      BY <1>0, <3>1
    <3>4. Live(j)' => j = i /\ key.owner = i /\ renewal[i].on = TRUE
      BY <2>1, <3>1 DEF Owns
    <3>. QED BY <1>0, <3>2, <3>3, <3>4
  <2>2. CASE ~Owns(i)
    <3>1. /\ renewal' = [renewal EXCEPT ![i] = NoRenewal]
          /\ UNCHANGED <<key, proc>>
      BY <1>8, <2>2, Zenon DEF Renew
    <3>2. ~Live(i)
      BY <2>2 DEF Owns
    <3>. QED BY <3>1, <3>2 DEF NoRenewal
  <2>. QED BY <2>1, <2>2, Zenon
<1>9. ASSUME NEW i \in Instances, Stop(i) PROVE Guarded(j)'
  BY <1>9 DEF Stop, NoRenewal
<1>10. CASE Tick
  <2>1. /\ key.owner = j /\ renewal[j].on = TRUE
        /\ 0 <= renewal[j].due /\ renewal[j].due < key.ttl
    BY <1>1, <1>10 DEF Tick
  <2>2. ~Late
    BY <1>10, Zenon DEF Tick
  <2>3. 0 < renewal[j].due
    BY <2>1, <2>2 DEF Late
  <2>4. renewal'[j] = [on |-> renewal[j].on, due |-> Less(renewal[j].due)]
    BY <1>10 DEF Tick
  <2>5. Less(renewal[j].due) = renewal[j].due - 1
    BY <2>3 DEF Less, AtLeast
  <2>6. key' = [key EXCEPT !.ttl = @ - 1]
    BY <1>10, <2>1, <2>3 DEF Tick
  <2>. QED BY <2>1, <2>3, <2>4, <2>5, <2>6
<1>. QED BY <1>1, <1>2, <1>3, <1>4, <1>5, <1>6, <1>7, <1>8, <1>9, <1>10, Zenon
        DEF Next, Step

LEMMA LockNext ==
  ASSUME LockTtlSeconds > 1, LockInv, [Next]_vars
  PROVE  LockInv'
<1>1. LockTypes /\ LockTypes'
  BY TypesNext DEF LockInv
<1>2. ASSUME calm' PROVE \A i \in Instances : Guarded(i)'
  <2>1. calm
    BY <1>1, <1>2, CalmEnds DEF LockTypes
  <2>. QED BY <1>1, <1>2, <2>1, GuardNext DEF LockInv
<1>. QED BY <1>1, <1>2 DEF LockInv

\* Only one worker instance runs at a time, as worker.rs and run_worker
\* promise, while renewals have been neither late nor refused.
THEOREM OneWorkerUntilAFault ==
  ASSUME LockTtlSeconds > 1
  PROVE  Spec => []OneWorkerWhileCalm
<1>1. LockInv => OneWorkerWhileCalm
  BY DEF LockInv, Guarded, OneWorker, OneWorkerWhileCalm
<1>2. LockInv /\ [Next]_vars => LockInv'
  BY LockNext
<1>. QED BY <1>1, <1>2, LockInit, PTL DEF Spec
=============================================================================
