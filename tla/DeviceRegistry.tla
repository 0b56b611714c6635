--------------------------- MODULE DeviceRegistry ---------------------------
(***************************************************************************)
(* The device table with the two idempotency tables of account recovery,   *)
(* and the requests that work on them: enrollment (bind_device), recovery  *)
(* binds (bind_recovery_device) and old-device policies                    *)
(* (apply_old_device_policy).                                              *)
(*                                                                         *)
(* A recovery bind and a policy each run in one Postgres transaction at    *)
(* READ COMMITTED: a statement sees what is committed when it starts and   *)
(* what its own transaction wrote.  An INSERT that meets a unique index    *)
(* waits while another open transaction has a row with the same value, and *)
(* an UPDATE waits for the row; Postgres breaks a circle of such waits by  *)
(* rolling one transaction back.  The other requests run statement by      *)
(* statement, without a transaction.                                       *)
(*                                                                         *)
(* A request hash is the request itself without its idempotency key: the   *)
(* hash covers every other field.  device_record_id is computed from the   *)
(* device id and the public key, and is the pair of them.  A query that    *)
(* takes the first of several rows without an order may take any.          *)
(*                                                                         *)
(* What is enrolled to begin with and what clients send is a workload, one *)
(* of which is chosen in the initial state.                                *)
(***************************************************************************)
EXTENDS Naturals, Sequences, FiniteSets, Functions

CONSTANTS
  Users,            \* user ids
  Registered,       \* those with a row in app_user
  DeviceIds,
  Jkts,             \* thumbprints, a field of a request of its own
  Jwks,             \* canonical public keys
  Cases,            \* recovery cases
  Ops,              \* binding operation ids
  Keys,             \* idempotency keys
  Revs,             \* approval revisions
  Procs,            \* concurrent requests
  Workloads,        \* enrolled: the devices there are to begin with; enroll,
                    \* bind and policy: the requests clients make; procs:
                    \* the processes that serve them
  Faulty            \* those whose connection may break

None == "NONE"

Policies == {"REVOKE_ALL_PREVIOUS", "QUARANTINE_ALL_PREVIOUS"}

Credential == [user : Users, device : DeviceIds, jkt : Jkts, jwk : Jwks]

BindBody == [case : Cases, op : Ops, user : Users, device : DeviceIds,
             jkt : Jkts, jwk : Jwks]

PolicyBody == [case : Cases, policy : Policies, rev : Revs]

ASSUME RegistryAssumption ==
  /\ Registered \subseteq Users /\ IsFiniteSet(DeviceIds)
  /\ \A w \in Workloads :
       /\ w.enroll \subseteq Credential
       /\ w.enrolled \subseteq [user : Registered, device : DeviceIds,
                                jkt : Jkts, jwk : Jwks]
       /\ \A a, b \in w.enrolled : a.device = b.device \/ a.jkt = b.jkt => a = b
       /\ w.bind \subseteq [key : Keys, body : BindBody]
       /\ w.policy \subseteq [key : Keys, body : PolicyBody]
       /\ w.procs \subseteq Procs
  /\ None \notin Users \cup Cases

\* device.  Rows are never deleted, so ABSENT also stands for "not written"
\* among the pending writes of a transaction.
DeviceRow == [user : Users \cup {None}, jkt : Jkts \cup {None},
              jwk : Jwks \cup {None},
              status : {"ABSENT", "ACTIVE", "REVOKED", "QUARANTINED"}]

NoDevice == [user |-> None, jkt |-> None, jwk |-> None, status |-> "ABSENT"]

\* recovery_idempotency: the request, which is also its hash.
NoBind == [case |-> None]

\* old_device_policy_idempotency: the request and the exemption, which are
\* hashed together, the target user and the devices affected.
PolicyRow == [body : PolicyBody, except : DeviceIds, user : Users,
              affected : SUBSET DeviceIds]
NoPolicy == [body |-> NoBind]

VARIABLES
  work,      \* the workload, which stays what it is
  device,    \* committed rows of device, by device_id
  bind,      \* committed rows of recovery_idempotency, by idempotency_key
  policy,    \* committed rows of old_device_policy_idempotency, by key
  tx,        \* the pending writes of each process
  pc,        \* the statement each process executes next
  loc,       \* the request it answers and the local variables
  granted    \* history: the requests answered with 200, and the device record
             \* each answer names

vars == <<work, device, bind, policy, tx, pc, loc, granted>>

NoWrites == [device |-> [d \in DeviceIds |-> NoDevice],
             key |-> None, bind |-> NoBind, policy |-> NoPolicy]

NoLocals == [kind |-> "none", key |-> None, body |-> NoBind, row |-> NoBind,
             listed |-> NoWrites.device, todo |-> <<>>, affected |-> {}]

Labels ==
  {"idle", "find_binding", "find_conflict", "insert_device", "reload_device",
   "find_key", "find_bind", "check_device", "claim_device", "verify_device",
   "record_bind", "reload_bind", "find_case", "find_policy",
   "find_case_policy", "list_devices", "apply", "record_policy",
   "reload_policy", "commit"}

Kinds == {"none", "enroll", "bind", "policy"}

Body == Credential \cup BindBody \cup PolicyBody

Writes == [device : [DeviceIds -> DeviceRow], key : Keys \cup {None},
           bind : BindBody \cup {NoBind}, policy : PolicyRow \cup {NoPolicy}]

Locals == [kind : Kinds, key : Keys \cup {None}, body : Body \cup {NoBind},
           row : BindBody \cup {NoBind}, listed : [DeviceIds -> DeviceRow],
           todo : Seq(DeviceIds), affected : SUBSET DeviceIds]

TypeOK ==
  /\ work \in Workloads
  /\ device \in [DeviceIds -> DeviceRow]
  /\ bind \in [Keys -> BindBody \cup {NoBind}]
  /\ policy \in [Keys -> PolicyRow \cup {NoPolicy}]
  /\ tx \in [Procs -> Writes]
  /\ pc \in [Procs -> Labels]
  /\ loc \in [Procs -> Locals]
  /\ granted \subseteq [kind : Kinds, key : Keys \cup {None}, body : Body,
                        record : (DeviceIds \X Jwks) \cup {<<>>}]

NewDevice(c) == [user |-> c.user, jkt |-> c.jkt, jwk |-> c.jwk,
                 status |-> "ACTIVE"]

Init ==
  /\ work \in Workloads
  /\ device = [d \in DeviceIds |->
                 IF \E c \in work.enrolled : c.device = d
                 THEN NewDevice(CHOOSE c \in work.enrolled : c.device = d)
                 ELSE NoDevice]
  /\ bind = [k \in Keys |-> NoBind]
  /\ policy = [k \in Keys |-> NoPolicy]
  /\ tx = [p \in Procs |-> NoWrites]
  /\ pc = [p \in Procs |-> "idle"]
  /\ loc = [p \in Procs |-> NoLocals]
  /\ granted = {}

Goto(p, label) == pc' = [pc EXCEPT ![p] = label] /\ UNCHANGED loc

Begin(p, label, l) ==
  /\ pc[p] = "idle" /\ p \in work.procs
  /\ pc' = [pc EXCEPT ![p] = label]
  /\ loc' = [loc EXCEPT ![p] = l]
  /\ UNCHANGED <<device, bind, policy, tx, granted>>

\* The request ends; an open transaction is rolled back.
Finish(p) ==
  /\ pc' = [pc EXCEPT ![p] = "idle"]
  /\ loc' = [loc EXCEPT ![p] = NoLocals]
  /\ tx' = [tx EXCEPT ![p] = NoWrites]

Answer(p, record) == [kind |-> loc[p].kind, key |-> loc[p].key,
                      body |-> loc[p].body, record |-> record]

Refuse(p) == Finish(p) /\ UNCHANGED <<device, bind, policy, granted>>

Grant(p, record) ==
  /\ Finish(p)
  /\ granted' = granted \cup {Answer(p, record)}
  /\ UNCHANGED <<device, bind, policy>>

Record(c) == <<c.device, c.jwk>>

-----------------------------------------------------------------------------
(* What a statement sees, and what it waits for.                           *)

Written(row) == row.status # "ABSENT"

Seen(p) == [d \in DeviceIds |->
              IF Written(tx[p].device[d]) THEN tx[p].device[d] ELSE device[d]]

Collides(d, row, c) == Written(row) /\ (d = c.device \/ row.jkt = c.jkt)

\* WHERE device_id = ... OR jkt = ...
Colliding(p, c) == {d \in DeviceIds : Collides(d, Seen(p)[d], c)}

BindMatches(k, row, l) == row # NoBind /\ (k = l.key \/ row.op = l.body.op)

\* WHERE idempotency_key = ... OR binding_operation_id = ..., among what p sees.
BindsSeen(p) ==
  {bind[k] : k \in {x \in Keys : BindMatches(x, bind[x], loc[p])}}
    \cup {r \in {tx[p].bind} : BindMatches(tx[p].key, r, loc[p])}

PolicyOfCase(row, l) == row.body.case = l.body.case

InsertDeviceWaitsFor(p) ==
  {q \in Procs : \E d \in DeviceIds : Collides(d, tx[q].device[d], loc[p].body)}

UpdateWaitsFor(d) == {q \in Procs : Written(tx[q].device[d])}

InsertBindWaitsFor(p) ==
  {q \in Procs : BindMatches(tx[q].key, tx[q].bind, loc[p])}

InsertPolicyWaitsFor(p) ==
  {q \in Procs : tx[q].policy # NoPolicy
                   /\ (tx[q].key = loc[p].key
                         \/ PolicyOfCase(tx[q].policy, loc[p]))}

\* Faulty variant: the name of the policy is the status.
NewStatusRaw(l) == l.body.policy

NewStatus(l) == IF l.body.policy = "QUARANTINE_ALL_PREVIOUS"
                THEN "QUARANTINED" ELSE "REVOKED"

\* The next device in the list has another status than it should.
MustUpdate(l) == l.todo # <<>> /\ l.listed[Head(l.todo)].status # NewStatus(l)

\* The open transactions the next statement of p waits for.
WaitsFor(p) ==
  CASE pc[p] \in {"insert_device", "claim_device"} ->
         InsertDeviceWaitsFor(p) \ {p}
    [] pc[p] = "apply" -> IF MustUpdate(loc[p])
                          THEN UpdateWaitsFor(Head(loc[p].todo)) \ {p}
                          ELSE {}
    [] pc[p] = "record_bind" -> InsertBindWaitsFor(p) \ {p}
    [] pc[p] = "record_policy" -> InsertPolicyWaitsFor(p) \ {p}
    [] OTHER -> {}

-----------------------------------------------------------------------------
(* Enrollment: the API checks for the exact pair first when it is called   *)
(* by Keycloak, and not at all when it is called by the device.            *)

EnrollmentBind(p, c) ==
  \E label \in {"find_binding", "find_conflict"} :
    Begin(p, label, [NoLocals EXCEPT !.kind = "enroll", !.body = c])

FindBinding(p) ==
  /\ pc[p] = "find_binding"
  /\ LET c == loc[p].body
         row == device[c.device]
     IN  IF Written(row) /\ row.jkt = c.jkt /\ row.user # c.user
         THEN Refuse(p)
         ELSE Goto(p, "find_conflict")
              /\ UNCHANGED <<device, bind, policy, tx, granted>>

\* The first row found, if there is one, has another owner or has not.
FindConflict(p) ==
  /\ pc[p] = "find_conflict"
  /\ LET c == loc[p].body
         S == Colliding(p, c)
     IN  \/ \E d \in S : device[d].user # c.user /\ Refuse(p)
         \/ /\ S = {} \/ \E d \in S : device[d].user = c.user
            /\ Goto(p, "insert_device")
            /\ UNCHANGED <<device, bind, policy, tx, granted>>

\* The insert fails on a unique index, or on the foreign key, or is committed.
InsertDevice(p) ==
  /\ pc[p] = "insert_device" /\ WaitsFor(p) = {}
  /\ LET c == loc[p].body
     IN  CASE Colliding(p, c) # {} ->
                Goto(p, "reload_device")
                /\ UNCHANGED <<device, bind, policy, tx, granted>>
           [] Colliding(p, c) = {} /\ c.user \notin Registered -> Refuse(p)
           [] OTHER -> /\ device' = [device EXCEPT ![c.device] = NewDevice(c)]
                       /\ Finish(p)
                       /\ granted' = granted \cup {Answer(p, Record(c))}
                       /\ UNCHANGED <<bind, policy>>

\* Faulty variants: the insert is tried again; the answer names the record of
\* the request.
ReloadDeviceRetry(p) ==
  /\ pc[p] = "reload_device"
  /\ Goto(p, "find_conflict")
  /\ UNCHANGED <<device, bind, policy, tx, granted>>

ReloadDeviceOwn(p) ==
  /\ pc[p] = "reload_device" /\ Grant(p, Record(loc[p].body))

\* The winner is the answer if it belongs to the user.
ReloadDevice(p) ==
  /\ pc[p] = "reload_device"
  /\ \E d \in Colliding(p, loc[p].body) :
       IF device[d].user = loc[p].body.user
       THEN Grant(p, <<d, device[d].jwk>>)
       ELSE Refuse(p)

-----------------------------------------------------------------------------
(* Recovery bind.                                                          *)

RecoveryBind(p, r) ==
  Begin(p, "find_key", [NoLocals EXCEPT !.kind = "bind", !.key = r.key,
                                        !.body = r.body])

\* The BFF's own endpoint is the same protocol over the same hash, so that a
\* retry through the other API is recognised.
BffRecoveryBind(p, r) ==
  Begin(p, "find_key", [NoLocals EXCEPT !.kind = "bind", !.key = r.key,
                                        !.body = r.body])

\* The handler looks for the key before it calls bind_recovery_device.
FindKey(p) ==
  /\ pc[p] = "find_key"
  /\ LET row == bind[loc[p].key]
     IN  CASE row = NoBind -> /\ Goto(p, "find_bind")
                              /\ UNCHANGED <<device, bind, policy, tx, granted>>
           [] row = loc[p].body -> Grant(p, Record(row))
           [] OTHER -> Refuse(p)

\* Steps 1 and 2: an earlier bind with the key or the operation, the user.
FindBind(p) ==
  /\ pc[p] = "find_bind"
  /\ \/ \E row \in BindsSeen(p) :
          IF row = loc[p].body THEN Grant(p, Record(row)) ELSE Refuse(p)
     \/ /\ BindsSeen(p) = {}
        /\ IF loc[p].body.user \in Registered
           THEN /\ Goto(p, "check_device")
                /\ UNCHANGED <<device, bind, policy, tx, granted>>
           ELSE Refuse(p)

\* Step 4: the first row with the device id or the thumbprint.
CheckDevice(p) ==
  /\ pc[p] = "check_device"
  /\ LET c == loc[p].body
         S == Colliding(p, c)
     IN  \/ \E d \in S : Seen(p)[d].user # c.user /\ Refuse(p)
         \/ /\ S = {} \/ \E d \in S : Seen(p)[d].user = c.user
            /\ Goto(p, "claim_device")
            /\ UNCHANGED <<device, bind, policy, tx, granted>>

\* Faulty variant: a row in place is made active.
ClaimDeviceReactivates(p) ==
  /\ pc[p] = "claim_device" /\ WaitsFor(p) = {}
  /\ LET d == loc[p].body.device
     IN  tx' = [tx EXCEPT ![p].device[d] =
                  IF Written(device[d])
                  THEN [device[d] EXCEPT !.status = "ACTIVE"]
                  ELSE IF Colliding(p, loc[p].body) = {}
                       THEN NewDevice(loc[p].body) ELSE @]
  /\ Goto(p, "verify_device")
  /\ UNCHANGED <<device, bind, policy, granted>>

\* Step 5: INSERT ... ON CONFLICT DO NOTHING.
ClaimDevice(p) ==
  /\ pc[p] = "claim_device" /\ WaitsFor(p) = {}
  /\ tx' = IF Colliding(p, loc[p].body) # {}
           THEN tx
           ELSE [tx EXCEPT ![p].device[loc[p].body.device] =
                             NewDevice(loc[p].body)]
  /\ Goto(p, "verify_device")
  /\ UNCHANGED <<device, bind, policy, granted>>

\* The row in place is the approved credential, and is active.
ExactCredential(d, row, c) ==
  /\ row.user = c.user
  /\ d = c.device /\ row.jkt = c.jkt /\ row.jwk = c.jwk
  /\ row.status = "ACTIVE"

VerifyDevice(p) ==
  /\ pc[p] = "verify_device"
  /\ \E d \in Colliding(p, loc[p].body) :
       IF ExactCredential(d, Seen(p)[d], loc[p].body)
       THEN /\ Goto(p, "record_bind")
            /\ UNCHANGED <<device, bind, policy, tx, granted>>
       ELSE Refuse(p)

\* Step 6: INSERT ... ON CONFLICT DO NOTHING.
RecordBind(p) ==
  /\ pc[p] = "record_bind" /\ WaitsFor(p) = {}
  /\ tx' = IF BindsSeen(p) # {}
           THEN tx
           ELSE [tx EXCEPT ![p].key = loc[p].key, ![p].bind = loc[p].body]
  /\ Goto(p, "reload_bind")
  /\ UNCHANGED <<device, bind, policy, granted>>

ReloadBind(p) ==
  /\ pc[p] = "reload_bind"
  /\ \E row \in BindsSeen(p) :
       IF row = loc[p].body
       THEN /\ Goto(p, "commit")
            /\ UNCHANGED <<device, bind, policy, tx, granted>>
       ELSE Refuse(p)

-----------------------------------------------------------------------------
(* Old-device policy.                                                      *)

OldDevicesPolicy(p, r) ==
  Begin(p, "find_case", [NoLocals EXCEPT !.kind = "policy", !.key = r.key,
                                         !.body = r.body])

BffOldDevicesPolicy(p, r) ==
  Begin(p, "find_case", [NoLocals EXCEPT !.kind = "policy", !.key = r.key,
                                         !.body = r.body])

\* find_recovery_bind_by_case: the user and the exemption come from a bind of
\* the case.
FindCase(p) ==
  /\ pc[p] = "find_case"
  /\ LET S == {bind[k] : k \in {x \in Keys : bind[x].case = loc[p].body.case}}
     IN  \/ S = {} /\ Refuse(p)
         \/ \E row \in S :
              /\ pc' = [pc EXCEPT ![p] = "find_policy"]
              /\ loc' = [loc EXCEPT ![p].row = row]
              /\ UNCHANGED <<device, bind, policy, tx, granted>>

SamePolicy(row, l) ==
  row.body = l.body /\ row.except = l.row.device /\ row.user = l.row.user

FindPolicy(p) ==
  /\ pc[p] = "find_policy"
  /\ LET row == policy[loc[p].key]
     IN  CASE row = NoPolicy ->
                Goto(p, "find_case_policy")
                /\ UNCHANGED <<device, bind, policy, tx, granted>>
           [] row # NoPolicy /\ SamePolicy(row, loc[p]) -> Grant(p, <<>>)
           [] OTHER -> Refuse(p)

PoliciesSeen(p) ==
  {row \in {policy[k] : k \in Keys} \cup {tx[p].policy} :
     row # NoPolicy /\ PolicyOfCase(row, loc[p])}

FindCasePolicy(p) ==
  /\ pc[p] = "find_case_policy"
  /\ \/ \E row \in PoliciesSeen(p) :
          IF SamePolicy(row, loc[p]) THEN Grant(p, <<>>) ELSE Refuse(p)
     \/ /\ PoliciesSeen(p) = {}
        /\ IF loc[p].row.user \in Registered
           THEN /\ Goto(p, "list_devices")
                /\ UNCHANGED <<device, bind, policy, tx, granted>>
           ELSE Refuse(p)

\* Faulty variant: the device of the recovery is not exempted.
OldDevicesAll(row) ==
  {d \in DeviceIds : Written(device[d]) /\ device[d].user = row.user}

\* The devices of the user but the one bound in the recovery.
OldDevices(row) ==
  {d \in DeviceIds : /\ Written(device[d]) /\ device[d].user = row.user
                     /\ d # row.device}

\* The orders in which a query without ORDER BY may return the rows S.
Orders(S) == Injection(1 .. Cardinality(S), S)

ListDevices(p) ==
  /\ pc[p] = "list_devices"
  /\ \E order \in Orders(OldDevices(loc[p].row)) :
       loc' = [loc EXCEPT ![p].listed = device, ![p].todo = order]
  /\ pc' = [pc EXCEPT ![p] = "apply"]
  /\ UNCHANGED <<device, bind, policy, tx, granted>>

\* Faulty variant: the UPDATE is committed on its own.
ApplyApart(p) ==
  /\ pc[p] = "apply" /\ loc[p].todo # <<>>
  /\ LET d == Head(loc[p].todo)
     IN  /\ device' = [device EXCEPT ![d].status = NewStatus(loc[p])]
         /\ loc' = [loc EXCEPT ![p].todo = Tail(@),
                               ![p].affected = @ \cup {d}]
  /\ UNCHANGED <<bind, policy, tx, pc, granted>>

\* One turn of the loop: the UPDATE, if the listed status asks for one.
Apply(p) ==
  /\ pc[p] = "apply" /\ loc[p].todo # <<>> /\ WaitsFor(p) = {}
  /\ LET d == Head(loc[p].todo)
     IN  /\ tx' = IF MustUpdate(loc[p])
                  THEN [tx EXCEPT ![p].device[d] =
                          [Seen(p)[d] EXCEPT !.status = NewStatus(loc[p])]]
                  ELSE tx
         /\ loc' = [loc EXCEPT ![p].todo = Tail(@),
                               ![p].affected = @ \cup {d}]
  /\ UNCHANGED <<device, bind, policy, pc, granted>>

Applied(p) ==
  /\ pc[p] = "apply" /\ loc[p].todo = <<>>
  /\ Goto(p, "record_policy")
  /\ UNCHANGED <<device, bind, policy, tx, granted>>

PolicyRowOf(l) == [body |-> l.body, except |-> l.row.device,
                   user |-> l.row.user, affected |-> l.affected]

\* Faulty variant: the record is written outside the transaction.
RecordPolicyApart(p) ==
  /\ pc[p] = "record_policy" /\ WaitsFor(p) = {}
  /\ policy' = IF policy[loc[p].key] # NoPolicy \/ PoliciesSeen(p) # {}
               THEN policy
               ELSE [policy EXCEPT ![loc[p].key] = PolicyRowOf(loc[p])]
  /\ Goto(p, "reload_policy")
  /\ UNCHANGED <<device, bind, tx, granted>>

\* INSERT ... ON CONFLICT DO NOTHING, against the key and the case.
RecordPolicy(p) ==
  /\ pc[p] = "record_policy" /\ WaitsFor(p) = {}
  /\ tx' = IF policy[loc[p].key] # NoPolicy \/ PoliciesSeen(p) # {}
           THEN tx
           ELSE [tx EXCEPT ![p].key = loc[p].key,
                               ![p].policy = PolicyRowOf(loc[p])]
  /\ Goto(p, "reload_policy")
  /\ UNCHANGED <<device, bind, policy, granted>>

\* Faulty variant: what was done is trusted, and the row is not read again.
ReloadPolicyTrusting(p) ==
  /\ pc[p] = "reload_policy"
  /\ Goto(p, "commit")
  /\ UNCHANGED <<device, bind, policy, tx, granted>>

\* The row of the case, read again.  There is none when the insert lost
\* against the same key for another case: that is a success too.
ReloadPolicy(p) ==
  /\ pc[p] = "reload_policy"
  /\ IF \A row \in PoliciesSeen(p) : SamePolicy(row, loc[p])
     THEN /\ Goto(p, "commit")
          /\ UNCHANGED <<device, bind, policy, tx, granted>>
     ELSE Refuse(p)

-----------------------------------------------------------------------------
\* The transaction's writes take effect together.  A connection that breaks
\* now may leave the client without its answer.
Commit(p) ==
  /\ pc[p] = "commit"
  /\ device' = Seen(p)
  /\ bind' = IF tx[p].bind = NoBind
             THEN bind ELSE [bind EXCEPT ![tx[p].key] = tx[p].bind]
  /\ policy' = IF tx[p].policy = NoPolicy
               THEN policy ELSE [policy EXCEPT ![tx[p].key] = tx[p].policy]
  /\ LET record == IF loc[p].kind = "bind" THEN Record(loc[p].body) ELSE <<>>
     IN  \/ granted' = granted \cup {Answer(p, record)}
         \/ p \in Faulty /\ UNCHANGED granted
  /\ Finish(p)

\* The connection breaks: the transaction is rolled back.
Abort(p) == p \in Faulty /\ pc[p] # "idle" /\ Refuse(p)

\* p waits in a circle, and Postgres rolls it back.
DeadlockVictim(p) ==
  /\ \E S \in SUBSET Procs :
       /\ p \in S
       /\ \A q \in S : /\ WaitsFor(q) \cap S # {}
                       /\ \E r \in S : q \in WaitsFor(r)
  /\ Refuse(p)

-----------------------------------------------------------------------------
Enter(p) ==
  \/ \E c \in work.enroll : EnrollmentBind(p, c)
  \/ \E r \in work.bind : RecoveryBind(p, r) \/ BffRecoveryBind(p, r)
  \/ \E r \in work.policy : OldDevicesPolicy(p, r) \/ BffOldDevicesPolicy(p, r)

Continue(p) ==
  \/ FindBinding(p) \/ FindConflict(p) \/ InsertDevice(p) \/ ReloadDevice(p)
  \/ FindKey(p) \/ FindBind(p) \/ CheckDevice(p) \/ ClaimDevice(p)
  \/ VerifyDevice(p) \/ RecordBind(p) \/ ReloadBind(p)
  \/ FindCase(p) \/ FindPolicy(p) \/ FindCasePolicy(p) \/ ListDevices(p)
  \/ Apply(p) \/ Applied(p) \/ RecordPolicy(p) \/ ReloadPolicy(p)
  \/ Commit(p)

\* A step of the registry.
RegistryStep ==
  \E p \in Procs : Enter(p) \/ Continue(p) \/ Abort(p) \/ DeadlockVictim(p)

-----------------------------------------------------------------------------
BindsNameDevices ==
  \A k \in Keys : bind[k] # NoBind =>
    LET row == device[bind[k].device]
    IN  Written(row) /\ row.user = bind[k].user /\ row.jkt = bind[k].jkt
          /\ row.jwk = bind[k].jwk

AnswersNameOwnDevices ==
  \A g \in granted : g.kind \in {"enroll", "bind"} =>
    LET row == device[g.record[1]]
    IN  Written(row) /\ row.jwk = g.record[2] /\ row.user = g.body.user

\* Whatever collides on the device id or the thumbprint: the row of
\* recovery_idempotency that bind_recovery_device commits names a device row of
\* its user with its key, and the record an enrollment or a bind was answered
\* with is a record of the user who asked.
RecordsNameOwnDevices == BindsNameDevices /\ AnswersNameOwnDevices

\* The key of a policy was recorded for another case while it was applied.
KeyTaken(key, body) == policy[key] # NoPolicy /\ policy[key].body.case # body.case

\* However requests interleave and under whatever idempotency keys, a binding
\* operation (bind_recovery_device) and the policy of a recovery case
\* (apply_old_device_policy) are answered with 200 for one payload only, unless
\* a policy lost its key to another case: then there is no row of its own case
\* to reload, which apply_old_device_policy takes for a success.
UsedOnce ==
  \A g, h \in granted :
    /\ g.kind = h.kind
    /\ \/ g.kind = "bind" /\ g.body.op = h.body.op
       \/ /\ g.kind = "policy" /\ g.body.case = h.body.case
          /\ ~KeyTaken(g.key, g.body) /\ ~KeyTaken(h.key, h.body)
    => g.body = h.body

\* No device that a recorded policy lists as affected is active: the record
\* and the status updates of apply_old_device_policy are kept or lost together.
PolicyTookEffect ==
  \A k \in Keys : policy[k] # NoPolicy =>
    \A d \in policy[k].affected : device[d].status # "ACTIVE"

\* A row of device keeps its owner and its key, and a device that bind_device
\* or bind_recovery_device meets revoked or quarantined is never active again.
CredentialsStay ==
  [][\A d \in DeviceIds : Written(device[d]) =>
       /\ device'[d].user = device[d].user /\ device'[d].jkt = device[d].jkt
       /\ device'[d].jwk = device[d].jwk
       /\ device[d].status # "ACTIVE" => device'[d].status # "ACTIVE"]_vars

\* Every request is answered: no transaction of the registry waits for ever,
\* and bind_device does not go round in circles over a collision.
Answered == \A p \in Procs : pc[p] # "idle" ~> pc[p] = "idle"
=============================================================================
