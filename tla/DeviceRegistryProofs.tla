------------------------ MODULE DeviceRegistryProofs ------------------------
(***************************************************************************)
(* What every step of the device registry keeps (RInv) and does to its     *)
(* tables (Moves), for any users, devices, recovery cases, requests and    *)
(* processes: enrollments and recovery binds up to their writes to the     *)
(* tables, and old-device policies up to their updates.  The rest is in    *)
(* DeviceCommitProofs, and the theorems are in DeviceSystemProofs.         *)
(*                                                                         *)
(* What the invariant says of one process is an operator of the label l,   *)
(* the local variables v and the pending writes t of the process, and of   *)
(* the tables dev, bnd and pol, so that it can be carried over from one    *)
(* state of the tables to another.                                         *)
(***************************************************************************)
EXTENDS DeviceRegistry, TLAPS

\* A row of the table.
RealRow == [user : Users, jkt : Jkts, jwk : Jwks,
            status : {"ACTIVE", "REVOKED", "QUARANTINED"}]

SameCredential(r, c) == r.user = c.user /\ r.jkt = c.jkt /\ r.jwk = c.jwk

\* A row stays, with its owner and its key, and is not made active again.
RowStays(old, new) ==
  Written(old) => /\ Written(new) /\ SameCredential(new, old)
                  /\ old.status # "ACTIVE" => new.status # "ACTIVE"

Grows(dev, new) == \A d \in DeviceIds : RowStays(dev[d], new[d])

\* The rows of an idempotency table stay.
RowsStay(tab, new, none) == \A k \in Keys : tab[k] # none => new[k] = tab[k]

\* What a process with pending writes t sees.
View(t, dev) == [d \in DeviceIds |->
                   IF Written(t.device[d]) THEN t.device[d] ELSE dev[d]]

\* The user has recovered with another device than d.
Other(user, d, bnd) ==
  \E k \in Keys : bnd[k] # NoBind /\ bnd[k].user = user /\ bnd[k].device # d

\* A device is only turned off if its owner has recovered with another.
TurnsOff(dev, new, bnd) ==
  \A d \in DeviceIds :
    Written(new[d]) /\ new[d].status # "ACTIVE" =>
      \/ Written(dev[d]) /\ dev[d].status # "ACTIVE"
      \/ Other(new[d].user, d, bnd)

\* What a step of the registry may do to the tables.
Moves ==
  /\ Grows(device, device') /\ RowsStay(bind, bind', NoBind)
  /\ TurnsOff(device, device', bind')

\* The devices of a user can be counted.
Countable == \A S \in SUBSET DeviceIds : Cardinality(S) \in Nat

-----------------------------------------------------------------------------
(* One process.                                                            *)

Enrolling == {"find_binding", "find_conflict", "insert_device", "reload_device"}
Binding == {"find_key", "find_bind", "check_device", "claim_device",
            "verify_device", "record_bind", "reload_bind"}
Deciding == {"find_policy", "find_case_policy", "list_devices", "apply",
             "record_policy", "reload_policy"}

OfBind(l, v) == l \in Binding \/ (l = "commit" /\ v.kind = "bind")
OfCase(l, v) == l \in Deciding \/ (l = "commit" /\ v.kind = "policy")
OfPolicy(l, v) == l = "find_case" \/ OfCase(l, v)

\* The request is of the kind that the label belongs to.
KindOK(l, v) ==
  /\ l \in Enrolling => v.kind = "enroll" /\ v.body \in Credential
  /\ OfBind(l, v) => v.kind = "bind" /\ v.key \in Keys /\ v.body \in BindBody
  /\ OfPolicy(l, v) => v.kind = "policy" /\ v.key \in Keys /\ v.body \in PolicyBody
  /\ l = "commit" => v.kind \in {"bind", "policy"}

\* Nothing is written before its statement, and what is written comes from the
\* request.
WritesOK(l, v, t) ==
  /\ (\E d \in DeviceIds : Written(t.device[d])) =>
       l \in {"verify_device", "record_bind", "reload_bind", "apply",
              "record_policy", "reload_policy", "commit"}
  /\ t.bind # NoBind => /\ l = "reload_bind" \/ (l = "commit" /\ v.kind = "bind")
                        /\ t.bind = v.body /\ t.key = v.key
  /\ t.policy # NoPolicy => /\ l = "reload_policy" \/ (l = "commit" /\ v.kind = "policy")
                            /\ t.policy = PolicyRowOf(v) /\ t.key = v.key

\* A pending device row is a new one, or turns one off whose owner has recovered
\* with another device.
PendingRowsOK(t, dev, bnd) ==
  \A d \in DeviceIds : Written(t.device[d]) =>
    /\ t.device[d] \in RealRow
    /\ Written(dev[d]) => /\ SameCredential(t.device[d], dev[d])
                          /\ t.device[d].status # "ACTIVE"
    /\ t.device[d].status # "ACTIVE" => Other(t.device[d].user, d, bnd)

\* A pending record has a key, and an operation or a case, of its own.
PendingRecordsOK(t, bnd, pol) ==
  /\ t.bind # NoBind =>
       bnd[t.key] = NoBind
       /\ \A k \in Keys : bnd[k] # NoBind => bnd[k].op # t.bind.op
  /\ t.policy # NoPolicy =>
       pol[t.key] = NoPolicy
       /\ \A k \in Keys : pol[k] # NoPolicy => pol[k].body.case # t.policy.body.case

\* A verified bind sees its credential in place.
BoundOK(l, v, t, dev, bnd) ==
  /\ l \in {"record_bind", "reload_bind"} \/ (l = "commit" /\ v.kind = "bind") =>
       LET row == View(t, dev)[v.body.device]
       IN  Written(row) /\ SameCredential(row, v.body)
  /\ l = "commit" /\ v.kind = "bind" =>
       t.bind # NoBind \/ \E k \in Keys : bnd[k] = v.body

\* The key of a policy belongs to another case.
Taken(key, body, pol) == pol[key] # NoPolicy /\ pol[key].body.case # body.case

\* A policy works for the user and the device of a bind that is recorded; the
\* devices on its list are others of the user, and those it is done with are not
\* active.
AppliedOK(l, v, t, dev, bnd, pol) ==
  /\ OfCase(l, v) => v.row \in BindBody /\ \E k \in Keys : bnd[k] = v.row
  /\ l = "apply" =>
       \A i \in DOMAIN v.todo :
         LET d == v.todo[i]
         IN  /\ Written(dev[d]) /\ dev[d].user = v.row.user /\ d # v.row.device
             /\ v.listed[d].status # "ACTIVE" => dev[d].status # "ACTIVE"
  /\ OfPolicy(l, v) =>
       \A d \in v.affected :
         Written(dev[d]) /\ (Written(t.device[d]) \/ dev[d].status # "ACTIVE")
  /\ l = "reload_policy" =>
       \/ t.policy # NoPolicy \/ Taken(v.key, v.body, pol)
       \/ \E k \in Keys : pol[k] # NoPolicy /\ pol[k].body.case = v.body.case
  /\ l = "commit" /\ v.kind = "policy" =>
       \/ t.policy # NoPolicy \/ Taken(v.key, v.body, pol)
       \/ \E k \in Keys : pol[k] # NoPolicy /\ pol[k].body = v.body

ProcOK(l, v, t, dev, bnd, pol) ==
  /\ KindOK(l, v) /\ WritesOK(l, v, t)
  /\ PendingRowsOK(t, dev, bnd) /\ PendingRecordsOK(t, bnd, pol)
  /\ BoundOK(l, v, t, dev, bnd) /\ AppliedOK(l, v, t, dev, bnd, pol)

\* The pending writes of two processes do not meet.
Apart(t, s) ==
  /\ \A d \in DeviceIds : ~(Written(t.device[d]) /\ Written(s.device[d]))
  /\ t.bind # NoBind /\ s.bind # NoBind => t.key # s.key /\ t.bind.op # s.bind.op
  /\ t.policy # NoPolicy /\ s.policy # NoPolicy =>
       t.key # s.key /\ t.policy.body.case # s.policy.body.case

-----------------------------------------------------------------------------
(* The tables.                                                             *)

DevicesOK(dev) == \A d \in DeviceIds : dev[d] \in RealRow \cup {NoDevice}

BindsOK(bnd, dev) ==
  /\ \A k \in Keys : bnd[k] # NoBind =>
       Written(dev[bnd[k].device]) /\ SameCredential(dev[bnd[k].device], bnd[k])
  /\ \A j, k \in Keys :
       bnd[j] # NoBind /\ bnd[k] # NoBind /\ bnd[j].op = bnd[k].op => j = k

PoliciesOK(pol, dev, bnd) ==
  /\ \A k \in Keys : pol[k] # NoPolicy =>
       /\ \A d \in pol[k].affected : Written(dev[d]) /\ dev[d].status # "ACTIVE"
       /\ \E j \in Keys : /\ bnd[j] # NoBind /\ bnd[j].user = pol[k].user
                          /\ bnd[j].device = pol[k].except
  /\ \A j, k \in Keys :
       pol[j] # NoPolicy /\ pol[k] # NoPolicy /\ pol[j].body.case = pol[k].body.case
         => j = k

\* What an answer names is there, and a granted request is recorded.
AnswerOK(g, dev, bnd, pol) ==
  /\ g.kind \in {"enroll", "bind"} =>
       /\ g.record \in DeviceIds \X Jwks
       /\ Written(dev[g.record[1]])
       /\ dev[g.record[1]].jwk = g.record[2] /\ dev[g.record[1]].user = g.body.user
  /\ g.kind = "bind" => g.body \in BindBody /\ \E k \in Keys : bnd[k] = g.body
  /\ g.kind = "policy" =>
       /\ g.key \in Keys
       /\ \/ Taken(g.key, g.body, pol)
          \/ \E k \in Keys : pol[k] # NoPolicy /\ pol[k].body = g.body

RInv ==
  /\ TypeOK
  /\ \A p \in Procs : ProcOK(pc[p], loc[p], tx[p], device, bind, policy)
  /\ \A p, q \in Procs : p # q => Apart(tx[p], tx[q])
  /\ DevicesOK(device) /\ BindsOK(bind, device)
  /\ PoliciesOK(policy, device, bind)
  /\ \A g \in granted : AnswerOK(g, device, bind, policy)

-----------------------------------------------------------------------------
(* Rows and records.                                                       *)

AnswerType == [kind : Kinds, key : Keys \cup {None}, body : Body,
               record : (DeviceIds \X Jwks) \cup {<<>>}]

\* A row that is there, and none.
LEMMA RowTypes ==
  /\ RealRow \subseteq DeviceRow /\ NoDevice \in DeviceRow
  /\ ~Written(NoDevice)
  /\ \A r \in RealRow : Written(r) /\ r.user \in Users /\ r.jkt \in Jkts /\ r.jwk \in Jwks
BY DEF RealRow, DeviceRow, NoDevice, Written

\* A request is none of the placeholders.
LEMMA RecordTypes ==
  /\ \A b \in BindBody : b # NoBind
  /\ \A r \in PolicyRow : r # NoPolicy
<1>1. None \notin Cases
  BY RegistryAssumption
<1>2. \A b \in BindBody : b.case \in Cases
  BY DEF BindBody
<1>3. NoBind.case = None
  BY DEF NoBind
<1>4. \A r \in PolicyRow : r.body.case \in Cases
  BY DEF PolicyRow, PolicyBody
<1>5. NoPolicy.body.case = None
  BY DEF NoPolicy, NoBind
<1>6. \A b \in BindBody : b # NoBind
  BY <1>1, <1>2, <1>3
<1>7. \A r \in PolicyRow : r # NoPolicy
  BY <1>1, <1>4, <1>5
<1> QED BY <1>6, <1>7

LEMMA NoneTypes == NoWrites \in Writes /\ NoLocals \in Locals
<1>1. [d \in DeviceIds |-> NoDevice] \in [DeviceIds -> DeviceRow]
  BY RowTypes
<1>2. NoWrites \in Writes
  BY <1>1 DEF NoWrites, Writes
<1>3. NoWrites.device \in [DeviceIds -> DeviceRow] /\ <<>> \in Seq(DeviceIds)
  BY <1>1 DEF NoWrites
<1>4. NoLocals \in Locals
  BY <1>3 DEF NoLocals, Locals, Kinds
<1> QED BY <1>2, <1>4

\* What holds of a transaction without writes.
LEMMA NothingWritten ==
  /\ \A d \in DeviceIds : ~Written(NoWrites.device[d])
  /\ NoWrites.bind = NoBind /\ NoWrites.policy = NoPolicy
  /\ \A dev, bnd, pol :
       PendingRowsOK(NoWrites, dev, bnd) /\ PendingRecordsOK(NoWrites, bnd, pol)
  /\ \A l, v : WritesOK(l, v, NoWrites)
  /\ \A t : Apart(NoWrites, t)
<1>1. /\ \A d \in DeviceIds : ~Written(NoWrites.device[d])
      /\ NoWrites.bind = NoBind /\ NoWrites.policy = NoPolicy
  BY RowTypes DEF NoWrites
<1> QED BY <1>1 DEF PendingRowsOK, PendingRecordsOK, WritesOK, Apart

LEMMA ApartSym ==
  ASSUME NEW t, NEW s, Apart(t, s)
  PROVE  Apart(s, t)
BY DEF Apart

\* A process without a request keeps to the invariant, whatever the tables.
LEMMA IdleOK ==
  ASSUME NEW dev, NEW bnd, NEW pol
  PROVE  ProcOK("idle", NoLocals, NoWrites, dev, bnd, pol)
<1>1. KindOK("idle", NoLocals)
  BY DEF KindOK, OfBind, OfPolicy, OfCase, Enrolling, Binding, Deciding
<1>2. BoundOK("idle", NoLocals, NoWrites, dev, bnd)
  BY DEF BoundOK
<1>3. AppliedOK("idle", NoLocals, NoWrites, dev, bnd, pol)
  BY DEF AppliedOK, OfPolicy, OfCase, Deciding
<1> QED BY <1>1, <1>2, <1>3, NothingWritten DEF ProcOK

\* What the invariant says of one process.
LEMMA OfProc ==
  ASSUME RInv, NEW p \in Procs
  PROVE  /\ pc[p] \in Labels /\ loc[p] \in Locals /\ tx[p] \in Writes
         /\ ProcOK(pc[p], loc[p], tx[p], device, bind, policy)
BY DEF RInv, TypeOK

\* One by one.
LEMMA OfProcParts ==
  ASSUME RInv, NEW p \in Procs
  PROVE  /\ KindOK(pc[p], loc[p]) /\ WritesOK(pc[p], loc[p], tx[p])
         /\ PendingRowsOK(tx[p], device, bind)
         /\ PendingRecordsOK(tx[p], bind, policy)
         /\ BoundOK(pc[p], loc[p], tx[p], device, bind)
         /\ AppliedOK(pc[p], loc[p], tx[p], device, bind, policy)
BY OfProc, Zenon DEF ProcOK

\* And of the tables.
LEMMA OfTables ==
  ASSUME RInv
  PROVE  /\ work \in Workloads
         /\ device \in [DeviceIds -> DeviceRow]
         /\ bind \in [Keys -> BindBody \cup {NoBind}]
         /\ policy \in [Keys -> PolicyRow \cup {NoPolicy}]
         /\ pc \in [Procs -> Labels] /\ loc \in [Procs -> Locals]
         /\ tx \in [Procs -> Writes]
         /\ granted \subseteq AnswerType
         /\ DevicesOK(device) /\ BindsOK(bind, device)
         /\ PoliciesOK(policy, device, bind)
BY DEF RInv, TypeOK, AnswerType

\* One process takes a step; the tables change in a way that the others can live
\* with.
LEMMA OneMoves ==
  ASSUME RInv, NEW p \in Procs, NEW l \in Labels, NEW v \in Locals, NEW t \in Writes,
         pc' = [pc EXCEPT ![p] = l], loc' = [loc EXCEPT ![p] = v],
         tx' = [tx EXCEPT ![p] = t],
         work' = work,
         device' \in [DeviceIds -> DeviceRow],
         bind' \in [Keys -> BindBody \cup {NoBind}],
         policy' \in [Keys -> PolicyRow \cup {NoPolicy}],
         granted' \subseteq AnswerType,
         ProcOK(l, v, t, device', bind', policy'),
         \A q \in Procs \ {p} :
           /\ ProcOK(pc[q], loc[q], tx[q], device', bind', policy')
           /\ Apart(t, tx[q]),
         DevicesOK(device'), BindsOK(bind', device'),
         PoliciesOK(policy', device', bind'),
         \A g \in granted' : AnswerOK(g, device', bind', policy')
  PROVE  RInv'
<1>1. /\ pc' \in [Procs -> Labels] /\ loc' \in [Procs -> Locals]
      /\ tx' \in [Procs -> Writes]
      /\ \A q \in Procs : /\ pc'[q] = IF q = p THEN l ELSE pc[q]
                          /\ loc'[q] = IF q = p THEN v ELSE loc[q]
                          /\ tx'[q] = IF q = p THEN t ELSE tx[q]
  BY OfTables
<1>2. TypeOK'
  BY <1>1, OfTables DEF TypeOK, AnswerType
<1>3. \A q \in Procs : ProcOK(pc'[q], loc'[q], tx'[q], device', bind', policy')
  BY <1>1
<1>4. \A q, r \in Procs : q # r => Apart(tx'[q], tx'[r])
  <2> SUFFICES ASSUME NEW q \in Procs, NEW r \in Procs, q # r
               PROVE  Apart(tx'[q], tx'[r])
    OBVIOUS
  <2>1. CASE q = p
    BY <1>1, <2>1
  <2>2. CASE r = p
    BY <1>1, <2>2, ApartSym
  <2>3. CASE q # p /\ r # p
    BY <1>1, <2>3 DEF RInv
  <2> QED BY <2>1, <2>2, <2>3
<1> QED BY <1>2, <1>3, <1>4 DEF RInv

-----------------------------------------------------------------------------
(* Steps that leave the tables alone.                                      *)

\* What p holds and has pending is as good as before.
LEMMA Works ==
  ASSUME RInv, NEW p \in Procs, NEW l \in Labels, NEW v \in Locals, NEW t \in Writes,
         pc' = [pc EXCEPT ![p] = l], loc' = [loc EXCEPT ![p] = v],
         tx' = [tx EXCEPT ![p] = t],
         UNCHANGED <<work, device, bind, policy>>,
         granted' \subseteq AnswerType,
         ProcOK(l, v, t, device, bind, policy),
         \A q \in Procs \ {p} : Apart(t, tx[q]),
         \A g \in granted' \ granted : AnswerOK(g, device, bind, policy)
  PROVE  RInv'
<1>2. \A q \in Procs : ProcOK(pc[q], loc[q], tx[q], device', bind', policy')
  BY OfProc
<1>3. \A g \in granted' : AnswerOK(g, device', bind', policy')
  BY DEF RInv
<1>4. /\ DevicesOK(device') /\ BindsOK(bind', device')
      /\ PoliciesOK(policy', device', bind')
      /\ device' \in [DeviceIds -> DeviceRow]
      /\ bind' \in [Keys -> BindBody \cup {NoBind}]
      /\ policy' \in [Keys -> PolicyRow \cup {NoPolicy}]
  BY OfTables
<1>5. work' = work /\ ProcOK(l, v, t, device', bind', policy')
  OBVIOUS
<1> QED BY <1>2, <1>3, <1>4, <1>5, OneMoves, Zenon

\* The request goes on to another statement.
LEMMA GoesTo ==
  ASSUME RInv, NEW p \in Procs, NEW l \in Labels, NEW v \in Locals,
         pc' = [pc EXCEPT ![p] = l], loc' = [loc EXCEPT ![p] = v],
         UNCHANGED <<work, device, bind, policy, tx, granted>>,
         ProcOK(l, v, tx[p], device, bind, policy)
  PROVE  RInv'
<1>1. tx' = [tx EXCEPT ![p] = tx[p]] /\ tx[p] \in Writes
  BY OfTables
<1>2. \A q \in Procs \ {p} : Apart(tx[p], tx[q])
  BY DEF RInv
<1>3. granted' \subseteq AnswerType
  BY OfTables
<1> QED BY <1>1, <1>2, <1>3, Works, Zenon

\* The same with the local variables as they are.
LEMMA GotoKeeps ==
  ASSUME RInv, NEW p \in Procs, NEW l \in Labels, Goto(p, l),
         UNCHANGED <<work, device, bind, policy, tx, granted>>,
         ProcOK(l, loc[p], tx[p], device, bind, policy)
  PROVE  RInv'
<1>1. loc' = [loc EXCEPT ![p] = loc[p]] /\ loc[p] \in Locals
  BY OfTables DEF Goto
<1> QED BY <1>1, GoesTo, Zenon DEF Goto

\* The request is answered.
LEMMA RefuseKeeps ==
  ASSUME RInv, NEW p \in Procs, Refuse(p), UNCHANGED work
  PROVE  RInv'
<1>1. granted' \subseteq AnswerType
  BY OfTables DEF Refuse
<1>2. "idle" \in Labels
  BY DEF Labels
<1> QED BY <1>1, <1>2, NoneTypes, NothingWritten, IdleOK, Works, Zenon DEF Refuse, Finish

LEMMA AnswerIsTyped ==
  ASSUME RInv, NEW p \in Procs, loc[p].body \in Body,
         NEW record \in (DeviceIds \X Jwks) \cup {<<>>}
  PROVE  Answer(p, record) \in AnswerType
<1>1. loc[p].kind \in Kinds /\ loc[p].key \in Keys \cup {None}
  BY OfProc DEF Locals
<1> QED BY <1>1 DEF Answer, AnswerType

LEMMA GrantKeeps ==
  ASSUME RInv, NEW p \in Procs, NEW record \in (DeviceIds \X Jwks) \cup {<<>>},
         Grant(p, record), UNCHANGED work, loc[p].body \in Body,
         AnswerOK(Answer(p, record), device, bind, policy)
  PROVE  RInv'
<1>1. granted' \subseteq AnswerType
  BY OfTables, AnswerIsTyped DEF Grant
<1>2. "idle" \in Labels
  BY DEF Labels
<1>3. \A g \in granted' \ granted : AnswerOK(g, device, bind, policy)
  BY DEF Grant
<1> QED BY <1>1, <1>2, <1>3, NoneTypes, NothingWritten, IdleOK, Works, Zenon DEF Grant, Finish

\* A request comes in.
LEMMA EnterKeeps ==
  ASSUME RInv, NEW p \in Procs, Enter(p), UNCHANGED work
  PROVE  RInv'
<1>1. PICK l \in Labels, v \in Locals :
        /\ Begin(p, l, v)
        /\ v.row = NoBind /\ v.todo = <<>> /\ v.affected = {}
        /\ \/ l \in {"find_binding", "find_conflict"} /\ v.kind = "enroll"
              /\ v.body \in Credential
           \/ l = "find_key" /\ v.kind = "bind" /\ v.key \in Keys /\ v.body \in BindBody
           \/ l = "find_case" /\ v.kind = "policy" /\ v.key \in Keys /\ v.body \in PolicyBody
  <2>1. work \in Workloads
    BY OfTables
  <2>2. /\ work.enroll \subseteq Credential
        /\ work.bind \subseteq [key : Keys, body : BindBody]
        /\ work.policy \subseteq [key : Keys, body : PolicyBody]
    BY <2>1, RegistryAssumption
  <2> DEFINE Fresh(k, key, body) ==
               [NoLocals EXCEPT !.kind = k, !.key = key, !.body = body]
             Unkeyed(body) == [NoLocals EXCEPT !.kind = "enroll", !.body = body]
             IsFresh(v, k, body) ==
               /\ v \in Locals /\ v.kind = k /\ v.body = body
               /\ v.row = NoBind /\ v.todo = <<>> /\ v.affected = {}
  <2>0. NoLocals \in Locals /\ NoLocals.row = NoBind /\ NoLocals.todo = <<>>
        /\ NoLocals.affected = {}
    BY NoneTypes DEF NoLocals
  <2>3. ASSUME NEW k \in Kinds, NEW key \in Keys \cup {None}, NEW body \in Body
        PROVE  /\ IsFresh(Fresh(k, key, body), k, body) /\ Fresh(k, key, body).key = key
               /\ IsFresh(Unkeyed(body), "enroll", body)
    BY <2>0, Zenon DEF Locals, Kinds
  <2> HIDE DEF Fresh, Unkeyed, IsFresh
  <2>4. CASE \E c \in work.enroll : EnrollmentBind(p, c)
    <3>1. PICK c \in work.enroll, l \in {"find_binding", "find_conflict"} :
            Begin(p, l, Unkeyed(c))
      BY <2>4, Zenon DEF EnrollmentBind, Unkeyed
    <3>3. "enroll" \in Kinds /\ None \in Keys \cup {None} /\ c \in Body /\ c \in Credential
          /\ l \in Labels
      BY <2>2 DEF Kinds, Body, Labels
    <3>4. IsFresh(Unkeyed(c), "enroll", c)
      BY <2>3, <3>3
    <3> QED BY <3>1, <3>3, <3>4 DEF IsFresh
  <2>5. CASE \E r \in work.bind : RecoveryBind(p, r) \/ BffRecoveryBind(p, r)
    <3>1. PICK r \in work.bind :
            Begin(p, "find_key", Fresh("bind", r.key, r.body))
      BY <2>5, Zenon DEF RecoveryBind, BffRecoveryBind, Fresh
    <3>2. r.key \in Keys /\ r.body \in BindBody
      BY <2>2
    <3>3. "bind" \in Kinds /\ r.key \in Keys \cup {None} /\ r.body \in Body
          /\ "find_key" \in Labels
      BY <3>2 DEF Kinds, Body, Labels
    <3>4. IsFresh(Fresh("bind", r.key, r.body), "bind", r.body)
          /\ Fresh("bind", r.key, r.body).key = r.key
      BY <2>3, <3>3, ZenonT(60)
    <3> QED BY <3>1, <3>2, <3>3, <3>4, SMTT(30) DEF IsFresh
  <2>6. CASE \E r \in work.policy : OldDevicesPolicy(p, r) \/ BffOldDevicesPolicy(p, r)
    <3>1. PICK r \in work.policy :
            Begin(p, "find_case", Fresh("policy", r.key, r.body))
      BY <2>6, Zenon DEF OldDevicesPolicy, BffOldDevicesPolicy, Fresh
    <3>2. r.key \in Keys /\ r.body \in PolicyBody
      BY <2>2
    <3>3. "policy" \in Kinds /\ r.key \in Keys \cup {None} /\ r.body \in Body
          /\ "find_case" \in Labels
      BY <3>2 DEF Kinds, Body, Labels
    <3>4. IsFresh(Fresh("policy", r.key, r.body), "policy", r.body)
          /\ Fresh("policy", r.key, r.body).key = r.key
      BY <2>3, <3>3
    <3> QED BY <3>1, <3>2, <3>3, <3>4, SMTT(30) DEF IsFresh
  <2> QED BY <2>4, <2>5, <2>6 DEF Enter
<1>2. pc[p] = "idle"
  BY <1>1 DEF Begin
<1>3. KindOK(l, v)
  BY <1>1, ZenonT(60) DEF KindOK, OfBind, OfPolicy, OfCase, Enrolling, Binding, Deciding
<1>4. WritesOK(l, v, tx[p])
  BY <1>2, OfProcParts, ZenonT(60) DEF WritesOK
<1>5. BoundOK(l, v, tx[p], device, bind)
  BY <1>1, ZenonT(60) DEF BoundOK
<1>6. AppliedOK(l, v, tx[p], device, bind, policy)
  BY <1>1, ZenonT(60) DEF AppliedOK, OfPolicy, OfCase, Deciding
<1>7. ProcOK(l, v, tx[p], device, bind, policy)
  BY <1>3, <1>4, <1>5, <1>6, OfProc, ZenonT(60) DEF ProcOK
<1> QED BY <1>1, <1>7, GoesTo, Zenon DEF Begin

-----------------------------------------------------------------------------
(* Enrollment and recovery binds, up to their writes to the tables.        *)

\* Before its first write a request may go on to any statement that asks for no
\* more than the kind of the request.
LEMMA ReadsOn ==
  ASSUME NEW v, NEW t, NEW dev, NEW bnd, NEW pol, NEW l, NEW m,
         ProcOK(l, v, t, dev, bnd, pol),
         \/ l \in Enrolling /\ m \in Enrolling
         \/ l \in {"find_key", "find_bind", "check_device", "claim_device"}
            /\ m \in {"find_bind", "check_device", "claim_device", "verify_device"}
  PROVE  ProcOK(m, v, t, dev, bnd, pol)
<1>1. KindOK(m, v)
  BY ZenonT(60) DEF ProcOK, KindOK, OfBind, OfPolicy, OfCase, Enrolling, Binding, Deciding
<1>2. WritesOK(m, v, t)
  BY ZenonT(60) DEF ProcOK, WritesOK, Enrolling
<1>3. BoundOK(m, v, t, dev, bnd)
  BY ZenonT(60) DEF BoundOK, Enrolling
<1>4. AppliedOK(m, v, t, dev, bnd, pol)
  BY DEF AppliedOK, OfPolicy, OfCase, Deciding, Enrolling
<1> QED BY <1>1, <1>2, <1>3, <1>4, ZenonT(60) DEF ProcOK

\* What a request without writes sees is what is committed.
LEMMA SeesCommitted ==
  ASSUME RInv, NEW p \in Procs,
         pc[p] \in Enrolling \cup {"find_key", "find_bind", "check_device", "claim_device"}
  PROVE  /\ \A d \in DeviceIds : ~Written(tx[p].device[d]) /\ Seen(p)[d] = device[d]
         /\ tx[p].bind = NoBind /\ tx[p].policy = NoPolicy
<1>1. WritesOK(pc[p], loc[p], tx[p])
  BY OfProc DEF ProcOK
<1>2. \A d \in DeviceIds : ~Written(tx[p].device[d])
  BY <1>1 DEF WritesOK, Enrolling
<1>3. tx[p].bind = NoBind /\ tx[p].policy = NoPolicy
  BY <1>1 DEF WritesOK, Enrolling
<1> QED BY <1>2, <1>3, ZenonT(60) DEF Seen

\* The record of a row is one.
LEMMA RowOfDevice ==
  ASSUME RInv, NEW d \in DeviceIds, Written(device[d])
  PROVE  device[d] \in RealRow /\ <<d, device[d].jwk>> \in DeviceIds \X Jwks
<1>1. device[d] \in RealRow
  BY OfTables, RowTypes DEF DevicesOK
<1> QED BY <1>1, RowTypes

LEMMA FindBindingKeeps ==
  ASSUME RInv, NEW p \in Procs, FindBinding(p) \/ FindConflict(p), UNCHANGED work
  PROVE  RInv'
<1>1. CASE Refuse(p)
  BY <1>1, RefuseKeeps
<1>2. CASE ~Refuse(p)
  <2>1. PICK m \in {"find_conflict", "insert_device"} :
          Goto(p, m) /\ UNCHANGED <<device, bind, policy, tx, granted>>
    BY <1>2, ZenonT(60) DEF FindBinding, FindConflict
  <2>2. pc[p] \in Enrolling /\ m \in Enrolling /\ m \in Labels
    BY DEF FindBinding, FindConflict, Enrolling, Labels
  <2>3. ProcOK(m, loc[p], tx[p], device, bind, policy)
    BY <2>2, ReadsOn, OfProc
  <2> QED BY <2>1, <2>2, <2>3, GotoKeeps, ZenonT(60)
<1> QED BY <1>1, <1>2

LEMMA ReloadDeviceKeeps ==
  ASSUME RInv, NEW p \in Procs, ReloadDevice(p), UNCHANGED work
  PROVE  RInv'
<1>1. pc[p] = "reload_device"
  BY DEF ReloadDevice
<1>2. PICK d \in Colliding(p, loc[p].body) :
        \/ device[d].user = loc[p].body.user /\ Grant(p, <<d, device[d].jwk>>)
        \/ Refuse(p)
  BY DEF ReloadDevice
<1>3. CASE Refuse(p)
  BY <1>3, RefuseKeeps
<1>4. CASE device[d].user = loc[p].body.user /\ Grant(p, <<d, device[d].jwk>>)
  <2>1. d \in DeviceIds /\ Written(device[d])
    BY <1>1, SeesCommitted DEF Colliding, Collides, Enrolling
  <2>2. <<d, device[d].jwk>> \in DeviceIds \X Jwks
    BY <2>1, RowOfDevice, ZenonT(60)
  <2>3. loc[p].kind = "enroll" /\ loc[p].body \in Credential
    BY <1>1, OfProcParts, SMTT(30) DEF KindOK, Enrolling
  <2>4. AnswerOK(Answer(p, <<d, device[d].jwk>>), device, bind, policy)
    BY <1>4, <2>1, <2>2, <2>3, ZenonT(60) DEF AnswerOK, Answer
  <2> QED BY <1>4, <2>2, <2>3, <2>4, GrantKeeps DEF Body
<1> QED BY <1>2, <1>3, <1>4

\* An answer for a bind that is recorded.
LEMMA GrantRecorded ==
  ASSUME RInv, NEW p \in Procs, pc[p] \in Binding, Grant(p, Record(loc[p].body)),
         \E k \in Keys : bind[k] = loc[p].body, UNCHANGED work
  PROVE  RInv'
<1>1. loc[p].kind = "bind" /\ loc[p].body \in BindBody
  BY OfProcParts, ZenonT(60) DEF KindOK, OfBind
<1> DEFINE b == loc[p].body
<1>2. Written(device[b.device]) /\ SameCredential(device[b.device], b)
  BY <1>1, OfTables, RecordTypes, ZenonT(60) DEF BindsOK
<1>3. Record(b) \in DeviceIds \X Jwks /\ Record(b)[1] = b.device /\ Record(b)[2] = b.jwk
  BY <1>1, SMTT(30) DEF Record, BindBody
<1>4. AnswerOK(Answer(p, Record(b)), device, bind, policy)
  BY <1>1, <1>2, <1>3, Zenon DEF AnswerOK, Answer, SameCredential
<1> QED BY <1>1, <1>3, <1>4, GrantKeeps, ZenonT(60) DEF Body

LEMMA FindKeyKeeps ==
  ASSUME RInv, NEW p \in Procs, FindKey(p) \/ FindBind(p) \/ CheckDevice(p),
         UNCHANGED work
  PROVE  RInv'
<1>1. pc[p] \in {"find_key", "find_bind", "check_device"} /\ pc[p] \in Binding
  BY DEF FindKey, FindBind, CheckDevice, Binding
<1>2. CASE Refuse(p)
  BY <1>2, RefuseKeeps
<1>3. CASE \E m \in {"find_bind", "check_device", "claim_device"} :
             Goto(p, m) /\ UNCHANGED <<device, bind, policy, tx, granted>>
  <2>1. PICK m \in {"find_bind", "check_device", "claim_device"} :
          Goto(p, m) /\ UNCHANGED <<device, bind, policy, tx, granted>>
    BY <1>3
  <2>2. ProcOK(m, loc[p], tx[p], device, bind, policy)
    BY <1>1, ReadsOn, OfProc
  <2> QED BY <2>1, <2>2, GotoKeeps DEF Labels
<1>4. CASE \E k \in Keys : bind[k] = loc[p].body /\ Grant(p, Record(loc[p].body))
  BY <1>1, <1>4, GrantRecorded, ZenonT(60)
<1>5. loc[p].key \in Keys
  BY <1>1, OfProcParts DEF KindOK, OfBind
<1>6. BindsSeen(p) \subseteq {bind[k] : k \in Keys}
  BY <1>1, SeesCommitted DEF BindsSeen, BindMatches
<1> QED
  <2>1. CASE FindKey(p)
    BY <1>2, <1>3, <1>4, <1>5, <2>1, SMTT(30) DEF FindKey
  <2>2. CASE FindBind(p)
    BY <1>2, <1>3, <1>4, <1>6, <2>2, ZenonT(60) DEF FindBind
  <2>3. CASE CheckDevice(p)
    BY <1>2, <1>3, <2>3 DEF CheckDevice
  <2> QED BY <2>1, <2>2, <2>3

\* The credential is written, if nothing collides with it.
LEMMA ClaimDeviceKeeps ==
  ASSUME RInv, NEW p \in Procs, ClaimDevice(p), UNCHANGED work
  PROVE  RInv'
<1> DEFINE b == loc[p].body
           t == [tx[p] EXCEPT !.device[b.device] = NewDevice(b)]
<1>1. pc[p] = "claim_device" /\ WaitsFor(p) = {} /\ Goto(p, "verify_device")
      /\ UNCHANGED <<device, bind, policy, granted>>
  BY SMTT(30) DEF ClaimDevice
<1>2. b \in BindBody /\ tx[p] \in Writes /\ "verify_device" \in Labels
  BY <1>1, OfProc, OfProcParts, ZenonT(60) DEF KindOK, OfBind, Binding, Labels
<1>3. ProcOK("verify_device", loc[p], tx[p], device, bind, policy)
  BY <1>1, ReadsOn, OfProc, ZenonT(60)
<1>4. CASE Colliding(p, b) # {}
  <2>1. tx' = tx
    BY <1>4 DEF ClaimDevice
  <2> QED BY <1>1, <1>2, <1>3, <2>1, GotoKeeps
<1>5. CASE Colliding(p, b) = {}
  <2>1. tx' = [tx EXCEPT ![p].device[b.device] = NewDevice(b)]
    BY <1>5 DEF ClaimDevice
  <2>2. tx' = [tx EXCEPT ![p] = t]
    BY <2>1, OfTables
  <2>3. b.device \in DeviceIds /\ NewDevice(b) \in RealRow /\ NewDevice(b).status = "ACTIVE"
    BY <1>2 DEF NewDevice, RealRow, BindBody
  <2>4. /\ t \in Writes /\ t.key = tx[p].key /\ t.bind = tx[p].bind /\ t.policy = tx[p].policy
        /\ \A d \in DeviceIds : t.device[d] = IF d = b.device THEN NewDevice(b)
                                              ELSE tx[p].device[d]
    BY <1>2, <2>3, RowTypes DEF Writes
  <2>5. ~Written(device[b.device])
    BY <1>1, <1>5, <2>3, SeesCommitted DEF Colliding, Collides
  <2>6. \A q \in Procs \ {p} : ~Written(tx[q].device[b.device])
    <3>1. InsertDeviceWaitsFor(p) \ {p} = {}
      BY <1>1 DEF WaitsFor
    <3> QED BY <2>3, <3>1 DEF InsertDeviceWaitsFor, Collides
  <2>7. /\ tx[p].bind = NoBind /\ tx[p].policy = NoPolicy
        /\ \A d \in DeviceIds : ~Written(tx[p].device[d])
    BY <1>1, SeesCommitted, ZenonT(60)
  <2> HIDE DEF t
  <2>8. \A q \in Procs \ {p} : Apart(t, tx[q])
    BY <2>4, <2>6, <2>7, ZenonT(60) DEF Apart
  <2>9. WritesOK("verify_device", loc[p], t)
    BY <2>4, <2>7, ZenonT(60) DEF WritesOK
  <2>10. PendingRowsOK(t, device, bind)
    BY <2>3, <2>4, <2>5, <2>7 DEF PendingRowsOK
  <2>11. PendingRecordsOK(t, bind, policy)
    BY <2>4, <2>7 DEF PendingRecordsOK
  <2>12. BoundOK("verify_device", loc[p], t, device, bind)
    BY DEF BoundOK
  <2>13. AppliedOK("verify_device", loc[p], t, device, bind, policy)
    BY ZenonT(60) DEF AppliedOK, OfPolicy, OfCase, Deciding
  <2>14. ProcOK("verify_device", loc[p], t, device, bind, policy)
    BY <1>3, <2>9, <2>10, <2>11, <2>12, <2>13, ZenonT(60) DEF ProcOK
  <2>15. loc' = [loc EXCEPT ![p] = loc[p]] /\ loc[p] \in Locals
    BY <1>1, OfTables DEF Goto
  <2> QED BY <1>1, <1>2, <2>2, <2>4, <2>8, <2>14, <2>15, OfTables, Works, ZenonT(60) DEF Goto
<1> QED BY <1>4, <1>5

\* What a process sees is what the invariant calls its view.
LEMMA SeenIsView ==
  ASSUME NEW p \in Procs
  PROVE  Seen(p) = View(tx[p], device)
BY DEF Seen, View

LEMMA VerifyDeviceKeeps ==
  ASSUME RInv, NEW p \in Procs, VerifyDevice(p), UNCHANGED work
  PROVE  RInv'
<1>1. pc[p] = "verify_device"
  BY DEF VerifyDevice
<1>2. CASE Refuse(p)
  BY <1>2, RefuseKeeps, ZenonT(60)
<1>3. CASE ~Refuse(p)
  <2> DEFINE b == loc[p].body
  <2>1. PICK d \in Colliding(p, b) :
          ExactCredential(d, Seen(p)[d], b) /\ Goto(p, "record_bind")
            /\ UNCHANGED <<device, bind, policy, tx, granted>>
    BY <1>3, ZenonT(60) DEF VerifyDevice
  <2>2. d = b.device /\ Written(Seen(p)[d]) /\ SameCredential(Seen(p)[d], b)
    BY <2>1, SMTT(30) DEF ExactCredential, Colliding, Collides, SameCredential
  <2>3. KindOK("record_bind", loc[p])
    BY <1>1, OfProcParts, ZenonT(60) DEF KindOK, OfBind, OfPolicy, OfCase, Enrolling, Binding, Deciding
  <2>4. WritesOK("record_bind", loc[p], tx[p])
    BY <1>1, OfProcParts, ZenonT(60) DEF WritesOK
  <2>5. BoundOK("record_bind", loc[p], tx[p], device, bind)
    BY <2>2, SeenIsView, ZenonT(60) DEF BoundOK
  <2>6. AppliedOK("record_bind", loc[p], tx[p], device, bind, policy)
    BY SMTT(30) DEF AppliedOK, OfPolicy, OfCase, Deciding
  <2>7. ProcOK("record_bind", loc[p], tx[p], device, bind, policy)
    BY <2>3, <2>4, <2>5, <2>6, OfProc, ZenonT(60) DEF ProcOK
  <2> QED BY <2>1, <2>7, GotoKeeps, ZenonT(60) DEF Labels
<1> QED BY <1>2, <1>3

\* The bind is recorded, if neither its key nor its operation is.
LEMMA RecordBindKeeps ==
  ASSUME RInv, NEW p \in Procs, RecordBind(p), UNCHANGED work
  PROVE  RInv'
<1> DEFINE b == loc[p].body
           t == [tx[p] EXCEPT !.key = loc[p].key, !.bind = b]
<1>1. pc[p] = "record_bind" /\ WaitsFor(p) = {} /\ Goto(p, "reload_bind")
      /\ UNCHANGED <<device, bind, policy, granted>>
  BY SMTT(30) DEF RecordBind
<1>2. /\ loc[p].kind = "bind" /\ loc[p].key \in Keys /\ b \in BindBody
      /\ tx[p] \in Writes /\ loc[p] \in Locals
  BY <1>1, OfProc, OfProcParts, ZenonT(60) DEF KindOK, OfBind, Binding
<1>3. KindOK("reload_bind", loc[p])
  BY <1>2, SMTT(30) DEF KindOK, OfBind, OfPolicy, OfCase, Enrolling, Binding, Deciding
<1>4. tx[p].bind = NoBind /\ tx[p].policy = NoPolicy
  BY <1>1, OfProcParts, ZenonT(60) DEF WritesOK
<1>5. /\ BoundOK("record_bind", loc[p], tx[p], device, bind)
      /\ PendingRowsOK(tx[p], device, bind)
      /\ PendingRecordsOK(tx[p], bind, policy)
  BY <1>1, OfProc, ZenonT(60) DEF ProcOK
<1>6. CASE BindsSeen(p) # {}
  <2>1. tx' = tx
    BY <1>6 DEF RecordBind
  <2>2. WritesOK("reload_bind", loc[p], tx[p])
    BY <1>4, ZenonT(60) DEF WritesOK
  <2>3. BoundOK("reload_bind", loc[p], tx[p], device, bind)
    BY <1>5, ZenonT(60) DEF BoundOK
  <2>4. AppliedOK("reload_bind", loc[p], tx[p], device, bind, policy)
    BY ZenonT(60) DEF AppliedOK, OfPolicy, OfCase, Deciding
  <2>5. ProcOK("reload_bind", loc[p], tx[p], device, bind, policy)
    BY <1>3, <1>5, <2>2, <2>3, <2>4 DEF ProcOK
  <2> QED BY <1>1, <2>1, <2>5, GotoKeeps DEF Labels
<1>7. CASE BindsSeen(p) = {}
  <2>1. tx' = [tx EXCEPT ![p].key = loc[p].key, ![p].bind = b]
    BY <1>7 DEF RecordBind
  <2>2. tx' = [tx EXCEPT ![p] = t]
    BY <2>1, OfTables, Zenon
  <2>3. /\ t \in Writes /\ t.key = loc[p].key /\ t.bind = b /\ t.policy = NoPolicy
        /\ t.device = tx[p].device
    BY <1>2, <1>4, Zenon DEF Writes
  <2> HIDE DEF t
  <2>4. bind[t.key] = NoBind /\ \A k \in Keys : bind[k] # NoBind => bind[k].op # b.op
    BY <1>2, <1>7, <2>3, ZenonT(60) DEF BindsSeen, BindMatches
  <2>5. \A q \in Procs \ {p} : tx[q].bind # NoBind =>
          tx[q].key # t.key /\ tx[q].bind.op # b.op
    <3>1. InsertBindWaitsFor(p) \ {p} = {}
      BY <1>1, ZenonT(60) DEF WaitsFor
    <3> QED BY <2>3, <3>1 DEF InsertBindWaitsFor, BindMatches
  <2>6. \A q \in Procs \ {p} : Apart(t, tx[q])
    <3> TAKE q \in Procs \ {p}
    <3>1. Apart(tx[p], tx[q])
      BY DEF RInv
    <3> QED BY <2>3, <2>5, <3>1 DEF Apart
  <2>7. View(t, device) = View(tx[p], device)
    BY <2>3, ZenonT(60) DEF View
  <2>8. WritesOK("reload_bind", loc[p], t)
    BY <2>3, ZenonT(60) DEF WritesOK
  <2>9. PendingRowsOK(t, device, bind)
    BY <1>5, <2>3, ZenonT(60) DEF PendingRowsOK
  <2>10. PendingRecordsOK(t, bind, policy)
    BY <2>3, <2>4, ZenonT(60) DEF PendingRecordsOK
  <2>11. BoundOK("reload_bind", loc[p], t, device, bind)
    BY <1>5, <2>7, ZenonT(60) DEF BoundOK
  <2>12. AppliedOK("reload_bind", loc[p], t, device, bind, policy)
    BY DEF AppliedOK, OfPolicy, OfCase, Deciding
  <2>13. ProcOK("reload_bind", loc[p], t, device, bind, policy)
    BY <1>3, <2>8, <2>9, <2>10, <2>11, <2>12, ZenonT(60) DEF ProcOK
  <2>14. loc' = [loc EXCEPT ![p] = loc[p]] /\ "reload_bind" \in Labels
    BY <1>1, OfTables, ZenonT(60) DEF Goto, Labels
  <2> QED BY <1>1, <1>2, <2>2, <2>3, <2>6, <2>13, <2>14, OfTables, Works, Zenon DEF Goto
<1> QED BY <1>6, <1>7

LEMMA ReloadBindKeeps ==
  ASSUME RInv, NEW p \in Procs, ReloadBind(p), UNCHANGED work
  PROVE  RInv'
<1>1. pc[p] = "reload_bind"
  BY ZenonT(60) DEF ReloadBind
<1>2. CASE Refuse(p)
  BY <1>2, RefuseKeeps
<1>3. CASE ~Refuse(p)
  <2> DEFINE b == loc[p].body
  <2>1. b \in BindsSeen(p) /\ Goto(p, "commit")
          /\ UNCHANGED <<device, bind, policy, tx, granted>>
    BY <1>3, ZenonT(60) DEF ReloadBind
  <2>2. ProcOK("reload_bind", loc[p], tx[p], device, bind, policy)
    BY <1>1, OfProc, SMTT(30)
  <2>3. loc[p].kind = "bind" /\ loc[p].key \in Keys /\ b \in BindBody
    BY <2>2, ZenonT(60) DEF ProcOK, KindOK, OfBind, Binding
  <2>4. KindOK("commit", loc[p])
    BY <2>3, SMTT(30) DEF KindOK, OfBind, OfPolicy, OfCase, Enrolling, Binding, Deciding
  <2>5. WritesOK("commit", loc[p], tx[p])
    BY <2>2, <2>3, ZenonT(60) DEF ProcOK, WritesOK
  <2>6. tx[p].bind # NoBind \/ \E k \in Keys : bind[k] = b
    BY <2>1, <2>3, RecordTypes, SMTT(30) DEF BindsSeen, BindMatches
  <2>7. BoundOK("commit", loc[p], tx[p], device, bind)
    BY <2>2, <2>6, ZenonT(60) DEF ProcOK, BoundOK
  <2>8. AppliedOK("commit", loc[p], tx[p], device, bind, policy)
    BY <2>3, Zenon DEF AppliedOK, OfPolicy, OfCase, Deciding
  <2>9. ProcOK("commit", loc[p], tx[p], device, bind, policy)
    BY <2>2, <2>4, <2>5, <2>7, <2>8, Zenon DEF ProcOK
  <2> QED BY <2>1, <2>9, GotoKeeps, ZenonT(60) DEF Labels
<1> QED BY <1>2, <1>3

-----------------------------------------------------------------------------
(* What a policy reads and decides before it writes.                       *)

\* What is known of a policy's request.
LEMMA PolicyRequest ==
  ASSUME RInv, NEW p \in Procs, OfPolicy(pc[p], loc[p])
  PROVE  /\ loc[p].kind = "policy" /\ loc[p].key \in Keys /\ loc[p].body \in PolicyBody
         /\ loc[p].body.case \in Cases /\ loc[p].body \in Body
         /\ tx[p].bind = NoBind
         /\ OfCase(pc[p], loc[p]) =>
              loc[p].row \in BindBody /\ \E k \in Keys : bind[k] = loc[p].row
<1>1. ProcOK(pc[p], loc[p], tx[p], device, bind, policy)
  BY OfProc, ZenonT(60)
<1>2. loc[p].kind = "policy" /\ loc[p].key \in Keys /\ loc[p].body \in PolicyBody
  BY <1>1 DEF ProcOK, KindOK
<1>3. loc[p].body.case \in Cases /\ loc[p].body \in Body
  BY <1>2 DEF PolicyBody, Body
<1>4. pc[p] # "reload_bind"
  BY SMTT(30) DEF OfPolicy, OfCase, Deciding
<1>5. tx[p].bind = NoBind
  BY <1>1, <1>2, <1>4, ZenonT(60) DEF ProcOK, WritesOK
<1> QED BY <1>1, <1>2, <1>3, <1>5, ZenonT(60) DEF ProcOK, AppliedOK

\* A request for a policy stays one.
LEMMA PolicyKind ==
  ASSUME NEW v, v.kind = "policy", v.key \in Keys, v.body \in PolicyBody,
         NEW m \in Deciding \cup {"commit"}
  PROVE  KindOK(m, v)
BY DEF KindOK, OfBind, OfPolicy, OfCase, Enrolling, Binding, Deciding

\* The bind of the case is found.
LEMMA FindCaseKeeps ==
  ASSUME RInv, NEW p \in Procs, FindCase(p), UNCHANGED work
  PROVE  RInv'
<1>1. pc[p] = "find_case"
  BY SMTT(30) DEF FindCase
<1>2. CASE Refuse(p)
  BY <1>2, RefuseKeeps
<1>3. CASE ~Refuse(p)
  <2>1. PICK k \in Keys :
          /\ bind[k].case = loc[p].body.case
          /\ pc' = [pc EXCEPT ![p] = "find_policy"]
          /\ loc' = [loc EXCEPT ![p].row = bind[k]]
          /\ UNCHANGED <<device, bind, policy, tx, granted>>
    BY <1>3, ZenonT(60) DEF FindCase
  <2> DEFINE v == [loc[p] EXCEPT !.row = bind[k]]
  <2>2. /\ loc[p].kind = "policy" /\ loc[p].key \in Keys /\ loc[p].body \in PolicyBody
        /\ loc[p].body.case \in Cases
    BY <1>1, PolicyRequest DEF OfPolicy
  <2>3. bind[k] \in BindBody
    <3>1. NoBind.case = None /\ None \notin Cases
      BY RegistryAssumption DEF NoBind
    <3> QED BY <2>1, <2>2, <3>1, OfTables, ZenonT(60)
  <2>4. /\ v \in Locals /\ v.kind = "policy" /\ v.key = loc[p].key /\ v.body = loc[p].body
        /\ v.row = bind[k] /\ v.affected = loc[p].affected
    BY <2>2, <2>3, OfProc DEF Locals
  <2>5. loc' = [loc EXCEPT ![p] = v]
    BY <2>1, OfTables, ZenonT(60)
  <2> HIDE DEF v
  <2>6. ProcOK("find_case", loc[p], tx[p], device, bind, policy)
    BY <1>1, OfProc, ZenonT(60)
  <2>7. KindOK("find_policy", v)
    BY <2>2, <2>4, PolicyKind, SMTT(30) DEF Deciding
  <2>8. WritesOK("find_policy", v, tx[p])
    BY <2>6, ZenonT(60) DEF ProcOK, WritesOK
  <2>9. BoundOK("find_policy", v, tx[p], device, bind)
    BY SMTT(30) DEF BoundOK
  <2>10. AppliedOK("find_policy", v, tx[p], device, bind, policy)
    BY <2>3, <2>4, <2>6, ZenonT(60) DEF ProcOK, AppliedOK, OfPolicy, OfCase, Deciding
  <2>11. ProcOK("find_policy", v, tx[p], device, bind, policy)
    BY <2>6, <2>7, <2>8, <2>9, <2>10, ZenonT(60) DEF ProcOK
  <2> QED BY <2>1, <2>4, <2>5, <2>11, GoesTo, Zenon DEF Labels
<1> QED BY <1>2, <1>3

\* An answer for a policy that is recorded.
LEMMA GrantApplied ==
  ASSUME RInv, NEW p \in Procs, OfPolicy(pc[p], loc[p]), Grant(p, <<>>),
         NEW row, row \in {policy[k] : k \in Keys}, row # NoPolicy, row.body = loc[p].body,
         UNCHANGED work
  PROVE  RInv'
<1>1. loc[p].kind = "policy" /\ loc[p].key \in Keys /\ loc[p].body \in Body
  BY PolicyRequest, SMTT(30)
<1>2. AnswerOK(Answer(p, <<>>), device, bind, policy)
  BY <1>1, Zenon DEF AnswerOK, Answer
<1> QED BY <1>1, <1>2, GrantKeeps, ZenonT(60)

LEMMA FindPolicyKeeps ==
  ASSUME RInv, NEW p \in Procs, FindPolicy(p) \/ FindCasePolicy(p), UNCHANGED work
  PROVE  RInv'
<1>1. pc[p] \in {"find_policy", "find_case_policy"} /\ OfPolicy(pc[p], loc[p])
  BY ZenonT(60) DEF FindPolicy, FindCasePolicy, OfPolicy, OfCase, Deciding
<1>2. loc[p].kind = "policy" /\ loc[p].key \in Keys /\ loc[p].body \in PolicyBody
  BY <1>1, PolicyRequest, ZenonT(60)
<1>3. CASE Refuse(p)
  BY <1>3, RefuseKeeps
<1>4. CASE \E m \in {"find_case_policy", "list_devices"} :
             Goto(p, m) /\ UNCHANGED <<device, bind, policy, tx, granted>>
  <2>1. PICK m \in {"find_case_policy", "list_devices"} :
          Goto(p, m) /\ UNCHANGED <<device, bind, policy, tx, granted>>
    BY <1>4, ZenonT(60)
  <2>2. ProcOK(pc[p], loc[p], tx[p], device, bind, policy)
    BY OfProc, ZenonT(60)
  <2>3. KindOK(m, loc[p])
    BY <1>2, PolicyKind, SMTT(30) DEF Deciding
  <2>4. WritesOK(m, loc[p], tx[p])
    BY <1>1, <2>2, Zenon DEF ProcOK, WritesOK
  <2>5. BoundOK(m, loc[p], tx[p], device, bind)
    <3>1. m \notin {"record_bind", "reload_bind", "commit"}
      BY Zenon
    <3> QED BY <3>1, Zenon DEF BoundOK
  <2>6. AppliedOK(m, loc[p], tx[p], device, bind, policy)
    BY <1>1, <2>2, ZenonT(60) DEF ProcOK, AppliedOK, OfPolicy, OfCase, Deciding
  <2>7. ProcOK(m, loc[p], tx[p], device, bind, policy)
    BY <2>2, <2>3, <2>4, <2>5, <2>6, ZenonT(60) DEF ProcOK
  <2> QED BY <2>1, <2>7, GotoKeeps, Zenon DEF Labels
<1>5. CASE \E row \in {policy[k] : k \in Keys} :
             row # NoPolicy /\ row.body = loc[p].body /\ Grant(p, <<>>)
  BY <1>1, <1>5, GrantApplied, ZenonT(60)
<1>6. CASE FindPolicy(p)
  BY <1>2, <1>3, <1>4, <1>5, <1>6, ZenonT(60) DEF FindPolicy, SamePolicy
<1>7. CASE FindCasePolicy(p)
  <2>1. tx[p].policy = NoPolicy
    BY <1>7, OfProcParts, Zenon DEF FindCasePolicy, WritesOK
  <2>2. \A row \in PoliciesSeen(p) : row # NoPolicy /\ row \in {policy[k] : k \in Keys}
    BY <2>1 DEF PoliciesSeen
  <2> QED BY <1>3, <1>4, <1>5, <1>7, <2>2, SMTT(30) DEF FindCasePolicy, SamePolicy
<1> QED BY <1>6, <1>7

LEMMA ListIsSeq ==
  ASSUME NEW T, NEW n \in Nat, NEW f \in [1 .. n -> T]
  PROVE  f \in Seq(T)
BY SMTT(30)

\* The devices of the user are listed, in any order.
LEMMA ListDevicesKeeps ==
  ASSUME RInv, Countable, NEW p \in Procs, ListDevices(p), UNCHANGED work
  PROVE  RInv'
<1> DEFINE S == OldDevices(loc[p].row)
<1>1. pc[p] = "list_devices" /\ pc' = [pc EXCEPT ![p] = "apply"]
      /\ UNCHANGED <<device, bind, policy, tx, granted>>
  BY DEF ListDevices
<1>2. PICK order \in Orders(S) :
        loc' = [loc EXCEPT ![p].listed = device, ![p].todo = order]
  BY Zenon DEF ListDevices
<1>3. S \subseteq DeviceIds
  BY DEF OldDevices
<1>4. Cardinality(S) \in Nat
  BY <1>3 DEF Countable
<1>5. order \in [1 .. Cardinality(S) -> S]
  BY DEF Orders, Injection
<1>6. order \in Seq(DeviceIds) /\ \A i \in DOMAIN order : order[i] \in S
  <2>1. order \in [1 .. Cardinality(S) -> DeviceIds]
    BY <1>3, <1>5
  <2> HIDE DEF S
  <2> QED BY <1>4, <1>5, <2>1, ListIsSeq, ZenonT(60)
<1> DEFINE v == [loc[p] EXCEPT !.listed = device, !.todo = order]
<1>7. /\ v \in Locals /\ v.kind = loc[p].kind /\ v.key = loc[p].key
      /\ v.body = loc[p].body /\ v.row = loc[p].row /\ v.affected = loc[p].affected
      /\ v.listed = device /\ v.todo = order
  BY <1>6, OfProc, OfTables, Zenon DEF Locals
<1>8. loc' = [loc EXCEPT ![p] = v]
  BY <1>2, OfTables, Zenon
<1> HIDE DEF v
<1>9. ProcOK("list_devices", loc[p], tx[p], device, bind, policy)
  BY <1>1, OfProc, ZenonT(60)
<1>10. OfPolicy(pc[p], loc[p])
  BY <1>1, ZenonT(60) DEF OfPolicy, OfCase, Deciding
<1>11. KindOK("apply", v)
  BY <1>7, <1>10, PolicyRequest, PolicyKind, ZenonT(60) DEF Deciding
<1>12. WritesOK("apply", v, tx[p])
  BY <1>9, SMTT(30) DEF ProcOK, WritesOK
<1>13. BoundOK("apply", v, tx[p], device, bind)
  BY ZenonT(60) DEF BoundOK
<1>14. \A i \in DOMAIN v.todo :
         /\ Written(device[v.todo[i]]) /\ device[v.todo[i]].user = v.row.user
         /\ v.todo[i] # v.row.device
         /\ v.listed[v.todo[i]].status # "ACTIVE" => device[v.todo[i]].status # "ACTIVE"
  BY <1>6, <1>7, SMTT(30) DEF OldDevices
<1>15. AppliedOK("apply", v, tx[p], device, bind, policy)
  BY <1>7, <1>9, <1>14, ZenonT(60) DEF ProcOK, AppliedOK, OfPolicy, OfCase, Deciding
<1>16. ProcOK("apply", v, tx[p], device, bind, policy)
  BY <1>9, <1>11, <1>12, <1>13, <1>15, Zenon DEF ProcOK
<1> QED BY <1>1, <1>7, <1>8, <1>16, GoesTo, Zenon DEF Labels

-----------------------------------------------------------------------------
(* What the invariant says.                                                *)

\* What the invariant says of the records, the answers and the policies.
LEMMA RecordsOK ==
  ASSUME RInv PROVE RecordsNameOwnDevices
<1>1. BindsNameDevices
  BY Zenon DEF RInv, BindsOK, SameCredential, BindsNameDevices
<1>2. AnswersNameOwnDevices
  BY DEF RInv, AnswerOK, AnswersNameOwnDevices
<1> QED BY <1>1, <1>2 DEF RecordsNameOwnDevices

LEMMA UsedOnceOK ==
  ASSUME RInv PROVE UsedOnce
<1> SUFFICES ASSUME NEW g \in granted, NEW h \in granted, g.kind = h.kind,
                    \/ g.kind = "bind" /\ g.body.op = h.body.op
                    \/ /\ g.kind = "policy" /\ g.body.case = h.body.case
                       /\ ~KeyTaken(g.key, g.body) /\ ~KeyTaken(h.key, h.body)
             PROVE  g.body = h.body
  BY ZenonT(60) DEF UsedOnce
<1>1. /\ AnswerOK(g, device, bind, policy) /\ AnswerOK(h, device, bind, policy)
      /\ BindsOK(bind, device) /\ PoliciesOK(policy, device, bind)
  BY ZenonT(60) DEF RInv
<1>2. CASE g.kind = "bind" /\ g.body.op = h.body.op
  <2>1. PICK j \in Keys : bind[j] = g.body /\ g.body \in BindBody
    BY <1>1, <1>2, ZenonT(60) DEF AnswerOK
  <2>2. PICK k \in Keys : bind[k] = h.body /\ h.body \in BindBody
    BY <1>1, <1>2, ZenonT(60) DEF AnswerOK
  <2>3. bind[j] # NoBind /\ bind[k] # NoBind
    BY <2>1, <2>2, RecordTypes, ZenonT(60)
  <2> QED BY <1>1, <1>2, <2>1, <2>2, <2>3, ZenonT(60) DEF BindsOK
<1>3. CASE /\ g.kind = "policy" /\ g.body.case = h.body.case
           /\ ~KeyTaken(g.key, g.body) /\ ~KeyTaken(h.key, h.body)
  <2>1. PICK j \in Keys : policy[j] # NoPolicy /\ policy[j].body = g.body
    BY <1>1, <1>3, ZenonT(60) DEF AnswerOK, Taken, KeyTaken
  <2>2. PICK k \in Keys : policy[k] # NoPolicy /\ policy[k].body = h.body
    BY <1>1, <1>3 DEF AnswerOK, Taken, KeyTaken
  <2> QED BY <1>1, <1>3, <2>1, <2>2, ZenonT(60) DEF PoliciesOK
<1> QED BY <1>2, <1>3, ZenonT(60)

LEMMA PolicyEffectOK ==
  ASSUME RInv PROVE PolicyTookEffect
BY Zenon DEF RInv, PoliciesOK, PolicyTookEffect

=============================================================================
