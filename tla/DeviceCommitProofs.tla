------------------------- MODULE DeviceCommitProofs -------------------------
(***************************************************************************)
(* The updates of an old-device policy and an enrollment's INSERT keep the *)
(* registry's invariant, and so does each part of a commit.                *)
(***************************************************************************)
EXTENDS DeviceRegistryProofs

-----------------------------------------------------------------------------
(* The updates and the record of an old-device policy, still uncommitted.  *)

\* The row that an UPDATE of a policy leaves.
LEMMA UpdatedRow ==
  ASSUME RInv, NEW p \in Procs, OfCase(pc[p], loc[p]), NEW d \in DeviceIds,
         Written(device[d]), device[d].user = loc[p].row.user, d # loc[p].row.device
  PROVE  LET r == [Seen(p)[d] EXCEPT !.status = NewStatus(loc[p])]
         IN  /\ r \in RealRow /\ SameCredential(r, device[d]) /\ r.status # "ACTIVE"
             /\ Other(r.user, d, bind)
<1>1. NewStatus(loc[p]) \in {"REVOKED", "QUARANTINED"}
  BY DEF NewStatus
<1>2. device[d] \in RealRow
  BY RowOfDevice, Zenon
<1>3. Seen(p)[d] \in RealRow /\ SameCredential(Seen(p)[d], device[d])
  <2>1. PendingRowsOK(tx[p], device, bind)
    BY OfProc DEF ProcOK
  <2>2. CASE Written(tx[p].device[d])
    BY <2>1, <2>2 DEF PendingRowsOK, Seen
  <2>3. CASE ~Written(tx[p].device[d])
    BY <1>2, <2>3 DEF Seen, SameCredential
  <2> QED BY <2>2, <2>3
<1> DEFINE r == [Seen(p)[d] EXCEPT !.status = NewStatus(loc[p])]
<1>4. r \in RealRow /\ SameCredential(r, device[d]) /\ r.status # "ACTIVE"
  BY <1>1, <1>3 DEF RealRow, SameCredential
<1> HIDE DEF r
<1>5. PICK k \in Keys : bind[k] = loc[p].row /\ loc[p].row \in BindBody
  BY PolicyRequest DEF OfPolicy
<1>6. Other(r.user, d, bind)
  BY <1>4, <1>5, RecordTypes DEF Other, SameCredential
<1> QED BY <1>4, <1>6 DEF r

\* One turn of the loop.
LEMMA ApplyKeeps ==
  ASSUME RInv, NEW p \in Procs, Apply(p), UNCHANGED work
  PROVE  RInv'
<1> DEFINE todo == loc[p].todo
           d == Head(todo)
           r == [Seen(p)[d] EXCEPT !.status = NewStatus(loc[p])]
           v == [loc[p] EXCEPT !.todo = Tail(@), !.affected = @ \cup {d}]
<1>1. /\ pc[p] = "apply" /\ todo # <<>> /\ WaitsFor(p) = {}
      /\ UNCHANGED <<device, bind, policy, pc, granted>>
      /\ tx' = IF MustUpdate(loc[p]) THEN [tx EXCEPT ![p].device[d] = r] ELSE tx
      /\ loc' = [loc EXCEPT ![p].todo = Tail(@), ![p].affected = @ \cup {d}]
  BY DEF Apply
<1>2. todo \in Seq(DeviceIds) /\ loc[p] \in Locals /\ tx[p] \in Writes
  BY OfProc DEF Locals
<1>3. /\ 1 \in DOMAIN todo /\ d = todo[1] /\ d \in DeviceIds
      /\ Tail(todo) \in Seq(DeviceIds)
      /\ \A i \in DOMAIN Tail(todo) : i + 1 \in DOMAIN todo /\ Tail(todo)[i] = todo[i + 1]
  BY <1>1, <1>2
<1>4. /\ v \in Locals /\ v.kind = loc[p].kind /\ v.key = loc[p].key
      /\ v.body = loc[p].body /\ v.row = loc[p].row /\ v.listed = loc[p].listed
      /\ v.todo = Tail(todo) /\ v.affected = loc[p].affected \cup {d}
  <2> HIDE DEF d
  <2> QED BY <1>2, <1>3, Zenon DEF Locals
<1>5. loc' = [loc EXCEPT ![p] = v] /\ pc' = [pc EXCEPT ![p] = "apply"]
  BY <1>1, OfTables, ZenonT(60)
<1>6. OfCase(pc[p], loc[p]) /\ OfPolicy(pc[p], loc[p])
  BY <1>1 DEF OfCase, OfPolicy, Deciding
<1>7. ProcOK("apply", loc[p], tx[p], device, bind, policy)
  BY <1>1, OfProc, ZenonT(60)
<1>8. /\ Written(device[d]) /\ device[d].user = loc[p].row.user /\ d # loc[p].row.device
      /\ loc[p].listed[d].status # "ACTIVE" => device[d].status # "ACTIVE"
  BY <1>3, <1>7 DEF ProcOK, AppliedOK
<1> HIDE DEF v, d
<1>9. PICK t \in Writes :
        /\ tx' = [tx EXCEPT ![p] = t]
        /\ t.key = tx[p].key /\ t.bind = tx[p].bind /\ t.policy = tx[p].policy
        /\ \A e \in DeviceIds \ {d} : t.device[e] = tx[p].device[e]
        /\ \/ t.device[d] = tx[p].device[d] /\ ~MustUpdate(loc[p])
           \/ t.device[d] = r /\ MustUpdate(loc[p])
  <2>1. CASE ~MustUpdate(loc[p])
    BY <1>1, <1>2, <2>1, OfTables
  <2>2. CASE MustUpdate(loc[p])
    <3> DEFINE t == [tx[p] EXCEPT !.device[d] = r]
    <3>1. r \in DeviceRow
      BY <1>3, <1>6, <1>8, UpdatedRow, RowTypes, ZenonT(60)
    <3> HIDE DEF r
    <3>2. /\ t \in Writes /\ t.device[d] = r
          /\ t.key = tx[p].key /\ t.bind = tx[p].bind /\ t.policy = tx[p].policy
          /\ \A e \in DeviceIds \ {d} : t.device[e] = tx[p].device[e]
      BY <1>2, <1>3, <3>1 DEF Writes
    <3>3. tx' = [tx EXCEPT ![p] = t]
      BY <1>1, <2>2, OfTables, ZenonT(60)
    <3> QED BY <2>2, <3>2, <3>3, Zenon
  <2> QED BY <2>1, <2>2
<1>10. /\ r \in RealRow /\ SameCredential(r, device[d]) /\ r.status # "ACTIVE"
       /\ Other(r.user, d, bind)
  BY <1>3, <1>6, <1>8, UpdatedRow, ZenonT(60)
<1> HIDE DEF r
<1>11. \A q \in Procs \ {p} : Apart(t, tx[q])
  <2> TAKE q \in Procs \ {p}
  <2>1. Apart(tx[p], tx[q])
    BY ZenonT(60) DEF RInv
  <2>2. MustUpdate(loc[p]) => ~Written(tx[q].device[d])
    BY <1>1 DEF WaitsFor, UpdateWaitsFor, d
  <2> QED BY <1>9, <2>1, <2>2 DEF Apart
<1>12. KindOK("apply", v)
  BY <1>4, <1>6, PolicyRequest, PolicyKind, ZenonT(60) DEF Deciding
<1>13. WritesOK("apply", v, t)
  BY <1>7, <1>9, ZenonT(60) DEF ProcOK, WritesOK
<1>14. PendingRowsOK(t, device, bind)
  BY <1>7, <1>9, <1>10, ZenonT(60) DEF ProcOK, PendingRowsOK
<1>15. PendingRecordsOK(t, bind, policy)
  BY <1>7, <1>9 DEF ProcOK, PendingRecordsOK
<1>16. BoundOK("apply", v, t, device, bind)
  BY SMTT(30) DEF BoundOK
<1>17. ~MustUpdate(loc[p]) => device[d].status # "ACTIVE"
  <2>1. NewStatus(loc[p]) # "ACTIVE"
    BY DEF NewStatus
  <2> QED BY <1>1, <1>8, <2>1, Zenon DEF MustUpdate, d
<1>18. \A e \in v.affected :
         Written(device[e]) /\ (Written(t.device[e]) \/ device[e].status # "ACTIVE")
  <2> TAKE e \in v.affected
  <2>1. CASE e = d
    BY <1>8, <1>9, <1>10, <1>17, <2>1, RowTypes, ZenonT(60)
  <2>2. CASE e # d
    <3>1. e \in loc[p].affected /\ e \in DeviceIds
      BY <1>2, <1>4, <2>2, ZenonT(60) DEF Locals
    <3>2. Written(device[e]) /\ (Written(tx[p].device[e]) \/ device[e].status # "ACTIVE")
      BY <1>1, <1>6, <1>7, <3>1, ZenonT(60) DEF ProcOK, AppliedOK
    <3> QED BY <1>9, <2>2, <3>1, <3>2, ZenonT(60)
  <2> QED BY <2>1, <2>2
<1>19. \A i \in DOMAIN v.todo :
         /\ Written(device[v.todo[i]]) /\ device[v.todo[i]].user = v.row.user
         /\ v.todo[i] # v.row.device
         /\ v.listed[v.todo[i]].status # "ACTIVE" => device[v.todo[i]].status # "ACTIVE"
  <2> TAKE i \in DOMAIN v.todo
  <2>1. i + 1 \in DOMAIN todo /\ v.todo[i] = todo[i + 1]
    BY <1>3, <1>4, SMTT(30)
  <2> DEFINE e == todo[i + 1]
  <2>2. /\ Written(device[e]) /\ device[e].user = loc[p].row.user /\ e # loc[p].row.device
        /\ loc[p].listed[e].status # "ACTIVE" => device[e].status # "ACTIVE"
    BY <1>7, <2>1, Zenon DEF ProcOK, AppliedOK
  <2> QED BY <1>4, <2>1, <2>2, ZenonT(60)
<1>20. v.row \in BindBody /\ \E k \in Keys : bind[k] = v.row
  BY <1>4, <1>6, PolicyRequest, ZenonT(60)
<1>21. AppliedOK("apply", v, t, device, bind, policy)
  BY <1>18, <1>19, <1>20 DEF AppliedOK
<1>22. ProcOK("apply", v, t, device, bind, policy)
  BY <1>12, <1>13, <1>14, <1>15, <1>16, <1>21 DEF ProcOK
<1>23. "apply" \in Labels /\ granted' \subseteq AnswerType /\ granted' \ granted = {}
  BY <1>1, OfTables DEF Labels
<1>24. /\ pc' = [pc EXCEPT ![p] = "apply"] /\ loc' = [loc EXCEPT ![p] = v]
       /\ tx' = [tx EXCEPT ![p] = t] /\ v \in Locals
       /\ UNCHANGED <<work, device, bind, policy>>
  BY <1>1, <1>4, <1>5, <1>9, ZenonT(60)
<1> QED BY <1>11, <1>22, <1>23, <1>24, Works, Zenon

\* The loop ends.
LEMMA AppliedKeeps ==
  ASSUME RInv, NEW p \in Procs, Applied(p), UNCHANGED work
  PROVE  RInv'
<1>1. pc[p] = "apply" /\ Goto(p, "record_policy")
      /\ UNCHANGED <<device, bind, policy, tx, granted>>
  BY DEF Applied
<1>2. ProcOK("apply", loc[p], tx[p], device, bind, policy)
  BY <1>1, OfProc
<1>3. KindOK("record_policy", loc[p])
  BY <1>1, PolicyRequest, PolicyKind DEF OfPolicy, OfCase, Deciding
<1>4. WritesOK("record_policy", loc[p], tx[p])
  BY <1>2 DEF ProcOK, WritesOK
<1>5. BoundOK("record_policy", loc[p], tx[p], device, bind)
  BY SMTT(30) DEF BoundOK
<1>6. AppliedOK("record_policy", loc[p], tx[p], device, bind, policy)
  BY <1>2, Zenon DEF ProcOK, AppliedOK, OfPolicy, OfCase, Deciding
<1>7. ProcOK("record_policy", loc[p], tx[p], device, bind, policy)
  BY <1>2, <1>3, <1>4, <1>5, <1>6 DEF ProcOK
<1> QED BY <1>1, <1>7, GotoKeeps DEF Labels

\* The policy is recorded, if neither its key nor its case is.
LEMMA RecordPolicyKeeps ==
  ASSUME RInv, NEW p \in Procs, RecordPolicy(p), UNCHANGED work
  PROVE  RInv'
<1> DEFINE r == PolicyRowOf(loc[p])
           t == [tx[p] EXCEPT !.key = loc[p].key, !.policy = r]
<1>1. pc[p] = "record_policy" /\ WaitsFor(p) = {} /\ Goto(p, "reload_policy")
      /\ UNCHANGED <<device, bind, policy, granted>>
  BY DEF RecordPolicy
<1>2. /\ loc[p].kind = "policy" /\ loc[p].key \in Keys /\ loc[p].body \in PolicyBody
      /\ loc[p].row \in BindBody /\ tx[p].bind = NoBind
      /\ tx[p] \in Writes /\ loc[p] \in Locals
  BY <1>1, PolicyRequest, OfProc DEF OfPolicy, OfCase, Deciding
<1>3. ProcOK("record_policy", loc[p], tx[p], device, bind, policy)
  BY <1>1, OfProc
<1>4. KindOK("reload_policy", loc[p])
  BY <1>2, PolicyKind DEF Deciding
<1>5. tx[p].policy = NoPolicy
  BY <1>3 DEF ProcOK, WritesOK
<1>6. CASE policy[loc[p].key] # NoPolicy \/ PoliciesSeen(p) # {}
  <2>1. tx' = tx
    BY <1>6 DEF RecordPolicy
  <2>2. WritesOK("reload_policy", loc[p], tx[p])
    BY <1>2, <1>5 DEF WritesOK
  <2>3. BoundOK("reload_policy", loc[p], tx[p], device, bind)
    BY DEF BoundOK
  <2>4. \/ Taken(loc[p].key, loc[p].body, policy)
        \/ \E k \in Keys : policy[k] # NoPolicy /\ policy[k].body.case = loc[p].body.case
    BY <1>2, <1>5, <1>6, ZenonT(60) DEF Taken, PoliciesSeen, PolicyOfCase
  <2>5. AppliedOK("reload_policy", loc[p], tx[p], device, bind, policy)
    BY <1>3, <2>4 DEF ProcOK, AppliedOK, OfPolicy, OfCase, Deciding
  <2>6. ProcOK("reload_policy", loc[p], tx[p], device, bind, policy)
    BY <1>3, <1>4, <2>2, <2>3, <2>5 DEF ProcOK
  <2> QED BY <1>1, <2>1, <2>6, GotoKeeps DEF Labels
<1>7. CASE policy[loc[p].key] = NoPolicy /\ PoliciesSeen(p) = {}
  <2>1. r \in PolicyRow /\ r.body = loc[p].body
    BY <1>2 DEF PolicyRowOf, PolicyRow, BindBody, Locals
  <2>2. tx' = [tx EXCEPT ![p] = t]
    BY <1>7, OfTables, Zenon DEF RecordPolicy
  <2> HIDE DEF r
  <2>3. /\ t \in Writes /\ t.key = loc[p].key /\ t.policy = r /\ t.bind = NoBind
        /\ t.device = tx[p].device
    BY <1>2, <2>1, ZenonT(60) DEF Writes
  <2> HIDE DEF t
  <2>4. policy[t.key] = NoPolicy
        /\ \A k \in Keys : policy[k] # NoPolicy => policy[k].body.case # t.policy.body.case
    BY <1>7, <2>1, <2>3 DEF PoliciesSeen, PolicyOfCase
  <2>5. \A q \in Procs \ {p} : tx[q].policy # NoPolicy =>
          tx[q].key # t.key /\ tx[q].policy.body.case # t.policy.body.case
    <3>1. InsertPolicyWaitsFor(p) \ {p} = {}
      BY <1>1, ZenonT(60) DEF WaitsFor
    <3> QED BY <2>1, <2>3, <3>1 DEF InsertPolicyWaitsFor, PolicyOfCase
  <2>6. \A q \in Procs \ {p} : Apart(t, tx[q])
    <3> TAKE q \in Procs \ {p}
    <3>1. Apart(tx[p], tx[q])
      BY DEF RInv
    <3> QED BY <2>3, <2>5, <3>1 DEF Apart
  <2>7. WritesOK("reload_policy", loc[p], t)
    BY <2>3, ZenonT(60) DEF WritesOK, r
  <2>8. PendingRowsOK(t, device, bind)
    BY <1>3, <2>3 DEF ProcOK, PendingRowsOK
  <2>9. PendingRecordsOK(t, bind, policy)
    BY <2>3, <2>4 DEF PendingRecordsOK
  <2>10. BoundOK("reload_policy", loc[p], t, device, bind)
    BY SMTT(30) DEF BoundOK
  <2>11. AppliedOK("reload_policy", loc[p], t, device, bind, policy)
    BY <1>3, <2>1, <2>3, RecordTypes, ZenonT(60) DEF ProcOK, AppliedOK, OfPolicy, OfCase, Deciding
  <2>12. ProcOK("reload_policy", loc[p], t, device, bind, policy)
    BY <1>4, <2>7, <2>8, <2>9, <2>10, <2>11, ZenonT(60) DEF ProcOK
  <2>13. /\ loc' = [loc EXCEPT ![p] = loc[p]] /\ "reload_policy" \in Labels
         /\ pc' = [pc EXCEPT ![p] = "reload_policy"]
         /\ granted' \subseteq AnswerType /\ granted' \ granted = {}
    BY <1>1, OfTables DEF Goto, Labels
  <2> QED BY <1>1, <1>2, <2>2, <2>3, <2>6, <2>12, <2>13, Works, Zenon
<1> QED BY <1>6, <1>7

\* The winner's row is read again.
LEMMA ReloadPolicyKeeps ==
  ASSUME RInv, NEW p \in Procs, ReloadPolicy(p), UNCHANGED work
  PROVE  RInv'
<1>1. pc[p] = "reload_policy"
  BY DEF ReloadPolicy
<1>2. CASE Refuse(p)
  BY <1>2, RefuseKeeps
<1>3. CASE ~Refuse(p)
  <2>1. /\ \A row \in PoliciesSeen(p) : row.body = loc[p].body
        /\ Goto(p, "commit") /\ UNCHANGED <<device, bind, policy, tx, granted>>
    BY <1>3 DEF ReloadPolicy, SamePolicy
  <2>2. ProcOK("reload_policy", loc[p], tx[p], device, bind, policy)
    BY <1>1, OfProc
  <2>3. loc[p].kind = "policy" /\ loc[p].key \in Keys /\ loc[p].body \in PolicyBody
    BY <1>1, PolicyRequest DEF OfPolicy, OfCase, Deciding
  <2>4. KindOK("commit", loc[p])
    BY <2>3, PolicyKind, ZenonT(60)
  <2>5. WritesOK("commit", loc[p], tx[p])
    BY <2>2, <2>3 DEF ProcOK, WritesOK
  <2>6. BoundOK("commit", loc[p], tx[p], device, bind)
    BY <2>3 DEF BoundOK
  <2>7. \/ tx[p].policy # NoPolicy \/ Taken(loc[p].key, loc[p].body, policy)
        \/ \E k \in Keys : policy[k] # NoPolicy /\ policy[k].body = loc[p].body
    <3>1. \/ tx[p].policy # NoPolicy \/ Taken(loc[p].key, loc[p].body, policy)
          \/ \E k \in Keys : policy[k] # NoPolicy /\ policy[k].body.case = loc[p].body.case
      BY <2>2, ZenonT(60) DEF ProcOK, AppliedOK
    <3> QED BY <2>1, <3>1, ZenonT(60) DEF PoliciesSeen, PolicyOfCase
  <2>8. AppliedOK("commit", loc[p], tx[p], device, bind, policy)
    BY <2>2, <2>3, <2>7, ZenonT(60) DEF ProcOK, AppliedOK, OfPolicy, OfCase, Deciding
  <2>9. ProcOK("commit", loc[p], tx[p], device, bind, policy)
    BY <2>2, <2>4, <2>5, <2>6, <2>8, ZenonT(60) DEF ProcOK
  <2> QED BY <2>1, <2>9, GotoKeeps DEF Labels
<1> QED BY <1>2, <1>3

-----------------------------------------------------------------------------
(* Steps that write to the tables.                                         *)

LEMMA OtherStays ==
  ASSUME NEW user, NEW d, NEW bnd, NEW bnd2, RowsStay(bnd, bnd2, NoBind),
         Other(user, d, bnd)
  PROVE  Other(user, d, bnd2)
BY SMTT(30) DEF RowsStay, Other

\* A process whose pending writes are not in the way of a change of the tables
\* is as good as before.
LEMMA Carries ==
  ASSUME NEW l, NEW v \in Locals, NEW t \in Writes, NEW dev, NEW dev2, NEW bnd,
         NEW bnd2, NEW pol, NEW pol2,
         ProcOK(l, v, t, dev, bnd, pol), Grows(dev, dev2),
         RowsStay(bnd, bnd2, NoBind), RowsStay(pol, pol2, NoPolicy),
         \A d \in DeviceIds : Written(t.device[d]) => dev2[d] = dev[d],
         PendingRecordsOK(t, bnd2, pol2)
  PROVE  ProcOK(l, v, t, dev2, bnd2, pol2)
<1>1. KindOK(l, v) /\ WritesOK(l, v, t)
  BY ZenonT(60) DEF ProcOK
<1>2. PendingRowsOK(t, dev2, bnd2)
  BY OtherStays, SMTT(30) DEF ProcOK, PendingRowsOK
<1>3. BoundOK(l, v, t, dev2, bnd2)
  <2>1. ASSUME OfBind(l, v), Written(View(t, dev)[v.body.device]),
               SameCredential(View(t, dev)[v.body.device], v.body)
        PROVE  /\ Written(View(t, dev2)[v.body.device])
               /\ SameCredential(View(t, dev2)[v.body.device], v.body)
    <3>1. v.body.device \in DeviceIds
      BY <1>1, <2>1, ZenonT(60) DEF KindOK, BindBody
    <3>2. CASE Written(t.device[v.body.device])
      BY <2>1, <3>1, <3>2, ZenonT(60) DEF View
    <3>3. CASE ~Written(t.device[v.body.device])
      <4>1. View(t, dev)[v.body.device] = dev[v.body.device]
            /\ View(t, dev2)[v.body.device] = dev2[v.body.device]
        BY <3>1, <3>3, ZenonT(60) DEF View
      <4> QED BY <2>1, <3>1, <4>1, ZenonT(60) DEF Grows, RowStays, SameCredential
    <3> QED BY <3>2, <3>3, ZenonT(60)
  <2>2. ASSUME l = "commit", v.kind = "bind", \E k \in Keys : bnd[k] = v.body
        PROVE  \E k \in Keys : bnd2[k] = v.body
    BY <1>1, <2>2, RecordTypes, ZenonT(60) DEF KindOK, OfBind, RowsStay
  <2> QED BY <2>1, <2>2, ZenonT(60) DEF ProcOK, BoundOK, OfBind, Binding
<1>4. AppliedOK(l, v, t, dev2, bnd2, pol2)
  <2>1. OfCase(l, v) => v.row \in BindBody /\ \E k \in Keys : bnd2[k] = v.row
    BY RecordTypes, ZenonT(60) DEF ProcOK, AppliedOK, RowsStay
  <2>2. ASSUME l = "apply", NEW i \in DOMAIN v.todo
        PROVE  LET d == v.todo[i]
               IN  /\ Written(dev2[d]) /\ dev2[d].user = v.row.user /\ d # v.row.device
                   /\ v.listed[d].status # "ACTIVE" => dev2[d].status # "ACTIVE"
    <3> DEFINE d == v.todo[i]
    <3>1. /\ Written(dev[d]) /\ dev[d].user = v.row.user /\ d # v.row.device
          /\ v.listed[d].status # "ACTIVE" => dev[d].status # "ACTIVE"
      BY <2>2, ZenonT(60) DEF ProcOK, AppliedOK
    <3>2. d \in DeviceIds
      BY DEF Locals
    <3> QED BY <3>1, <3>2, ZenonT(60) DEF Grows, RowStays, SameCredential
  <2>3. ASSUME OfPolicy(l, v), NEW d \in v.affected
        PROVE  Written(dev2[d]) /\ (Written(t.device[d]) \/ dev2[d].status # "ACTIVE")
    <3>1. Written(dev[d]) /\ (Written(t.device[d]) \/ dev[d].status # "ACTIVE")
      BY <2>3, ZenonT(60) DEF ProcOK, AppliedOK
    <3>2. d \in DeviceIds
      BY ZenonT(60) DEF Locals
    <3> QED BY <3>1, <3>2, SMTT(30) DEF Grows, RowStays
  <2>4. OfPolicy(l, v) => v.key \in Keys
    BY <1>1, ZenonT(60) DEF KindOK
  <2>5. OfPolicy(l, v) /\ Taken(v.key, v.body, pol) => Taken(v.key, v.body, pol2)
    BY <2>4, ZenonT(60) DEF Taken, RowsStay
  <2>6. l = "reload_policy" =>
          \/ t.policy # NoPolicy \/ Taken(v.key, v.body, pol2)
          \/ \E k \in Keys : pol2[k] # NoPolicy /\ pol2[k].body.case = v.body.case
    BY <2>5, SMTT(30) DEF ProcOK, AppliedOK, RowsStay, OfPolicy, OfCase, Deciding
  <2>7. l = "commit" /\ v.kind = "policy" =>
          \/ t.policy # NoPolicy \/ Taken(v.key, v.body, pol2)
          \/ \E k \in Keys : pol2[k] # NoPolicy /\ pol2[k].body = v.body
    BY <2>5, ZenonT(60) DEF ProcOK, AppliedOK, RowsStay, OfPolicy, OfCase
  <2> QED BY <2>1, <2>2, <2>3, <2>6, <2>7, ZenonT(60) DEF AppliedOK
<1> QED BY <1>1, <1>2, <1>3, <1>4, ZenonT(60) DEF ProcOK

LEMMA AnswerCarries ==
  ASSUME NEW g \in AnswerType, NEW dev, NEW dev2, NEW bnd, NEW bnd2, NEW pol, NEW pol2,
         AnswerOK(g, dev, bnd, pol), Grows(dev, dev2),
         RowsStay(bnd, bnd2, NoBind), RowsStay(pol, pol2, NoPolicy)
  PROVE  AnswerOK(g, dev2, bnd2, pol2)
<1>1. ASSUME g.kind \in {"enroll", "bind"}
      PROVE  /\ g.record \in DeviceIds \X Jwks
             /\ Written(dev2[g.record[1]]) /\ dev2[g.record[1]].jwk = g.record[2]
             /\ dev2[g.record[1]].user = g.body.user
  <2>1. g.record \in DeviceIds \X Jwks
    BY <1>1 DEF AnswerOK
  <2>2. g.record[1] \in DeviceIds
    BY <2>1, ZenonT(60)
  <2> QED BY <1>1, <2>1, <2>2, ZenonT(60) DEF AnswerOK, Grows, RowStays, SameCredential
<1>2. g.kind = "bind" => g.body \in BindBody /\ \E k \in Keys : bnd2[k] = g.body
  BY RecordTypes, ZenonT(60) DEF AnswerOK, RowsStay
<1>3. ASSUME g.kind = "policy"
      PROVE  /\ g.key \in Keys
             /\ \/ Taken(g.key, g.body, pol2)
                \/ \E k \in Keys : pol2[k] # NoPolicy /\ pol2[k].body = g.body
  BY <1>3, ZenonT(60) DEF AnswerOK, Taken, RowsStay
<1> QED BY <1>1, <1>2, <1>3, ZenonT(60) DEF AnswerOK

\* The records name devices that stay.
LEMMA BindsCarry ==
  ASSUME NEW bnd \in [Keys -> BindBody \cup {NoBind}], NEW dev, NEW dev2,
         BindsOK(bnd, dev), Grows(dev, dev2)
  PROVE  BindsOK(bnd, dev2)
<1>1. ASSUME NEW k \in Keys, bnd[k] # NoBind
      PROVE  Written(dev2[bnd[k].device]) /\ SameCredential(dev2[bnd[k].device], bnd[k])
  <2>1. bnd[k].device \in DeviceIds
    BY <1>1, ZenonT(60) DEF BindBody
  <2> QED BY <1>1, <2>1 DEF BindsOK, Grows, RowStays, SameCredential
<1> QED BY <1>1, ZenonT(60) DEF BindsOK

LEMMA PoliciesCarry ==
  ASSUME NEW pol \in [Keys -> PolicyRow \cup {NoPolicy}], NEW dev, NEW dev2, NEW bnd,
         NEW bnd2, PoliciesOK(pol, dev, bnd), Grows(dev, dev2), RowsStay(bnd, bnd2, NoBind)
  PROVE  PoliciesOK(pol, dev2, bnd2)
<1>1. ASSUME NEW k \in Keys, pol[k] # NoPolicy, NEW d \in pol[k].affected
      PROVE  Written(dev2[d]) /\ dev2[d].status # "ACTIVE"
  <2>1. d \in DeviceIds
    BY <1>1, ZenonT(60) DEF PolicyRow
  <2> QED BY <1>1, <2>1 DEF PoliciesOK, Grows, RowStays
<1>2. ASSUME NEW k \in Keys, pol[k] # NoPolicy
      PROVE  \E j \in Keys : /\ bnd2[j] # NoBind /\ bnd2[j].user = pol[k].user
                             /\ bnd2[j].device = pol[k].except
  BY <1>2, SMTT(30) DEF PoliciesOK, RowsStay
<1> QED BY <1>1, <1>2, ZenonT(60) DEF PoliciesOK

\* A process writes to the tables and ends.
LEMMA WritesAndEnds ==
  ASSUME RInv, NEW p \in Procs, Finish(p), UNCHANGED work,
         device' \in [DeviceIds -> DeviceRow],
         bind' \in [Keys -> BindBody \cup {NoBind}],
         policy' \in [Keys -> PolicyRow \cup {NoPolicy}],
         Grows(device, device'), RowsStay(bind, bind', NoBind),
         RowsStay(policy, policy', NoPolicy),
         \A q \in Procs \ {p} :
           /\ \A d \in DeviceIds : Written(tx[q].device[d]) => device'[d] = device[d]
           /\ PendingRecordsOK(tx[q], bind', policy'),
         DevicesOK(device'), BindsOK(bind', device'),
         PoliciesOK(policy', device', bind'),
         NEW record \in (DeviceIds \X Jwks) \cup {<<>>},
         granted' \subseteq granted \cup {Answer(p, record)}, loc[p].body \in Body,
         AnswerOK(Answer(p, record), device', bind', policy')
  PROVE  RInv'
<1>2. ASSUME NEW q \in Procs \ {p}
      PROVE  /\ ProcOK(pc[q], loc[q], tx[q], device', bind', policy')
             /\ Apart(NoWrites, tx[q])
  BY OfProc, NothingWritten, Carries, ZenonT(60)
<1>3. granted' \subseteq AnswerType
  BY OfTables, AnswerIsTyped, ZenonT(60)
<1>4. ASSUME NEW g \in granted' PROVE AnswerOK(g, device', bind', policy')
  <2>1. CASE g \in granted
    BY <2>1, OfTables, AnswerCarries, ZenonT(60) DEF RInv
  <2>2. CASE g = Answer(p, record)
    BY <2>2, ZenonT(60)
  <2> QED BY <2>1, <2>2, ZenonT(60)
<1>5. "idle" \in Labels /\ ProcOK("idle", NoLocals, NoWrites, device', bind', policy')
  BY IdleOK, ZenonT(60) DEF Labels
<1>6. /\ pc' = [pc EXCEPT ![p] = "idle"] /\ loc' = [loc EXCEPT ![p] = NoLocals]
      /\ tx' = [tx EXCEPT ![p] = NoWrites] /\ work' = work
  BY DEF Finish
<1> QED BY <1>2, <1>3, <1>4, <1>5, <1>6, NoneTypes, OneMoves, ZenonT(60)

\* A step that writes to neither table of devices and binds.
LEMMA SameMoves ==
  ASSUME UNCHANGED <<device, bind>>
  PROVE  Moves
<1>1. Grows(device, device') /\ RowsStay(bind, bind', NoBind)
  BY DEF Grows, RowStays, SameCredential, RowsStay
<1>2. TurnsOff(device, device', bind')
  BY SMTT(30) DEF TurnsOff
<1> QED BY <1>1, <1>2 DEF Moves

\* A row that was there is untouched by an insert, which is for nobody's device.
LEMMA Inserted ==
  ASSUME RInv, NEW p \in Procs, pc[p] = "insert_device", WaitsFor(p) = {},
         Colliding(p, loc[p].body) = {}
  PROVE  /\ loc[p].body \in Credential /\ loc[p].kind = "enroll"
         /\ loc[p].body.device \in DeviceIds
         /\ ~Written(device[loc[p].body.device])
         /\ \A q \in Procs \ {p} : ~Written(tx[q].device[loc[p].body.device])
<1>1. loc[p].body \in Credential /\ loc[p].kind = "enroll"
  BY OfProcParts, ZenonT(60) DEF KindOK, Enrolling
<1>2. loc[p].body.device \in DeviceIds
  BY <1>1, ZenonT(60) DEF Credential
<1>3. ~Written(Seen(p)[loc[p].body.device])
  BY <1>2, ZenonT(60) DEF Colliding, Collides
<1>4. ~Written(device[loc[p].body.device])
  BY <1>2, <1>3 DEF Seen
<1>5. InsertDeviceWaitsFor(p) \ {p} = {}
  BY ZenonT(60) DEF WaitsFor
<1>6. \A q \in Procs \ {p} : ~Written(tx[q].device[loc[p].body.device])
  BY <1>2, <1>5 DEF InsertDeviceWaitsFor, Collides
<1> QED BY <1>1, <1>2, <1>4, <1>6, ZenonT(60)

LEMMA InsertDeviceKeeps ==
  ASSUME RInv, NEW p \in Procs, InsertDevice(p), UNCHANGED work
  PROVE  RInv' /\ Moves
<1> DEFINE c == loc[p].body
<1>0. pc[p] = "insert_device" /\ WaitsFor(p) = {}
  BY DEF InsertDevice
<1>1. CASE Colliding(p, c) # {}
  <2>1. Goto(p, "reload_device") /\ UNCHANGED <<device, bind, policy, tx, granted>>
    BY <1>1, ZenonT(60) DEF InsertDevice
  <2>2. RInv'
    <3>1. pc[p] \in Enrolling /\ "reload_device" \in Enrolling /\ "reload_device" \in Labels
      BY <1>0, ZenonT(60) DEF Enrolling, Labels
    <3>2. ProcOK("reload_device", loc[p], tx[p], device, bind, policy)
      BY <3>1, ReadsOn, OfProc
    <3> QED BY <2>1, <3>1, <3>2, GotoKeeps, ZenonT(60)
  <2> QED BY <2>1, <2>2, SameMoves, ZenonT(60)
<1>2. CASE Refuse(p)
  <2>1. UNCHANGED <<device, bind>>
    BY <1>2 DEF Refuse
  <2> QED BY <1>2, <2>1, RefuseKeeps, SameMoves
<1>3. CASE /\ Colliding(p, c) = {}
           /\ device' = [device EXCEPT ![c.device] = NewDevice(c)]
           /\ Finish(p)
           /\ granted' = granted \cup {Answer(p, Record(c))}
           /\ UNCHANGED <<bind, policy>>
  <2>1. /\ c \in Credential /\ loc[p].kind = "enroll" /\ c.device \in DeviceIds
        /\ ~Written(device[c.device])
        /\ \A q \in Procs \ {p} : ~Written(tx[q].device[c.device])
    BY <1>0, <1>3, Inserted, ZenonT(60)
  <2>2. /\ NewDevice(c) \in RealRow /\ NewDevice(c).status = "ACTIVE"
        /\ NewDevice(c).user = c.user /\ NewDevice(c).jwk = c.jwk
    BY <2>1 DEF NewDevice, RealRow, Credential
  <2>3. /\ device' \in [DeviceIds -> DeviceRow]
        /\ \A d \in DeviceIds :
             device'[d] = IF d = c.device THEN NewDevice(c) ELSE device[d]
    BY <1>3, <2>2, OfTables, RowTypes, ZenonT(60)
  <2>4. Grows(device, device')
    BY <2>1, <2>3, SMTT(30) DEF Grows, RowStays, SameCredential
  <2>5. DevicesOK(device')
    BY <1>3, <2>2, <2>3, OfTables, ZenonT(60) DEF DevicesOK
  <2>6. RowsStay(bind, bind', NoBind) /\ RowsStay(policy, policy', NoPolicy)
    BY <1>3, SMTT(30) DEF RowsStay
  <2>7. BindsOK(bind', device') /\ PoliciesOK(policy', device', bind')
    BY <1>3, <2>4, <2>6, OfTables, BindsCarry, PoliciesCarry, ZenonT(60)
  <2>8. \A q \in Procs \ {p} :
           /\ \A d \in DeviceIds : Written(tx[q].device[d]) => device'[d] = device[d]
           /\ PendingRecordsOK(tx[q], bind', policy')
    BY <1>3, <2>1, <2>3, OfProc, ZenonT(60) DEF ProcOK
  <2>9. Record(c) \in DeviceIds \X Jwks /\ Record(c)[1] = c.device /\ Record(c)[2] = c.jwk
    BY <2>1, ZenonT(60) DEF Record, Credential
  <2>10. c \in Body
    BY <2>1, SMTT(30) DEF Body
  <2>11. AnswerOK(Answer(p, Record(c)), device', bind', policy')
    <3>1. Answer(p, Record(c)).kind = "enroll" /\ Answer(p, Record(c)).record = Record(c)
          /\ Answer(p, Record(c)).body = c
      BY <2>1, ZenonT(60) DEF Answer
    <3>2. device'[c.device] = NewDevice(c) /\ Written(NewDevice(c))
      BY <2>1, <2>2, <2>3, RowTypes, ZenonT(60)
    <3> QED BY <2>1, <2>2, <2>9, <3>1, <3>2, ZenonT(60) DEF AnswerOK
  <2>12. bind' \in [Keys -> BindBody \cup {NoBind}] /\ policy' \in [Keys -> PolicyRow \cup {NoPolicy}]
    BY <1>3, OfTables
  <2>13. RInv'
    <3> HIDE DEF c
    <3>1. granted' \subseteq granted \cup {Answer(p, Record(c))} /\ Finish(p)
          /\ Record(c) \in (DeviceIds \X Jwks) \cup {<<>>} /\ loc[p].body \in Body
      BY <1>3, <2>9, <2>10, ZenonT(60) DEF c
    <3> QED BY <2>3, <2>4, <2>5, <2>6, <2>7, <2>8, <2>11, <2>12, <3>1, WritesAndEnds, Zenon
  <2>14. TurnsOff(device, device', bind')
    BY <2>2, <2>3, ZenonT(60) DEF TurnsOff
  <2> QED BY <2>4, <2>6, <2>13, <2>14, ZenonT(60) DEF Moves
<1> QED BY <1>1, <1>2, <1>3, ZenonT(60) DEF InsertDevice

-----------------------------------------------------------------------------
(* A commit, part by part.                                                 *)

\* The rows of the transaction have replaced those of the table, and were in no
\* other transaction's way.
CommittedDevices(p) ==
  /\ device' = View(tx[p], device)
  /\ device' \in [DeviceIds -> DeviceRow]
  /\ Grows(device, device')
  /\ \A q \in Procs \ {p} : \A d \in DeviceIds :
       Written(tx[q].device[d]) => device'[d] = device[d]

\* The records of the transaction have got a place of their own.
CommittedBinds(p) ==
  /\ bind' \in [Keys -> BindBody \cup {NoBind}]
  /\ RowsStay(bind, bind', NoBind)
  /\ tx[p].bind # NoBind => /\ loc[p].kind = "bind" /\ loc[p].body \in BindBody
                            /\ tx[p].key \in Keys /\ tx[p].bind = loc[p].body
                            /\ bind'[tx[p].key] = loc[p].body
  /\ \A k \in Keys : bind'[k] = IF tx[p].bind # NoBind /\ k = tx[p].key
                              THEN loc[p].body ELSE bind[k]

CommittedPolicies(p) ==
  /\ policy' \in [Keys -> PolicyRow \cup {NoPolicy}]
  /\ RowsStay(policy, policy', NoPolicy)
  /\ tx[p].policy # NoPolicy =>
       /\ loc[p].kind = "policy" /\ loc[p].body \in PolicyBody
       /\ tx[p].key \in Keys /\ tx[p].policy = PolicyRowOf(loc[p])
       /\ tx[p].policy \in PolicyRow
       /\ policy'[tx[p].key] = tx[p].policy
  /\ \A k \in Keys : policy'[k] = IF tx[p].policy # NoPolicy /\ k = tx[p].key
                                THEN tx[p].policy ELSE policy[k]

LEMMA CommitsDevices ==
  ASSUME RInv, NEW p \in Procs, device' = Seen(p)
  PROVE  CommittedDevices(p)
<1>1. device' = View(tx[p], device)
  BY DEF Seen, View
<1>2. \A d \in DeviceIds :
        device'[d] = IF Written(tx[p].device[d]) THEN tx[p].device[d] ELSE device[d]
  BY ZenonT(60) DEF Seen
<1>3. tx[p].device \in [DeviceIds -> DeviceRow]
  BY OfProc, ZenonT(60) DEF Writes
<1>4. device' \in [DeviceIds -> DeviceRow]
  BY <1>3, OfTables, ZenonT(60) DEF Seen
<1>5. PendingRowsOK(tx[p], device, bind)
  BY OfProc, ZenonT(60) DEF ProcOK
<1>6. ASSUME NEW d \in DeviceIds PROVE RowStays(device[d], device'[d])
  <2>1. CASE Written(tx[p].device[d])
    BY <1>2, <1>5, <2>1, RowTypes, ZenonT(60) DEF PendingRowsOK, RowStays
  <2>2. CASE ~Written(tx[p].device[d])
    BY <1>2, <2>2, ZenonT(60) DEF RowStays, SameCredential
  <2> QED BY <2>1, <2>2, ZenonT(60)
<1>7. ASSUME NEW q \in Procs \ {p}, NEW d \in DeviceIds, Written(tx[q].device[d])
      PROVE  device'[d] = device[d]
  <2>1. ~Written(tx[p].device[d])
    BY <1>7, ZenonT(60) DEF RInv, Apart
  <2> QED BY <1>2, <2>1, ZenonT(60)
<1> QED BY <1>1, <1>4, <1>6, <1>7, ZenonT(60) DEF Grows, CommittedDevices

LEMMA CommitsBind ==
  ASSUME RInv, NEW p \in Procs, pc[p] = "commit",
         bind' = IF tx[p].bind = NoBind
                 THEN bind ELSE [bind EXCEPT ![tx[p].key] = tx[p].bind]
  PROVE  CommittedBinds(p)
<1>1. CASE tx[p].bind = NoBind
  BY <1>1, OfTables, ZenonT(60) DEF RowsStay, CommittedBinds
<1>2. CASE tx[p].bind # NoBind
  <2>1. loc[p].kind = "bind" /\ tx[p].bind = loc[p].body /\ tx[p].key = loc[p].key
    BY <1>2, OfProcParts, SMTT(30) DEF WritesOK
  <2>2. loc[p].key \in Keys /\ loc[p].body \in BindBody
    BY <2>1, OfProcParts, ZenonT(60) DEF KindOK, OfBind
  <2>3. bind[tx[p].key] = NoBind
    BY <1>2, OfProcParts, SMTT(30) DEF PendingRecordsOK
  <2>4. \A k \in Keys : bind'[k] = IF k = tx[p].key THEN loc[p].body ELSE bind[k]
    BY <1>2, <2>1, <2>2, OfTables, ZenonT(60)
  <2>5. bind' \in [Keys -> BindBody \cup {NoBind}]
    BY <1>2, <2>1, <2>2, OfTables, ZenonT(60)
  <2> QED BY <1>2, <2>1, <2>2, <2>3, <2>4, <2>5, ZenonT(60)
       DEF RowsStay, CommittedBinds
<1> QED BY <1>1, <1>2, ZenonT(60)

LEMMA CommitsPolicy ==
  ASSUME RInv, NEW p \in Procs, pc[p] = "commit",
         policy' = IF tx[p].policy = NoPolicy
                   THEN policy ELSE [policy EXCEPT ![tx[p].key] = tx[p].policy]
  PROVE  CommittedPolicies(p)
<1>1. CASE tx[p].policy = NoPolicy
  BY <1>1, OfTables, ZenonT(60) DEF RowsStay, CommittedPolicies
<1>2. CASE tx[p].policy # NoPolicy
  <2>1. loc[p].kind = "policy" /\ tx[p].policy = PolicyRowOf(loc[p]) /\ tx[p].key = loc[p].key
    BY <1>2, OfProcParts, ZenonT(60) DEF WritesOK
  <2>2. loc[p].key \in Keys /\ loc[p].body \in PolicyBody
    BY <2>1, OfProcParts, ZenonT(60) DEF KindOK, OfPolicy, OfCase
  <2>3. policy[tx[p].key] = NoPolicy
    BY <1>2, OfProcParts, ZenonT(60) DEF PendingRecordsOK
  <2>4. tx[p].policy \in PolicyRow
    BY <1>2, OfProc, ZenonT(60) DEF Writes
  <2>5. \A k \in Keys : policy'[k] = IF k = tx[p].key THEN tx[p].policy ELSE policy[k]
    BY <1>2, <2>1, <2>2, OfTables, ZenonT(60)
  <2>6. policy' \in [Keys -> PolicyRow \cup {NoPolicy}]
    BY <1>2, <2>1, <2>2, <2>4, OfTables, ZenonT(60)
  <2> QED BY <1>2, <2>1, <2>2, <2>3, <2>4, <2>5, <2>6, ZenonT(60)
       DEF RowsStay, CommittedPolicies
<1> QED BY <1>1, <1>2, Zenon

\* A pending record has a key.
LEMMA PendingKey ==
  ASSUME RInv, NEW q \in Procs, tx[q].bind # NoBind \/ tx[q].policy # NoPolicy
  PROVE  tx[q].key \in Keys
<1>1. KindOK(pc[q], loc[q]) /\ WritesOK(pc[q], loc[q], tx[q])
  BY OfProc, ZenonT(60) DEF ProcOK
<1>2. CASE tx[q].bind # NoBind
  BY <1>1, <1>2, ZenonT(60) DEF KindOK, WritesOK, OfBind, Binding
<1>3. CASE tx[q].policy # NoPolicy
  BY <1>1, <1>3, ZenonT(60) DEF KindOK, WritesOK, OfPolicy, OfCase, Deciding
<1> QED BY <1>2, <1>3, ZenonT(60)

\* The pending records of the others can still be committed.
LEMMA LeavesOthers ==
  ASSUME RInv, NEW p \in Procs, CommittedBinds(p), CommittedPolicies(p),
         NEW q \in Procs \ {p}
  PROVE  PendingRecordsOK(tx[q], bind', policy')
<1>1. PendingRecordsOK(tx[q], bind, policy) /\ Apart(tx[p], tx[q])
  BY OfProc, ZenonT(60) DEF ProcOK, RInv
<1>2. ASSUME tx[q].bind # NoBind
      PROVE  /\ bind'[tx[q].key] = NoBind
             /\ \A k \in Keys : bind'[k] # NoBind => bind'[k].op # tx[q].bind.op
  <2>1. tx[q].key \in Keys
    BY <1>2, PendingKey, ZenonT(60)
  <2> QED BY <1>1, <1>2, <2>1, ZenonT(60) DEF PendingRecordsOK, Apart, CommittedBinds
<1>3. ASSUME tx[q].policy # NoPolicy
      PROVE  /\ policy'[tx[q].key] = NoPolicy
             /\ \A k \in Keys : policy'[k] # NoPolicy =>
                  policy'[k].body.case # tx[q].policy.body.case
  <2>1. tx[q].key \in Keys
    BY <1>3, PendingKey, ZenonT(60)
  <2> QED BY <1>1, <1>3, <2>1, ZenonT(60) DEF PendingRecordsOK, Apart, CommittedPolicies
<1> QED BY <1>2, <1>3, SMTT(30) DEF PendingRecordsOK

\* What a process knows when it commits.
LEMMA OfCommit ==
  ASSUME RInv, NEW p \in Procs, pc[p] = "commit"
  PROVE  /\ KindOK("commit", loc[p]) /\ WritesOK("commit", loc[p], tx[p])
         /\ PendingRowsOK(tx[p], device, bind) /\ PendingRecordsOK(tx[p], bind, policy)
         /\ BoundOK("commit", loc[p], tx[p], device, bind)
         /\ AppliedOK("commit", loc[p], tx[p], device, bind, policy)
         /\ loc[p] \in Locals
BY OfProc, ZenonT(60) DEF ProcOK

\* The device table has rows, and only those are off whose owner has recovered.
LEMMA CommittedRows ==
  ASSUME RInv, NEW p \in Procs, pc[p] = "commit",
         CommittedDevices(p), CommittedBinds(p)
  PROVE  DevicesOK(device') /\ TurnsOff(device, device', bind')
<1> SUFFICES ASSUME NEW d \in DeviceIds
             PROVE  /\ device'[d] \in RealRow \cup {NoDevice}
                    /\ Written(device'[d]) /\ device'[d].status # "ACTIVE" =>
                         \/ Written(device[d]) /\ device[d].status # "ACTIVE"
                         \/ Other(device'[d].user, d, bind')
  BY SMTT(30) DEF DevicesOK, TurnsOff
<1>1. CASE Written(tx[p].device[d])
  <2>1. device'[d] = tx[p].device[d]
    BY <1>1, ZenonT(60) DEF CommittedDevices, View
  <2> QED BY <1>1, <2>1, OfCommit, OtherStays, ZenonT(60) DEF PendingRowsOK, CommittedBinds
<1>2. CASE ~Written(tx[p].device[d])
  <2>1. device'[d] = device[d]
    BY <1>2, ZenonT(60) DEF CommittedDevices, View
  <2> QED BY <2>1, OfTables, ZenonT(60) DEF DevicesOK
<1> QED BY <1>1, <1>2, ZenonT(60)

\* The binds name devices of their users.
LEMMA BindsCommitted ==
  ASSUME RInv, NEW p \in Procs, pc[p] = "commit",
         CommittedDevices(p), CommittedBinds(p)
  PROVE  BindsOK(bind', device')
<1>1. BindsOK(bind, device')
  BY OfTables, BindsCarry, SMTT(30) DEF CommittedDevices
<1>2. tx[p].bind # NoBind =>
        /\ Written(device'[loc[p].body.device])
        /\ SameCredential(device'[loc[p].body.device], loc[p].body)
  BY OfCommit, ZenonT(60) DEF BoundOK, CommittedDevices, CommittedBinds
<1>3. \A k \in Keys : bind'[k] # NoBind =>
        Written(device'[bind'[k].device]) /\ SameCredential(device'[bind'[k].device], bind'[k])
  BY <1>1, <1>2, ZenonT(60) DEF BindsOK, CommittedBinds
<1>4. \A j, k \in Keys :
        bind'[j] # NoBind /\ bind'[k] # NoBind /\ bind'[j].op = bind'[k].op => j = k
  <2>1. \A k \in Keys : tx[p].bind # NoBind /\ bind[k] # NoBind =>
          bind[k].op # tx[p].bind.op
    BY OfCommit, Zenon DEF PendingRecordsOK
  <2>2. \A j, k \in Keys :
          bind[j] # NoBind /\ bind[k] # NoBind /\ bind[j].op = bind[k].op => j = k
    BY <1>1, Zenon DEF BindsOK
  <2>3. \A k \in Keys : bind'[k] = IF tx[p].bind # NoBind /\ k = tx[p].key
                                THEN loc[p].body ELSE bind[k]
    BY Zenon DEF CommittedBinds
  <2>4. tx[p].bind # NoBind => tx[p].bind = loc[p].body
    BY Zenon DEF CommittedBinds
  <2> QED BY <2>1, <2>2, <2>3, <2>4, ZenonT(60)
<1> QED BY <1>3, <1>4, ZenonT(60) DEF BindsOK

\* The policies took effect.
LEMMA PoliciesCommitted ==
  ASSUME RInv, NEW p \in Procs, pc[p] = "commit",
         CommittedDevices(p), CommittedBinds(p), CommittedPolicies(p)
  PROVE  PoliciesOK(policy', device', bind')
<1>1. PoliciesOK(policy, device', bind')
  BY OfTables, PoliciesCarry, ZenonT(60) DEF CommittedDevices, CommittedBinds
<1>2. ASSUME tx[p].policy # NoPolicy
      PROVE  /\ \A d \in tx[p].policy.affected :
                  Written(device'[d]) /\ device'[d].status # "ACTIVE"
             /\ \E j \in Keys : /\ bind'[j] # NoBind /\ bind'[j].user = tx[p].policy.user
                                /\ bind'[j].device = tx[p].policy.except
  <2>1. OfPolicy(pc[p], loc[p]) /\ OfCase(pc[p], loc[p])
    BY <1>2, ZenonT(60) DEF OfPolicy, OfCase, CommittedPolicies
  <2>2. tx[p].policy.affected = loc[p].affected /\ tx[p].policy.user = loc[p].row.user
        /\ tx[p].policy.except = loc[p].row.device
    BY <1>2 DEF PolicyRowOf, CommittedPolicies
  <2>3. ASSUME NEW d \in loc[p].affected
        PROVE  Written(device'[d]) /\ device'[d].status # "ACTIVE"
    <3>1. d \in DeviceIds
      BY OfCommit, SMTT(30) DEF Locals
    <3>2. Written(device[d]) /\ (Written(tx[p].device[d]) \/ device[d].status # "ACTIVE")
      BY <2>1, OfCommit, Zenon DEF AppliedOK
    <3>3. CASE Written(tx[p].device[d])
      BY <3>1, <3>2, <3>3, OfCommit, Zenon DEF View, PendingRowsOK, CommittedDevices
    <3>4. CASE ~Written(tx[p].device[d])
      BY <3>1, <3>2, <3>4, SMTT(30) DEF View, CommittedDevices
    <3> QED BY <3>3, <3>4, ZenonT(60)
  <2>4. PICK j \in Keys : bind[j] = loc[p].row /\ loc[p].row \in BindBody
    BY <2>1, OfCommit, ZenonT(60) DEF AppliedOK
  <2>5. bind'[j] = loc[p].row /\ bind'[j] # NoBind
    BY <2>4, RecordTypes, ZenonT(60) DEF RowsStay, CommittedBinds
  <2> QED BY <2>2, <2>3, <2>5, ZenonT(60)
<1>3. \A k \in Keys : policy'[k] # NoPolicy =>
        /\ \A d \in policy'[k].affected : Written(device'[d]) /\ device'[d].status # "ACTIVE"
        /\ \E j \in Keys : /\ bind'[j] # NoBind /\ bind'[j].user = policy'[k].user
                           /\ bind'[j].device = policy'[k].except
  <2> TAKE k \in Keys
  <2>1. policy'[k] = IF tx[p].policy # NoPolicy /\ k = tx[p].key
                     THEN tx[p].policy ELSE policy[k]
    BY Zenon DEF CommittedPolicies
  <2>2. CASE tx[p].policy # NoPolicy /\ k = tx[p].key
    BY <1>2, <2>1, <2>2, Zenon
  <2>3. CASE ~(tx[p].policy # NoPolicy /\ k = tx[p].key)
    BY <1>1, <2>1, <2>3, Zenon DEF PoliciesOK
  <2> QED BY <2>2, <2>3, ZenonT(60)
<1>4. \A j, k \in Keys :
        policy'[j] # NoPolicy /\ policy'[k] # NoPolicy
        /\ policy'[j].body.case = policy'[k].body.case => j = k
  <2>1. \A k \in Keys : tx[p].policy # NoPolicy /\ policy[k] # NoPolicy =>
          policy[k].body.case # tx[p].policy.body.case
    BY OfCommit, Zenon DEF PendingRecordsOK
  <2>2. \A j, k \in Keys :
          policy[j] # NoPolicy /\ policy[k] # NoPolicy
          /\ policy[j].body.case = policy[k].body.case => j = k
    BY <1>1, Zenon DEF PoliciesOK
  <2>3. \A k \in Keys : policy'[k] = IF tx[p].policy # NoPolicy /\ k = tx[p].key
                                  THEN tx[p].policy ELSE policy[k]
    BY Zenon DEF CommittedPolicies
  <2> QED BY <2>1, <2>2, <2>3, ZenonT(60)
<1> QED BY <1>3, <1>4, ZenonT(60) DEF PoliciesOK

\* What is answered is on record.
CommitRecord(p) == IF loc[p].kind = "bind" THEN Record(loc[p].body) ELSE <<>>

LEMMA AnswerCommitted ==
  ASSUME RInv, NEW p \in Procs, pc[p] = "commit",
         CommittedDevices(p), CommittedBinds(p), CommittedPolicies(p)
  PROVE  AnswerOK(Answer(p, CommitRecord(p)), device', bind', policy')
<1> DEFINE g == Answer(p, CommitRecord(p))
<1>0. /\ g.kind = loc[p].kind /\ g.key = loc[p].key /\ g.body = loc[p].body
      /\ g.record = CommitRecord(p)
  BY DEF Answer
<1> SUFFICES AnswerOK(g, device', bind', policy')
  OBVIOUS
<1> HIDE DEF g
<1>1. CASE loc[p].kind = "bind"
  <2>1. loc[p].body \in BindBody
    BY <1>1, OfCommit, ZenonT(60) DEF KindOK, OfBind
  <2>2. CommitRecord(p) \in DeviceIds \X Jwks /\ CommitRecord(p)[1] = loc[p].body.device
        /\ CommitRecord(p)[2] = loc[p].body.jwk
    BY <1>1, <2>1, SMTT(30) DEF CommitRecord, Record, BindBody
  <2>3. /\ Written(device'[loc[p].body.device])
        /\ SameCredential(device'[loc[p].body.device], loc[p].body)
    BY <1>1, OfCommit, ZenonT(60) DEF BoundOK, CommittedDevices
  <2>4. \E k \in Keys : bind'[k] = loc[p].body
    <3>1. CASE tx[p].bind # NoBind
      BY <3>1, SMTT(30) DEF CommittedBinds
    <3>2. CASE tx[p].bind = NoBind
      BY <1>1, <3>2, OfCommit, Zenon DEF BoundOK, CommittedBinds
    <3> QED BY <3>1, <3>2, ZenonT(60)
  <2> QED BY <1>0, <1>1, <2>1, <2>2, <2>3, <2>4, Zenon DEF AnswerOK, SameCredential
<1>2. CASE loc[p].kind = "policy"
  <2>1. loc[p].key \in Keys
    BY <1>2, OfCommit, ZenonT(60) DEF KindOK, OfPolicy, OfCase
  <2>2. Taken(loc[p].key, loc[p].body, policy')
        \/ \E k \in Keys : policy'[k] # NoPolicy /\ policy'[k].body = loc[p].body
    <3>1. CASE tx[p].policy # NoPolicy
      <4>1. /\ tx[p].key \in Keys /\ policy'[tx[p].key] = PolicyRowOf(loc[p])
            /\ PolicyRowOf(loc[p]) \in PolicyRow
        BY <3>1, Zenon DEF CommittedPolicies
      <4>2. PolicyRowOf(loc[p]) # NoPolicy
        BY <4>1, RecordTypes, Zenon
      <4>3. PolicyRowOf(loc[p]).body = loc[p].body
        BY ZenonT(60) DEF PolicyRowOf
      <4> QED BY <4>1, <4>2, <4>3, Zenon
    <3>2. CASE tx[p].policy = NoPolicy
      <4>1. Taken(loc[p].key, loc[p].body, policy)
            \/ \E k \in Keys : policy[k] # NoPolicy /\ policy[k].body = loc[p].body
        BY <1>2, <3>2, OfCommit, Zenon DEF AppliedOK
      <4> QED BY <2>1, <4>1, SMTT(30) DEF RowsStay, Taken, CommittedPolicies
    <3> QED BY <3>1, <3>2
  <2> QED BY <1>0, <1>2, <2>1, <2>2, ZenonT(60) DEF AnswerOK
<1>3. loc[p].kind \in {"bind", "policy"}
  BY OfCommit, Zenon DEF KindOK
<1> QED BY <1>1, <1>2, <1>3, ZenonT(60)

-----------------------------------------------------------------------------
(* The registry's steps together.                                         *)

\* A commit: its parts together.
LEMMA CommitKeeps ==
  ASSUME RInv, NEW p \in Procs, Commit(p), UNCHANGED work
  PROVE  RInv' /\ Moves
<1>1. pc[p] = "commit" /\ Finish(p)
  BY ZenonT(60) DEF Commit
<1>2. CommittedDevices(p)
  BY CommitsDevices, ZenonT(60) DEF Commit
<1>3. CommittedBinds(p)
  BY <1>1, CommitsBind, ZenonT(60) DEF Commit
<1>4. CommittedPolicies(p)
  BY <1>1, CommitsPolicy, ZenonT(60) DEF Commit
<1>5. granted' \subseteq granted \cup {Answer(p, CommitRecord(p))}
  BY ZenonT(60) DEF Commit, CommitRecord
<1>6. loc[p].kind \in {"bind", "policy"} /\ loc[p].body \in Body
      /\ CommitRecord(p) \in (DeviceIds \X Jwks) \cup {<<>>}
  <2>1. loc[p].kind \in {"bind", "policy"}
    BY <1>1, OfCommit, ZenonT(60) DEF KindOK
  <2>2. CASE loc[p].kind = "bind"
    <3>1. loc[p].body \in BindBody
      BY <1>1, <2>2, OfCommit, ZenonT(60) DEF KindOK, OfBind
    <3> QED BY <2>2, <3>1, ZenonT(60) DEF Body, BindBody, Record, CommitRecord
  <2>3. CASE loc[p].kind = "policy"
    <3>1. loc[p].body \in PolicyBody
      BY <1>1, <2>3, OfCommit, ZenonT(60) DEF KindOK, OfPolicy, OfCase
    <3> QED BY <2>3, <3>1, ZenonT(60) DEF Body, CommitRecord
  <2> QED BY <2>1, <2>2, <2>3, ZenonT(60)
<1>7. DevicesOK(device') /\ TurnsOff(device, device', bind')
  BY <1>1, <1>2, <1>3, CommittedRows, ZenonT(60)
<1>8. BindsOK(bind', device') /\ PoliciesOK(policy', device', bind')
  BY <1>1, <1>2, <1>3, <1>4, BindsCommitted, PoliciesCommitted, ZenonT(60)
<1>9. AnswerOK(Answer(p, CommitRecord(p)), device', bind', policy')
  BY <1>1, <1>2, <1>3, <1>4, AnswerCommitted, ZenonT(60)
<1>10. \A q \in Procs \ {p} :
         /\ \A d \in DeviceIds : Written(tx[q].device[d]) => device'[d] = device[d]
         /\ PendingRecordsOK(tx[q], bind', policy')
  BY <1>2, <1>3, <1>4, LeavesOthers, ZenonT(60) DEF CommittedDevices
<1>11. /\ device' \in [DeviceIds -> DeviceRow] /\ Grows(device, device')
       /\ bind' \in [Keys -> BindBody \cup {NoBind}] /\ RowsStay(bind, bind', NoBind)
       /\ policy' \in [Keys -> PolicyRow \cup {NoPolicy}]
       /\ RowsStay(policy, policy', NoPolicy)
  BY <1>2, <1>3, <1>4, ZenonT(60) DEF CommittedDevices, CommittedBinds, CommittedPolicies
<1>12. RInv'
  BY <1>1, <1>5, <1>6, <1>7, <1>8, <1>9, <1>10, <1>11, WritesAndEnds, Zenon
<1> QED BY <1>7, <1>11, <1>12, ZenonT(60) DEF Moves

LEMMA RegistryKeeps ==
  ASSUME RInv, Countable, RegistryStep, UNCHANGED work
  PROVE  RInv' /\ Moves
<1>1. PICK p \in Procs : Enter(p) \/ Continue(p) \/ Abort(p) \/ DeadlockVictim(p)
  BY DEF RegistryStep
<1>3. CASE InsertDevice(p)
  BY <1>3, InsertDeviceKeeps
<1>4. CASE Commit(p)
  BY <1>4, CommitKeeps
<1>5. CASE Enter(p)
  <2>1. UNCHANGED <<device, bind>>
    BY <1>5, Zenon DEF Enter, EnrollmentBind, RecoveryBind, BffRecoveryBind, OldDevicesPolicy,
                BffOldDevicesPolicy, Begin
  <2> QED BY <1>5, <2>1, EnterKeeps, SameMoves, ZenonT(60)
<1>6. CASE Abort(p) \/ DeadlockVictim(p)
  <2>1. Refuse(p)
    BY <1>6 DEF Abort, DeadlockVictim
  <2>2. UNCHANGED <<device, bind>>
    BY <2>1, ZenonT(60) DEF Refuse
  <2> QED BY <2>1, <2>2, RefuseKeeps, SameMoves, ZenonT(60)
<1>7. CASE \/ FindBinding(p) \/ FindConflict(p) \/ ReloadDevice(p)
           \/ FindKey(p) \/ FindBind(p) \/ CheckDevice(p) \/ ClaimDevice(p)
           \/ VerifyDevice(p) \/ RecordBind(p) \/ ReloadBind(p)
  <2>1. UNCHANGED <<device, bind>>
    BY <1>7, Zenon DEF FindBinding, FindConflict, ReloadDevice, FindKey, FindBind, CheckDevice,
                ClaimDevice, VerifyDevice, RecordBind, ReloadBind, Refuse, Grant
  <2> QED BY <1>7, <2>1, SameMoves, FindBindingKeeps, ReloadDeviceKeeps,
             FindKeyKeeps, ClaimDeviceKeeps, VerifyDeviceKeeps, RecordBindKeeps,
             ReloadBindKeeps, ZenonT(60)
<1>8. CASE \/ FindCase(p) \/ FindPolicy(p) \/ FindCasePolicy(p) \/ ListDevices(p)
           \/ Apply(p) \/ Applied(p) \/ RecordPolicy(p) \/ ReloadPolicy(p)
  <2>1. UNCHANGED <<device, bind>>
    BY <1>8, ZenonT(60) DEF FindCase, FindPolicy, FindCasePolicy, ListDevices, Apply, Applied,
                RecordPolicy, ReloadPolicy, Refuse, Grant
  <2> QED BY <1>8, <2>1, SameMoves, FindCaseKeeps, FindPolicyKeeps,
             ListDevicesKeeps, ApplyKeeps, AppliedKeeps, RecordPolicyKeeps,
             ReloadPolicyKeeps, ZenonT(60)
<1> QED BY <1>1, <1>3, <1>4, <1>5, <1>6, <1>7, <1>8, ZenonT(60) DEF Continue

=============================================================================
