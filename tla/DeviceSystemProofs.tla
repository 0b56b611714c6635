------------------------- MODULE DeviceSystemProofs -------------------------
(***************************************************************************)
(* The device registry and the signed requests together, for any users,    *)
(* devices, recovery cases, requests, processes and tasks: types, whose    *)
(* device a record names, that a recovery and a policy are granted for one *)
(* payload, that a policy takes effect and spares the device it exempts,   *)
(* that a device which is off is refused, and that credentials stay.       *)
(*                                                                         *)
(* The statements of the registry are in DeviceRegistryProofs and          *)
(* DeviceCommitProofs, what the tasks know of it in DeviceAuthProofs; here *)
(* they meet.  A task can turn a device off without a record               *)
(* (revoke_device).                                                        *)
(***************************************************************************)
EXTENDS DeviceCommitProofs, DeviceAuthProofs, FiniteSetTheorems

-----------------------------------------------------------------------------
(* The steps of the tasks.                                                *)

\* A statement outside the registry's processes writes to the device table.
LEMMA TablesMove ==
  ASSUME RInv, UNCHANGED <<work, bind, policy, tx, pc, loc, granted>>,
         device' \in [DeviceIds -> DeviceRow], Grows(device, device'),
         \A q \in Procs : \A d \in DeviceIds :
           Written(tx[q].device[d]) => device'[d] = device[d],
         DevicesOK(device')
  PROVE  RInv'
<1>1. RowsStay(bind, bind, NoBind) /\ RowsStay(policy, policy, NoPolicy)
  BY DEF RowsStay
<1>2. TypeOK'
  BY DEF RInv, TypeOK
<1>3. \A q \in Procs : ProcOK(pc'[q], loc'[q], tx'[q], device', bind', policy')
  <2> SUFFICES ASSUME NEW q \in Procs
               PROVE  ProcOK(pc[q], loc[q], tx[q], device', bind, policy)
    OBVIOUS
  <2>1. PendingRecordsOK(tx[q], bind, policy)
    BY OfProc DEF ProcOK
  <2> QED BY <1>1, <2>1, OfProc, Carries, ZenonT(60)
<1>4. \A p, q \in Procs : p # q => Apart(tx'[p], tx'[q])
  BY DEF RInv
<1>5. BindsOK(bind', device') /\ PoliciesOK(policy', device', bind')
  BY <1>1, OfTables, BindsCarry, PoliciesCarry, ZenonT(60)
<1>6. \A g \in granted' : AnswerOK(g, device', bind', policy')
  BY <1>1, OfTables, AnswerCarries, ZenonT(60) DEF RInv
<1>7. DevicesOK(device')
  OBVIOUS
<1> QED BY <1>2, <1>3, <1>4, <1>5, <1>6, <1>7, ZenonT(60) DEF RInv

LEMMA RevokeKeeps ==
  ASSUME IInv, NEW c \in Callers, RevokeDevice(c),
         UNCHANGED <<work, bind, policy, tx, pc, loc, granted>>
  PROVE  RInv' /\ OffOK' /\ Grows(device, device')
<1> DEFINE m == call[c].req
           d == m.target
<1>1. m \in work.signed /\ m \in Signed
  BY AuthAssumption DEF RevokeDevice, IInv, CallTypes, At
<1>2. d \in DeviceIds
  BY <1>1, ZenonT(60) DEF Signed
<1>3. m.op = "revoke" /\ Written(device[d])
  BY DEF RevokeDevice, IInv, CallInv, CallerOK, At
<1>4. RInv /\ CallTypes
  BY DEF IInv
<1>5. device[d] \in RealRow
  BY <1>2, <1>3, <1>4, RowOfDevice, Zenon
<1> DEFINE new == [device[d] EXCEPT !.status = "REVOKED"]
<1>6. new \in RealRow /\ new.status = "REVOKED" /\ SameCredential(new, device[d])
  BY <1>5, ZenonT(60) DEF RealRow, SameCredential
<1>7. device' = [device EXCEPT ![d] = new] /\ UpdateWaitsFor(d) = {}
  BY DEF RevokeDevice, UpdateDeviceStatus
<1>8. d \in Own' /\ Own \subseteq Own'
  <2>1. ActOn(c) /\ ~At(c, "idle")
    BY DEF RevokeDevice, At
  <2>2. effects'[m] > 0
    BY <1>1, <1>4, <2>1 DEF ActOn, CallTypes
  <2>3. m \in work'.signed
    BY <1>1, ZenonT(60)
  <2> QED BY <1>2, <1>3, <1>4, <2>1, <2>2, <2>3, OwnGrows, ZenonT(60) DEF Own, RevokedByOwner
<1> HIDE DEF m, new, d
<1>9. /\ device' \in [DeviceIds -> DeviceRow]
      /\ \A e \in DeviceIds : device'[e] = IF e = d THEN new ELSE device[e]
  BY <1>2, <1>4, <1>6, <1>7, OfTables, RowTypes, ZenonT(60)
<1>10. Grows(device, device')
  BY <1>6, <1>9, RowTypes, ZenonT(60) DEF Grows, RowStays, SameCredential
<1>11. \A q \in Procs : \A e \in DeviceIds : Written(tx[q].device[e]) => device'[e] = device[e]
  BY <1>7, <1>9, ZenonT(60) DEF UpdateWaitsFor
<1>12. DevicesOK(device')
  BY <1>4, <1>6, <1>9, OfTables, ZenonT(60) DEF DevicesOK
<1>13. OffOK'
  <2> SUFFICES ASSUME NEW e \in DeviceIds, Written(device'[e]),
                      device'[e].status # "ACTIVE", e \notin Own'
               PROVE  Other(device'[e].user, e, bind)
    BY DEF OffOK
  <2>1. e # d /\ e \notin Own
    BY <1>8, ZenonT(60)
  <2>2. device'[e] = device[e]
    BY <1>9, <2>1, ZenonT(60)
  <2> QED BY <2>1, <2>2, ZenonT(60) DEF IInv, OffOK
<1> QED BY <1>4, <1>9, <1>10, <1>11, <1>12, <1>13, TablesMove, ZenonT(60)

LEMMA AuthKeeps ==
  ASSUME IInv, AuthStep
  PROVE  RInv' /\ OffOK' /\ Grows(device, device')
<1>1. UNCHANGED <<work, bind, policy, tx, pc, loc, granted>>
  BY DEF AuthStep
<1>2. PICK c \in Callers :
        (\E m \in work.signed : Deliver(c, m)) \/ Serve(c) \/ Fail(c)
  BY DEF AuthStep
<1>3. RInv /\ OffOK /\ CallTypes
  BY DEF IInv
<1>4. CASE RevokeDevice(c)
  BY <1>1, <1>4, RevokeKeeps, ZenonT(60)
<1>5. CASE ~RevokeDevice(c)
  <2>1. UNCHANGED device
    BY <1>2, <1>5, Zenon DEF Deliver, Serve, Fail, LookUpDevice, VerifySignature,
         ListUserDevices, FindUserDevice, FindSigningKey, DeactivateSigningKeys,
         CreateSigningKey
  <2>2. effects' = effects \/ (ActOn(c) /\ ~At(c, "idle"))
    BY <1>2, <1>5, Zenon DEF Deliver, Serve, Fail, LookUpDevice, VerifySignature,
         ListUserDevices, FindUserDevice, FindSigningKey, DeactivateSigningKeys,
         CreateSigningKey, IssueToken, At
  <2>3. Own \subseteq Own'
    BY <1>1, <1>3, <2>2, OwnGrows, ZenonT(60)
  <2>4. DevicesOK(device')
    BY <1>3, <2>1, OfTables, ZenonT(60)
  <2>5. Moves /\ Grows(device, device')
    BY <1>1, <2>1, SameMoves, ZenonT(60) DEF Moves
  <2>8. OffOK'
    BY <1>3, <2>3, <2>5, OffKeeps, ZenonT(60)
  <2>6. device' \in [DeviceIds -> DeviceRow]
    BY <1>3, <2>1, OfTables, ZenonT(60)
  <2>7. \A q \in Procs : \A d \in DeviceIds :
          Written(tx[q].device[d]) => device'[d] = device[d]
    BY <2>1
  <2> QED BY <1>1, <1>3, <2>4, <2>5, <2>6, <2>7, <2>8, TablesMove, ZenonT(60)
<1> QED BY <1>4, <1>5

-----------------------------------------------------------------------------
(* The invariant.                                                          *)

LEMMA InitRegistry ==
  ASSUME AuthInit
  PROVE  IInv
<1>1. work \in Workloads /\ work.enrolled \subseteq
        [user : Registered, device : DeviceIds, jkt : Jkts, jwk : Jwks]
  BY RegistryAssumption, ZenonT(60) DEF AuthInit, Init
<1>2. \A d \in DeviceIds : device[d] = NoDevice
                           \/ (device[d] \in RealRow /\ device[d].status = "ACTIVE")
  <2> SUFFICES ASSUME NEW d \in DeviceIds, \E c \in work.enrolled : c.device = d
               PROVE  device[d] \in RealRow /\ device[d].status = "ACTIVE"
    BY DEF AuthInit, Init
  <2> DEFINE e == CHOOSE c \in work.enrolled : c.device = d
  <2>1. e \in work.enrolled
    OBVIOUS
  <2>2. device[d] = NewDevice(e)
    BY DEF AuthInit, Init
  <2> HIDE DEF e
  <2> QED BY <1>1, <2>1, <2>2, RegistryAssumption, SMTT(30) DEF NewDevice, RealRow
<1>3. device \in [DeviceIds -> DeviceRow]
  <2>1. \A d \in DeviceIds : device[d] \in DeviceRow
    BY <1>2, RowTypes, ZenonT(60)
  <2>2. device = [d \in DeviceIds |-> device[d]]
    BY DEF AuthInit, Init
  <2> QED BY <2>1, <2>2, ZenonT(60)
<1>4. /\ bind \in [Keys -> BindBody \cup {NoBind}] /\ \A k \in Keys : bind[k] = NoBind
      /\ policy \in [Keys -> PolicyRow \cup {NoPolicy}] /\ \A k \in Keys : policy[k] = NoPolicy
      /\ granted = {}
  BY DEF AuthInit, Init
<1>5. /\ pc \in [Procs -> Labels] /\ loc \in [Procs -> Locals] /\ tx \in [Procs -> Writes]
      /\ \A p \in Procs : pc[p] = "idle" /\ loc[p] = NoLocals /\ tx[p] = NoWrites
  <2>1. "idle" \in Labels
    BY DEF Labels
  <2> QED BY <2>1, NoneTypes, ZenonT(60) DEF AuthInit, Init
<1>6. TypeOK
  BY <1>1, <1>3, <1>4, <1>5, ZenonT(60) DEF TypeOK
<1>7. \A p \in Procs : ProcOK(pc[p], loc[p], tx[p], device, bind, policy)
  BY <1>5, IdleOK, ZenonT(60)
<1>8. \A p, q \in Procs : p # q => Apart(tx[p], tx[q])
  BY <1>5, NothingWritten, ZenonT(60)
<1>9. DevicesOK(device) /\ OffOK
  BY <1>2, RowTypes, ZenonT(60) DEF DevicesOK, OffOK
<1>10. BindsOK(bind, device) /\ PoliciesOK(policy, device, bind)
  BY <1>4 DEF BindsOK, PoliciesOK
<1>11. CallInv
  <2>1. seen \in [Callers -> DeviceRow] /\ \A c \in Callers : call[c] = NoCall
    BY RowTypes, ZenonT(60) DEF AuthInit
  <2>2. \A c \in Callers : CallerOK(NoCall, seen[c], device)
    BY ZenonT(60) DEF NoCall, CallerOK
  <2> QED BY <2>1, <2>2, ZenonT(60) DEF CallInv
<1>12. RInv
  BY <1>4, <1>6, <1>7, <1>8, <1>9, <1>10, ZenonT(60) DEF RInv
<1> QED BY <1>9, <1>11, <1>12, AuthInitInv, ZenonT(60) DEF IInv

\* Nothing happens.
LEMMA StutterKeeps ==
  ASSUME IInv, UNCHANGED allVars
  PROVE  IInv' /\ Grows(device, device')
<1>1. UNCHANGED <<work, device, bind, policy, tx, pc, loc, granted, seen, call, effects>>
  BY DEF allVars
<1>2. Own' = Own
  BY <1>1, ZenonT(60) DEF Own, RevokedByOwner
<1>3. RInv' /\ OffOK'
  BY <1>1, <1>2, ZenonT(60) DEF IInv, RInv, TypeOK, OffOK
<1>4. CallInv'
  BY <1>1, ZenonT(60) DEF IInv, CallInv
<1>5. CallTypes'
  BY CallTypesNext, ZenonT(60) DEF IInv
<1>6. Grows(device, device')
  BY <1>1, SameMoves, ZenonT(60) DEF Moves
<1> QED BY <1>3, <1>4, <1>5, <1>6, ZenonT(60) DEF IInv

LEMMA DevicesCountable == Countable
BY RegistryAssumption, FS_Subset, FS_CardinalityType, ZenonT(60) DEF Countable

\* Every step keeps the invariant, and the rows of the device table.
LEMMA InductiveRegistry ==
  ASSUME IInv, [Next]_allVars
  PROVE  IInv' /\ Grows(device, device')
<1>1. CallTypes'
  BY CallTypesNext DEF IInv
<1>2. CASE UNCHANGED allVars
  BY <1>2, StutterKeeps, ZenonT(60)
<1>3. CASE RegistryStep /\ UNCHANGED <<work, authVars>>
  <2>1. RInv' /\ Moves
    BY <1>3, RegistryKeeps, DevicesCountable, ZenonT(60) DEF IInv
  <2>2. UNCHANGED <<work, call, seen, effects>>
    BY <1>3, ZenonT(60) DEF authVars
  <2>3. Grows(device, device')
    BY <2>1, ZenonT(60) DEF Moves
  <2>4. CallInv'
    BY <2>2, <2>3, CallerCarries, ZenonT(60) DEF IInv, CallInv
  <2>5. Own' = Own
    BY <2>2 DEF Own, RevokedByOwner
  <2>6. OffOK'
    BY <2>1, <2>5, OffKeeps, ZenonT(60) DEF IInv
  <2> QED BY <1>1, <2>1, <2>3, <2>4, <2>6, ZenonT(60) DEF IInv
<1>4. CASE AuthStep
  <2>1. RInv' /\ OffOK' /\ Grows(device, device')
    BY <1>4, AuthKeeps, ZenonT(60)
  <2>2. CallInv'
    BY <1>4, <2>1, CallInvKeeps, ZenonT(60)
  <2> QED BY <1>1, <2>1, <2>2, ZenonT(60) DEF IInv
<1> QED BY <1>2, <1>3, <1>4, ZenonT(60) DEF Next

LEMMA RegistryInvariant == Spec => []IInv
<1>1. AuthInit => IInv
  BY InitRegistry
<1>2. IInv /\ [Next]_allVars => IInv'
  BY InductiveRegistry
<1> QED BY <1>1, <1>2, PTL DEF Spec

-----------------------------------------------------------------------------
\* Type correctness: whatever requests clients make and however they
\* interleave, the tables, the transactions, the tasks and the histories keep
\* their types; a revoke changes a row that is there, so that every status is
\* that of a device.
THEOREM RegistryTypes == Spec => []AuthTypeOK
<1>1. AuthInit => SharedTypes
  BY AuthAssumption DEF AuthInit, SharedTypes
<1>2. CallTypes /\ SharedTypes /\ [Next]_allVars => SharedTypes'
  BY SharedTypesNext
<1>3. IInv /\ SharedTypes => AuthTypeOK
  BY TypesOK
<1>4. IInv => CallTypes
  BY DEF IInv
<1> QED BY <1>1, <1>2, <1>3, <1>4, RegistryInvariant, PTL DEF Spec

\* Whatever collides on the device id or the thumbprint, a row that
\* bind_recovery_device records names a device row of its user with its key, and
\* the record an enrollment or a bind is answered with is one of the user who
\* asked, then and ever after.
THEOREM RecordsNameDevices == Spec => []RecordsNameOwnDevices
<1>1. IInv => RecordsNameOwnDevices
  BY RecordsOK, ZenonT(60) DEF IInv
<1> QED BY <1>1, RegistryInvariant, PTL

\* A binding operation of bind_recovery_device, and the policy of a case of
\* apply_old_device_policy whose key is not another case's, are granted for one
\* payload only, whatever the number of requests, keys and processes.
THEOREM GrantedForOnePayload == Spec => []UsedOnce
<1>1. IInv => UsedOnce
  BY UsedOnceOK, ZenonT(60) DEF IInv
<1> QED BY <1>1, RegistryInvariant, PTL

\* A device that a recorded policy lists as affected is not active: the UPDATEs
\* of apply_old_device_policy are kept or lost with its record, and nothing
\* activates the device afterwards.
THEOREM PoliciesTakeEffect == Spec => []PolicyTookEffect
<1>1. IInv => PolicyTookEffect
  BY PolicyEffectOK DEF IInv
<1> QED BY <1>1, RegistryInvariant, PTL

\* The device that a recorded policy of apply_old_device_policy exempts is
\* active, until its owner revokes it or recovers with yet another one.
THEOREM RecoveryLeavesADevice == Spec => []RecoveredDeviceStays
<1>1. IInv => RecoveredDeviceStays
  BY ExemptedStays, ZenonT(60)
<1> QED BY <1>1, RegistryInvariant, PTL

\* A request that arrives when its device is revoked or quarantined does not get
\* past authenticate_device, whatever becomes of the registry in between.
THEOREM RevokedAreRefused == Spec => []RevokedDevicesAreRefused
<1>1. IInv => RevokedDevicesAreRefused
  BY RefusedOK
<1> QED BY <1>1, RegistryInvariant, PTL

\* No step of a request, a policy or a revoke changes the owner or the key of a
\* row of device, and none makes a device that was turned off active again.
THEOREM CredentialsAreKept == Spec => CredentialsStay
<1> DEFINE Kept == \A d \in DeviceIds : Written(device[d]) =>
       /\ device'[d].user = device[d].user /\ device'[d].jkt = device[d].jkt
       /\ device'[d].jwk = device[d].jwk
       /\ device[d].status # "ACTIVE" => device'[d].status # "ACTIVE"
<1>1. IInv /\ [Next]_allVars => [Kept]_vars
  <2> SUFFICES ASSUME IInv, [Next]_allVars PROVE Kept
    OBVIOUS
  <2>1. Grows(device, device')
    BY InductiveRegistry
  <2> QED BY <2>1, ZenonT(60) DEF Grows, RowStays, SameCredential
<1> HIDE DEF Kept
<1>2. Spec => [][Kept]_vars
  BY <1>1, RegistryInvariant, PTL DEF Spec
<1> QED BY <1>2, ZenonT(60) DEF CredentialsStay, Kept

=============================================================================
