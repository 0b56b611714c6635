----------------------------- MODULE DeviceAuth -----------------------------
(***************************************************************************)
(* The device-signed part of the auth API on top of the registry: listing  *)
(* and revoking devices, and exchanging a signature for a token.  A        *)
(* request is looked up by its device, its nonce is recorded in Redis, its *)
(* signature is checked with the key of the row, and only then is it acted *)
(* on; the statements of several such requests and of the registry's own   *)
(* interleave.                                                             *)
(*                                                                         *)
(* A signed request may be delivered any number of times.  Signatures are  *)
(* those of the device they name, and all is within the time a nonce is    *)
(* kept.                                                                   *)
(***************************************************************************)
EXTENDS DeviceRegistry, FiniteSetsExt

CONSTANTS
  Callers,   \* tasks that serve signed requests
  Nonces,
  MaxKids    \* bound: signing keys ever generated, 1 .. MaxKids in order

Signed == [op : {"list", "revoke", "token"}, device : DeviceIds, jwk : Jwks,
           nonce : Nonces, target : DeviceIds]

ASSUME AuthAssumption ==
  /\ MaxKids \in Nat
  /\ \A w \in Workloads : w.signed \subseteq Signed /\ w.callers \subseteq Callers

VARIABLES
  nonces,   \* the replay keys in Redis
  call,     \* what each task is at
  seen,     \* the device row each task has read
  signing,  \* the rows of signing_key: is_active, by kid
  tokens,   \* history: the kid of each token issued, and whether no other
            \* request was generating a key when this one was read or written
  effects   \* history: how often each signed request was acted on, 2 for more

authVars == <<nonces, call, seen, signing, tokens, effects>>
allVars == <<work, device, bind, policy, tx, pc, loc, granted,
             nonces, call, seen, signing, tokens, effects>>

NoRequest == [op |-> "none"]

NoCall == [at |-> "idle", req |-> NoRequest, late |-> FALSE]

Stages == {"idle", "lookup", "verify", "list", "find_device", "update_status",
           "find_key", "deactivate", "create_key"}

AuthTypeOK ==
  /\ TypeOK
  /\ nonces \subseteq DeviceIds \X Nonces
  /\ call \in [Callers -> [at : Stages, req : Signed \cup {NoRequest},
                           late : BOOLEAN]]
  /\ seen \in [Callers -> DeviceRow]
  /\ \E n \in 0 .. MaxKids : signing \in [1 .. n -> BOOLEAN]
  /\ tokens \subseteq [kid : DOMAIN signing, alone : BOOLEAN]
  /\ effects \in [work.signed -> 0 .. 2]

AuthInit ==
  /\ Init
  /\ nonces = {} /\ signing = <<>> /\ tokens = {}
  /\ call = [c \in Callers |-> NoCall] /\ seen = [c \in Callers |-> NoDevice]
  /\ effects = [m \in work.signed |-> 0]

At(c, stage) == call[c].at = stage
Move(c, stage, row) == /\ call' = [call EXCEPT ![c].at = stage]
                       /\ seen' = [seen EXCEPT ![c] = row]
End(c) == /\ call' = [call EXCEPT ![c] = NoCall]
          /\ seen' = [seen EXCEPT ![c] = NoDevice]
ActOn(c) == effects' = [effects EXCEPT ![call[c].req] = IF @ = 0 THEN 1 ELSE 2]

\* history: a request is late if its device has been revoked or quarantined.
Deliver(c, m) ==
  /\ At(c, "idle") /\ c \in work.callers
  /\ call' = [call EXCEPT ![c] =
                [at |-> "lookup", req |-> m,
                 late |-> device[m.device].status \notin {"ABSENT", "ACTIVE"}]]
  /\ UNCHANGED <<nonces, seen, signing, tokens, effects, device>>

\* lookup_device, by the device id alone.
RowOf(m) == device[m.device]

\* Faulty variant: any row will do.
LookUpAnyDevice(c) ==
  /\ At(c, "lookup")
  /\ LET row == RowOf(call[c].req)
     IN  IF Written(row)
         THEN Move(c, "verify", row) ELSE End(c)
  /\ UNCHANGED <<nonces, signing, tokens, effects, device>>

\* authenticate_device: there must be a row, and it must be active.
LookUpDevice(c) ==
  /\ At(c, "lookup")
  /\ LET row == RowOf(call[c].req)
     IN  IF row.status = "ACTIVE"
         THEN Move(c, "verify", row) ELSE End(c)
  /\ UNCHANGED <<nonces, signing, tokens, effects, device>>

\* validate_public_key_match
PublicKeyMatches(c) == call[c].req.jwk = seen[c].jwk

Handler(op) == CASE op = "list" -> "list" [] op = "revoke" -> "find_device"
                 [] op = "token" -> "find_key"

\* Faulty variant: the nonce is looked for and not recorded.
CheckNonceOnly(c) ==
  LET m == call[c].req
  IN  <<m.device, m.nonce>> \notin nonces /\ UNCHANGED nonces

\* SET replay:device:nonce NX, true if it was not there.
CheckAndRecord(c) ==
  LET m == call[c].req
  IN  /\ <<m.device, m.nonce>> \notin nonces
      /\ nonces' = nonces \cup {<<m.device, m.nonce>>}

\* verify_signature_with_jwk: the nonce is used up before the key is compared.
VerifySignature(c) ==
  /\ At(c, "verify")
  /\ \/ /\ CheckAndRecord(c)
        /\ IF PublicKeyMatches(c) THEN Move(c, Handler(call[c].req.op), seen[c]) ELSE End(c)
     \/ /\ <<call[c].req.device, call[c].req.nonce>> \in nonces
        /\ End(c) /\ UNCHANGED nonces
  /\ UNCHANGED <<signing, tokens, effects, device>>

ListUserDevices(c) ==
  /\ At(c, "list")
  /\ End(c) /\ ActOn(c)
  /\ UNCHANGED <<nonces, signing, tokens, device>>

\* get_user_device: a device of the owner of the row that was looked up.
FindUserDevice(c) ==
  /\ At(c, "find_device")
  /\ IF device[call[c].req.target].user = seen[c].user
     THEN Move(c, "update_status", seen[c]) ELSE End(c)
  /\ UNCHANGED <<nonces, signing, tokens, effects, device>>

UpdateDeviceStatus(d, status) ==
  /\ UpdateWaitsFor(d) = {}
  /\ device' = [device EXCEPT ![d].status = status]

RevokeDevice(c) ==
  /\ At(c, "update_status")
  /\ UpdateDeviceStatus(call[c].req.target, "REVOKED")
  /\ End(c) /\ ActOn(c)
  /\ UNCHANGED <<nonces, signing, tokens>>

-----------------------------------------------------------------------------
(* ensure_active_signing_key.                                              *)

Active == {k \in DOMAIN signing : signing[k]}

\* What GET /jwks serves.
JwksServed == Active

\* get_active_signing_key orders by created_at.
NewestActive == Max(Active)

\* Another request has found no key and has not put its own in place.
OthersGenerating(c) ==
  \E o \in Callers \ {c} : call[o].at \in {"deactivate", "create_key"}

IssueToken(c, kid) ==
  /\ tokens' = tokens \cup {[kid |-> kid, alone |-> ~OthersGenerating(c)]}
  /\ End(c) /\ ActOn(c)

\* Faulty variant: every request makes a key.
FindNoSigningKey(c) ==
  /\ At(c, "find_key")
  /\ Move(c, "deactivate", seen[c]) /\ UNCHANGED <<tokens, effects>>
  /\ UNCHANGED <<nonces, signing, device>>

FindSigningKey(c) ==
  /\ At(c, "find_key")
  /\ IF Active # {} THEN IssueToken(c, NewestActive)
     ELSE Move(c, "deactivate", seen[c]) /\ UNCHANGED <<tokens, effects>>
  /\ UNCHANGED <<nonces, signing, device>>

DeactivateSigningKeys(c) ==
  /\ At(c, "deactivate")
  /\ signing' = [k \in DOMAIN signing |-> FALSE]
  /\ Move(c, "create_key", seen[c])
  /\ UNCHANGED <<nonces, tokens, effects, device>>

CreateSigningKey(c) ==
  /\ At(c, "create_key") /\ Len(signing) < MaxKids
  /\ signing' = Append(signing, TRUE)
  /\ IssueToken(c, Len(signing) + 1)
  /\ UNCHANGED <<nonces, device>>

\* A call to Redis or Postgres fails, and with it the request.
Fail(c) ==
  /\ ~At(c, "idle") /\ c \in Faulty /\ End(c)
  /\ UNCHANGED <<nonces, signing, tokens, effects, device>>

-----------------------------------------------------------------------------
Serve(c) ==
  \/ LookUpDevice(c) \/ VerifySignature(c) \/ ListUserDevices(c)
  \/ FindUserDevice(c) \/ RevokeDevice(c)
  \/ FindSigningKey(c) \/ DeactivateSigningKeys(c) \/ CreateSigningKey(c)

AuthStep ==
  /\ \E c \in Callers :
       (\E m \in work.signed : Deliver(c, m)) \/ Serve(c) \/ Fail(c)
  /\ UNCHANGED <<work, bind, policy, tx, pc, loc, granted>>

Next ==
  \/ RegistryStep /\ UNCHANGED <<work, authVars>>
  \/ AuthStep

Spec == AuthInit /\ [][Next]_allVars

\* A request that has started goes on, Postgres looks for deadlocks, and those
\* who wait for a row are queued: a process that is let go again and again, and
\* then held up by a newcomer, has its turn.
FairSpec ==
  /\ Spec
  /\ \A p \in Procs :
       /\ SF_allVars(Continue(p) /\ UNCHANGED <<work, authVars>>)
       /\ WF_allVars(DeadlockVictim(p) /\ UNCHANGED <<work, authVars>>)

-----------------------------------------------------------------------------
\* The owner of d revoked it through revoke_device.
RevokedByOwner(d) ==
  \E m \in work.signed : m.op = "revoke" /\ m.target = d /\ effects[m] > 0

\* Registry state matches the stored records of apply_old_device_policy: a
\* device that is not active is affected by a recorded policy, unless its
\* owner revoked it.
PolicyRecorded ==
  \A d \in DeviceIds :
    device[d].status \notin {"ABSENT", "ACTIVE"} /\ ~RevokedByOwner(d) =>
      \E k \in Keys : policy[k] # NoPolicy /\ d \in policy[k].affected

\* The user has recovered with another device than d.
RecoveredOther(user, d) ==
  \E k \in Keys : bind[k] # NoBind /\ bind[k].user = user /\ bind[k].device # d

\* A recovery leaves its user a device: the one that a recorded policy of
\* apply_old_device_policy exempts is active until its owner revokes it or
\* recovers with yet another one.
RecoveredDeviceStays ==
  \A k \in Keys :
    policy[k] # NoPolicy /\ ~RevokedByOwner(policy[k].except)
        /\ ~RecoveredOther(policy[k].user, policy[k].except) =>
      device[policy[k].except].status = "ACTIVE"

\* However often a signed request is delivered, and whichever tasks serve the
\* copies at the same time, check_and_record lets it be acted on once.
SignedRequestsActOnce == \A m \in work.signed : effects[m] <= 1

\* A request that arrives when its device has been revoked by its owner or
\* turned off by apply_old_device_policy never passes authenticate_device.
RevokedDevicesAreRefused ==
  \A c \in Callers : call[c].late => call[c].at \in {"idle", "lookup"}

\* A token that exchange_token issued while no other request was generating a
\* key can be verified with what jwks serves, ever after: a key that was in
\* place is not replaced by requests that come later.
TokensStayVerifiable == \A t \in tokens : t.alone => t.kid \in JwksServed
=============================================================================
