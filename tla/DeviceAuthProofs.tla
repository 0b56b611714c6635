-------------------------- MODULE DeviceAuthProofs --------------------------
(***************************************************************************)
(* Two promises of the device-signed API, for any number of devices, tasks *)
(* and deliveries: a signed request is acted on once, and a token whose    *)
(* key was in place stays verifiable.  Both are about what the handlers do *)
(* between their statements; the registry's own steps leave it alone.      *)
(* The last part is about what they know of the registry while its rows    *)
(* change.                                                                 *)
(***************************************************************************)
EXTENDS DeviceAuth, DeviceRegistryProofs, TLAPS, WellFoundedInduction

\* The tasks whose request has passed verify_signature_with_jwk.
Accepted == {"list", "find_device", "update_status", "find_key",
             "deactivate", "create_key"}

Generating == {"deactivate", "create_key"}

ReplayKey(m) == <<m.device, m.nonce>>

\* The types of what the tasks hold and share.
CallTypes ==
  /\ work \in Workloads
  /\ call \in [Callers -> [at : Stages, req : Signed \cup {NoRequest},
                           late : BOOLEAN]]
  /\ \A c \in Callers : ~At(c, "idle") => call[c].req \in work.signed
  /\ signing \in Seq(BOOLEAN)
  /\ effects \in [work.signed -> 0 .. 2]

\* A request under way has its nonce recorded and has not been acted on, and
\* no other task has one with the same nonce; a request that was acted on has
\* its nonce recorded, so that no copy of it is accepted again.
OnceInv ==
  /\ \A c \in Callers : call[c].at \in Accepted =>
       ReplayKey(call[c].req) \in nonces /\ effects[call[c].req] = 0
  /\ \A c, d \in Callers :
       /\ call[c].at \in Accepted /\ call[d].at \in Accepted
       /\ ReplayKey(call[c].req) = ReplayKey(call[d].req)
       => c = d
  /\ \A m \in work.signed : effects[m] # 0 =>
       ReplayKey(m) \in nonces /\ effects[m] = 1

\* Once a token was issued with nobody generating, nobody generates again: its
\* key is active, and whoever looks finds an active key.
KeyInv ==
  \A t \in tokens : t.alone =>
    /\ t.kid \in Active
    /\ \A c \in Callers : call[c].at \notin Generating

-----------------------------------------------------------------------------
\* NewestActive is one of the active keys.
LEMMA MaxIsMember ==
  ASSUME NEW n \in Nat, NEW S, S \subseteq 1 .. n, S # {}
  PROVE  Max(S) \in S
<1> DEFINE T == {n - k : k \in S}
           R == {p \in Nat \X Nat : p[1] < p[2]}
<1>1. IsWellFoundedOn(R, Nat)
  BY NatLessThanWellFounded DEF OpToRel
<1>2. T \subseteq Nat
  OBVIOUS
<1>3. T # {}
  <2>1. PICK k \in S : TRUE
    BY Zenon
  <2>2. n - k \in T
    OBVIOUS
  <2> HIDE DEF T
  <2> QED BY <2>2
<1>4. PICK x \in T : \A y \in T : ~(<<y, x>> \in R)
  <2> HIDE DEF T, R
  <2> QED BY <1>1, <1>2, <1>3, WFMin, Zenon
<1>5. PICK k \in S : x = n - k
  OBVIOUS
<1>6. \A j \in S : k >= j
  <2> TAKE j \in S
  <2>1. n - j \in T
    OBVIOUS
  <2>2. ~(n - j < n - k)
    BY <2>1, <1>4, <1>5, <1>2, Zenon
  <2> HIDE DEF T, R
  <2> QED BY <2>2
<1> HIDE DEF T, R
<1> QED BY <1>6, Zenon DEF Max

\* A function on 1 .. n is a sequence.
LEMMA IsASeq ==
  ASSUME NEW S, NEW n \in Nat, NEW f \in [1 .. n -> S]
  PROVE  f \in Seq(S)
OBVIOUS

\* The system starts with nothing recorded, issued or under way.
LEMMA AuthInitInv == AuthInit => CallTypes /\ OnceInv /\ KeyInv
<1> SUFFICES ASSUME AuthInit PROVE CallTypes /\ OnceInv /\ KeyInv
  OBVIOUS
<1>1. CallTypes
  <2>1. NoCall \in [at : Stages, req : Signed \cup {NoRequest}, late : BOOLEAN]
    BY DEF NoCall, Stages
  <2> QED BY <2>1 DEF AuthInit, Init, CallTypes, At, NoCall
<1>2. OnceInv
  BY DEF AuthInit, OnceInv, NoCall, Accepted
<1>3. KeyInv
  BY DEF AuthInit, KeyInv
<1> QED BY <1>1, <1>2, <1>3

\* Every step keeps the types.
LEMMA CallTypesNext == CallTypes /\ [Next]_allVars => CallTypes'
<1> SUFFICES ASSUME CallTypes, [Next]_allVars PROVE CallTypes'
  OBVIOUS
<1> USE DEF CallTypes
<1>1. CASE UNCHANGED <<work, authVars>>
  BY <1>1 DEF authVars, At
<1>2. CASE AuthStep
  <2> DEFINE CallRecord == [at : Stages, req : Signed \cup {NoRequest}, late : BOOLEAN]
  <2>1. UNCHANGED work
    BY <1>2 DEF AuthStep
  <2>2. PICK c \in Callers :
          (\E m \in work.signed : Deliver(c, m)) \/ Serve(c) \/ Fail(c)
    BY <1>2 DEF AuthStep
  <2>3. work.signed \subseteq Signed
    BY AuthAssumption
  <2>4. PICK r \in CallRecord :
          /\ call' = [call EXCEPT ![c] = r]
          /\ r.at # "idle" => r.req \in work.signed
    <3>1. CASE \E m \in work.signed : Deliver(c, m)
      <4>1. PICK m \in work.signed : Deliver(c, m)
        BY <3>1
      <4>2. [at |-> "lookup", req |-> m,
             late |-> device[m.device].status \notin {"ABSENT", "ACTIVE"}] \in CallRecord
        BY <2>3 DEF Stages
      <4> QED BY <4>1, <4>2, Zenon DEF Deliver
    <3>2. CASE End(c)
      <4>1. NoCall \in CallRecord /\ NoCall.at = "idle"
        BY DEF NoCall, Stages
      <4> HIDE DEF CallRecord
      <4> QED BY <3>2, <4>1, Zenon DEF End
    <3>3. CASE \E s \in Stages : call' = [call EXCEPT ![c].at = s] /\ ~At(c, "idle")
      <4>1. PICK s \in Stages : call' = [call EXCEPT ![c].at = s] /\ ~At(c, "idle")
        BY <3>3, ZenonT(60)
      <4>2. [call[c] EXCEPT !.at = s] \in CallRecord
        OBVIOUS
      <4>3. [call[c] EXCEPT !.at = s].req \in work.signed
        BY <4>1 DEF At
      <4>4. call' = [call EXCEPT ![c] = [call[c] EXCEPT !.at = s]]
        BY <4>1
      <4> HIDE DEF CallRecord
      <4> QED BY <4>2, <4>3, <4>4, Zenon
    <3>4. ASSUME Serve(c)
          PROVE  \/ End(c)
                 \/ \E s \in Stages : /\ call' = [call EXCEPT ![c].at = s]
                                      /\ ~At(c, "idle")
      <4>1. Handler(call[c].req.op) \in Stages \/ ~At(c, "verify")
        <5>1. ASSUME At(c, "verify") PROVE call[c].req \in Signed
          BY <2>3, <5>1 DEF At
        <5> QED BY <5>1 DEF Handler, Stages, Signed
      <4> QED
        BY <3>4, <4>1, Zenon
        DEF Serve, LookUpDevice, VerifySignature, ListUserDevices, FindUserDevice,
            RevokeDevice, FindSigningKey, DeactivateSigningKeys, CreateSigningKey,
            IssueToken, Move, At, Stages
    <3> QED BY <2>2, <3>1, <3>2, <3>3, <3>4 DEF Fail
  <2>5. call' \in [Callers -> CallRecord]
    BY <2>4
  <2>6. \A o \in Callers : call'[o].at # "idle" => call'[o].req \in work.signed
    <3> HIDE DEF CallRecord
    <3> QED BY <2>4 DEF At
  <2>7. signing' \in Seq(BOOLEAN)
    <3>1. [k \in DOMAIN signing |-> FALSE] \in Seq(BOOLEAN)
      <4>1. DOMAIN signing = 1 .. Len(signing) /\ Len(signing) \in Nat
        OBVIOUS
      <4> QED BY <4>1, IsASeq
    <3>2. Append(signing, TRUE) \in Seq(BOOLEAN)
      OBVIOUS
    <3>3. \/ signing' = signing
          \/ signing' = [k \in DOMAIN signing |-> FALSE]
          \/ signing' = Append(signing, TRUE)
      BY <2>2, Zenon
      DEF Deliver, Serve, Fail, LookUpDevice, VerifySignature, ListUserDevices,
          FindUserDevice, RevokeDevice, FindSigningKey, DeactivateSigningKeys,
          CreateSigningKey
    <3> QED BY <3>1, <3>2, <3>3, Zenon
  <2>8. effects' \in [work.signed -> 0 .. 2]
    <3>1. effects' = effects \/ ActOn(c)
      BY <2>2, ZenonT(60)
      DEF Deliver, Serve, Fail, LookUpDevice, VerifySignature, ListUserDevices,
          FindUserDevice, RevokeDevice, FindSigningKey, DeactivateSigningKeys,
          CreateSigningKey, IssueToken
    <3> QED BY <3>1 DEF ActOn
  <2> QED BY <2>1, <2>5, <2>6, <2>7, <2>8 DEF At
<1> QED BY <1>1, <1>2 DEF Next, allVars, authVars

\* What a step of a task may do to the task, the nonces and the history: the
\* task ends or is not accepted yet, and if it acts it had been accepted; it is
\* accepted, with a nonce that was not recorded before; or it goes on.
LEMMA TaskSteps ==
  ASSUME CallTypes, NEW c \in Callers,
         (\E m \in work.signed : Deliver(c, m)) \/ Serve(c) \/ Fail(c)
  PROVE  /\ \A o \in Callers \ {c} : call'[o] = call[o]
         /\ \/ /\ call'[c].at \notin Accepted
               /\ nonces \subseteq nonces'
               /\ \/ effects' = effects
                  \/ ActOn(c) /\ call[c].at \in Accepted
            \/ /\ ReplayKey(call[c].req) \notin nonces
               /\ nonces' = nonces \cup {ReplayKey(call[c].req)}
               /\ call[c].at = "verify" /\ call'[c].req = call[c].req
               /\ UNCHANGED effects
            \/ /\ call[c].at \in Accepted /\ call'[c].req = call[c].req
               /\ UNCHANGED <<nonces, effects>>
<1> USE DEF CallTypes, At
<1> DEFINE Goal ==
      /\ \A o \in Callers \ {c} : call'[o] = call[o]
      /\ \/ /\ call'[c].at \notin Accepted
            /\ nonces \subseteq nonces'
            /\ \/ effects' = effects
               \/ ActOn(c) /\ call[c].at \in Accepted
         \/ /\ ReplayKey(call[c].req) \notin nonces
            /\ nonces' = nonces \cup {ReplayKey(call[c].req)}
            /\ call[c].at = "verify" /\ call'[c].req = call[c].req
            /\ UNCHANGED effects
         \/ /\ call[c].at \in Accepted /\ call'[c].req = call[c].req
            /\ UNCHANGED <<nonces, effects>>
<1>1. ASSUME End(c)
      PROVE  /\ \A o \in Callers \ {c} : call'[o] = call[o]
             /\ call'[c].at \notin Accepted
  BY <1>1 DEF End, NoCall, Accepted
<1>2. ASSUME NEW s, NEW row, Move(c, s, row)
      PROVE  /\ \A o \in Callers \ {c} : call'[o] = call[o]
             /\ call'[c].at = s /\ call'[c].req = call[c].req
  BY <1>2 DEF Move
<1>3. ASSUME \/ End(c)
             \/ \E row : Move(c, "verify", row)
             \/ \E m \in work.signed : Deliver(c, m),
             nonces \subseteq nonces', effects' = effects
      PROVE  Goal
  <2>1. ASSUME NEW m \in work.signed, Deliver(c, m)
        PROVE  /\ \A o \in Callers \ {c} : call'[o] = call[o]
               /\ call'[c].at \notin Accepted
    BY <2>1 DEF Deliver, Accepted
  <2>2. /\ \A o \in Callers \ {c} : call'[o] = call[o]
        /\ call'[c].at \notin Accepted
    BY <1>1, <1>2, <1>3, <2>1 DEF Accepted
  <2> QED BY <1>3, <2>2
<1>4. CASE LookUpDevice(c)
  <2>1. End(c) \/ Move(c, "verify", RowOf(call[c].req))
    BY <1>4 DEF LookUpDevice
  <2>2. nonces' = nonces /\ effects' = effects
    BY <1>4, ZenonT(60) DEF LookUpDevice
  <2> QED BY <1>3, <2>1, <2>2
<1>5. CASE VerifySignature(c)
  <2>1. CASE CheckAndRecord(c) /\ End(c)
    <3>1. nonces \subseteq nonces' /\ effects' = effects
      BY <1>5, <2>1, ZenonT(60) DEF VerifySignature, CheckAndRecord
    <3> QED BY <1>3, <2>1, <3>1
  <2>2. CASE CheckAndRecord(c) /\ Move(c, Handler(call[c].req.op), seen[c])
    BY <1>2, <1>5, <2>2, ZenonT(60) DEF VerifySignature, CheckAndRecord, ReplayKey
  <2>3. CASE End(c) /\ UNCHANGED nonces
    <3>1. effects' = effects
      BY <1>5 DEF VerifySignature
    <3> QED BY <1>3, <2>3, <3>1, ZenonT(60)
  <2> QED BY <1>5, <2>1, <2>2, <2>3, ZenonT(60) DEF VerifySignature
<1>6. CASE ListUserDevices(c)
  BY <1>1, <1>6, ZenonT(60) DEF ListUserDevices, Accepted
<1>7. CASE FindUserDevice(c)
  BY <1>1, <1>2, <1>7, ZenonT(60) DEF FindUserDevice, Accepted
<1>8. CASE RevokeDevice(c)
  BY <1>1, <1>8, ZenonT(60) DEF RevokeDevice, Accepted
<1>9. CASE FindSigningKey(c)
  BY <1>1, <1>2, <1>9, ZenonT(60) DEF FindSigningKey, IssueToken, Accepted
<1>10. CASE DeactivateSigningKeys(c)
  BY <1>2, <1>10, ZenonT(60) DEF DeactivateSigningKeys, Accepted
<1>11. CASE CreateSigningKey(c)
  BY <1>1, <1>11, ZenonT(60) DEF CreateSigningKey, IssueToken, Accepted
<1>12. CASE Fail(c)
  <2>1. nonces' = nonces /\ effects' = effects
    BY <1>12, ZenonT(60) DEF Fail
  <2> QED BY <1>3, <1>12, <2>1, ZenonT(60) DEF Fail
<1>13. CASE \E m \in work.signed : Deliver(c, m)
  <2>1. nonces' = nonces /\ effects' = effects
    BY <1>13 DEF Deliver
  <2> QED BY <1>3, <1>13, <2>1
<1> QED
  BY <1>4, <1>5, <1>6, <1>7, <1>8, <1>9, <1>10, <1>11, <1>12, <1>13, Zenon DEF Serve

\* Every step keeps a request's acts and its nonce in agreement.
LEMMA OnceNext == CallTypes /\ OnceInv /\ [Next]_allVars => OnceInv'
<1> SUFFICES ASSUME CallTypes, OnceInv, [Next]_allVars PROVE OnceInv'
  OBVIOUS
<1>1. CASE UNCHANGED <<work, authVars>>
  BY <1>1 DEF authVars, OnceInv
<1>2. CASE AuthStep
  <2>1. UNCHANGED work
    BY <1>2 DEF AuthStep
  <2>2. PICK c \in Callers :
          (\E m \in work.signed : Deliver(c, m)) \/ Serve(c) \/ Fail(c)
    BY <1>2 DEF AuthStep
  <2>3. \A o \in Callers \ {c} : call'[o] = call[o]
    BY <2>2, TaskSteps, ZenonT(60)
  <2>4. CASE /\ call'[c].at \notin Accepted
             /\ nonces \subseteq nonces'
             /\ effects' = effects
    BY <2>1, <2>3, <2>4, ZenonT(60) DEF OnceInv
  <2>5. CASE /\ call'[c].at \notin Accepted
             /\ nonces \subseteq nonces'
             /\ ActOn(c) /\ call[c].at \in Accepted
    <3> DEFINE m == call[c].req
    <3>1. /\ m \in work.signed /\ effects[m] = 0
          /\ ReplayKey(m) \in nonces
      BY <2>5, ZenonT(60) DEF OnceInv, CallTypes, At, Accepted
    <3>2. /\ effects'[m] = 1
          /\ \A n \in work.signed \ {m} : effects'[n] = effects[n]
      BY <2>5, <3>1 DEF ActOn, CallTypes
    <3>3. \A o \in Callers \ {c} : call[o].at \in Accepted =>
            call[o].req \in work.signed \ {m}
      BY <2>5 DEF OnceInv, CallTypes, At, Accepted
    <3> HIDE DEF m
    <3> QED BY <2>1, <2>3, <2>5, <3>1, <3>2, <3>3, SMTT(30) DEF OnceInv
  <2>6. CASE /\ ReplayKey(call[c].req) \notin nonces
             /\ nonces' = nonces \cup {ReplayKey(call[c].req)}
             /\ call[c].at = "verify" /\ call'[c].req = call[c].req
             /\ UNCHANGED effects
    <3>1. call[c].req \in work.signed /\ effects[call[c].req] = 0
      BY <2>6 DEF OnceInv, CallTypes, At
    <3>2. \A o \in Callers \ {c} : call[o].at \in Accepted =>
            ReplayKey(call[o].req) # ReplayKey(call[c].req)
      BY <2>6, ZenonT(60) DEF OnceInv
    <3> QED BY <2>1, <2>3, <2>6, <3>1, <3>2 DEF OnceInv
  <2>7. CASE /\ call[c].at \in Accepted /\ call'[c].req = call[c].req
             /\ UNCHANGED <<nonces, effects>>
    <3>1. \A o \in Callers : call'[o].req = call[o].req
      BY <2>3, <2>7
    <3>2. \A o \in Callers : call'[o].at \in Accepted => call[o].at \in Accepted
      BY <2>3, <2>7
    <3> QED BY <2>1, <2>7, <3>1, <3>2, ZenonT(60) DEF OnceInv
  <2> QED BY <2>2, <2>4, <2>5, <2>6, <2>7, TaskSteps, ZenonT(60)
<1> QED BY <1>1, <1>2 DEF Next, allVars, authVars

\* A token issued with nobody else generating a key says so.
LEMMA IssuedAlone ==
  ASSUME NEW kid, NEW c, NEW t, t.alone,
         t = [kid |-> kid, alone |-> ~OthersGenerating(c)]
  PROVE  t.kid = kid /\ ~OthersGenerating(c)
<1>1. t.kid = kid /\ t.alone = ~OthersGenerating(c)
  BY ZenonT(60)
<1> QED BY <1>1, Zenon

\* Every step keeps the keys of the tokens in question active: while there is
\* such a token, a task that looks for a key finds one.
LEMMA KeyNext == CallTypes /\ KeyInv /\ [Next]_allVars => KeyInv'
<1> SUFFICES ASSUME CallTypes, KeyInv, [Next]_allVars PROVE KeyInv'
  OBVIOUS
<1>1. CASE UNCHANGED <<work, authVars>>
  BY <1>1 DEF authVars, KeyInv, Active
<1>2. CASE AuthStep
  <2>1. PICK c \in Callers :
          (\E m \in work.signed : Deliver(c, m)) \/ Serve(c) \/ Fail(c)
    BY <1>2 DEF AuthStep
  <2>2. \A o \in Callers \ {c} : call'[o] = call[o]
    BY <2>1, TaskSteps
  <2>3. ASSUME End(c) PROVE call'[c].at \notin Generating
    BY <2>3 DEF End, NoCall, CallTypes, Generating
  <2>4. ASSUME NEW s, NEW row, Move(c, s, row) PROVE call'[c].at = s
    BY <2>4 DEF Move, CallTypes
  <2>5. ASSUME UNCHANGED <<signing, tokens>>, call'[c].at \notin Generating
        PROVE  KeyInv'
    BY <2>2, <2>5 DEF KeyInv, Active
  <2>6. CASE FindSigningKey(c) /\ Active # {}
    <3>1. Active \subseteq 1 .. Len(signing) /\ Len(signing) \in Nat
      BY DEF Active, CallTypes
    <3>2. NewestActive \in Active
      BY <2>6, <3>1, MaxIsMember, Zenon DEF NewestActive
    <3>3. /\ tokens' = tokens \cup {[kid |-> NewestActive, alone |-> ~OthersGenerating(c)]}
          /\ End(c) /\ UNCHANGED signing
      BY <2>6 DEF FindSigningKey, IssueToken
    <3>4. Active' = Active
      BY <3>3 DEF Active
    <3>5. call'[c].at \notin Generating
      BY <2>3, <3>3
    <3>6. ~OthersGenerating(c) => \A o \in Callers : call'[o].at \notin Generating
      BY <2>2, <3>5, ZenonT(60) DEF OthersGenerating, Generating
    <3>7. ASSUME NEW t \in tokens', t.alone
          PROVE  /\ t.kid \in Active'
                 /\ \A o \in Callers : call'[o].at \notin Generating
      <4>1. CASE t \in tokens
        BY <2>2, <3>4, <3>5, <3>7, <4>1, ZenonT(60) DEF KeyInv
      <4>2. CASE t = [kid |-> NewestActive, alone |-> ~OthersGenerating(c)]
        BY <3>2, <3>4, <3>6, <3>7, <4>2, IssuedAlone, ZenonT(60)
      <4> QED BY <3>3, <4>1, <4>2
    <3> QED BY <3>7 DEF KeyInv
  <2>7. CASE FindSigningKey(c) /\ Active = {}
    <3>1. tokens' = tokens
      BY <2>7 DEF FindSigningKey
    <3>2. \A t \in tokens : ~t.alone
      BY <2>7 DEF KeyInv
    <3> QED BY <3>1, <3>2 DEF KeyInv
  <2>8. CASE DeactivateSigningKeys(c)
    <3>1. tokens' = tokens /\ call[c].at \in Generating
      BY <2>8 DEF DeactivateSigningKeys, At, Generating
    <3> QED BY <3>1 DEF KeyInv
  <2>9. CASE CreateSigningKey(c)
    <3> DEFINE kid == Len(signing) + 1
    <3>1. \A t \in tokens : ~t.alone
      BY <2>9 DEF CreateSigningKey, At, Generating, KeyInv
    <3>2. tokens' = tokens \cup {[kid |-> kid, alone |-> ~OthersGenerating(c)]}
      BY <2>9 DEF CreateSigningKey, IssueToken
    <3>3. kid \in Active'
      <4>1. signing' = Append(signing, TRUE) /\ signing \in Seq(BOOLEAN)
        BY <2>9 DEF CreateSigningKey, CallTypes
      <4>2. kid \in DOMAIN signing' /\ signing'[kid] = TRUE
        BY <4>1
      <4> HIDE DEF kid
      <4> QED BY <4>2 DEF Active
    <3>4. call'[c].at \notin Generating
      BY <2>3, <2>9, ZenonT(60) DEF CreateSigningKey, IssueToken
    <3>5. ~OthersGenerating(c) => \A o \in Callers : call'[o].at \notin Generating
      BY <2>2, <3>4 DEF OthersGenerating, Generating
    <3> HIDE DEF kid
    <3>6. ASSUME NEW t \in tokens', t.alone
          PROVE  /\ t.kid \in Active'
                 /\ \A o \in Callers : call'[o].at \notin Generating
      <4>1. t = [kid |-> kid, alone |-> ~OthersGenerating(c)]
        BY <3>1, <3>2, <3>6, ZenonT(60)
      <4> QED BY <3>3, <3>5, <3>6, <4>1, IssuedAlone, ZenonT(60)
    <3> QED BY <3>6 DEF KeyInv
  <2>10. ASSUME \/ \E m \in work.signed : Deliver(c, m)
                \/ LookUpDevice(c) \/ VerifySignature(c) \/ ListUserDevices(c)
                \/ FindUserDevice(c) \/ RevokeDevice(c) \/ Fail(c)
         PROVE  UNCHANGED <<signing, tokens>> /\ call'[c].at \notin Generating
    <3>1. UNCHANGED <<signing, tokens>>
      BY <2>10, SMTT(30) DEF Deliver, LookUpDevice, VerifySignature, ListUserDevices,
                   FindUserDevice, RevokeDevice, Fail
    <3>2. ASSUME NEW m \in work.signed, Deliver(c, m)
          PROVE  call'[c].at \notin Generating
      BY <3>2, ZenonT(60) DEF Deliver, CallTypes, Generating
    <3>3. ASSUME VerifySignature(c) PROVE call'[c].at \notin Generating
      <4>1. call[c].req \in Signed
        BY <3>3, AuthAssumption, ZenonT(60) DEF VerifySignature, CallTypes, At
      <4>2. Handler(call[c].req.op) \notin Generating
        BY <4>1, ZenonT(60) DEF Signed, Handler, Generating
      <4>3. End(c) \/ Move(c, Handler(call[c].req.op), seen[c])
        BY <3>3, ZenonT(60) DEF VerifySignature
      <4> QED BY <2>3, <2>4, <4>2, <4>3, ZenonT(60)
    <3>4. ASSUME LookUpDevice(c) \/ FindUserDevice(c)
          PROVE  call'[c].at \notin Generating
      BY <2>3, <2>4, <3>4 DEF LookUpDevice, FindUserDevice, Generating
    <3> QED
      BY <2>3, <2>10, <3>1, <3>2, <3>3, <3>4, ZenonT(60) DEF ListUserDevices, RevokeDevice, Fail
  <2> QED BY <2>1, <2>5, <2>6, <2>7, <2>8, <2>9, <2>10, ZenonT(60) DEF Serve
<1> QED BY <1>1, <1>2 DEF Next, allVars, authVars

-----------------------------------------------------------------------------
\* However many copies of a signed request are delivered, and to however many
\* tasks at once, the handlers behind authenticate_device and check_and_record
\* act on it at most once.
THEOREM ActsOnce == Spec => []SignedRequestsActOnce
<1>1. CallTypes /\ OnceInv => SignedRequestsActOnce
  <2> SUFFICES ASSUME CallTypes, OnceInv, NEW m \in work.signed
               PROVE  effects[m] <= 1
    BY DEF SignedRequestsActOnce
  <2>1. effects[m] = 0 \/ effects[m] = 1
    BY DEF OnceInv
  <2> QED BY <2>1
<1> QED
  BY <1>1, AuthInitInv, CallTypesNext, OnceNext, PTL DEF Spec

\* A token that exchange_token issues while no other request generates a
\* signing key is verifiable with what jwks serves, whatever requests come
\* later and however their ensure_active_signing_key interleave.
THEOREM TokensVerifiable == Spec => []TokensStayVerifiable
<1>1. KeyInv => TokensStayVerifiable
  BY DEF KeyInv, TokensStayVerifiable, JwksServed
<1> QED
  BY <1>1, AuthInitInv, CallTypesNext, KeyNext, PTL DEF Spec

-----------------------------------------------------------------------------
(* What the tasks know of the registry.                                    *)

\* The devices their owner has revoked.
Own == {d \in DeviceIds : RevokedByOwner(d)}

\* A device that is not active was revoked by its owner, or its owner has
\* recovered with another.
OffOK ==
  \A d \in DeviceIds :
    Written(device[d]) /\ device[d].status # "ACTIVE" /\ d \notin Own =>
      Other(device[d].user, d, bind)

\* What a task holds of the registry: the row it looked up has an owner, the row
\* it is about to revoke is there, and the device of a late request is off.
CallerOK(r, row, dev) ==
  /\ r.at \notin {"idle", "lookup"} => row.user \in Users
  /\ r.at = "update_status" => r.req.op = "revoke" /\ Written(dev[r.req.target])
  /\ r.at = "find_device" => r.req.op = "revoke"
  /\ r.late => /\ r.at = "lookup" /\ Written(dev[r.req.device])
               /\ dev[r.req.device].status # "ACTIVE"

CallInv ==
  /\ seen \in [Callers -> DeviceRow]
  /\ \A c \in Callers : CallerOK(call[c], seen[c], device)

IInv == RInv /\ OffOK /\ CallTypes /\ CallInv

\* What was acted on stays acted on.
LEMMA OwnGrows ==
  ASSUME CallTypes, NEW c \in Callers, effects' = effects \/ ActOn(c), UNCHANGED work,
         ~At(c, "idle") \/ effects' = effects
  PROVE  Own \subseteq Own'
<1>1. \A m \in work.signed : effects[m] > 0 => effects'[m] > 0
  BY DEF ActOn, CallTypes
<1> QED BY <1>1 DEF Own, RevokedByOwner

\* A device that is off stays accounted for.
LEMMA OffKeeps ==
  ASSUME OffOK, Moves, Own \subseteq Own'
  PROVE  OffOK'
<1> SUFFICES ASSUME NEW d \in DeviceIds, Written(device'[d]),
                    device'[d].status # "ACTIVE", d \notin Own'
             PROVE  Other(device'[d].user, d, bind')
  BY DEF OffOK
<1>1. CASE Written(device[d]) /\ device[d].status # "ACTIVE"
  <2>1. Other(device[d].user, d, bind)
    BY <1>1, ZenonT(60) DEF OffOK
  <2>2. device'[d].user = device[d].user
    BY <1>1, ZenonT(60) DEF Moves, Grows, RowStays, SameCredential
  <2> QED BY <2>1, <2>2 DEF Moves, RowsStay, Other
<1>2. CASE ~(Written(device[d]) /\ device[d].status # "ACTIVE")
  BY <1>2, ZenonT(60) DEF Moves, TurnsOff
<1> QED BY <1>1, <1>2

\* What a task knows of the table stays true as the table grows.
LEMMA CallerCarries ==
  ASSUME IInv, NEW o \in Callers, Grows(device, device')
  PROVE  CallerOK(call[o], seen[o], device')
<1>1. CallerOK(call[o], seen[o], device)
  BY DEF IInv, CallInv
<1>2. ASSUME call[o].at # "idle"
      PROVE  call[o].req.device \in DeviceIds /\ call[o].req.target \in DeviceIds
  <2>1. call[o].req \in Signed
    BY <1>2, AuthAssumption, ZenonT(60) DEF IInv, CallTypes, At
  <2> QED BY <2>1 DEF Signed
<1>3. call[o].at = "update_status" => Written(device'[call[o].req.target])
  BY <1>1, <1>2, ZenonT(60) DEF CallerOK, Grows, RowStays
<1>4. call[o].late => Written(device'[call[o].req.device])
                      /\ device'[call[o].req.device].status # "ACTIVE"
  BY <1>1, <1>2 DEF CallerOK, Grows, RowStays
<1> QED BY <1>1, <1>3, <1>4, ZenonT(60) DEF CallerOK

\* One task takes a step.
LEMMA CallerMoves ==
  ASSUME IInv, Grows(device, device'), NEW c \in Callers, NEW r, NEW row \in DeviceRow,
         call' = [call EXCEPT ![c] = r], seen' = [seen EXCEPT ![c] = row],
         CallerOK(r, row, device')
  PROVE  CallInv'
<1>1. seen \in [Callers -> DeviceRow] /\ DOMAIN call = Callers
  BY DEF IInv, CallInv, CallTypes
<1>2. \A o \in Callers : /\ call'[o] = IF o = c THEN r ELSE call[o]
                         /\ seen'[o] = IF o = c THEN row ELSE seen[o]
  BY <1>1
<1>3. seen' \in [Callers -> DeviceRow]
  BY <1>1
<1>4. \A o \in Callers : CallerOK(call'[o], seen'[o], device')
  BY <1>2, CallerCarries
<1> QED BY <1>3, <1>4, ZenonT(60) DEF CallInv

\* It ends, or goes on to a stage where the row it holds is good enough.
LEMMA CallerEnds ==
  ASSUME IInv, Grows(device, device'), NEW c \in Callers, End(c)
  PROVE  CallInv'
<1>1. CallerOK(NoCall, NoDevice, device')
  BY DEF NoCall, CallerOK
<1> QED BY <1>1, RowTypes, CallerMoves, Zenon DEF End

LEMMA CallerGoesOn ==
  ASSUME IInv, UNCHANGED device, NEW c \in Callers, NEW s, NEW row \in DeviceRow,
         Move(c, s, row), row.user \in Users, ~call[c].late,
         s = "update_status" => /\ call[c].req.op = "revoke"
                                /\ Written(device[call[c].req.target]),
         s = "find_device" => call[c].req.op = "revoke"
  PROVE  CallInv'
<1> DEFINE r == [call[c] EXCEPT !.at = s]
<1>1. call[c] \in [at : Stages, req : Signed \cup {NoRequest}, late : BOOLEAN]
  BY DEF IInv, CallTypes
<1>2. r.at = s /\ r.req = call[c].req /\ r.late = call[c].late
  BY <1>1
<1>3. call' = [call EXCEPT ![c] = r] /\ seen' = [seen EXCEPT ![c] = row]
  BY ZenonT(60) DEF Move
<1> HIDE DEF r
<1>4. CallerOK(r, row, device')
  BY <1>2 DEF CallerOK
<1>5. Grows(device, device')
  BY ZenonT(60) DEF Grows, RowStays, SameCredential
<1> QED BY <1>3, <1>4, <1>5, CallerMoves, ZenonT(60)

\* The steps of the tasks keep what the tasks know.
LEMMA CallInvKeeps ==
  ASSUME IInv, AuthStep, Grows(device, device')
  PROVE  CallInv'
<1>2. PICK c \in Callers :
        (\E m \in work.signed : Deliver(c, m)) \/ Serve(c) \/ Fail(c)
  BY DEF AuthStep
<1>3. /\ RInv /\ CallTypes /\ CallerOK(call[c], seen[c], device)
      /\ seen \in [Callers -> DeviceRow]
  BY DEF IInv, CallInv
<1>4. CASE End(c)
  BY <1>4, CallerEnds
<1>5. ASSUME NEW m \in work.signed, Deliver(c, m) PROVE CallInv'
  <2> DEFINE off == device[m.device].status \notin {"ABSENT", "ACTIVE"}
             r == [at |-> "lookup", req |-> m, late |-> off]
  <2>1. /\ call' = [call EXCEPT ![c] = r] /\ seen' = [seen EXCEPT ![c] = seen[c]]
        /\ UNCHANGED device
    BY <1>3, <1>5, Zenon DEF Deliver
  <2>2. r.at = "lookup" /\ r.req = m /\ r.late = off
    OBVIOUS
  <2> HIDE DEF r
  <2>3. CallerOK(r, seen[c], device')
    BY <2>1, <2>2, Zenon DEF CallerOK, Written
  <2>4. seen[c] \in DeviceRow
    BY <1>3, ZenonT(60)
  <2> QED BY <2>1, <2>3, <2>4, CallerMoves, ZenonT(60)
<1>6. CASE LookUpDevice(c) /\ ~End(c)
  <2>1. /\ At(c, "lookup") /\ UNCHANGED device
        /\ device[call[c].req.device].status = "ACTIVE"
        /\ Move(c, "verify", device[call[c].req.device])
    BY <1>6, ZenonT(60) DEF LookUpDevice, RowOf
  <2>2. call[c].req.device \in DeviceIds
    BY <1>3, <2>1, AuthAssumption DEF CallTypes, At, Signed
  <2>3. /\ device[call[c].req.device] \in DeviceRow
        /\ device[call[c].req.device].user \in Users
    <3>1. Written(device[call[c].req.device])
      BY <2>1, ZenonT(60) DEF Written
    <3> QED BY <1>3, <2>2, <3>1, RowOfDevice, RowTypes, ZenonT(60)
  <2>4. ~call[c].late
    BY <1>3, <2>1, ZenonT(60) DEF CallerOK
  <2> QED BY <2>1, <2>3, <2>4, CallerGoesOn, ZenonT(60)
<1>7. ASSUME call[c].at \notin {"idle", "lookup"}
      PROVE  seen[c] \in DeviceRow /\ seen[c].user \in Users /\ ~call[c].late
  BY <1>3, <1>7, ZenonT(60) DEF CallerOK
<1>8. CASE VerifySignature(c) /\ ~End(c)
  <2>1. /\ At(c, "verify") /\ UNCHANGED device
        /\ Move(c, Handler(call[c].req.op), seen[c])
    BY <1>8, ZenonT(60) DEF VerifySignature
  <2>2. call[c].req \in Signed
    BY <1>3, <2>1, AuthAssumption, ZenonT(60) DEF CallTypes, At
  <2>3. /\ Handler(call[c].req.op) # "update_status"
        /\ Handler(call[c].req.op) = "find_device" => call[c].req.op = "revoke"
    BY <2>2 DEF Handler, Signed
  <2>4. call[c].at \notin {"idle", "lookup"}
    BY <2>1, ZenonT(60) DEF At
  <2> QED BY <1>7, <2>1, <2>3, <2>4, CallerGoesOn, ZenonT(60)
<1>9. CASE FindUserDevice(c) /\ ~End(c)
  <2>1. /\ At(c, "find_device") /\ UNCHANGED device
        /\ device[call[c].req.target].user = seen[c].user
        /\ Move(c, "update_status", seen[c])
    BY <1>9, ZenonT(60) DEF FindUserDevice
  <2>2. call[c].at \notin {"idle", "lookup"} /\ call[c].req.op = "revoke"
    BY <1>3, <2>1, ZenonT(60) DEF At, CallerOK
  <2>3. call[c].req.target \in DeviceIds
    BY <1>3, <2>1, AuthAssumption, ZenonT(60) DEF CallTypes, At, Signed
  <2>4. Written(device[call[c].req.target])
    <3>1. device[call[c].req.target] # NoDevice
      BY <1>7, <2>1, <2>2, RegistryAssumption DEF NoDevice
    <3>2. device[call[c].req.target] \in RealRow
      BY <1>3, <2>3, <3>1, OfTables, ZenonT(60) DEF DevicesOK
    <3> QED BY <3>2, RowTypes, ZenonT(60)
  <2> QED BY <1>7, <2>1, <2>2, <2>4, CallerGoesOn, ZenonT(60)
<1>10. CASE FindSigningKey(c) /\ ~End(c)
  <2>1. At(c, "find_key") /\ UNCHANGED device /\ Move(c, "deactivate", seen[c])
    BY <1>10, ZenonT(60) DEF FindSigningKey, IssueToken
  <2>2. call[c].at \notin {"idle", "lookup"}
    BY <2>1, ZenonT(60) DEF At
  <2> QED BY <1>7, <2>1, <2>2, CallerGoesOn, ZenonT(60)
<1>11. CASE DeactivateSigningKeys(c)
  <2>1. At(c, "deactivate") /\ UNCHANGED device /\ Move(c, "create_key", seen[c])
    BY <1>11, ZenonT(60) DEF DeactivateSigningKeys
  <2>2. call[c].at \notin {"idle", "lookup"}
    BY <2>1 DEF At
  <2> QED BY <1>7, <2>1, <2>2, CallerGoesOn, ZenonT(60)
<1>12. ListUserDevices(c) \/ RevokeDevice(c) \/ CreateSigningKey(c) \/ Fail(c) => End(c)
  BY Zenon DEF ListUserDevices, RevokeDevice, CreateSigningKey, IssueToken, Fail
<1> QED BY <1>2, <1>4, <1>5, <1>6, <1>8, <1>9, <1>10, <1>11, <1>12, ZenonT(60) DEF Serve

-----------------------------------------------------------------------------
(* What the tasks share.                                                   *)

SharedTypes ==
  /\ nonces \subseteq DeviceIds \X Nonces
  /\ signing \in Seq(BOOLEAN) /\ Len(signing) <= MaxKids
  /\ tokens \subseteq [kid : DOMAIN signing, alone : BOOLEAN]

LEMMA TokenAdded ==
  ASSUME NEW S, NEW kid \in S, NEW c, NEW toks \in SUBSET [kid : S, alone : BOOLEAN]
  PROVE  toks \cup {[kid |-> kid, alone |-> ~OthersGenerating(c)]}
           \subseteq [kid : S, alone : BOOLEAN]
<1> DEFINE alone == ~OthersGenerating(c)
<1>1. alone \in BOOLEAN
  BY Zenon DEF OthersGenerating
<1> HIDE DEF alone
<1>2. [kid |-> kid, alone |-> alone] \in [kid : S, alone : BOOLEAN]
  BY <1>1
<1>3. [kid |-> kid, alone |-> ~OthersGenerating(c)] = [kid |-> kid, alone |-> alone]
  BY Zenon DEF alone
<1> QED BY <1>2, <1>3, Zenon

LEMMA SharedTypesNext ==
  ASSUME CallTypes, SharedTypes, [Next]_allVars
  PROVE  SharedTypes'
<1>0. MaxKids \in Nat /\ Len(signing) \in Nat /\ DOMAIN signing = 1 .. Len(signing)
  BY AuthAssumption DEF SharedTypes
<1>1. CASE UNCHANGED <<nonces, signing, tokens>>
  BY <1>1, SMTT(30) DEF SharedTypes
<1>2. CASE AuthStep /\ ~UNCHANGED <<nonces, signing, tokens>>
  <2>1. PICK c \in Callers :
          (\E m \in work.signed : Deliver(c, m)) \/ Serve(c) \/ Fail(c)
    BY <1>2, ZenonT(60) DEF AuthStep
  <2>2. CASE VerifySignature(c)
    <3>1. call[c].req \in Signed
      BY <2>2, AuthAssumption, ZenonT(60) DEF VerifySignature, CallTypes, At
    <3>2. <<call[c].req.device, call[c].req.nonce>> \in DeviceIds \X Nonces
      BY <3>1, ZenonT(60) DEF Signed
    <3>3. nonces' \subseteq nonces \cup {<<call[c].req.device, call[c].req.nonce>>}
          /\ UNCHANGED <<signing, tokens>>
      BY <2>2 DEF VerifySignature, CheckAndRecord
    <3> QED BY <3>2, <3>3, ZenonT(60) DEF SharedTypes
  <2>3. CASE FindSigningKey(c)
    <3>1. Active # {} /\ IssueToken(c, NewestActive) /\ UNCHANGED <<nonces, signing>>
      BY <1>2, <2>3, ZenonT(60) DEF FindSigningKey
    <3>2. Active \subseteq 1 .. Len(signing)
      BY <1>0 DEF Active
    <3>3. NewestActive \in DOMAIN signing
      BY <1>0, <3>1, <3>2, MaxIsMember, ZenonT(60) DEF NewestActive
    <3>4. tokens' = tokens \cup {[kid |-> NewestActive, alone |-> ~OthersGenerating(c)]}
      BY <3>1, ZenonT(60) DEF IssueToken
    <3>5. tokens' \subseteq [kid : DOMAIN signing, alone : BOOLEAN]
      BY <3>3, <3>4, TokenAdded DEF SharedTypes
    <3> QED BY <3>1, <3>5, ZenonT(60) DEF SharedTypes
  <2>4. CASE DeactivateSigningKeys(c)
    <3>1. signing' = [k \in DOMAIN signing |-> FALSE] /\ UNCHANGED <<nonces, tokens>>
      BY <2>4 DEF DeactivateSigningKeys
    <3>2. signing' \in Seq(BOOLEAN) /\ Len(signing') = Len(signing)
          /\ DOMAIN signing' = DOMAIN signing
      BY <1>0, <3>1, IsASeq
    <3> QED BY <3>1, <3>2 DEF SharedTypes
  <2>5. CASE CreateSigningKey(c)
    <3> DEFINE kid == Len(signing) + 1
    <3>1. /\ signing' = Append(signing, TRUE) /\ Len(signing) < MaxKids /\ UNCHANGED nonces
          /\ tokens' = tokens \cup {[kid |-> kid, alone |-> ~OthersGenerating(c)]}
      BY <2>5, ZenonT(60) DEF CreateSigningKey, IssueToken
    <3>2. signing' \in Seq(BOOLEAN) /\ Len(signing') = kid /\ DOMAIN signing' = 1 .. kid
      BY <3>1 DEF SharedTypes
    <3>3. kid \in DOMAIN signing' /\ DOMAIN signing \subseteq DOMAIN signing' /\ kid <= MaxKids
      BY <1>0, <3>1, <3>2
    <3> HIDE DEF kid
    <3>4. tokens \in SUBSET [kid : DOMAIN signing', alone : BOOLEAN]
      BY <3>3, ZenonT(60) DEF SharedTypes
    <3>5. tokens' \subseteq [kid : DOMAIN signing', alone : BOOLEAN]
      BY <3>1, <3>3, <3>4, TokenAdded, ZenonT(60)
    <3> QED BY <3>1, <3>2, <3>3, <3>5, ZenonT(60) DEF SharedTypes
  <2> QED BY <1>2, <2>1, <2>2, <2>3, <2>4, <2>5, ZenonT(60)
          DEF Deliver, Serve, Fail, LookUpDevice, ListUserDevices, FindUserDevice,
              RevokeDevice
<1> QED BY <1>1, <1>2, ZenonT(60) DEF Next, allVars, authVars

-----------------------------------------------------------------------------
(* What the invariant says.                                                *)

\* The device that a policy exempts.
LEMMA ExemptedStays ==
  ASSUME IInv PROVE RecoveredDeviceStays
<1> SUFFICES ASSUME NEW k \in Keys, policy[k] # NoPolicy,
                    ~RevokedByOwner(policy[k].except),
                    ~RecoveredOther(policy[k].user, policy[k].except)
             PROVE  device[policy[k].except].status = "ACTIVE"
  BY DEF RecoveredDeviceStays
<1> DEFINE d == policy[k].except
<1>1. RInv
  BY DEF IInv
<1>2. d \in DeviceIds
  BY <1>1, OfTables, ZenonT(60) DEF PolicyRow
<1>3. PICK j \in Keys : /\ bind[j] # NoBind /\ bind[j].user = policy[k].user
                        /\ bind[j].device = d
  BY <1>1, OfTables, ZenonT(60) DEF PoliciesOK
<1>4. Written(device[d]) /\ device[d].user = policy[k].user
  BY <1>1, <1>3, OfTables, ZenonT(60) DEF BindsOK, SameCredential
<1>5. d \notin Own /\ ~Other(device[d].user, d, bind)
  BY <1>4, ZenonT(60) DEF Own, Other, RecoveredOther
<1> QED BY <1>2, <1>4, <1>5, ZenonT(60) DEF IInv, OffOK

LEMMA RefusedOK ==
  ASSUME IInv PROVE RevokedDevicesAreRefused
BY ZenonT(60) DEF IInv, CallInv, CallerOK, RevokedDevicesAreRefused

\* Everything has its type.
LEMMA TypesOK ==
  ASSUME IInv, SharedTypes PROVE AuthTypeOK
<1>1. TypeOK /\ seen \in [Callers -> DeviceRow]
  BY SMTT(30) DEF IInv, RInv, CallInv
<1>2. \E n \in 0 .. MaxKids : signing \in [1 .. n -> BOOLEAN]
  <2>1. Len(signing) \in 0 .. MaxKids /\ signing \in [1 .. Len(signing) -> BOOLEAN]
    BY AuthAssumption DEF SharedTypes
  <2> QED BY <2>1, ZenonT(60)
<1>3. CallTypes
  BY DEF IInv
<1> QED BY <1>1, <1>2, <1>3, Zenon DEF AuthTypeOK, CallTypes, SharedTypes

=============================================================================
