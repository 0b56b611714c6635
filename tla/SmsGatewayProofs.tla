-------------------------- MODULE SmsGatewayProofs --------------------------
(***************************************************************************)
(* The SMS gateway for any number of requests, chain of providers, attempts*)
(* and spacing: its types, its token cache, its rate limiter, and that it  *)
(* implements SmsContract.                                                 *)
(***************************************************************************)
EXTENDS SmsGateway, TLAPS, FiniteSetTheorems

\* On the way to a send, before which a token may be needed.
NeedsToken == {"check_token", "lock_token", "fetch"}
HasToken == {"throttle", "spacing", "post"}
Trying == NeedsToken \cup HasToken

Outcomes == {"ok", "transient", "permanent", "failed"}

\* The sends of one attempt that come before the provider at position p.
SendsBefore(c, p) ==
  p - 1 + Cardinality({i \in DOMAIN c : i < p /\ c[i].provider = "orange"})

\* The sends a request may have made when it is q's turn to send.
Allowance(q) ==
  q.attempt * SendsPerAttempt(chain) + SendsBefore(chain, q.provider)
    + IF q.again THEN 1 ELSE 0

\* A request that is at a provider of the chain.
AtProvider(q) ==
  /\ q.answer = "waiting" /\ q.provider \in 1 .. Len(chain)
  /\ q.again => ProviderOf(q) = "orange"

\* What one request keeps to, where token is the one in the cache: what the
\* caller was told, the sends it has made, and the token Orange refused.
RequestInv(q, token) ==
  /\ q.pc = "idle" => q.answer = "none" /\ q.sends = 0
  /\ q.pc = "done" => q.answer \in {"delivered", "rejected", "failed", "gone"}
  /\ q.pc \in Trying => /\ AtProvider(q) /\ q.sends <= Allowance(q)
                        /\ q.again \/ q.refused = NoToken
  /\ q.pc \in NeedsToken /\ q.refused # NoToken => token # q.refused
  /\ q.pc \in HasToken /\ q.refused # NoToken => q.token # q.refused
  /\ q.pc = "clear_token" => /\ AtProvider(q) /\ ProviderOf(q) = "orange"
                             /\ q.sends <= Allowance(q) + 1
  /\ q.pc = "backoff" => /\ q.answer = "waiting"
                         /\ q.sends <= q.attempt * SendsPerAttempt(chain)

\* A request that fetches a token holds the write lock; one that waits for its
\* turn holds the limiter, and what it still sleeps makes up the spacing.
LockInv ==
  \A r \in Requests :
    /\ At(r, "fetch") => writer = r /\ ~cache.fresh
    /\ At(r, "spacing") => limiter = r /\ req[r].wait + since >= Spacing

IInv == /\ TypeOK /\ LockInv
        /\ \A r \in Requests : RequestInv(req[r], cache.token)
-----------------------------------------------------------------------------
(* Numbers.                                                                *)

\* Backoffs are natural numbers: 2^n counts the subsets of a set with n
\* elements.
LEMMA PowerIsNat ==
  ASSUME NEW n \in Nat
  PROVE  2 ^ n \in Nat
<1>1. IsFiniteSet(1 .. n) /\ Cardinality(1 .. n) = n
  BY FS_Interval
<1>2. IsFiniteSet(SUBSET (1 .. n)) /\ Cardinality(SUBSET (1 .. n)) = 2 ^ n
  BY <1>1, FS_SUBSET, Zenon
<1> QED BY <1>2, FS_CardinalityType

\* The sends of an attempt, counted up to each provider: one more for a
\* provider, two more for Orange, and all of them at the end of the chain.
LEMMA SendsCounted ==
  ASSUME NEW c \in Chains
  PROVE  /\ SendsPerAttempt(c) \in Nat
         /\ SendsBefore(c, 1) = 0
         /\ SendsBefore(c, Len(c) + 1) = SendsPerAttempt(c)
         /\ \A p \in 1 .. Len(c) + 1 : /\ SendsBefore(c, p) \in Nat
                                       /\ SendsBefore(c, p) <= SendsPerAttempt(c)
         /\ \A p \in 1 .. Len(c) :
              SendsBefore(c, p + 1) =
                SendsBefore(c, p) + IF c[p].provider = "orange" THEN 2 ELSE 1
<1> DEFINE O(p) == {i \in DOMAIN c : i < p /\ c[i].provider = "orange"}
           All == {i \in DOMAIN c : c[i].provider = "orange"}
<1>1. Len(c) \in Nat /\ DOMAIN c = 1 .. Len(c)
  BY GatewayAssumption
<1>2. SendsPerAttempt(c) = Len(c) + Cardinality(All)
  BY DEF SendsPerAttempt
<1>3. \A p : SendsBefore(c, p) = p - 1 + Cardinality(O(p))
  BY DEF SendsBefore
<1>4. All \subseteq 1 .. Len(c) /\ \A p : O(p) \subseteq All
  BY <1>1
<1>5. O(1) = {} /\ O(Len(c) + 1) = All
  BY <1>1
<1>6. \A p \in 1 .. Len(c) :
        /\ p \notin O(p)
        /\ O(p + 1) = IF c[p].provider = "orange" THEN O(p) \cup {p} ELSE O(p)
  BY <1>1
<1> HIDE DEF O, All
<1>7. IsFiniteSet(1 .. Len(c))
  BY <1>1, FS_Interval
<1>8. IsFiniteSet(All) /\ Cardinality(All) \in Nat
  BY <1>4, <1>7, FS_Subset, FS_CardinalityType, Zenon
<1>9. ASSUME NEW p
      PROVE  /\ IsFiniteSet(O(p)) /\ Cardinality(O(p)) \in Nat
             /\ Cardinality(O(p)) <= Cardinality(All)
  BY <1>4, <1>8, FS_Subset, FS_CardinalityType
<1>10. SendsBefore(c, 1) = 0
  BY <1>3, <1>5, FS_EmptySet, SMTT(30)
<1>11. SendsBefore(c, Len(c) + 1) = SendsPerAttempt(c)
  BY <1>1, <1>2, <1>3, <1>5, <1>8
<1>12. ASSUME NEW p \in 1 .. Len(c)
       PROVE  SendsBefore(c, p + 1) =
                SendsBefore(c, p) + IF c[p].provider = "orange" THEN 2 ELSE 1
  <2>1. CASE c[p].provider = "orange"
    <3>1. O(p + 1) = O(p) \cup {p} /\ p \notin O(p)
      BY <1>6, <2>1, Zenon
    <3>2. Cardinality(O(p + 1)) = Cardinality(O(p)) + 1
      BY <1>9, <3>1, FS_AddElement
    <3> QED BY <1>1, <1>3, <1>9, <2>1, <3>2
  <2>2. CASE c[p].provider # "orange"
    <3>1. O(p + 1) = O(p)
      BY <1>6, <2>2, Zenon
    <3> QED BY <1>1, <1>3, <1>9, <2>2, <3>1
  <2> QED BY <2>1, <2>2
<1>13. ASSUME NEW p \in 1 .. Len(c) + 1
       PROVE  SendsBefore(c, p) \in Nat /\ SendsBefore(c, p) <= SendsPerAttempt(c)
  BY <1>1, <1>2, <1>3, <1>8, <1>9
<1> QED BY <1>1, <1>2, <1>8, <1>10, <1>11, <1>12, <1>13

\* Whatever attempt it is, there are sends left for the whole chain.
LEMMA AttemptsCounted ==
  ASSUME NEW s \in Nat, NEW a \in 0 .. MaxAttempts - 1
  PROVE  /\ a * s \in Nat /\ (a + 1) * s = a * s + s
         /\ MaxAttempts * s \in Nat /\ a * s + s <= MaxAttempts * s
<1>1. MaxAttempts \in Nat
  BY GatewayAssumption
<1>2. (a + 1) * s = a * s + s
  OBVIOUS
<1>3. PICK d \in Nat : MaxAttempts = a + 1 + d
  <2>1. MaxAttempts - (a + 1) \in Nat
    BY <1>1
  <2> QED BY <1>1, <2>1
<1>4. MaxAttempts * s = (a + 1) * s + d * s
  BY <1>3
<1>5. d * s \in Nat /\ a * s \in Nat /\ MaxAttempts * s \in Nat
  BY <1>1
<1> QED BY <1>2, <1>4, <1>5
-----------------------------------------------------------------------------
(* Requests.                                                               *)

\* The numbers among the constants.
LEMMA Constants ==
  /\ MaxAttempts \in Nat /\ MaxAttempts > 0
  /\ Spacing \in Nat /\ Spacing > 0 /\ MaxTokens \in Nat
BY GatewayAssumption

\* A request that has not been received.
LEMMA NewRequestType == NewRequest \in Request /\ NoMsisdn \in Msisdn
<1>1. NoMsisdn \in Msisdn
  BY DEF NoMsisdn, Msisdn
<1>2. 0 \in 0 .. MaxAttempts - 1 /\ NoToken \in 0 .. MaxTokens
  BY Constants DEF NoToken
<1> QED BY <1>1, <1>2 DEF NewRequest, Request, Labels

\* A request that begins at a provider of the chain.
LEMMA BeginOK ==
  ASSUME chain \in Chains, NEW q \in Request, NEW token,
         AtProvider(q), q.sends <= Allowance(q),
         q.again /\ q.refused # NoToken => token # q.refused
  PROVE  Begin(q) \in Request /\ RequestInv(Begin(q), token)
<1> DEFINE b == Begin(q)
<1>1. b \in Request
  <2>1. NoToken \in 0 .. MaxTokens
    BY Constants DEF NoToken
  <2> QED BY <2>1, Zenon DEF Begin, Request, Labels
<1>2. /\ b.pc \in {"check_token", "post"}
      /\ b.refused = IF q.again THEN q.refused ELSE NoToken
      /\ b.pc = "post" => ProviderOf(q) # "orange"
      /\ b.answer = q.answer /\ b.provider = q.provider /\ b.again = q.again
      /\ b.attempt = q.attempt /\ b.sends = q.sends
  BY DEF Begin, Request
<1>3. AtProvider(b) /\ Allowance(b) = Allowance(q) /\ b.sends <= Allowance(b)
  BY <1>2 DEF AtProvider, Allowance, ProviderOf
<1> HIDE DEF b
<1>4. b.pc = "post" => b.refused = NoToken
  BY <1>2 DEF AtProvider
<1>5. RequestInv(b, token)
  BY <1>2, <1>3, <1>4 DEF RequestInv, Trying, NeedsToken, HasToken
<1> QED BY <1>1, <1>5 DEF b

\* A request that was answered.
LEMMA FinishOK ==
  ASSUME NEW q, NEW token,
         NEW answer \in {"delivered", "rejected", "failed", "gone"}
  PROVE  Finish(q, answer) \in Request /\ RequestInv(Finish(q, answer), token)
<1>1. Finish(q, answer).pc = "done" /\ Finish(q, answer).answer = answer
  BY DEF Finish, NewRequest
<1>2. Finish(q, answer) \in Request
  BY NewRequestType, Zenon DEF Finish, Request, Labels
<1>3. RequestInv(Finish(q, answer), token)
  BY <1>1 DEF RequestInv, Trying, NeedsToken, HasToken
<1> QED BY <1>2, <1>3

\* The allowance is a number, and there is room for a send above it.
LEMMA AllowanceIsNat ==
  ASSUME chain \in Chains, NEW q \in Request, AtProvider(q)
  PROVE  /\ Allowance(q) \in Nat
         /\ Allowance(q) < MaxAttempts * SendsPerAttempt(chain)
<1> DEFINE s == SendsPerAttempt(chain)
           done == q.attempt * s
           before == SendsBefore(chain, q.provider)
<1>1. /\ q.attempt \in 0 .. MaxAttempts - 1
      /\ q.provider \in 1 .. Len(chain) /\ Len(chain) \in Nat
  BY GatewayAssumption DEF Request, AtProvider
<1>2. s \in Nat /\ before \in Nat
  BY <1>1, SendsCounted
<1>3. done \in Nat /\ MaxAttempts * s \in Nat /\ done + s <= MaxAttempts * s
  BY <1>1, <1>2, AttemptsCounted, Zenon
<1>4. before + (IF q.again THEN 1 ELSE 0) + 1 <= s
  <2>1. /\ SendsBefore(chain, q.provider + 1) <= s
        /\ SendsBefore(chain, q.provider + 1) =
             before + IF ProviderOf(q) = "orange" THEN 2 ELSE 1
    BY <1>1, SendsCounted DEF ProviderOf
  <2>2. q.again => ProviderOf(q) = "orange"
    BY DEF AtProvider
  <2> HIDE DEF s, before
  <2> QED BY <1>2, <2>1, <2>2
<1>5. Allowance(q) = done + before + IF q.again THEN 1 ELSE 0
  BY DEF Allowance
<1> HIDE DEF s, done, before
<1>6. /\ Allowance(q) \in Nat /\ Allowance(q) < MaxAttempts * s
  BY <1>2, <1>3, <1>4, <1>5
<1> QED BY <1>6 DEF s

\* Where a request goes on after an outcome.
LEMMA SettlePc ==
  ASSUME NEW q \in Request, NEW outcome
  PROVE  Settle(q, outcome).pc \in {"check_token", "post", "backoff", "done"}
BY DEF Settle, Begin, FallBack, RetryOrGiveUp, Finish, NewRequest, Request

\* A request whose provider failed: it has made at most one send more than it
\* had on its turn.
LEMMA FallBackOK ==
  ASSUME chain \in Chains, NEW q \in Request, NEW token, NEW error,
         AtProvider(q), q.sends <= Allowance(q) + 1
  PROVE  FallBack(q, error) \in Request /\ RequestInv(FallBack(q, error), token)
<1> DEFINE s == SendsPerAttempt(chain)
<1>1. /\ q.attempt \in 0 .. MaxAttempts - 1 /\ q.sends \in Nat /\ q.again \in BOOLEAN
      /\ q.provider \in 1 .. Len(chain) /\ Len(chain) \in Nat
  BY GatewayAssumption DEF Request, AtProvider
<1>2. s \in Nat /\ q.attempt * s \in Nat /\ (q.attempt + 1) * s = q.attempt * s + s
  BY <1>1, SendsCounted, AttemptsCounted, Zenon
<1>3. q.sends <= q.attempt * s + SendsBefore(chain, q.provider + 1)
  <2>1. SendsBefore(chain, q.provider) \in Nat
    BY <1>1, SendsCounted
  <2>2. SendsBefore(chain, q.provider + 1) =
          SendsBefore(chain, q.provider) + IF ProviderOf(q) = "orange" THEN 2 ELSE 1
    BY <1>1, SendsCounted DEF ProviderOf
  <2>3. q.again => ProviderOf(q) = "orange"
    BY DEF AtProvider
  <2> DEFINE done == q.attempt * s
             before == SendsBefore(chain, q.provider)
             after == SendsBefore(chain, q.provider + 1)
  <2>4. q.sends <= done + before + (IF q.again THEN 1 ELSE 0) + 1
    BY DEF Allowance
  <2>5. done \in Nat /\ before \in Nat
    BY <1>2, <2>1
  <2> HIDE DEF done, before, after
  <2>6. after = before + IF ProviderOf(q) = "orange" THEN 2 ELSE 1
    BY <2>2 DEF before, after
  <2>7. q.sends <= done + after
    BY <1>1, <2>3, <2>4, <2>5, <2>6, SMTT(30)
  <2> QED BY <2>7 DEF done, after
<1>4. CASE q.provider < Len(chain)
  <2> DEFINE n == [q EXCEPT !.provider = @ + 1, !.again = FALSE]
  <2>1. n \in Request
    <3>1. q.provider + 1 \in Nat \ {0}
      BY <1>1
    <3> QED BY <3>1, Zenon DEF Request
  <2>2. /\ n.answer = q.answer /\ n.provider = q.provider + 1 /\ n.again = FALSE
        /\ n.attempt = q.attempt /\ n.sends = q.sends
    BY DEF Request
  <2> HIDE DEF n
  <2>3. AtProvider(n)
    BY <1>1, <1>4, <2>2 DEF AtProvider
  <2>4. SendsBefore(chain, q.provider + 1) \in Nat
    BY <1>1, <1>4, SendsCounted, SMTT(30)
  <2>5. n.sends <= Allowance(n)
    <3>1. Allowance(n) = q.attempt * s + SendsBefore(chain, q.provider + 1) + 0
      BY <2>2 DEF Allowance
    <3> HIDE DEF s
    <3> QED BY <1>2, <1>3, <2>2, <2>4, <3>1, SMTT(30)
  <2>6. Begin(n) \in Request /\ RequestInv(Begin(n), token)
    BY <2>1, <2>2, <2>3, <2>5, BeginOK, SMTT(30)
  <2>7. FallBack(q, error) = Begin(n)
    BY <1>4 DEF FallBack, n
  <2> QED BY <2>6, <2>7
<1>5. CASE ~(q.provider < Len(chain))
  <2>1. q.sends <= (q.attempt + 1) * s
    <3>1. q.provider = Len(chain)
      BY <1>1, <1>5
    <3>2. SendsBefore(chain, q.provider + 1) = s
      BY <3>1, SendsCounted
    <3> HIDE DEF s
    <3> QED BY <1>1, <1>2, <1>3, <3>2, SMTT(30)
  <2>2. FallBack(q, error) = RetryOrGiveUp(q, error)
    BY <1>5 DEF FallBack
  <2>3. CASE error = "transient" /\ AttemptsLeft(q)
    <3> DEFINE w == Spacing * 2 ^ q.attempt
               n == [q EXCEPT !.pc = "backoff", !.attempt = @ + 1, !.wait = w]
    <3>1. w \in Nat
      BY <1>1, Constants, PowerIsNat
    <3>2. q.attempt + 1 \in 0 .. MaxAttempts - 1
      BY <1>1, <2>3, Constants DEF AttemptsLeft
    <3>3. RetryOrGiveUp(q, error) = n
      BY <2>3 DEF RetryOrGiveUp
    <3> HIDE DEF w
    <3>4. n \in Request
      BY <3>1, <3>2, ZenonT(60) DEF Request, Labels
    <3>5. /\ n.pc = "backoff" /\ n.answer = "waiting"
          /\ n.attempt = q.attempt + 1 /\ n.sends = q.sends
      BY DEF Request, AtProvider
    <3> HIDE DEF n
    <3>6. RequestInv(n, token)
      BY <2>1, <3>5 DEF RequestInv, Trying, NeedsToken, HasToken
    <3> QED BY <2>2, <3>3, <3>4, <3>6, SMTT(30)
  <2>4. CASE ~(error = "transient" /\ AttemptsLeft(q))
    <3>1. FallBack(q, error) \in {Finish(q, "rejected"), Finish(q, "failed")}
      BY <2>2, <2>4 DEF RetryOrGiveUp
    <3> QED BY <3>1, FinishOK
  <2> QED BY <2>3, <2>4
<1> QED BY <1>4, <1>5

\* A request whose send, or whose wait for a token, had some outcome.
LEMMA SettleOK ==
  ASSUME chain \in Chains, NEW q \in Request, NEW token,
         NEW outcome \in Outcomes, AtProvider(q), q.sends <= Allowance(q) + 1,
         ~q.again /\ q.refused # NoToken => token # q.refused
  PROVE  Settle(q, outcome) \in Request /\ RequestInv(Settle(q, outcome), token)
<1>1. CASE outcome = "ok"
  <2>1. Settle(q, outcome) = Finish(q, "delivered")
    BY <1>1 DEF Settle
  <2> QED BY <2>1, FinishOK
<1>2. CASE outcome = "transient" /\ ProviderOf(q) = "orange" /\ ~q.again
  <2> DEFINE n == [q EXCEPT !.again = TRUE]
  <2>1. Settle(q, outcome) = Begin(n)
    BY <1>2 DEF Settle
  <2>2. n \in Request
    BY Zenon DEF Request
  <2>3. /\ n.answer = q.answer /\ n.provider = q.provider /\ n.again = TRUE
        /\ n.attempt = q.attempt /\ n.sends = q.sends /\ n.refused = q.refused
    BY DEF Request
  <2> HIDE DEF n
  <2>4. AtProvider(n)
    BY <1>2, <2>3 DEF AtProvider, ProviderOf
  <2>5. n.sends <= Allowance(n)
    <3>1. /\ q.attempt * SendsPerAttempt(chain) \in Nat
          /\ SendsBefore(chain, q.provider) \in Nat
      BY SendsCounted, AttemptsCounted, GatewayAssumption, SMTT(30) DEF AtProvider, Request
    <3> QED BY <1>2, <2>3, <3>1 DEF Allowance
  <2> QED BY <1>2, <2>1, <2>2, <2>3, <2>4, <2>5, BeginOK, SMTT(30)
<1>3. CASE /\ outcome # "ok"
           /\ ~(outcome = "transient" /\ ProviderOf(q) = "orange" /\ ~q.again)
  <2>1. Settle(q, outcome) = FallBack(q, outcome)
    BY <1>3 DEF Settle
  <2> QED BY <2>1, FallBackOK
<1> QED BY <1>1, <1>2, <1>3

\* A request that got the token.
LEMMA WithTokenOK ==
  ASSUME chain \in Chains, NEW q \in Request, NEW token \in 0 .. MaxTokens,
         q.pc \in NeedsToken, AtProvider(q), q.sends <= Allowance(q),
         q.again \/ q.refused = NoToken,
         q.refused # NoToken => token # q.refused
  PROVE  /\ WithToken(q, token) \in Request
         /\ RequestInv(WithToken(q, token), token)
         /\ WithToken(q, token).pc \notin {"fetch", "spacing"}
<1>1. CASE OrangeAccepts(q.msisdn)
  <2> DEFINE n == [q EXCEPT !.token = token, !.pc = "throttle"]
  <2>1. WithToken(q, token) = n
    BY <1>1 DEF WithToken
  <2>2. n \in Request
    BY ZenonT(60) DEF Request, Labels
  <2>3. /\ n.pc = "throttle" /\ n.token = token /\ n.refused = q.refused
        /\ n.answer = q.answer /\ n.provider = q.provider /\ n.again = q.again
        /\ n.attempt = q.attempt /\ n.sends = q.sends
    BY DEF Request
  <2> HIDE DEF n
  <2>4. AtProvider(n) /\ Allowance(n) = Allowance(q)
    BY <2>3 DEF AtProvider, Allowance, ProviderOf
  <2>5. RequestInv(n, token)
    BY <2>3, <2>4 DEF RequestInv, Trying, NeedsToken, HasToken
  <2> QED BY <2>1, <2>2, <2>3, <2>5, SMTT(30)
<1>2. CASE ~OrangeAccepts(q.msisdn)
  <2> DEFINE n == [q EXCEPT !.token = token]
  <2>1. WithToken(q, token) = Settle(n, "permanent")
    BY <1>2 DEF WithToken
  <2>2. n \in Request
    BY DEF Request
  <2>3. /\ n.token = token /\ n.refused = q.refused
        /\ n.answer = q.answer /\ n.provider = q.provider /\ n.again = q.again
        /\ n.attempt = q.attempt /\ n.sends = q.sends
    BY DEF Request
  <2> HIDE DEF n
  <2>4. AtProvider(n) /\ Allowance(n) = Allowance(q)
    BY <2>3 DEF AtProvider, Allowance, ProviderOf
  <2>5. n.sends <= Allowance(n) + 1
    BY <2>2, <2>3, <2>4, AllowanceIsNat, SMTT(30) DEF Request
  <2>6. "permanent" \in Outcomes
    BY DEF Outcomes
  <2>7. Settle(n, "permanent").pc \notin {"fetch", "spacing"}
    BY <2>2, SettlePc
  <2> QED BY <2>1, <2>2, <2>3, <2>4, <2>5, <2>6, <2>7, SettleOK
<1> QED BY <1>1, <1>2

\* Every answer of a provider has one of the outcomes.
LEMMA OutcomeType ==
  ASSUME chain \in Chains, NEW q \in Request, AtProvider(q), NEW answer \in Answers
  PROVE  Outcome(ProviderOf(q), answer) \in Outcomes
<1>1. ProviderOf(q) \in Providers
  <2>1. chain \in Seq([provider : Providers, section : BOOLEAN])
    BY GatewayAssumption, Zenon
  <2>2. chain[q.provider] \in [provider : Providers, section : BOOLEAN]
    <3> DEFINE Entry == [provider : Providers, section : BOOLEAN]
               i == q.provider
    <3>1. chain \in Seq(Entry) /\ i \in 1 .. Len(chain)
      BY <2>1, Zenon DEF AtProvider
    <3> HIDE DEF Entry, i
    <3>2. chain[i] \in Entry
      BY <3>1
    <3> QED BY <3>2, Zenon DEF Entry, i
  <2> QED BY <2>2 DEF ProviderOf
<1> QED
  BY <1>1
  DEF Providers, Outcomes, Outcome, ConsoleOutcome, SnsOutcome, AvlytextOutcome,
      ApiOutcome, MtargetOutcome, WhatsappOutcome, OrangeOutcome, Sorted

\* A request that has sent, and what came back.
LEMMA AfterAnswerOK ==
  ASSUME chain \in Chains, NEW q \in Request, NEW token, NEW answer \in Answers,
         q.pc = "post", RequestInv(q, token)
  PROVE  LET n == AfterAnswer([q EXCEPT !.sends = @ + 1], answer)
         IN  /\ n \in Request /\ RequestInv(n, token)
             /\ n.pc \notin {"fetch", "spacing"}
<1> DEFINE m == [q EXCEPT !.sends = @ + 1]
<1>1. /\ AtProvider(q) /\ q.sends <= Allowance(q)
      /\ q.again \/ q.refused = NoToken
  BY DEF RequestInv, Trying, HasToken
<1>2. m \in Request
  BY DEF Request
<1>3. /\ m.refused = q.refused /\ m.token = q.token
      /\ m.answer = q.answer /\ m.provider = q.provider /\ m.again = q.again
      /\ m.attempt = q.attempt /\ m.sends = q.sends + 1
  BY DEF Request
<1> HIDE DEF m
<1>4. AtProvider(m) /\ Allowance(m) = Allowance(q) /\ ProviderOf(m) = ProviderOf(q)
  BY <1>1, <1>3, SMTT(30) DEF AtProvider, Allowance, ProviderOf
<1>5. m.sends <= Allowance(m) + 1
  BY <1>1, <1>3, <1>4, AllowanceIsNat, SMTT(30) DEF Request
<1>6. CASE ProviderOf(m) = "orange" /\ answer = "401"
  <2> DEFINE n == [m EXCEPT !.pc = "clear_token", !.refused = m.token]
  <2>1. AfterAnswer(m, answer) = n
    BY <1>6 DEF AfterAnswer
  <2>2. n \in Request
    BY <1>2, ZenonT(60) DEF Request, Labels
  <2>3. /\ n.pc = "clear_token"
        /\ n.answer = m.answer /\ n.provider = m.provider /\ n.again = m.again
        /\ n.attempt = m.attempt /\ n.sends = m.sends
    BY <1>2 DEF Request
  <2> HIDE DEF n
  <2>4. AtProvider(n) /\ Allowance(n) = Allowance(m) /\ ProviderOf(n) = "orange"
    BY <1>4, <1>6, <2>3 DEF AtProvider, Allowance, ProviderOf
  <2>5. RequestInv(n, token)
    BY <1>5, <2>3, <2>4 DEF RequestInv, Trying, NeedsToken, HasToken
  <2> QED BY <2>1, <2>2, <2>3, <2>5, SMTT(30) DEF m
<1>7. CASE ~(ProviderOf(m) = "orange" /\ answer = "401")
  <2> DEFINE outcome == Outcome(ProviderOf(m), answer)
  <2>1. AfterAnswer(m, answer) = Settle(m, outcome)
    BY <1>7 DEF AfterAnswer
  <2>2. outcome \in Outcomes
    BY <1>2, <1>4, OutcomeType, SMTT(30)
  <2> HIDE DEF outcome
  <2>3. ~m.again /\ m.refused # NoToken => token # m.refused
    BY <1>1, <1>3, SMTT(30)
  <2>4. Settle(m, outcome).pc \notin {"fetch", "spacing"}
    BY <1>2, SettlePc
  <2> QED BY <1>2, <1>4, <1>5, <2>1, <2>2, <2>3, <2>4, SettleOK, Zenon DEF m
<1> QED BY <1>6, <1>7

-----------------------------------------------------------------------------
(* Tokens.                                                                 *)

\* There are fewer tokens in use than there are tokens, so that an issued one
\* is none of those.
LEMMA NewTokenIsNew ==
  ASSUME req \in [Requests -> Request]
  PROVE  NewToken \in 1 .. MaxTokens /\ NewToken \notin InUse
<1> DEFINE T == {req[q].token : q \in Requests}
           R == {req[q].refused : q \in Requests}
           n == Cardinality(Requests)
<1>1. /\ IsFiniteSet(Requests) /\ n \in Nat
      /\ MaxTokens \in Nat /\ MaxTokens >= 2 * n + 2
  BY GatewayAssumption, FS_CardinalityType, SMTT(30)
<1>2. IsFiniteSet(T) /\ Cardinality(T) <= n
  <2>1. [q \in Requests |-> req[q].token] \in Surjection(Requests, T)
    BY DEF Surjection
  <2> HIDE DEF T
  <2> QED BY <1>1, <2>1, FS_Surjection, SMTT(30)
<1>3. IsFiniteSet(R) /\ Cardinality(R) <= n
  <2>1. [q \in Requests |-> req[q].refused] \in Surjection(Requests, R)
    BY DEF Surjection
  <2> HIDE DEF R
  <2> QED BY <1>1, <2>1, FS_Surjection, SMTT(30)
<1>4. InUse = (T \cup R) \cup {cache.token}
  BY DEF InUse
<1> HIDE DEF T, R, n
<1>5. IsFiniteSet(T \cup R) /\ Cardinality(T \cup R) <= 2 * n
  <2>1. IsFiniteSet(T \cap R) /\ Cardinality(T \cap R) \in Nat
    BY <1>2, FS_Intersection, FS_CardinalityType, ZenonT(60)
  <2>2. Cardinality(T) \in Nat /\ Cardinality(R) \in Nat
    BY <1>2, <1>3, FS_CardinalityType
  <2>3. /\ IsFiniteSet(T \cup R)
        /\ Cardinality(T \cup R) =
             Cardinality(T) + Cardinality(R) - Cardinality(T \cap R)
    BY <1>2, <1>3, FS_Union
  <2> QED BY <1>1, <1>2, <1>3, <2>1, <2>2, <2>3, SMTT(30)
<1>6. IsFiniteSet(InUse) /\ Cardinality(InUse) <= 2 * n + 1
  <2>1. Cardinality(T \cup R) \in Nat
    BY <1>5, FS_CardinalityType, SMTT(30)
  <2>2. /\ IsFiniteSet(InUse)
        /\ Cardinality(InUse) = IF cache.token \in T \cup R
                                THEN Cardinality(T \cup R)
                                ELSE Cardinality(T \cup R) + 1
    BY <1>4, <1>5, FS_AddElement, ZenonT(60)
  <2> QED BY <1>1, <1>5, <2>1, <2>2, SMTT(30)
<1>7. \E t \in 1 .. MaxTokens : t \notin InUse
  <2> SUFFICES ASSUME 1 .. MaxTokens \subseteq InUse PROVE FALSE
    OBVIOUS
  <2>1. Cardinality(1 .. MaxTokens) = MaxTokens
    BY <1>1, FS_Interval
  <2>2. Cardinality(1 .. MaxTokens) <= Cardinality(InUse)
    BY <1>6, FS_Subset, ZenonT(60)
  <2>3. Cardinality(InUse) \in Nat
    BY <1>6, FS_CardinalityType
  <2> QED BY <1>1, <1>6, <2>1, <2>2, <2>3
<1> QED BY <1>7 DEF NewToken
-----------------------------------------------------------------------------
(* Steps.                                                                  *)

\* The invariant of the requests does not depend on anything that changes but
\* the requests and the cached token.
LEMMA RequestsKeep ==
  ASSUME chain' = chain,
         \A o \in Requests : RequestInv(req'[o], cache'.token)
  PROVE  \A o \in Requests : RequestInv(req[o], cache.token)'
BY SMTT(30) DEF RequestInv, AtProvider, Allowance, ProviderOf

\* One request moves on to n, and neither the cached token nor the locks get in
\* the way of the others.
LEMMA OneMoves ==
  ASSUME IInv, NEW r \in Requests, NEW n \in Request, req' = [req EXCEPT ![r] = n],
         UNCHANGED <<gateway, chain>>, accepted' \subseteq Requests,
         cache' \in [token : 0 .. MaxTokens, fresh : BOOLEAN],
         writer' \in Requests \cup {Nobody}, limiter' \in Requests \cup {Nobody},
         since' \in 0 .. Spacing,
         RequestInv(n, cache'.token),
         n.pc = "fetch" => writer' = r /\ ~cache'.fresh,
         n.pc = "spacing" => limiter' = r /\ n.wait + since' >= Spacing,
         \A o \in Requests \ {r} :
           /\ req[o].pc \in NeedsToken /\ req[o].refused # NoToken =>
                cache'.token # req[o].refused
           /\ At(o, "fetch") => writer' = writer /\ cache'.fresh = cache.fresh
           /\ At(o, "spacing") => limiter' = limiter /\ since' = since
  PROVE  IInv'
<1>1. TypeOK'
  BY DEF IInv, TypeOK
<1>2. \A o \in Requests : req'[o] = IF o = r THEN n ELSE req[o]
  BY DEF IInv, TypeOK
<1>3. LockInv'
  BY <1>2 DEF IInv, LockInv, At
<1>4. \A o \in Requests : RequestInv(req'[o], cache'.token)
  <2> TAKE o \in Requests
  <2>1. CASE o = r
    BY <1>2, <2>1, SMTT(30)
  <2>2. CASE o # r
    <3>1. RequestInv(req[o], cache.token)
      BY SMTT(30) DEF IInv
    <3>2. RequestInv(req[o], cache'.token)
      BY <2>2, <3>1, SMTT(30) DEF RequestInv
    <3> QED BY <1>2, <2>2, <3>2, SMTT(30)
  <2> QED BY <2>1, <2>2
<1>5. \A o \in Requests : RequestInv(req[o], cache.token)'
  BY <1>4, RequestsKeep, SMTT(30)
<1> QED BY <1>1, <1>3, <1>5, SMTT(30) DEF IInv

\* The same when only the request changes.
LEMMA OnlyOneMoves ==
  ASSUME IInv, NEW r \in Requests, NEW n \in Request, req' = [req EXCEPT ![r] = n],
         UNCHANGED <<gateway, chain, cache, writer, limiter, since>>,
         accepted' \subseteq Requests,
         RequestInv(n, cache.token), n.pc \notin {"fetch", "spacing"}
  PROVE  IInv'
<1>1. \A o \in Requests : RequestInv(req[o], cache.token)
  BY DEF IInv
<1>2. \A o \in Requests : req[o].pc \in NeedsToken /\ req[o].refused # NoToken =>
        cache'.token # req[o].refused
  BY <1>1 DEF RequestInv
<1>3. /\ cache \in [token : 0 .. MaxTokens, fresh : BOOLEAN]
      /\ writer \in Requests \cup {Nobody} /\ limiter \in Requests \cup {Nobody}
      /\ since \in 0 .. Spacing
  BY DEF IInv, TypeOK
<1> QED BY <1>2, <1>3, OneMoves, Zenon

\* What the invariant says of one request.
LEMMA OfRequest ==
  ASSUME IInv, NEW r \in Requests
  PROVE  /\ chain \in Chains /\ req[r] \in Request /\ accepted \subseteq Requests
         /\ RequestInv(req[r], cache.token)
         /\ cache \in [token : 0 .. MaxTokens, fresh : BOOLEAN]
         /\ writer \in Requests \cup {Nobody} /\ limiter \in Requests \cup {Nobody}
         /\ since \in 0 .. Spacing
BY DEF IInv, TypeOK

\* The first provider is one of the chain.
LEMMA FirstProvider ==
  ASSUME chain \in Chains, NEW q \in Request,
         q.answer = "waiting", q.provider = 1, q.again = FALSE,
         q.sends <= q.attempt * SendsPerAttempt(chain)
  PROVE  AtProvider(q) /\ q.sends <= Allowance(q)
<1>1. chain \in Seq([provider : Providers, section : BOOLEAN]) /\ chain # <<>>
  BY GatewayAssumption, Zenon
<1>2. Len(chain) \in Nat /\ Len(chain) > 0
  BY <1>1
<1>3. AtProvider(q)
  BY <1>2 DEF AtProvider
<1>4. SendsBefore(chain, 1) = 0
  BY SendsCounted
<1>5. q.attempt * SendsPerAttempt(chain) \in Nat
  BY SendsCounted, AttemptsCounted, Zenon DEF Request
<1>6. Allowance(q) = q.attempt * SendsPerAttempt(chain) + 0 + 0
  BY <1>4 DEF Allowance
<1> QED BY <1>3, <1>5, <1>6, SMTT(30)

\* A request is received, with a number and a code or without.
LEMMA ReceiveKeeps ==
  ASSUME IInv, NEW r \in Requests,
         (\E m \in Msisdns[r] : Receive(r, m)) \/ ReceiveInvalid(r)
  PROVE  IInv'
<1>1. CASE ReceiveInvalid(r)
  <2> DEFINE n == Finish(NewRequest, "rejected")
  <2>1. n \in Request /\ RequestInv(n, cache.token) /\ n.pc = "done"
    BY FinishOK DEF Finish, NewRequest
  <2> HIDE DEF n
  <2>2. req' = [req EXCEPT ![r] = n] /\ accepted' \subseteq Requests
    BY <1>1, OfRequest DEF ReceiveInvalid, Becomes, n
  <2> QED BY <1>1, <2>1, <2>2, OnlyOneMoves, ZenonT(60) DEF ReceiveInvalid
<1>2. CASE \E m \in Msisdns[r] : Receive(r, m)
  <2>1. PICK m \in Msisdns[r] : Receive(r, m)
    BY <1>2
  <2> DEFINE q == [NewRequest EXCEPT !.msisdn = m, !.answer = "waiting"]
             n == Begin(q)
  <2>2. m \in Msisdn
    BY GatewayAssumption
  <2>3. q \in Request
    BY <2>2, NewRequestType, ZenonT(60) DEF Request
  <2>4. /\ q.answer = "waiting" /\ q.provider = 1 /\ q.again = FALSE
        /\ q.sends = 0 /\ q.attempt = 0
    BY DEF NewRequest
  <2>5. n.pc \notin {"fetch", "spacing"}
    BY <2>3 DEF Begin, Request
  <2> HIDE DEF q
  <2>6. q.sends <= q.attempt * SendsPerAttempt(chain)
    BY <2>4, OfRequest, SendsCounted
  <2>7. AtProvider(q) /\ q.sends <= Allowance(q)
    BY <2>3, <2>4, <2>6, FirstProvider, OfRequest, ZenonT(60)
  <2>8. n \in Request /\ RequestInv(n, cache.token)
    BY <2>3, <2>4, <2>7, BeginOK, OfRequest
  <2> HIDE DEF n
  <2>9. req' = [req EXCEPT ![r] = n] /\ accepted' \subseteq Requests
    BY <2>1, OfRequest, ZenonT(60) DEF Receive, Becomes, n, q
  <2> QED BY <2>1, <2>5, <2>8, <2>9, OnlyOneMoves, ZenonT(60) DEF Receive
<1> QED BY <1>1, <1>2

\* The cache is looked at, under the read lock or the write lock.
LEMMA TokenStepsKeep ==
  ASSUME IInv, NEW r \in Requests, CheckToken(r) \/ LockToken(r)
  PROVE  IInv'
<1>1. req[r].pc \in {"check_token", "lock_token"} /\ writer = Nobody
  BY ZenonT(60) DEF CheckToken, LockToken, At
<1>2. /\ AtProvider(req[r]) /\ req[r].sends <= Allowance(req[r])
      /\ req[r].again \/ req[r].refused = NoToken
      /\ req[r].refused # NoToken => cache.token # req[r].refused
  BY <1>1, OfRequest, SMTT(30) DEF RequestInv, Trying, NeedsToken
<1>3. accepted' \subseteq Requests
  BY OfRequest DEF CheckToken, LockToken
<1>4. CASE cache.fresh
  <2> DEFINE n == WithToken(req[r], cache.token)
  <2>1. /\ n \in Request /\ RequestInv(n, cache.token)
        /\ n.pc \notin {"fetch", "spacing"}
    BY <1>1, <1>2, OfRequest, WithTokenOK DEF NeedsToken
  <2> HIDE DEF n
  <2>2. /\ req' = [req EXCEPT ![r] = n]
        /\ UNCHANGED <<gateway, chain, cache, writer, limiter, since>>
    BY <1>4 DEF CheckToken, LockToken, Becomes, n
  <2> QED BY <1>3, <2>1, <2>2, OnlyOneMoves, ZenonT(60)
<1>5. CASE ~cache.fresh
  <2>1. PICK label \in {"lock_token", "fetch"} :
          /\ req' = [req EXCEPT ![r] = [req[r] EXCEPT !.pc = label]]
          /\ writer' = IF label = "fetch" THEN r ELSE writer
    BY <1>5 DEF CheckToken, LockToken, Becomes
  <2> DEFINE n == [req[r] EXCEPT !.pc = label]
  <2>2. n \in Request
    BY OfRequest DEF Request, Labels
  <2>3. /\ n.pc = label /\ n.refused = req[r].refused
        /\ n.answer = req[r].answer /\ n.provider = req[r].provider
        /\ n.again = req[r].again
        /\ n.attempt = req[r].attempt /\ n.sends = req[r].sends
    BY OfRequest, ZenonT(60) DEF Request
  <2> HIDE DEF n
  <2>4. AtProvider(n) /\ Allowance(n) = Allowance(req[r])
    BY <1>2, <2>3, ZenonT(60) DEF AtProvider, Allowance, ProviderOf
  <2>5. RequestInv(n, cache.token)
    BY <1>2, <2>3, <2>4, SMTT(30) DEF RequestInv, Trying, NeedsToken, HasToken
  <2>6. UNCHANGED <<gateway, chain, cache, limiter, since>>
    BY DEF CheckToken, LockToken
  <2>7. \A o \in Requests \ {r} :
          /\ req[o].pc \in NeedsToken /\ req[o].refused # NoToken =>
               cache.token # req[o].refused
          /\ ~At(o, "fetch")
    <3> TAKE o \in Requests \ {r}
    <3>1. RequestInv(req[o], cache.token)
      BY OfRequest, SMTT(30)
    <3>2. At(o, "fetch") => writer = o
      BY DEF IInv, LockInv
    <3>3. o # Nobody
      BY GatewayAssumption
    <3> QED BY <1>1, <3>1, <3>2, <3>3, SMTT(30) DEF RequestInv
  <2>8. req' = [req EXCEPT ![r] = n]
    BY <2>1 DEF n
  <2> QED BY <1>3, <1>5, <2>1, <2>2, <2>3, <2>5, <2>6, <2>7, <2>8, OfRequest, OneMoves, Zenon
<1> QED BY <1>4, <1>5, SMTT(30)

\* While one request fetches, no other does, and a lock it gives back is not
\* missed by the others.
LEMMA AloneAtFetch ==
  ASSUME IInv, NEW r \in Requests, At(r, "fetch")
  PROVE  \A o \in Requests \ {r} : ~At(o, "fetch")
BY DEF IInv, LockInv

\* The token endpoint answers with a token.
LEMMA FetchTokenKeeps ==
  ASSUME IInv, NEW r \in Requests, FetchToken(r)
  PROVE  IInv'
<1> DEFINE n == WithToken(req[r], NewToken)
<1>1. NewToken \in 1 .. MaxTokens /\ NewToken \notin InUse
  BY NewTokenIsNew DEF IInv, TypeOK
<1>2. \A o \in Requests : NewToken # req[o].refused
  BY <1>1 DEF InUse
<1>3. req[r].pc = "fetch"
  BY ZenonT(60) DEF FetchToken, At
<1>4. /\ AtProvider(req[r]) /\ req[r].sends <= Allowance(req[r])
      /\ req[r].again \/ req[r].refused = NoToken
  BY <1>3, OfRequest, SMTT(30) DEF RequestInv, Trying, NeedsToken
<1>5. NewToken \in 0 .. MaxTokens
  BY <1>1, Constants, SMTT(30)
<1>6. /\ n \in Request /\ RequestInv(n, NewToken)
      /\ n.pc \notin {"fetch", "spacing"}
  BY <1>2, <1>3, <1>4, <1>5, OfRequest, WithTokenOK, ZenonT(60) DEF NeedsToken
<1>7. /\ req' = [req EXCEPT ![r] = n]
      /\ cache' = [token |-> NewToken, fresh |-> TRUE] /\ writer' = Nobody
      /\ UNCHANGED <<gateway, chain, limiter, since, accepted>>
  BY DEF FetchToken, Becomes
<1> HIDE DEF n
<1>8. cache' \in [token : 0 .. MaxTokens, fresh : BOOLEAN] /\ cache'.token = NewToken
  BY <1>5, <1>7
<1>9. \A o \in Requests \ {r} : ~At(o, "fetch")
  BY <1>3, AloneAtFetch, SMTT(30) DEF At
<1> QED BY <1>2, <1>6, <1>7, <1>8, <1>9, OfRequest, OneMoves, ZenonT(60)

\* The token endpoint fails, or Orange's token is cleared from the cache.
LEMMA FetchFailsKeeps ==
  ASSUME IInv, NEW r \in Requests, FetchFails(r)
  PROVE  IInv'
<1> DEFINE n == Settle(req[r], "failed")
<1>1. req[r].pc = "fetch"
  BY ZenonT(60) DEF FetchFails, At
<1>2. /\ AtProvider(req[r]) /\ req[r].sends <= Allowance(req[r])
      /\ req[r].again \/ req[r].refused = NoToken
  BY <1>1, OfRequest DEF RequestInv, Trying, NeedsToken
<1>3. req[r].sends <= Allowance(req[r]) + 1
  BY <1>2, OfRequest, AllowanceIsNat, SMTT(30) DEF Request
<1>4. /\ n \in Request /\ RequestInv(n, cache.token)
      /\ n.pc \notin {"fetch", "spacing"}
  BY <1>2, <1>3, OfRequest, SettleOK, SettlePc, ZenonT(60) DEF Outcomes
<1>5. /\ req' = [req EXCEPT ![r] = n] /\ writer' = Nobody
      /\ UNCHANGED <<gateway, chain, cache, limiter, since, accepted>>
  BY ZenonT(60) DEF FetchFails, Becomes
<1> HIDE DEF n
<1>6. \A o \in Requests \ {r} : ~At(o, "fetch")
  BY <1>1, AloneAtFetch DEF At
<1>7. \A o \in Requests : req[o].pc \in NeedsToken /\ req[o].refused # NoToken =>
        cache.token # req[o].refused
  BY OfRequest DEF RequestInv
<1> QED BY <1>4, <1>5, <1>6, <1>7, OfRequest, OneMoves, ZenonT(60)

\* The cache is cleared after a 401.
LEMMA ClearTokenKeeps ==
  ASSUME IInv, NEW r \in Requests, ClearToken(r)
  PROVE  IInv'
<1> DEFINE n == Settle(req[r], "transient")
<1>1. req[r].pc = "clear_token" /\ writer = Nobody
  BY ZenonT(60) DEF ClearToken, At
<1>2. AtProvider(req[r]) /\ req[r].sends <= Allowance(req[r]) + 1
  BY <1>1, OfRequest DEF RequestInv
<1>3. /\ n \in Request /\ RequestInv(n, NoToken)
      /\ n.pc \notin {"fetch", "spacing"}
  BY <1>2, OfRequest, SettleOK, SettlePc, SMTT(30) DEF Outcomes
<1>4. /\ req' = [req EXCEPT ![r] = n] /\ cache' = NoCache
      /\ UNCHANGED <<gateway, chain, writer, limiter, since, accepted>>
  BY DEF ClearToken, Becomes
<1> HIDE DEF n
<1>5. cache' \in [token : 0 .. MaxTokens, fresh : BOOLEAN] /\ cache'.token = NoToken
  BY <1>4, Constants, SMTT(30) DEF NoCache, NoToken
<1>6. \A o \in Requests : ~At(o, "fetch")
  BY <1>1, GatewayAssumption, SMTT(30) DEF IInv, LockInv
<1> QED BY <1>3, <1>4, <1>5, <1>6, OfRequest, OneMoves, ZenonT(60)

\* A request takes the limiter, or has slept long enough and leaves it.
LEMMA LimiterKeeps ==
  ASSUME IInv, NEW r \in Requests, EnterLimiter(r) \/ LeaveLimiter(r)
  PROVE  IInv'
<1>1. req[r].pc \in {"throttle", "spacing"}
  BY ZenonT(60) DEF EnterLimiter, LeaveLimiter, At
<1>2. /\ AtProvider(req[r]) /\ req[r].sends <= Allowance(req[r])
      /\ req[r].again \/ req[r].refused = NoToken
      /\ req[r].refused # NoToken => req[r].token # req[r].refused
  BY <1>1, OfRequest, SMTT(30) DEF RequestInv, Trying, HasToken
<1>3. Spacing - since \in Nat
  BY OfRequest, Constants, SMTT(30)
<1>4. PICK label \in {"spacing", "post"}, w \in Nat :
        /\ req' = [req EXCEPT ![r] = [req[r] EXCEPT !.pc = label, !.wait = w]]
        /\ label = "spacing" => /\ limiter = Nobody /\ limiter' = r
                               /\ w + since = Spacing /\ since' = since
        /\ label = "post" => At(r, "spacing") /\ limiter' = Nobody /\ since' = 0
  <2>1. CASE EnterLimiter(r)
    <3>1. Spacing - since + since = Spacing
      BY OfRequest, Constants, SMTT(30)
    <3> QED BY <1>3, <2>1, <3>1, ZenonT(60) DEF EnterLimiter, Becomes
  <2>2. CASE LeaveLimiter(r)
    <3>1. req[r].wait \in Nat /\ [req[r] EXCEPT !.pc = "post"] =
            [req[r] EXCEPT !.pc = "post", !.wait = req[r].wait]
      BY OfRequest, Zenon DEF Request
    <3> QED BY <2>2, <3>1, ZenonT(60) DEF LeaveLimiter, Becomes
  <2> QED BY <2>1, <2>2, ZenonT(60)
<1> DEFINE n == [req[r] EXCEPT !.pc = label, !.wait = w]
<1>5. n \in Request
  BY OfRequest, ZenonT(60) DEF Request, Labels
<1>6. /\ n.pc = label /\ n.wait = w /\ n.refused = req[r].refused
      /\ n.token = req[r].token /\ n.again = req[r].again
      /\ n.answer = req[r].answer /\ n.provider = req[r].provider
      /\ n.attempt = req[r].attempt /\ n.sends = req[r].sends
  BY OfRequest DEF Request
<1>7. req' = [req EXCEPT ![r] = n]
  BY <1>4
<1> HIDE DEF n
<1>8. AtProvider(n) /\ Allowance(n) = Allowance(req[r])
  BY <1>2, <1>6, SMTT(30) DEF AtProvider, Allowance, ProviderOf
<1>9. RequestInv(n, cache.token)
  BY <1>2, <1>6, <1>8, ZenonT(60) DEF RequestInv, Trying, NeedsToken, HasToken
<1>10. UNCHANGED <<gateway, chain, cache, writer, accepted>>
  BY DEF EnterLimiter, LeaveLimiter
<1>11. \A o \in Requests \ {r} : ~At(o, "spacing")
  BY <1>4, GatewayAssumption, ZenonT(60) DEF IInv, LockInv
<1>12. \A o \in Requests : req[o].pc \in NeedsToken /\ req[o].refused # NoToken =>
         cache.token # req[o].refused
  BY OfRequest, SMTT(30) DEF RequestInv
<1>13. n.pc = "spacing" => limiter' = r /\ n.wait + since' >= Spacing
  BY <1>4, <1>6, Constants, SMTT(30)
<1>14. limiter' \in Requests \cup {Nobody} /\ since' \in 0 .. Spacing
  BY <1>4, OfRequest, Constants, SMTT(30)
<1> QED BY <1>5, <1>6, <1>7, <1>9, <1>10, <1>11, <1>12, <1>13, <1>14, OfRequest, OneMoves, ZenonT(60)

\* The code is sent to a provider.
LEMMA PostKeeps ==
  ASSUME IInv, NEW r \in Requests, NEW a \in Answers, Post(r, a)
  PROVE  IInv'
<1> DEFINE n == AfterAnswer([req[r] EXCEPT !.sends = @ + 1], a)
<1>1. req[r].pc = "post"
  BY DEF Post, At
<1>2. /\ n \in Request /\ RequestInv(n, cache.token)
      /\ n.pc \notin {"fetch", "spacing"}
  BY <1>1, OfRequest, AfterAnswerOK
<1>3. /\ req' = [req EXCEPT ![r] = n]
      /\ accepted' \in {accepted, accepted \cup {r}}
      /\ UNCHANGED <<gateway, chain, cache, writer, limiter, since>>
  BY DEF Post, Becomes
<1> HIDE DEF n
<1>4. accepted' \subseteq Requests
  BY <1>3, OfRequest
<1> QED BY <1>2, <1>3, <1>4, OnlyOneMoves, ZenonT(60)

\* The whole chain is tried again.
LEMMA RetryKeeps ==
  ASSUME IInv, NEW r \in Requests, RetryAfterBackoff(r)
  PROVE  IInv'
<1> DEFINE q == [req[r] EXCEPT !.provider = 1, !.again = FALSE]
           n == Begin(q)
<1>1. req[r].pc = "backoff"
  BY ZenonT(60) DEF RetryAfterBackoff, At
<1>2. req[r].answer = "waiting"
      /\ req[r].sends <= req[r].attempt * SendsPerAttempt(chain)
  BY <1>1, OfRequest DEF RequestInv
<1>3. q \in Request
  <2>1. req[r] \in Request /\ 1 \in Nat \ {0}
    BY OfRequest
  <2> QED BY <2>1, Zenon DEF Request
<1>4. /\ q.answer = "waiting" /\ q.provider = 1 /\ q.again = FALSE
      /\ q.sends = req[r].sends /\ q.attempt = req[r].attempt
  BY <1>2, OfRequest DEF Request
<1>5. n.pc \notin {"fetch", "spacing"}
  BY <1>3, SMTT(30) DEF Begin, Request
<1> HIDE DEF q
<1>6. AtProvider(q) /\ q.sends <= Allowance(q)
  BY <1>2, <1>3, <1>4, FirstProvider, OfRequest, ZenonT(60)
<1>7. n \in Request /\ RequestInv(n, cache.token)
  BY <1>3, <1>4, <1>6, BeginOK, OfRequest
<1> HIDE DEF n
<1>8. /\ req' = [req EXCEPT ![r] = n] /\ accepted' \subseteq Requests
      /\ UNCHANGED <<gateway, chain, cache, writer, limiter, since>>
  BY OfRequest, SMTT(30) DEF RetryAfterBackoff, Becomes, n, q
<1> QED BY <1>5, <1>7, <1>8, OnlyOneMoves, Zenon

\* The caller hangs up: the lock that is given back is the request's own.
LEMMA DisconnectKeeps ==
  ASSUME IInv, NEW r \in Requests, Disconnect(r)
  PROVE  IInv'
<1> DEFINE n == Finish(req[r], "gone")
<1>1. n \in Request /\ RequestInv(n, cache.token) /\ n.pc = "done"
  BY FinishOK DEF Finish, NewRequest
<1> HIDE DEF n
<1>2. req' = [req EXCEPT ![r] = n] /\ UNCHANGED <<gateway, chain, cache, since, accepted>>
  BY DEF Disconnect, Becomes, n
<1>3. /\ writer' \in Requests \cup {Nobody} /\ limiter' \in Requests \cup {Nobody}
      /\ writer # r => writer' = writer
      /\ limiter # r => limiter' = limiter
  BY OfRequest, ZenonT(60) DEF Disconnect
<1>4. \A o \in Requests \ {r} :
        /\ req[o].pc \in NeedsToken /\ req[o].refused # NoToken =>
             cache.token # req[o].refused
        /\ At(o, "fetch") => writer' = writer
        /\ At(o, "spacing") => limiter' = limiter
  <2> TAKE o \in Requests \ {r}
  <2>1. RequestInv(req[o], cache.token)
    BY OfRequest, SMTT(30)
  <2>2. /\ At(o, "fetch") => writer = o
        /\ At(o, "spacing") => limiter = o
    BY DEF IInv, LockInv
  <2> QED BY <1>3, <2>1, <2>2, ZenonT(60) DEF RequestInv
<1> QED BY <1>1, <1>2, <1>3, <1>4, OfRequest, OneMoves, ZenonT(60)

\* The cached token comes to its end.
LEMMA TokenAgesKeeps ==
  ASSUME IInv, TokenAges
  PROVE  IInv'
<1>1. cache \in [token : 0 .. MaxTokens, fresh : BOOLEAN]
  BY DEF IInv, TypeOK
<1>2. cache' = [token |-> cache.token, fresh |-> FALSE]
      /\ UNCHANGED <<gateway, chain, writer, limiter, since, req, accepted>>
  BY <1>1, ZenonT(60) DEF TokenAges
<1>3. TypeOK'
  BY <1>1, <1>2, ZenonT(60) DEF IInv, TypeOK
<1>4. LockInv'
  BY <1>2 DEF IInv, LockInv, At
<1>5. \A o \in Requests : RequestInv(req'[o], cache'.token)
  BY <1>2 DEF IInv
<1>6. \A o \in Requests : RequestInv(req[o], cache.token)'
  BY <1>2, <1>5, RequestsKeep, ZenonT(60)
<1> QED BY <1>3, <1>4, <1>6, ZenonT(60) DEF IInv

\* Time passes: what a request at the limiter still sleeps is made up for by
\* the time since the last send.
LEMMA TickKeeps ==
  ASSUME IInv, Tick
  PROVE  IInv'
<1>1. /\ req \in [Requests -> Request] /\ since \in 0 .. Spacing
      /\ UNCHANGED <<gateway, chain, cache, writer, limiter, accepted>>
  BY DEF IInv, TypeOK, Tick
<1>2. /\ since' \in 0 .. Spacing
      /\ since' = since + 1 \/ (since' = since /\ since = Spacing)
  <2>1. since' = IF since < Spacing THEN since + 1 ELSE since
    BY DEF Tick
  <2> QED BY <1>1, <2>1, Constants, SMTT(30)
<1> DEFINE n(o) == [req[o] EXCEPT !.wait = IF @ > 0 THEN @ - 1 ELSE 0]
<1>3. \A o \in Requests : req'[o] = n(o)
  BY DEF Tick
<1>4. \A o \in Requests :
        /\ n(o) \in Request
        /\ n(o).wait + 1 >= req[o].wait /\ n(o).wait \in Nat
        /\ n(o).pc = req[o].pc /\ n(o).refused = req[o].refused
        /\ n(o).token = req[o].token /\ n(o).again = req[o].again
        /\ n(o).answer = req[o].answer /\ n(o).provider = req[o].provider
        /\ n(o).attempt = req[o].attempt /\ n(o).sends = req[o].sends
  <2> TAKE o \in Requests
  <2> DEFINE w == IF req[o].wait > 0 THEN req[o].wait - 1 ELSE 0
  <2>1. req[o] \in Request
    BY <1>1, SMTT(30)
  <2>2. w \in Nat /\ w + 1 >= req[o].wait
    BY <2>1 DEF Request
  <2>3. n(o) = [req[o] EXCEPT !.wait = w]
    BY <2>1 DEF Request
  <2> HIDE DEF w, n
  <2>4. n(o) \in Request
    BY <2>1, <2>2, <2>3, SMTT(30) DEF Request
  <2> QED BY <2>1, <2>2, <2>3, <2>4, SMTT(30) DEF Request
<1>5. req' = [o \in Requests |-> n(o)]
  BY SMTT(30) DEF Tick
<1> HIDE DEF n
<1>6. TypeOK'
  BY <1>1, <1>2, <1>4, <1>5, ZenonT(60) DEF IInv, TypeOK
<1>7. LockInv'
  <2> SUFFICES ASSUME NEW o \in Requests
               PROVE  /\ At(o, "fetch")' => writer' = o /\ ~cache'.fresh
                      /\ At(o, "spacing")' => /\ limiter' = o
                                              /\ req'[o].wait + since' >= Spacing
    BY DEF LockInv
  <2>1. /\ At(o, "fetch") => writer = o /\ ~cache.fresh
        /\ At(o, "spacing") => limiter = o /\ req[o].wait + since >= Spacing
    BY DEF IInv, LockInv
  <2>2. req[o].wait \in Nat
    BY <1>1, SMTT(30) DEF Request
  <2> QED BY <1>1, <1>2, <1>3, <1>4, <2>1, <2>2, Constants, SMTT(30) DEF At
<1>8. \A o \in Requests : RequestInv(req'[o], cache'.token)
  <2> TAKE o \in Requests
  <2>1. RequestInv(req[o], cache.token)
    BY DEF IInv
  <2> QED BY <1>1, <1>3, <1>4, <2>1, ZenonT(60)
          DEF RequestInv, AtProvider, Allowance, ProviderOf
<1>9. \A o \in Requests : RequestInv(req[o], cache.token)'
  BY <1>1, <1>8, RequestsKeep, SMTT(30)
<1> QED BY <1>6, <1>7, <1>9 DEF IInv

LEMMA InitOK == Init => IInv
<1> SUFFICES ASSUME Init PROVE IInv
  OBVIOUS
<1>1. TypeOK
  <2>1. NoCache \in [token : 0 .. MaxTokens, fresh : BOOLEAN]
    BY Constants DEF NoCache, NoToken
  <2> QED BY <2>1, NewRequestType, Constants, SMTT(30) DEF Init, TypeOK
<1>2. LockInv
  BY ZenonT(60) DEF Init, LockInv, At, NewRequest
<1>3. \A t : RequestInv(NewRequest, t)
  BY DEF RequestInv, NewRequest, Trying, NeedsToken, HasToken
<1> QED BY <1>1, <1>2, <1>3, SMTT(30) DEF Init, IInv

LEMMA Inductive == IInv /\ [Next]_vars => IInv'
<1> SUFFICES ASSUME IInv, [Next]_vars
             PROVE  IInv'
  OBVIOUS
<1>1. CASE UNCHANGED vars \/ CreateSmsProvider
  <2>1. /\ UNCHANGED <<chain, cache, writer, limiter, since, req, accepted>>
        /\ gateway' \in {gateway, "up", "refused"}
    BY <1>1 DEF vars, CreateSmsProvider
  <2>2. TypeOK' /\ LockInv'
    BY <2>1 DEF IInv, TypeOK, LockInv, At
  <2>3. \A o \in Requests : RequestInv(req[o], cache.token)'
    BY <2>1, RequestsKeep DEF IInv
  <2> QED BY <2>2, <2>3, SMTT(30) DEF IInv
<1>2. CASE TokenAges
  BY <1>2, TokenAgesKeeps
<1>3. CASE Tick
  BY <1>3, TickKeeps, ZenonT(60)
<1>4. ASSUME NEW r \in Requests,
             \/ \E m \in Msisdns[r] : Receive(r, m)
             \/ ReceiveInvalid(r) \/ Step(r) \/ Disconnect(r)
      PROVE  IInv'
  <2>1. CASE (\E m \in Msisdns[r] : Receive(r, m)) \/ ReceiveInvalid(r)
    BY <2>1, ReceiveKeeps
  <2>2. CASE Step(r)
    BY <2>2, TokenStepsKeep, FetchTokenKeeps, FetchFailsKeeps, LimiterKeeps,
       PostKeeps, ClearTokenKeeps, RetryKeeps, ZenonT(60) DEF Step
  <2>3. CASE Disconnect(r)
    BY <2>3, DisconnectKeeps, SMTT(30)
  <2> QED BY <1>4, <2>1, <2>2, <2>3, ZenonT(60)
<1> QED BY <1>1, <1>2, <1>3, <1>4, SMTT(30) DEF Next

LEMMA Invariant == Spec => []IInv
BY InitOK, Inductive, PTL DEF Spec

-----------------------------------------------------------------------------
(* What holds of the gateway.                                              *)

\* Every variable stays within its type, whatever the chain: above all a
\* request's position in the chain, its attempts and the holders of the locks.
THEOREM TypesHold == Spec => []TypeOK
<1>1. IInv => TypeOK
  BY DEF IInv
<1> QED BY <1>1, Invariant, PTL

\* After a 401 the Orange provider never sends with the token that was refused,
\* whatever other requests fetch and clear between clear_cached_token and the
\* second send_once.
THEOREM RefusedTokenIsNotReused == Spec => []RefusedTokenNotReused
<1>1. IInv => RefusedTokenNotReused
  BY ZenonT(60) DEF IInv, RequestInv, HasToken, RefusedTokenNotReused
<1> QED BY <1>1, Invariant, PTL

\* get_valid_token fetches no token while a fresh one is cached: the cache is
\* looked at again under the write lock, and the lock kept during the fetch.
THEOREM NoTokenIsFetchedNeedlessly == Spec => []NoNeedlessFetch
<1>1. IInv => NoNeedlessFetch
  BY DEF IInv, LockInv, NoNeedlessFetch
<1> QED BY <1>1, Invariant, PTL

\* The rate limiter lets two sends to Orange through at least 200 ms apart: the
\* lock on last_send is held while the rest of the time is slept.
THEOREM SendsAreSpaced == Spec => SendsSpaced
<1> DEFINE Spaced == \A r \in Requests :
             req[r].pc = "spacing" /\ req'[r].pc = "post" => since >= Spacing
<1>1. IInv /\ [Next]_vars => [Spaced]_vars
  <2> SUFFICES ASSUME IInv, Next, NEW r \in Requests,
                      req[r].pc = "spacing", req'[r].pc = "post"
               PROVE  since >= Spacing
    BY ZenonT(60) DEF vars
  <2>1. req[r].wait = 0
    <3>1. CASE CreateSmsProvider \/ TokenAges
      BY <3>1 DEF CreateSmsProvider, TokenAges
    <3>2. CASE Tick
      BY <3>2, OfRequest, SMTT(30) DEF Tick, Request
    <3>3. ASSUME NEW o \in Requests,
                 \/ \E m \in Msisdns[o] : Receive(o, m)
                 \/ ReceiveInvalid(o) \/ Step(o) \/ Disconnect(o)
          PROVE  req[r].wait = 0
      <4>1. o = r
        BY <3>3, ZenonT(60) DEF Receive, ReceiveInvalid, Step, Disconnect, CheckToken,
           LockToken, FetchToken, FetchFails, EnterLimiter, LeaveLimiter, Post,
           ClearToken, RetryAfterBackoff, Becomes, IInv, TypeOK
      <4> QED BY <3>3, <4>1, OfRequest, ZenonT(60) DEF Receive, ReceiveInvalid, Step, Disconnect,
              CheckToken, LockToken, FetchToken, FetchFails, EnterLimiter,
              LeaveLimiter, Post, ClearToken, RetryAfterBackoff, Becomes, At,
              Finish, NewRequest, IInv, TypeOK
    <3> QED BY <3>1, <3>2, <3>3, SMTT(30) DEF Next
  <2>2. req[r].wait + since >= Spacing
    BY SMTT(30) DEF IInv, LockInv, At
  <2> QED BY <2>1, <2>2, OfRequest, Constants, SMTT(30)
<1> QED BY <1>1, Invariant, PTL DEF Spec, SendsSpaced

\* The providers that rewrite a number agree on the recipient of every number
\* that is written with one international prefix at most.
LEMMA SameAddress ==
  ASSUME NEW m \in Msisdn, WellFormed(m), OrangeAccepts(m)
  PROVE  MtargetAddress(m) = OrangeAddress(m)
<1>1. /\ m.plus \in BOOLEAN /\ m.zeros \in Nat /\ m.cc \in BOOLEAN
      /\ m.local.nine \in BOOLEAN /\ m.local.mobile \in BOOLEAN
  BY DEF Msisdn
<1>2. CASE m.plus
  <2>1. m.zeros = 0 /\ m.cc = TRUE
    BY <1>1, <1>2 DEF WellFormed
  <2>2. MtargetAddress(m) = Address(m.zeros, m.cc, m.local)
    BY <1>2 DEF MtargetAddress
  <2> QED BY <2>1, <2>2, Zenon DEF OrangeAddress
<1>3. CASE ~m.plus /\ m.zeros > 0
  <2>1. m.zeros = 1 /\ m.cc = TRUE
    BY <1>1, <1>3 DEF WellFormed
  <2>2. m.plus = FALSE /\ m.zeros - 1 = 0
    BY <1>1, <1>3, <2>1
  <2>3. MtargetAddress(m) = Address(m.zeros - 1, m.cc, m.local)
    BY <2>1, <2>2 DEF MtargetAddress
  <2> QED BY <2>1, <2>2, <2>3, ZenonT(60) DEF OrangeAddress
<1>4. CASE ~m.plus /\ m.zeros = 0 /\ m.cc
  <2>1. m.cc = TRUE
    BY <1>1, <1>4, ZenonT(60)
  <2> QED BY <1>4, <2>1 DEF MtargetAddress, OrangeAddress, Address
<1>5. CASE ~m.plus /\ m.zeros = 0 /\ ~m.cc
  BY <1>1, <1>5, SMTT(30) DEF OrangeAccepts, MtargetAddress, OrangeAddress, Address
<1> QED BY <1>1, <1>2, <1>3, <1>4, <1>5, SMTT(30)

\* Orange and Mtarget send the code to the same number, for every well-formed
\* number that Orange accepts: normalize_msisdn of the one and of the other.
THEOREM RecipientsAgree == Spec => []SameRecipient
<1>1. IInv => SameRecipient
  <2> SUFFICES ASSUME IInv, NEW r \in Requests,
                      WellFormed(req[r].msisdn), OrangeAccepts(req[r].msisdn)
               PROVE  MtargetAddress(req[r].msisdn) = OrangeAddress(req[r].msisdn)
    BY DEF SameRecipient
  <2>1. req[r].msisdn \in Msisdn
    BY OfRequest, ZenonT(60) DEF Request
  <2> QED BY <2>1, SameAddress
<1> QED BY <1>1, Invariant, PTL

-----------------------------------------------------------------------------
(* The gateway implements its contract.                                    *)

\* What the caller of a request is told, as the contract names it.
ToldOf(q) == IF q.answer = "rejected" THEN "failed" ELSE q.answer

\* A request goes on with its sends counted, or ends.
GoesOn(q, n) == n.sends = q.sends /\ n.answer = q.answer
Ends(n, answers) == n.sends = 0 /\ ToldOf(n) \in answers

\* What Settle does to the sends and to the answer.
LEMMA SettleTells ==
  ASSUME NEW q \in Request, NEW outcome \in Outcomes
  PROVE  LET n == Settle(q, outcome)
         IN  /\ outcome = "ok" => Ends(n, {"delivered"})
             /\ outcome # "ok" => GoesOn(q, n) \/ Ends(n, {"failed"})
<1>1. /\ Ends(Finish(q, "delivered"), {"delivered"})
      /\ \A x : Ends(Finish(x, "failed"), {"failed"}) /\ Ends(Finish(x, "rejected"), {"failed"})
  BY DEF Ends, ToldOf, Finish, NewRequest
<1>2. ASSUME NEW x \in Request PROVE GoesOn(x, Begin(x))
  BY DEF GoesOn, Begin, Request
<1>3. ASSUME NEW error
      PROVE  LET n == FallBack(q, error) IN GoesOn(q, n) \/ Ends(n, {"failed"})
  <2>1. CASE q.provider < Len(chain)
    <3> DEFINE x == [q EXCEPT !.provider = @ + 1, !.again = FALSE]
    <3>1. x \in Request /\ x.sends = q.sends /\ x.answer = q.answer
      <4>1. q.provider + 1 \in Nat \ {0}
        BY DEF Request
      <4> QED BY <4>1, Zenon DEF Request
    <3>2. FallBack(q, error) = Begin(x)
      BY <2>1 DEF FallBack
    <3> HIDE DEF x
    <3> QED BY <1>2, <3>1, <3>2, SMTT(30) DEF GoesOn
  <2>2. CASE ~(q.provider < Len(chain))
    <3>1. FallBack(q, error) = RetryOrGiveUp(q, error)
      BY <2>2 DEF FallBack
    <3>2. CASE error = "transient" /\ AttemptsLeft(q)
      BY <3>1, <3>2, ZenonT(60) DEF RetryOrGiveUp, GoesOn, Request
    <3>3. CASE ~(error = "transient" /\ AttemptsLeft(q))
      BY <1>1, <3>1, <3>3 DEF RetryOrGiveUp
    <3> QED BY <3>2, <3>3
  <2> QED BY <2>1, <2>2, ZenonT(60)
<1>4. CASE outcome = "ok"
  BY <1>1, <1>4, ZenonT(60) DEF Settle
<1>5. CASE outcome = "transient" /\ ProviderOf(q) = "orange" /\ ~q.again
  <2> DEFINE x == [q EXCEPT !.again = TRUE]
  <2>1. x \in Request /\ x.sends = q.sends /\ x.answer = q.answer
    BY ZenonT(60) DEF Request
  <2>2. Settle(q, outcome) = Begin(x)
    BY <1>5 DEF Settle
  <2> HIDE DEF x
  <2> QED BY <1>2, <1>5, <2>1, <2>2 DEF GoesOn
<1>6. CASE ~(outcome = "ok")
           /\ ~(outcome = "transient" /\ ProviderOf(q) = "orange" /\ ~q.again)
  <2>1. Settle(q, outcome) = FallBack(q, outcome)
    BY <1>6 DEF Settle
  <2> QED BY <1>3, <1>6, <2>1
<1> QED BY <1>4, <1>5, <1>6, SMTT(30)

\* The sends and the answers as the contract has them, after one request moved.
LEMMA Mapped ==
  ASSUME req \in [Requests -> Request], NEW r \in Requests, NEW n,
         req' = [req EXCEPT ![r] = n]
  PROVE  /\ [o \in Requests |-> req[o].sends]' =
              [[o \in Requests |-> req[o].sends] EXCEPT ![r] = n.sends]
         /\ [o \in Requests |-> Told(o)]' =
              [[o \in Requests |-> Told(o)] EXCEPT ![r] = ToldOf(n)]
<1>1. \A o \in Requests : req'[o] = IF o = r THEN n ELSE req[o]
  OBVIOUS
<1>2. [o \in Requests |-> req'[o].sends] =
        [[o \in Requests |-> req[o].sends] EXCEPT ![r] = n.sends]
  BY <1>1, Zenon
<1>3. [o \in Requests |-> ToldOf(req'[o])] =
        [[o \in Requests |-> ToldOf(req[o])] EXCEPT ![r] = ToldOf(n)]
  BY <1>1, ZenonT(60)
<1> QED BY <1>2, <1>3 DEF Told, ToldOf

\* A step that neither counts a send nor tells anything is a stutter.
LEMMA StepGoesOn ==
  ASSUME IInv, NEW r \in Requests, NEW n, req' = [req EXCEPT ![r] = n],
         UNCHANGED <<chain, accepted>>, GoesOn(req[r], n)
  PROVE  UNCHANGED Contract!vars
<1> DEFINE S == [o \in Requests |-> req[o].sends]
           A == [o \in Requests |-> Told(o)]
<1>1. S' = [S EXCEPT ![r] = n.sends] /\ A' = [A EXCEPT ![r] = ToldOf(n)]
  BY Mapped, ZenonT(60) DEF IInv, TypeOK
<1>2. S[r] = n.sends /\ A[r] = ToldOf(n)
  BY DEF GoesOn, Told, ToldOf
<1>3. S \in [Requests -> {S[o] : o \in Requests}] /\ A \in [Requests -> {A[o] : o \in Requests}]
  OBVIOUS
<1> HIDE DEF S, A
<1>4. S' = S /\ A' = A
  BY <1>1, <1>2, <1>3, ZenonT(60)
<1> QED BY <1>4 DEF Contract!vars, S, A, SendsPerAttempt

\* A request that ends without a send gives up.
LEMMA StepGivesUp ==
  ASSUME IInv, NEW r \in Requests, NEW n, req' = [req EXCEPT ![r] = n],
         UNCHANGED <<chain, accepted>>, req[r].answer \in {"none", "waiting"},
         Ends(n, {"failed", "gone"})
  PROVE  Contract!GiveUp(r)
<1> DEFINE S == [o \in Requests |-> req[o].sends]
           A == [o \in Requests |-> Told(o)]
<1>1. S' = [S EXCEPT ![r] = n.sends] /\ A' = [A EXCEPT ![r] = ToldOf(n)]
  BY Mapped, Zenon DEF IInv, TypeOK
<1>2. A[r] \in {"none", "waiting"}
  BY DEF Told
<1>3. n.sends = 0 /\ ToldOf(n) \in {"failed", "gone"}
  BY DEF Ends
<1>4. /\ A' \in {[A EXCEPT ![r] = "failed"], [A EXCEPT ![r] = "gone"]}
      /\ S' = [S EXCEPT ![r] = 0]
  BY <1>1, <1>3, ZenonT(60)
<1> QED BY <1>2, <1>4 DEF Contract!GiveUp, SendsPerAttempt

\* A send is one of the contract's: it is within the limit, and the caller goes
\* on waiting or is told.
LEMMA StepSends ==
  ASSUME IInv, NEW r \in Requests, NEW a \in Answers, Post(r, a)
  PROVE  Contract!Send(r) \/ Contract!LastSend(r)
<1> DEFINE q == [req[r] EXCEPT !.sends = @ + 1]
           n == AfterAnswer(q, a)
           S == [o \in Requests |-> req[o].sends]
           A == [o \in Requests |-> Told(o)]
           limit == MaxAttempts * SendsPerAttempt(chain)
           outcome == Outcome(ProviderOf(q), a)
<1>1. /\ req[r] \in Request /\ chain \in Chains /\ RequestInv(req[r], cache.token)
      /\ req[r].pc = "post"
  BY OfRequest, ZenonT(60) DEF Post, At
<1>2. AtProvider(req[r]) /\ req[r].sends <= Allowance(req[r])
  BY <1>1, ZenonT(60) DEF RequestInv, Trying, HasToken
<1>3. req[r].sends < limit
  <2>1. /\ Allowance(req[r]) \in Nat /\ Allowance(req[r]) < limit
    BY <1>1, <1>2, AllowanceIsNat, ZenonT(60)
  <2>2. limit \in Nat
    BY <1>1, SendsCounted, Constants, SMTT(30)
  <2> HIDE DEF limit
  <2> QED BY <1>1, <1>2, <2>1, <2>2, SMTT(30) DEF Request
<1>4. /\ q \in Request /\ q.sends = req[r].sends + 1 /\ q.answer = "waiting"
      /\ ProviderOf(q) = ProviderOf(req[r])
  BY <1>1, <1>2, SMTT(30) DEF Request, AtProvider, ProviderOf
<1>5. /\ req' = [req EXCEPT ![r] = n] /\ chain' = chain
      /\ accepted' = IF outcome = "ok" THEN accepted \cup {r} ELSE accepted
  BY <1>4 DEF Post, Becomes
<1>6. outcome \in Outcomes
  BY <1>1, <1>2, <1>4, OutcomeType, SMTT(30)
<1>7. /\ outcome = "ok" => Ends(n, {"delivered"})
      /\ outcome # "ok" => GoesOn(q, n) \/ Ends(n, {"failed"})
  <2>1. CASE ProviderOf(q) = "orange" /\ a = "401"
    <3>1. outcome = "transient"
      BY <2>1 DEF Outcome, OrangeOutcome, Sorted
    <3>2. n = [q EXCEPT !.pc = "clear_token", !.refused = q.token]
      BY <2>1 DEF AfterAnswer
    <3> HIDE DEF q, n, outcome
    <3>3. GoesOn(q, n)
      BY <1>4, <3>2, ZenonT(60) DEF GoesOn, Request
    <3> QED BY <3>1, <3>3, ZenonT(60)
  <2>2. CASE ~(ProviderOf(q) = "orange" /\ a = "401")
    <3>1. n = Settle(q, outcome)
      BY <2>2, SMTT(30) DEF AfterAnswer
    <3> HIDE DEF q, n, outcome
    <3> QED BY <1>4, <1>6, <3>1, SettleTells, ZenonT(60)
  <2> QED BY <2>1, <2>2
<1> HIDE DEF q, n, outcome
<1>8. S' = [S EXCEPT ![r] = n.sends] /\ A' = [A EXCEPT ![r] = ToldOf(n)]
  BY <1>5, Mapped, Zenon DEF IInv, TypeOK
<1>9. A[r] = "waiting" /\ S[r] < limit /\ S[r] = req[r].sends
  BY <1>2, <1>3, ZenonT(60) DEF Told, AtProvider
<1>10. limit' = limit
  BY <1>5, ZenonT(60) DEF SendsPerAttempt
<1>11. CASE outcome # "ok" /\ GoesOn(q, n)
  <2>1. n.sends = S[r] + 1 /\ ToldOf(n) = A[r] /\ accepted' = accepted
    BY <1>4, <1>5, <1>9, <1>11, ZenonT(60) DEF GoesOn, ToldOf
  <2>2. A \in [Requests -> {A[o] : o \in Requests}]
    OBVIOUS
  <2> HIDE DEF S, A
  <2>3. S' = [S EXCEPT ![r] = @ + 1] /\ A' = A
    BY <1>8, <2>1, <2>2, ZenonT(60)
  <2> QED BY <1>9, <1>10, <2>1, <2>3, ZenonT(60) DEF Contract!Send, S, A
<1>12. CASE outcome # "ok" /\ Ends(n, {"failed"})
  <2>1. n.sends = 0 /\ ToldOf(n) = "failed" /\ accepted' = accepted
    BY <1>5, <1>12, ZenonT(60) DEF Ends
  <2> QED BY <1>8, <1>9, <1>10, <2>1, ZenonT(60) DEF Contract!LastSend
<1>13. CASE outcome = "ok"
  <2>1. n.sends = 0 /\ ToldOf(n) = "delivered" /\ accepted' = accepted \cup {r}
    BY <1>5, <1>7, <1>13, ZenonT(60) DEF Ends
  <2> QED BY <1>8, <1>9, <1>10, <2>1, ZenonT(60) DEF Contract!LastSend
<1> QED BY <1>7, <1>11, <1>12, <1>13, ZenonT(60)

\* A token in hand changes neither the sends nor the answer, unless the number
\* is refused by the last provider.
LEMMA WithTokenTells ==
  ASSUME NEW q \in Request, NEW token \in 0 .. MaxTokens
  PROVE  GoesOn(q, WithToken(q, token)) \/ Ends(WithToken(q, token), {"failed"})
<1> DEFINE x == [q EXCEPT !.token = token]
<1>1. x \in Request /\ x.sends = q.sends /\ x.answer = q.answer
  BY DEF Request
<1>2. CASE OrangeAccepts(q.msisdn)
  BY <1>2, ZenonT(60) DEF WithToken, GoesOn, Request
<1>3. CASE ~OrangeAccepts(q.msisdn)
  <2>1. WithToken(q, token) = Settle(x, "permanent")
    BY <1>3 DEF WithToken
  <2> HIDE DEF x
  <2>2. GoesOn(x, Settle(x, "permanent")) \/ Ends(Settle(x, "permanent"), {"failed"})
    BY <1>1, SettleTells, ZenonT(60) DEF Outcomes
  <2> QED BY <1>1, <2>1, <2>2, ZenonT(60) DEF GoesOn
<1> QED BY <1>2, <1>3

\* What a request does on its way to a send, apart from the send, is a stutter,
\* or ends the request without one.
LEMMA StepIsQuiet ==
  ASSUME IInv, NEW r \in Requests, Step(r), \A a \in Answers : ~Post(r, a)
  PROVE  UNCHANGED Contract!vars \/ Contract!GiveUp(r)
<1> SUFFICES ASSUME TRUE
             PROVE  \E n : /\ req' = [req EXCEPT ![r] = n]
                           /\ UNCHANGED <<chain, accepted>>
                           /\ req[r].answer \in {"none", "waiting"}
                           /\ GoesOn(req[r], n) \/ Ends(n, {"failed", "gone"})
  BY StepGoesOn, StepGivesUp, ZenonT(60)
<1>1. /\ req[r] \in Request /\ chain \in Chains /\ RequestInv(req[r], cache.token)
      /\ cache.token \in 0 .. MaxTokens
  BY OfRequest, SMTT(30)
<1>2. UNCHANGED <<chain, accepted>>
  BY ZenonT(60) DEF Step, CheckToken, LockToken, FetchToken, FetchFails, EnterLimiter,
     LeaveLimiter, ClearToken, RetryAfterBackoff
<1>3. req[r].pc \in Trying \cup {"clear_token", "backoff"}
  BY ZenonT(60) DEF Step, CheckToken, LockToken, FetchToken, FetchFails, EnterLimiter,
     LeaveLimiter, ClearToken, RetryAfterBackoff, At, Trying, NeedsToken, HasToken
<1>4. req[r].answer = "waiting"
  BY <1>1, <1>3, SMTT(30) DEF RequestInv, AtProvider
<1>5. \A n : Ends(n, {"failed"}) => Ends(n, {"failed", "gone"})
  BY DEF Ends
<1>6. NewToken \in 0 .. MaxTokens
  BY NewTokenIsNew, Constants, SMTT(30) DEF IInv, TypeOK
<1>7. CASE CheckToken(r) \/ LockToken(r) \/ FetchToken(r)
  <2>1. \E t \in 0 .. MaxTokens, label \in Labels :
          req' \in {[req EXCEPT ![r] = WithToken(req[r], t)],
                   [req EXCEPT ![r] = [req[r] EXCEPT !.pc = label]]}
    BY <1>1, <1>6, <1>7, ZenonT(60) DEF CheckToken, LockToken, FetchToken, Becomes, Labels
  <2>2. \A label \in Labels : GoesOn(req[r], [req[r] EXCEPT !.pc = label])
    BY <1>1, SMTT(30) DEF GoesOn, Request
  <2> QED BY <1>1, <1>2, <1>4, <1>5, <2>1, <2>2, WithTokenTells, ZenonT(60)
<1>8. CASE FetchFails(r) \/ ClearToken(r)
  <2>1. \E outcome \in Outcomes \ {"ok"} :
          req' = [req EXCEPT ![r] = Settle(req[r], outcome)]
    BY <1>8, SMTT(30) DEF FetchFails, ClearToken, Becomes, Outcomes
  <2> QED BY <1>1, <1>2, <1>4, <1>5, <2>1, SettleTells, ZenonT(60)
<1>9. CASE EnterLimiter(r) \/ LeaveLimiter(r)
  <2>1. \E label, w :
          req' \in {[req EXCEPT ![r] = [req[r] EXCEPT !.pc = label, !.wait = w]],
                   [req EXCEPT ![r] = [req[r] EXCEPT !.pc = label]]}
    BY <1>9, ZenonT(60) DEF EnterLimiter, LeaveLimiter, Becomes
  <2>2. \A label, w :
          /\ GoesOn(req[r], [req[r] EXCEPT !.pc = label])
          /\ GoesOn(req[r], [req[r] EXCEPT !.pc = label, !.wait = w])
    BY <1>1 DEF GoesOn, Request
  <2> QED BY <1>2, <1>4, <2>1, <2>2, ZenonT(60)
<1>10. CASE RetryAfterBackoff(r)
  <2>1. req' = [req EXCEPT ![r] = Begin([req[r] EXCEPT !.provider = 1, !.again = FALSE])]
    BY <1>10 DEF RetryAfterBackoff, Becomes
  <2>2. GoesOn(req[r], Begin([req[r] EXCEPT !.provider = 1, !.again = FALSE]))
    BY <1>1 DEF GoesOn, Begin, Request
  <2> QED BY <1>2, <1>4, <2>1, <2>2, Zenon
<1> QED BY <1>7, <1>8, <1>9, <1>10, ZenonT(60) DEF Step

\* A request is received, with a number and a code or without.
LEMMA ReceiveMaps ==
  ASSUME IInv, NEW r \in Requests,
         (\E m \in Msisdns[r] : Receive(r, m)) \/ ReceiveInvalid(r)
  PROVE  Contract!Receive(r) \/ Contract!GiveUp(r)
<1>1. req[r].pc = "idle" /\ UNCHANGED <<chain, accepted>>
  BY ZenonT(60) DEF Receive, ReceiveInvalid, At
<1>2. req[r].answer = "none" /\ req[r].sends = 0
  BY <1>1, OfRequest, ZenonT(60) DEF RequestInv
<1>3. CASE ReceiveInvalid(r)
  <2>1. req' = [req EXCEPT ![r] = Finish(NewRequest, "rejected")]
    BY <1>3 DEF ReceiveInvalid, Becomes
  <2>2. Ends(Finish(NewRequest, "rejected"), {"failed", "gone"})
    BY ZenonT(60) DEF Ends, ToldOf, Finish, NewRequest
  <2> QED BY <1>1, <1>2, <2>1, <2>2, StepGivesUp, ZenonT(60)
<1>4. ASSUME NEW m \in Msisdns[r], Receive(r, m)
      PROVE  Contract!Receive(r)
  <2> DEFINE n == Begin([NewRequest EXCEPT !.msisdn = m, !.answer = "waiting"])
             S == [o \in Requests |-> req[o].sends]
             A == [o \in Requests |-> Told(o)]
  <2>1. n.sends = 0 /\ n.answer = "waiting"
    BY SMTT(30) DEF Begin, NewRequest
  <2>2. req' = [req EXCEPT ![r] = n]
    BY <1>4, ZenonT(60) DEF Receive, Becomes
  <2> HIDE DEF n
  <2>3. S' = [S EXCEPT ![r] = n.sends] /\ A' = [A EXCEPT ![r] = ToldOf(n)]
    BY <2>2, Mapped, ZenonT(60) DEF IInv, TypeOK
  <2>4. A[r] = "none" /\ S[r] = 0 /\ ToldOf(n) = "waiting"
    BY <1>2, <2>1, ZenonT(60) DEF Told, ToldOf
  <2>5. S \in [Requests -> {S[o] : o \in Requests}]
    BY SMTT(30)
  <2> HIDE DEF S, A
  <2>6. S' = S /\ A' = [A EXCEPT ![r] = "waiting"]
    BY <2>1, <2>3, <2>4, <2>5, ZenonT(60)
  <2> QED BY <1>1, <2>4, <2>6, ZenonT(60) DEF Contract!Receive, S, A, SendsPerAttempt
<1> QED BY <1>3, <1>4, SMTT(30)

\* Every step of the gateway is a step of the contract, or changes nothing that
\* the contract is about.
LEMMA StepMaps == IInv /\ [Next]_vars => [Contract!Next]_(Contract!vars)
<1> SUFFICES ASSUME IInv, [Next]_vars
             PROVE  Contract!Next \/ UNCHANGED Contract!vars
  OBVIOUS
<1>1. CASE UNCHANGED vars \/ CreateSmsProvider \/ TokenAges
  BY <1>1, ZenonT(60) DEF vars, CreateSmsProvider, TokenAges, Contract!vars, SendsPerAttempt, Told
<1>2. CASE Tick
  <2>1. \A r \in Requests :
          req'[r].sends = req[r].sends /\ req'[r].answer = req[r].answer
    <3> TAKE r \in Requests
    <3>1. req[r] \in Request
      BY OfRequest
    <3>2. req'[r] = [req[r] EXCEPT !.wait = IF @ > 0 THEN @ - 1 ELSE 0]
      BY <1>2 DEF Tick
    <3> QED BY <3>1, <3>2 DEF Request
  <2>2. UNCHANGED <<chain, accepted>>
    BY <1>2 DEF Tick
  <2>3. /\ [r \in Requests |-> req[r].sends]' = [r \in Requests |-> req[r].sends]
        /\ [r \in Requests |-> Told(r)]' = [r \in Requests |-> Told(r)]
    BY <2>1, ZenonT(60) DEF Told
  <2> QED BY <2>2, <2>3 DEF Contract!vars, SendsPerAttempt
<1>3. ASSUME NEW r \in Requests,
             \/ \E m \in Msisdns[r] : Receive(r, m)
             \/ ReceiveInvalid(r) \/ Step(r) \/ Disconnect(r)
      PROVE  Contract!Next \/ UNCHANGED Contract!vars
  <2>1. CASE (\E m \in Msisdns[r] : Receive(r, m)) \/ ReceiveInvalid(r)
    BY <2>1, ReceiveMaps, SMTT(30) DEF Contract!Next
  <2>2. CASE \E a \in Answers : Post(r, a)
    BY <2>2, StepSends, SMTT(30) DEF Contract!Next
  <2>3. CASE Step(r) /\ \A a \in Answers : ~Post(r, a)
    BY <2>3, StepIsQuiet, SMTT(30) DEF Contract!Next
  <2>4. CASE Disconnect(r)
    <3>1. /\ req' = [req EXCEPT ![r] = Finish(req[r], "gone")]
          /\ UNCHANGED <<chain, accepted>> /\ req[r].answer = "waiting"
      BY <2>4 DEF Disconnect, Becomes
    <3>2. Ends(Finish(req[r], "gone"), {"failed", "gone"})
      BY DEF Ends, ToldOf, Finish, NewRequest
    <3> QED BY <3>1, <3>2, StepGivesUp, Zenon DEF Contract!Next
  <2> QED BY <1>3, <2>1, <2>2, <2>3, <2>4, ZenonT(60)
<1> QED BY <1>1, <1>2, <1>3, SMTT(30) DEF Next

\* The gateway implements SmsContract: send_otp answers "delivered" only when a
\* provider accepted the code, and hands the code over at most once in each
\* attempt to every provider of the chain, twice to Orange, and never again
\* after the answer.
THEOREM GatewayKeepsContract == Spec => ImplementsContract
<1>1. Init => Contract!Init
  <2> SUFFICES ASSUME Init PROVE Contract!Init
    OBVIOUS
  <2>1. MaxAttempts * SendsPerAttempt(chain) \in Nat
    BY SendsCounted, Constants, SMTT(30) DEF Init
  <2>2. /\ [r \in Requests |-> req[r].sends] = [r \in Requests |-> 0]
        /\ [r \in Requests |-> Told(r)] = [r \in Requests |-> "none"]
        /\ accepted = {}
    BY DEF Init, Told, NewRequest
  <2> QED BY <2>1, <2>2, ZenonT(60) DEF Contract!Init
<1> QED BY <1>1, Invariant, StepMaps, PTL DEF Spec, ImplementsContract, Contract!Spec
=============================================================================
