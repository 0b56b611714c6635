----------------------------- MODULE SmsGateway -----------------------------
(***************************************************************************)
(* The SMS gateway: POST /otp, the retries around a chain of providers,    *)
(* and the Orange provider's token cache and rate limiter, which requests  *)
(* share.                                                                  *)
(*                                                                         *)
(* An action is what runs between two awaits of a request: a lock taken, a *)
(* call sent, its answer handled.  A caller who hangs up drops the request *)
(* and the lock it holds (Disconnect).  Time passes in units of which      *)
(* Spacing make the 200 ms between two sends; it is also the first backoff.*)
(* A token is a number; an issued one differs from all that are in use.    *)
(***************************************************************************)
EXTENDS Integers, Sequences, FiniteSets

CONSTANTS
  Requests,
  Chains,        \* the configurations: sequences of [provider, section]
  Msisdns,       \* the phone numbers each request may name:
                 \* records [plus, zeros, cc, local]
  Impatient,     \* the requests whose caller may hang up
  MaxAttempts,   \* TRANSIENT_RETRY_MAX_ATTEMPTS
  Spacing,
  MaxTokens      \* enough for the tokens in use at one time

Nobody == "nobody"
NoToken == 0

Providers == {"console", "sns", "api", "avlytext", "orange", "whatsapp",
              "mtarget"}

Msisdn == [plus : BOOLEAN, zeros : Nat, cc : BOOLEAN,
           local : [nine : BOOLEAN, mobile : BOOLEAN]]

ASSUME GatewayAssumption ==
  /\ MaxAttempts \in Nat \ {0} /\ Spacing \in Nat \ {0}
  /\ IsFiniteSet(Requests) /\ Nobody \notin Requests
  /\ MaxTokens \in Nat /\ MaxTokens >= 2 * Cardinality(Requests) + 2
  /\ Chains \subseteq Seq([provider : Providers, section : BOOLEAN]) \ {<<>>}
  /\ Msisdns \in [Requests -> SUBSET Msisdn]

-----------------------------------------------------------------------------
(* Phone numbers.  The digits of a number are zeros times "00", the        *)
(* country code 237 when cc, and a local part, of which nine says that it  *)
(* has nine digits and mobile that it starts with 6 or 2.                  *)

Address(zeros, cc, local) == [zeros |-> zeros, cc |-> cc, local |-> local]

\* Faulty variant: the prefix of a local number is left out.
MtargetAsGiven(m) == Address(m.zeros, m.cc, m.local)

MtargetAddress(m) ==
  CASE m.plus               -> Address(m.zeros, m.cc, m.local)
    [] ~m.plus /\ m.zeros > 0 -> Address(m.zeros - 1, m.cc, m.local)
    [] ~m.plus /\ m.zeros = 0 /\ ~m.cc /\ m.local.nine /\ m.local.mobile ->
                               Address(0, TRUE, m.local)
    [] OTHER                -> Address(0, m.cc, m.local)

\* trim_start_matches removes every leading "00".
OrangeAccepts(m) == m.local.nine /\ (m.cc \/ m.local.mobile)

OrangeAddress(m) == Address(0, TRUE, m.local)

-----------------------------------------------------------------------------
(* What a provider makes of the answer to its call.                        *)

Answers == {"success", "unreachable", "401", "429", "4xx", "5xx"}

\* An error is "transient" (SMS_SEND_TRANSIENT), "permanent", or "failed": none
\* of the two.
Sorted(answer, transient) ==
  CASE answer = "success" -> "ok"
    [] answer \in transient -> "transient"
    [] OTHER -> "permanent"

ConsoleOutcome(answer) == "ok"

\* SMS_SEND_FAILED, whatever SNS answered.
SnsOutcome(answer) == IF answer = "success" THEN "ok" ELSE "failed"

AvlytextOutcome(answer) == Sorted(answer, {"unreachable", "5xx"})

ApiOutcome(answer) == Sorted(answer, {"unreachable", "5xx"})

MtargetOutcome(answer) == Sorted(answer, {"unreachable", "5xx", "429"})

WhatsappOutcome(answer) == Sorted(answer, Answers \ {"success"})

OrangeOutcome(answer) == Sorted(answer, {"unreachable", "5xx", "429", "401"})

Outcome(provider, answer) ==
  CASE provider = "console"  -> ConsoleOutcome(answer)
    [] provider = "sns"      -> SnsOutcome(answer)
    [] provider = "avlytext" -> AvlytextOutcome(answer)
    [] provider = "api"      -> ApiOutcome(answer)
    [] provider = "mtarget"  -> MtargetOutcome(answer)
    [] provider = "whatsapp" -> WhatsappOutcome(answer)
    [] provider = "orange"   -> OrangeOutcome(answer)

-----------------------------------------------------------------------------
VARIABLES
  gateway,  \* "down", "up", or "refused": it did not start
  chain,    \* the providers, in the order they are tried
  cache,    \* token_cache: a token, and whether it has over 5 minutes left
  writer,   \* the request that holds the write lock of token_cache
  limiter,  \* the request that holds the rate limiter
  since,    \* the time since last_send, up to Spacing
  req,      \* each request: where it is, and its local variables
  accepted  \* history: the requests whose code a provider said it accepted

vars == <<gateway, chain, cache, writer, limiter, since, req, accepted>>

Labels == {"idle", "check_token", "lock_token", "fetch", "throttle",
           "spacing", "post", "clear_token", "backoff", "done"}

NoMsisdn == [plus |-> FALSE, zeros |-> 0, cc |-> FALSE,
             local |-> [nine |-> FALSE, mobile |-> FALSE]]

Request ==
  [pc : Labels,
   msisdn : Msisdn,
   provider : Nat \ {0},             \* position in the chain
   again : BOOLEAN,                  \* Orange's second send_once
   attempt : 0 .. MaxAttempts - 1,
   token : 0 .. MaxTokens,
   refused : 0 .. MaxTokens,         \* history: the token Orange refused
                                     \* before it sent again
   wait : Nat,                       \* what is left of its sleep
   sends : Nat,                      \* history: calls to providers so far
   answer : {"none", "waiting", "delivered", "rejected", "failed", "gone"}]

NewRequest == [pc |-> "idle", msisdn |-> NoMsisdn, provider |-> 1,
               again |-> FALSE, attempt |-> 0, token |-> NoToken,
               refused |-> NoToken, wait |-> 0, sends |-> 0,
               answer |-> "none"]

TypeOK ==
  /\ gateway \in {"down", "up", "refused"}
  /\ chain \in Chains
  /\ cache \in [token : 0 .. MaxTokens, fresh : BOOLEAN]
  /\ writer \in Requests \cup {Nobody} /\ limiter \in Requests \cup {Nobody}
  /\ since \in 0 .. Spacing
  /\ req \in [Requests -> Request]
  /\ accepted \subseteq Requests

NoCache == [token |-> NoToken, fresh |-> FALSE]

Init ==
  /\ gateway = "down"
  /\ chain \in Chains
  /\ cache = NoCache
  /\ writer = Nobody /\ limiter = Nobody
  /\ since = 0
  /\ req = [r \in Requests |-> NewRequest]
  /\ accepted = {}

\* create_single_provider: all but two providers need a section of their own.
Configured(c) == c.provider \in {"console", "sns"} \/ c.section

\* main: the primary provider and then the fallbacks are created in order,
\* and the first that cannot be ends the program.
CreateSmsProvider ==
  /\ gateway = "down"
  /\ gateway' = IF \A i \in DOMAIN chain : Configured(chain[i])
                THEN "up" ELSE "refused"
  /\ UNCHANGED <<chain, cache, writer, limiter, since, req, accepted>>

ProviderOf(q) == chain[q.provider].provider

-----------------------------------------------------------------------------
(* The local variables of a request after each outcome.                    *)

Begin(q) ==
  [q EXCEPT !.pc = IF ProviderOf(q) = "orange" THEN "check_token" ELSE "post",
            !.token = NoToken, !.refused = IF q.again THEN @ ELSE NoToken]

Finish(q, answer) ==
  [NewRequest EXCEPT !.pc = "done", !.answer = answer]

\* Faulty variant: one attempt too many.
OneTooMany(q) == q.attempt < MaxAttempts

AttemptsLeft(q) == q.attempt + 1 < MaxAttempts

\* send_otp_with_retry: what follows the error of the whole chain.
RetryOrGiveUp(q, error) ==
  CASE error = "transient" /\ AttemptsLeft(q) ->
         [q EXCEPT !.pc = "backoff", !.attempt = @ + 1,
                   !.wait = Spacing * 2 ^ q.attempt]
    [] error = "permanent" -> Finish(q, "rejected")
    [] OTHER -> Finish(q, "failed")

\* FallbackSmsProvider: the next one, or the error of the last.
FallBack(q, error) ==
  IF q.provider < Len(chain)
  THEN Begin([q EXCEPT !.provider = @ + 1, !.again = FALSE])
  ELSE RetryOrGiveUp(q, error)

\* Faulty variant: the chain goes on after a success.
SettleAndGoOn(q, outcome) ==
  IF outcome = "ok" /\ q.provider = Len(chain)
  THEN Finish(q, "delivered") ELSE FallBack(q, outcome)

\* Orange sends a second time at once after a transient error.
Settle(q, outcome) ==
  CASE outcome = "ok" -> Finish(q, "delivered")
    [] outcome = "transient" /\ ProviderOf(q) = "orange" /\ ~q.again ->
         Begin([q EXCEPT !.again = TRUE])
    [] OTHER -> FallBack(q, outcome)

\* send_once has a token; a number it cannot normalise is a permanent error.
WithToken(q, token) ==
  IF OrangeAccepts(q.msisdn)
  THEN [q EXCEPT !.token = token, !.pc = "throttle"]
  ELSE Settle([q EXCEPT !.token = token], "permanent")

At(r, label) == req[r].pc = label
Becomes(r, q) == req' = [req EXCEPT ![r] = q]

-----------------------------------------------------------------------------
(* Actions                                                                 *)

\* POST /otp with a number and a code.
Receive(r, m) ==
  /\ gateway = "up" /\ At(r, "idle")
  /\ Becomes(r, Begin([NewRequest EXCEPT !.msisdn = m, !.answer = "waiting"]))
  /\ UNCHANGED <<gateway, chain, cache, writer, limiter, since, accepted>>

\* INVALID_REQUEST: the number or the code is missing or blank.
ReceiveInvalid(r) ==
  /\ gateway = "up" /\ At(r, "idle")
  /\ Becomes(r, Finish(NewRequest, "rejected"))
  /\ UNCHANGED <<gateway, chain, cache, writer, limiter, since, accepted>>

\* get_valid_token, under the read lock.
CheckToken(r) ==
  /\ At(r, "check_token") /\ writer = Nobody
  /\ Becomes(r, IF cache.fresh THEN WithToken(req[r], cache.token)
                ELSE [req[r] EXCEPT !.pc = "lock_token"])
  /\ UNCHANGED <<gateway, chain, cache, writer, limiter, since, accepted>>

\* Faulty variant: the cache is not looked at again.
LockTokenOnly(r) ==
  /\ At(r, "lock_token") /\ writer = Nobody
  /\ writer' = r /\ Becomes(r, [req[r] EXCEPT !.pc = "fetch"])
  /\ UNCHANGED <<gateway, chain, cache, limiter, since, accepted>>

\* The write lock is taken and the cache looked at again; the lock is kept
\* during the fetch.
LockToken(r) ==
  /\ At(r, "lock_token") /\ writer = Nobody
  /\ IF cache.fresh
     THEN UNCHANGED writer /\ Becomes(r, WithToken(req[r], cache.token))
     ELSE writer' = r /\ Becomes(r, [req[r] EXCEPT !.pc = "fetch"])
  /\ UNCHANGED <<gateway, chain, cache, limiter, since, accepted>>

InUse == {cache.token} \cup {req[q].token : q \in Requests}
           \cup {req[q].refused : q \in Requests}

NewToken == CHOOSE t \in 1 .. MaxTokens : t \notin InUse

\* The token endpoint answers.  A token that has 5 minutes or less to live from
\* the start is one that ages at once.
FetchToken(r) ==
  /\ At(r, "fetch")
  /\ cache' = [token |-> NewToken, fresh |-> TRUE]
  /\ writer' = Nobody
  /\ Becomes(r, WithToken(req[r], NewToken))
  /\ UNCHANGED <<gateway, chain, limiter, since, accepted>>

\* Faulty variant: the lock is not given back.
FetchFailsLocked(r) ==
  /\ At(r, "fetch")
  /\ Becomes(r, Settle(req[r], "failed"))
  /\ UNCHANGED <<gateway, chain, cache, writer, limiter, since, accepted>>

\* SMS_AUTH_FAILED: the token endpoint cannot be reached, refuses, or answers
\* something else.  It is neither transient nor permanent.
FetchFails(r) ==
  /\ At(r, "fetch")
  /\ writer' = Nobody
  /\ Becomes(r, Settle(req[r], "failed"))
  /\ UNCHANGED <<gateway, chain, cache, limiter, since, accepted>>

\* Faulty variant: the limiter is not kept while the request sleeps.
EnterThenSleep(r) ==
  /\ At(r, "throttle") /\ limiter = Nobody
  /\ Becomes(r, [req[r] EXCEPT !.pc = "spacing", !.wait = Spacing - since])
  /\ UNCHANGED <<gateway, chain, cache, writer, limiter, since, accepted>>

\* The limiter is taken; the rest of the 200 ms is slept while holding it.
EnterLimiter(r) ==
  /\ At(r, "throttle") /\ limiter = Nobody
  /\ limiter' = r
  /\ Becomes(r, [req[r] EXCEPT !.pc = "spacing", !.wait = Spacing - since])
  /\ UNCHANGED <<gateway, chain, cache, writer, since, accepted>>

LeaveLimiter(r) ==
  /\ At(r, "spacing") /\ req[r].wait = 0
  /\ since' = 0 /\ limiter' = Nobody
  /\ Becomes(r, [req[r] EXCEPT !.pc = "post"])
  /\ UNCHANGED <<gateway, chain, cache, writer, accepted>>

\* Faulty variant: a token that was refused stays in the cache.
AnsweredKeepingToken(q, answer) ==
  Settle([q EXCEPT !.refused = IF answer = "401" THEN q.token ELSE @],
         Outcome(ProviderOf(q), answer))

\* After a 401 Orange waits for the write lock first.
AfterAnswer(q, answer) ==
  IF ProviderOf(q) = "orange" /\ answer = "401"
  THEN [q EXCEPT !.pc = "clear_token", !.refused = q.token]
  ELSE Settle(q, Outcome(ProviderOf(q), answer))

\* The code is sent, and the provider answers or the connection breaks.
Post(r, answer) ==
  /\ At(r, "post")
  /\ Becomes(r, AfterAnswer([req[r] EXCEPT !.sends = @ + 1], answer))
  /\ accepted' = IF Outcome(ProviderOf(req[r]), answer) = "ok"
                 THEN accepted \cup {r} ELSE accepted
  /\ UNCHANGED <<gateway, chain, cache, writer, limiter, since>>

\* The cache is cleared, whatever token is in it by now.
ClearToken(r) ==
  /\ At(r, "clear_token") /\ writer = Nobody
  /\ cache' = NoCache
  /\ Becomes(r, Settle(req[r], "transient"))
  /\ UNCHANGED <<gateway, chain, writer, limiter, since, accepted>>

RetryAfterBackoff(r) ==
  /\ At(r, "backoff") /\ req[r].wait = 0
  /\ Becomes(r, Begin([req[r] EXCEPT !.provider = 1, !.again = FALSE]))
  /\ UNCHANGED <<gateway, chain, cache, writer, limiter, since, accepted>>

\* The caller hangs up: the request is dropped with the locks it holds.
Disconnect(r) ==
  /\ r \in Impatient /\ req[r].answer = "waiting"
  /\ Becomes(r, Finish(req[r], "gone"))
  /\ writer' = IF writer = r THEN Nobody ELSE writer
  /\ limiter' = IF limiter = r THEN Nobody ELSE limiter
  /\ UNCHANGED <<gateway, chain, cache, since, accepted>>

\* The cached token comes within 5 minutes of its end.
TokenAges ==
  /\ cache.fresh
  /\ cache' = [cache EXCEPT !.fresh = FALSE]
  /\ UNCHANGED <<gateway, chain, writer, limiter, since, req, accepted>>

Tick ==
  /\ since < Spacing \/ \E r \in Requests : req[r].wait > 0
  /\ since' = IF since < Spacing THEN since + 1 ELSE since
  /\ req' = [r \in Requests |->
               [req[r] EXCEPT !.wait = IF @ > 0 THEN @ - 1 ELSE 0]]
  /\ UNCHANGED <<gateway, chain, cache, writer, limiter, accepted>>

Step(r) ==
  \/ CheckToken(r) \/ LockToken(r) \/ FetchToken(r) \/ FetchFails(r)
  \/ EnterLimiter(r) \/ LeaveLimiter(r)
  \/ \E a \in Answers : Post(r, a)
  \/ ClearToken(r) \/ RetryAfterBackoff(r)

Next ==
  \/ CreateSmsProvider
  \/ \E r \in Requests : \/ \E m \in Msisdns[r] : Receive(r, m)
                         \/ ReceiveInvalid(r) \/ Step(r) \/ Disconnect(r)
  \/ TokenAges \/ Tick

Spec == Init /\ [][Next]_vars

\* Time passes; a request goes on when it can.  Both locks are queues, so a
\* request that can take one again and again does so in the end.
FairSpec == Spec /\ WF_vars(Tick) /\ \A r \in Requests : SF_vars(Step(r))

-----------------------------------------------------------------------------
\* How often one code may be handed over: in each attempt once to every
\* provider, and twice to Orange.
SendsPerAttempt(c) ==
  Len(c) + Cardinality({i \in DOMAIN c : c[i].provider = "orange"})

\* What the caller is told.
Told(r) == IF req[r].answer = "rejected" THEN "failed" ELSE req[r].answer

Contract == INSTANCE SmsContract
  WITH limit  <- MaxAttempts * SendsPerAttempt(chain),
       sends  <- [r \in Requests |-> req[r].sends],
       answer <- [r \in Requests |-> Told(r)]

\* The gateway implements its contract: "delivered" is answered when a
\* provider accepted the code, which is handed over as often as the chain and
\* the attempts allow at most, and never again after the answer.
ImplementsContract == Contract!Spec

\* After a 401 Orange does not send with the token that was refused, also when
\* other requests fetch and clear tokens in between (send_otp's comment).
RefusedTokenNotReused ==
  \A r \in Requests :
    req[r].pc \in {"throttle", "spacing", "post"}
      /\ req[r].refused # NoToken => req[r].token # req[r].refused

\* No token is fetched while a fresh one is cached.
NoNeedlessFetch == \A r \in Requests : At(r, "fetch") => ~cache.fresh

\* Two sends to Orange are let through at least 200 ms apart, however many
\* requests wait for their turn, and whoever of them hangs up.
SendsSpaced ==
  [][\A r \in Requests :
       req[r].pc = "spacing" /\ req'[r].pc = "post" => since >= Spacing]_vars

\* At most one international prefix, which a country code follows.
WellFormed(m) == /\ m.zeros = 0 \/ (m.zeros = 1 /\ ~m.plus)
                 /\ m.plus \/ m.zeros = 1 => m.cc /\ m.local.nine

\* The providers that normalise numbers send the code to the same number, so
\* that falling back from one to the other does not tell it to somebody else.
SameRecipient ==
  \A r \in Requests :
    WellFormed(req[r].msisdn) /\ OrangeAccepts(req[r].msisdn)
      => MtargetAddress(req[r].msisdn) = OrangeAddress(req[r].msisdn)

\* Every request is answered, as long as the providers answer.
Answered == \A r \in Requests : req[r].answer = "waiting" ~> At(r, "done")
=============================================================================
