----------------------------- MODULE StepActions -----------------------------
(***************************************************************************)
(* The built-in actions a flow definition is written in: what execute,     *)
(* validate_input and verify_input of each answer.  An action sees a       *)
(* context ctx: the ids, the input, the session and flow contexts, its     *)
(* parsed configuration, the user row the lookup service finds, and what   *)
(* the world holds for it (the time, the code the generator draws, the     *)
(* reply of the network).  It answers an outcome; it writes nothing but    *)
(* the user's phone number and full name, through the contact service.     *)
(*                                                                         *)
(* JSON booleans are "true" and "false".  A config is what parse_step_     *)
(* config returns: absent keys have their defaults.                        *)
(***************************************************************************)
EXTENDS JsonDocs

CONSTANT Unrendered     \* a template token nothing resolves, left as it is

NoUser == [user_id |-> Null]

\* StepOutcome with its ContextUpdates; output Null is None.  phone and
\* full_name are what the action wrote through the contact service, request
\* what it sent.
Outcome(kind) ==
  [kind |-> kind, branch |-> Null, retryable |-> FALSE, output |-> Null,
   flow |-> Empty, session |-> Empty, user |-> Empty, eager |-> Empty,
   phone |-> Null, full_name |-> Null, request |-> Null]

Done(output) == [Outcome("Done") EXCEPT !.output = output]
Failed(retryable) == [Outcome("Failed") EXCEPT !.retryable = retryable]
Waiting == Outcome("Waiting")
Error == Outcome("Error")       \* Err(FlowError)

\* A patch saved to the context config names.
SavedTo(outcome, target, patch) ==
  CASE target = "flow"    -> [outcome EXCEPT !.flow = patch]
    [] target = "session" -> [outcome EXCEPT !.session = patch]
    [] target = "user"    -> [outcome EXCEPT !.user = patch]

\* str::trim and the check for an empty string.
NonEmpty(v) == IF v = "" THEN Null ELSE v

-----------------------------------------------------------------------------
(* Reading and mapping values.                                             *)

Drop(p, n) == SubSeq(p, n + 1, Len(p))

\* "/flow/context/x" and "/flow/x" are both x of the flow context.
InContext(j, p) ==
  At(j, IF Len(p) > 1 /\ p[2] = "context" THEN Drop(p, 2) ELSE Drop(p, 1))

AbsoluteSource(ctx, p) ==
  CASE p = <<"session_id">>      -> Leaf(ctx.session_id)
    [] p = <<"flow_id">>         -> Leaf(ctx.flow_id)
    [] p = <<"session_user_id">> ->
         IF ctx.user_id = Null THEN Empty ELSE Leaf(ctx.user_id)
    [] p[1] = "flow"             -> InContext(ctx.flow, p)
    [] p[1] = "session"          -> InContext(ctx.session, p)
    [] p[1] = "input"            -> At(ctx.input, Drop(p, 1))
    [] OTHER                     -> Empty

\* The value of a mapping, Empty when it has none; no mapping is resolved
\* against a response.
MappingValue(ctx, m) ==
  CASE m.value # Null       -> Leaf(m.value)
    [] m.value = Null /\ m.source = "session" -> At(ctx.session, m.source_path)
    [] m.value = Null /\ m.source = "flow"    -> At(ctx.flow, m.source_path)
    [] m.value = Null /\ m.source = "input"   -> At(ctx.input, m.source_path)
    [] m.value = Null /\ m.source = Null      ->
         AbsoluteSource(ctx, m.source_path)
    [] OTHER                -> Empty

Malformed(mappings) ==
  \E m \in Range(mappings) : m.value = Null /\ m.source_path = Null

\* The document the mappings build, in order.
Mapped(ctx, mappings) ==
  FoldLeft(LAMBDA j, m :
             LET v == MappingValue(ctx, m)
             IN  IF v = Empty THEN j ELSE Put(j, m.target_path, v),
           Empty, mappings)

\* The eager flags of the top-level keys of mappings that set one.
EagerFlags(mappings) ==
  FoldLeft(LAMBDA j, m : IF m.eager = Null THEN j
                         ELSE Put(j, <<m.target_path[1]>>, Leaf(m.eager)),
           Empty, mappings)

-----------------------------------------------------------------------------
(* The actions that only steer, and SET, MAP, CONDITIONAL, CLOSE_SESSION   *)
(* and UPDATE_USER_METADATA.                                               *)

NoopStep == Done(Null)

DebugLogAction == Done(Null)

ErrorAction(ctx) == Failed(ctx.config.retryable)

RetryAction == Outcome("Retry")

WaitAction == Waiting

SetAction(ctx) == SavedTo(Done(Null), ctx.config.to, ctx.config.values)

\* read_from_root
MapSource(ctx, from) ==
  CASE from.root = "session"     -> At(ctx.session, from.path)
    [] from.root = "flow"        -> At(ctx.flow, from.path)
    [] from.root = "input"       -> At(ctx.input, from.path)
    [] from.root = "step_output" -> At(ctx.flow, <<"step_output">> \o from.path)

\* The rules whose source is present and whose target is root.
MapRules(ctx, root) ==
  SelectSeq(ctx.config.mappings,
            LAMBDA r : r.to.root = root /\ MapSource(ctx, r.from) # Empty)

MapPatch(ctx, root) ==
  FoldLeft(LAMBDA j, r : Put(j, r.to.path, MapSource(ctx, r.from)),
           Empty, MapRules(ctx, root))

MapAction(ctx) ==
  LET output == MapPatch(ctx, "step_output")
      eager  == FoldLeft(LAMBDA j, r :
                           IF r.eager = Null THEN j
                           ELSE Put(j, <<r.to.path[1]>>, Leaf(r.eager)),
                         Empty, MapRules(ctx, "user_metadata"))
  IN  IF \E r \in Range(ctx.config.mappings) :
           \/ r.from.root = "user_metadata"
           \/ r.to.root = "input" /\ MapSource(ctx, r.from) # Empty
      THEN Error
      ELSE [Done(IF output = Empty THEN Object([mapped |-> "true"]) ELSE output)
              EXCEPT !.session = MapPatch(ctx, "session"),
                     !.flow = MapPatch(ctx, "flow"),
                     !.user = MapPatch(ctx, "user_metadata"), !.eager = eager]

ConditionalAction(ctx) ==
  LET c == ctx.config
      selected == CASE c.source = "session" -> At(ctx.session, c.pointer)
                    [] c.source = "flow"    -> At(ctx.flow, c.pointer)
                    [] c.source = "input"   -> At(ctx.input, c.pointer)
      key == IF selected = Leaf(Null) THEN "null" ELSE Scalar(selected, << >>)
      branch == IF key \in DOMAIN c.cases THEN c.cases[key] ELSE c.default_branch
  IN  IF branch = Null THEN Error
      ELSE [Outcome("Branched") EXCEPT
              !.branch = branch,
              !.output = IF selected = Empty THEN Null ELSE selected]

CloseSessionAction(ctx) ==
  [Done(Object([closed |-> "true", reason |-> ctx.config.reason])) EXCEPT
     !.session = Object([close_reason |-> ctx.config.reason,
                         closed_by_step |-> ctx.step])]

UpdateUserMetadataAction(ctx) ==
  IF Malformed(ctx.config.mappings) THEN Error
  ELSE [Done(Object([updated |-> "true"])) EXCEPT
          !.user = Mapped(ctx, ctx.config.mappings),
          !.eager = EagerFlags(ctx.config.mappings)]

-----------------------------------------------------------------------------
(* The user: GET_USER, update-phone-number, UPGRADE_FULL_NAME and          *)
(* RESOLVE_RECIPIENT.                                                      *)

\* Of the row's columns, the ones a step reads; the copy of the whole row and
\* its metadata under /user, which no step reads, is left out.
GetUserAction(ctx) ==
  LET u == ctx.user
      row == Object([user_id |-> u.user_id, full_name |-> u.full_name,
                     phone_number |-> u.phone_number])
      patch == Merge(row, Object([user_exists |-> "true"]))
  IN  CASE ctx.user_id = Null -> Done(Object([userExists |-> "false"]))
        [] ctx.user_id # Null /\ u = NoUser ->
             Done(Object([userExists |-> "false", userId |-> ctx.user_id]))
        [] OTHER -> SavedTo(Done(Object([userExists |-> "true", userId |-> u.user_id,
                                phoneNumber |-> u.phone_number,
                                fullName |-> u.full_name])),
                   ctx.config.save_to, patch)


UpdatePhoneNumberAction(ctx) ==
  LET c == ctx.config
      phone == NonEmpty(Scalar(IF c.source = "flow" THEN ctx.flow
                               ELSE ctx.session, c.source_path))
      saved == Object([phone_number |-> phone])
  IN  IF phone = Null \/ (c.update_user /\ ctx.user_id = Null) THEN Error
      ELSE [Done(saved) EXCEPT
              !.flow = saved,
              !.session = IF c.save_to_session THEN saved ELSE Empty,
              !.phone = IF c.update_user THEN phone ELSE Null]

\* A field of the admin's input, under any of its names.
FieldOf(input, names) ==
  LET given == {n \in names : Has(input, <<n>>)}
  IN  IF given = {} THEN Null
      ELSE Scalar(input, <<CHOOSE n \in given : TRUE>>)

SessionFullName(session) ==
  IF Has(session, <<"full_name">>) THEN Scalar(session, <<"full_name">>)
  ELSE Scalar(session, <<"fullname">>)

\* normalize_input: the decision with what it decided, or an error.
Normalized(input, require_decision, fallback) ==
  LET decision == NonEmpty(FieldOf(input, {"decision"}))
      given    == FieldOf(input, {"full_name", "fullName", "fullname"})
      own      == IF given = Null THEN NonEmpty(fallback) ELSE NonEmpty(given)
      amount   == FieldOf(input, {"validated_deposited_amount",
                                  "validatedDepositedAmount"})
      via(names) == IF FieldOf(input, names) = "true" THEN "true" ELSE "false"
  IN  [error |-> \/ decision = Null /\ require_decision
                 \/ decision \notin {Null, "APPROVED", "REJECTED"}
                 \/ decision # Null /\ given = ""
                 \/ decision = "APPROVED" /\ (own = Null \/ amount = Null),
       decision |-> decision,
       full_name |-> IF given = "" THEN NonEmpty(fallback) ELSE own,
       deposit |-> via({"validated_deposit_via_whatsapp",
                        "validatedDepositViaWhatsapp"}),
       identity |-> via({"validated_identity_via_whatsapp",
                         "validatedIdentityViaWhatsapp"}),
       amount |-> amount]


\* done_outcome: a field that is absent is not inserted.
FullNameDone(n) ==
  LET flags == Object([validated_deposit_via_whatsapp |-> n.deposit,
                       validated_identity_via_whatsapp |-> n.identity])
      name == IF n.full_name = Null THEN Empty
              ELSE Object([full_name |-> n.full_name])
      only(fields) == IF n.amount = Null THEN Empty ELSE Object(fields)
  IN  [Done(Object([decision |-> n.decision, full_name |-> n.full_name,
                    validated_deposit_via_whatsapp |-> n.deposit,
                    validated_identity_via_whatsapp |-> n.identity,
                    validated_deposited_amount |-> n.amount])) EXCEPT
           !.flow = Merge(Merge(flags, name), only([amount |-> n.amount])),
           !.session = Merge(Merge(flags, name),
                             only([amount |-> n.amount,
                                   deposit_amount |-> n.amount]))]

\* validate_input looks at the input alone, and asks for no decision.
UpgradeFullNameValidate(input) == ~Normalized(input, FALSE, Null).error

\* verify_input does not persist the name; execute does.
UpgradeFullNameVerify(ctx) ==
  LET n == Normalized(ctx.input, ctx.config.require_decision,
                      SessionFullName(ctx.session))
  IN  IF n.error THEN Error ELSE FullNameDone(n)

UpgradeFullNameAction(ctx) ==
  LET source == <<"step_output", ctx.config.source_step_output>>
      n == Normalized(At(ctx.flow, source), ctx.config.require_decision,
                      SessionFullName(ctx.session))
  IN  IF ctx.config.source_step_output = Null THEN Waiting
      ELSE IF \/ ~Has(ctx.flow, source) \/ n.error
              \/ n.full_name # Null /\ ctx.user_id = Null
           THEN Error
           ELSE [FullNameDone(n) EXCEPT !.full_name = n.full_name]

\* A rule's regex is the set of numbers it matches; the first match wins.  The
\* copies recipient_staff_id and recipient_full_name are left out.
ResolveRecipientStep(ctx) ==
  LET known == Scalar(ctx.flow, <<"step_output", "get_user", "phoneNumber">>)
      phone == IF known # Null THEN known
               ELSE Scalar(ctx.session, <<"phone_number">>)
      hits == SelectSeq(ctx.config.recipients, LAMBDA r : phone \in r.regex)
      own  == SessionFullName(ctx.session)
      contact == IF hits # << >> THEN Head(hits)
                 ELSE [fullname |-> IF own = Null THEN "Unknown" ELSE own,
                       phone_number |-> phone, provider |-> Null]
  IN  IF phone = Null \/ ctx.config.recipients = << >> THEN Error
      ELSE [Done(IF hits = << >> THEN Object([recipientContact |-> Null])
                 ELSE Field("recipientContact",
                            Object([staffId |-> contact.provider,
                                    phoneNumber |-> contact.phone_number])))
              EXCEPT
                !.session = Object([recipient_name |-> contact.fullname,
                                    recipient_phone |-> contact.phone_number,
                                    deposit_amount |->
                                      Scalar(ctx.input, <<"amount">>),
                                    deposit_currency |->
                                      Scalar(ctx.input, <<"currency">>),
                                    provider |-> contact.provider]),
                !.flow = Object([provider_matched |->
                                   IF hits = << >> THEN "false" ELSE "true"])]

-----------------------------------------------------------------------------
(* GENERATE_OTP and VERIFY_OTP.                                            *)

GenerateOtpAction(ctx) ==
  LET code == Object([otp |-> ctx.code,
                      otp_expires_at |-> ctx.now + ctx.config.expiry_seconds])
  IN  SavedTo(Done(Object([generated |-> "true", otp |-> ctx.code,
                           expires_at |-> ctx.now + ctx.config.expiry_seconds])),
              ctx.config.save_to, code)

VerifyOtpAction == Waiting

VerifyOtpValidate(input) == Has(input, <<"code">>)

\* A key of the flow context, else of the session context.
Stored(ctx, k) ==
  IF Has(ctx.flow, <<k>>) THEN Scalar(ctx.flow, <<k>>)
  ELSE Scalar(ctx.session, <<k>>)

AttemptsSoFar(ctx) ==
  LET n == Stored(ctx, "otp_attempts") IN IF n = Null THEN 0 ELSE n

NoCode(ctx) == Null \in {Stored(ctx, "otp"), Stored(ctx, "otp_expires_at")}
CodeExpired(ctx) == ctx.now > Stored(ctx, "otp_expires_at")
TriesSpent(ctx) == AttemptsSoFar(ctx) >= ctx.config.max_attempts

\* The code entered is compared with the stored one: a wrong one is counted,
\* the right one clears the stored one.
CompareCode(ctx) ==
  LET tried == AttemptsSoFar(ctx) + 1
  IN  IF Scalar(ctx.input, <<"code">>) = Stored(ctx, "otp")
      THEN [Outcome("Branched") EXCEPT
              !.branch = "verified",
              !.output = Object([verified |-> "true"]),
              !.flow = Object([otp |-> Null, otp_expires_at |-> Null,
                               otp_attempts |-> Null])]
      ELSE [Outcome("Branched") EXCEPT
              !.branch = "retry",
              !.output = Object([verified |-> "false", attempts_remaining |->
                                   ctx.config.max_attempts - tried]),
              !.flow = Object([otp_attempts |-> tried])]


\* Faulty variant: off by one in the number of attempts.
VerifyOtpOnceMore(ctx) ==
  IF NoCode(ctx) \/ CodeExpired(ctx)
       \/ AttemptsSoFar(ctx) > ctx.config.max_attempts
  THEN Failed(FALSE) ELSE CompareCode(ctx)

VerifyOtpVerify(ctx) ==
  IF NoCode(ctx) \/ CodeExpired(ctx) \/ TriesSpent(ctx) THEN Failed(FALSE)
  ELSE CompareCode(ctx)

-----------------------------------------------------------------------------
(* UPLOAD_DOCUMENT, REVIEW_DOCUMENT and VALIDATE_DEPOSIT.                  *)

UploadDocumentAction == Waiting

UploadDocumentValidate(input) ==
  Has(input, <<"upload_key">>) \/ Has(input, <<"uploaded">>)

UploadDocumentVerify(ctx) ==
  LET key == Scalar(ctx.input, <<"upload_key">>)
      type == ctx.config.document_type
  IN  IF key = Null THEN Failed(TRUE)
      ELSE [Done(Object([uploaded |-> "true", document_type |-> type,
                         upload_key |-> key])) EXCEPT
              !.flow = Object([document_uploaded |-> "true",
                               document_type |-> type, upload_key |-> key])]

ReviewDocumentAction == Waiting

ReviewDocumentValidate(input) == Has(input, <<"approved">>)

\* The timestamp of <type>_verified_at is abstracted to its presence.
ReviewDocumentVerify(ctx) ==
  LET approved == Scalar(ctx.input, <<"approved">>)
      given == Scalar(ctx.input, <<"notes">>)
      notes == IF given = Null THEN "" ELSE given
      type == ctx.config.document_type
  IN  IF approved \notin {"true", "false"} THEN Error
      ELSE [Done(Object([reviewed |-> "true", approved |-> approved,
                         document_type |-> type])) EXCEPT
              !.flow = Object([review_completed |-> "true",
                               review_approved |-> approved,
                               review_notes |-> notes,
                               review_document_type |-> type]),
              !.user = IF approved = "true"
                       THEN Merge(Object([kyc_status |-> "VERIFIED"]),
                                  Field(ctx.config.verified_at, Leaf("set")))
                       ELSE Object([kyc_status |-> "REJECTED",
                                    rejection_reason |-> notes])]

\* A field of the input, else of the session context.
Given(ctx, k, session_key) ==
  IF Has(ctx.input, <<k>>) THEN Scalar(ctx.input, <<k>>)
  ELSE Scalar(ctx.session, <<session_key>>)

ValidateDepositAction(ctx) ==
  LET amount == Given(ctx, "amount", "deposit_amount")
      currency == Given(ctx, "currency", "deposit_currency")
  IN  IF amount = Null \/ currency = Null THEN Error
      ELSE IF /\ amount >= ctx.config.min_amount
              /\ amount <= ctx.config.max_amount
              /\ currency \in ctx.config.currencies
           THEN Done(Object([valid |-> "true", amount |-> amount,
                             currency |-> currency]))
           ELSE Failed(TRUE)
=============================================================================
