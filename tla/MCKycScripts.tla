---------------------------- MODULE MCKycScripts ----------------------------
(***************************************************************************)
(* The KYC flows of flows/*.yaml, one user, and what people and the        *)
(* network may answer.  The DEBUG_LOG steps of phone_otp are left out.     *)
(***************************************************************************)
EXTENDS KycScripts

Step(action, config) ==
  [action |-> action, actor |-> "SYSTEM", next |-> Absent, ok |-> Absent,
   fail |-> Absent, branches |-> << >>, async |-> FALSE, max |-> 3,
   config |-> config]

To(s, next) == [s EXCEPT !.next = next]
OkFail(s, ok, fail) == [s EXCEPT !.ok = ok, !.fail = fail]
By(s, actor) == [s EXCEPT !.actor = actor]
Switch(s, branches) == [s EXCEPT !.branches = branches]

From(source, path, target) ==
  [source |-> source, source_path |-> path, value |-> Null,
   target_path |-> target, eager |-> Null]
Const(value, target) ==
  [source |-> Null, source_path |-> Null, value |-> value,
   target_path |-> target, eager |-> Null]
Eager(m) == [m EXCEPT !.eager = "true"]

Http(url, codes) ==
  [url |-> url, headers |-> << >>, form_body |-> << >>, payload |-> << >>,
   payload_mappings |-> << >>, oauth2 |-> FALSE, behavior |-> "wait_for_response",
   status_codes |-> codes, json_pointer |-> Null, expected_value |-> Null,
   extraction_rules |-> << >>, retryable |-> Null, retry_policy |-> FALSE]

Rule(pointer, context, target) ==
  [json_pointer |-> pointer, target_context |-> context, target_path |-> target]

None == << >>

\* The unit of time is the life of a code: at 0 it is good, at 1 it is not.
CodeLifetime == 0

PhoneOtp ==
  [flow_type |-> "phone_otp", initial_step |-> "init_phone", steps |-> [
    init_phone |-> To(By(Step("WAIT", None), "END_USER"), "get_user"),
    get_user |-> To(Step("GET_USER", [save_to |-> "session"]), "sync_phone_to_flow"),
    sync_phone_to_flow |-> To(Step("update-phone-number",
      [source |-> "flow", source_path |-> <<"step_output", "init_phone", "phone_number">>,
       save_to_session |-> TRUE, update_user |-> TRUE]), "generate_otp"),
    generate_otp |-> To(Step("GENERATE_OTP",
      [expiry_seconds |-> CodeLifetime, save_to |-> "flow"]), "send_otp_webhook"),
    send_otp_webhook |-> OkFail(Step("WEBHOOK_HTTP", [Http("/otp", {200}) EXCEPT
      !.payload_mappings = <<From("flow", <<"phone_number">>, <<"phone">>),
                             From("flow", <<"otp">>, <<"otp">>)>>]),
      "verify_otp", "FAILED"),
    verify_otp |-> OkFail(Switch(By(Step("VERIFY_OTP", [max_attempts |-> 3]), "END_USER"),
      [verified |-> "check_phone_unique", retry |-> "verify_otp"]), Absent, "FAILED"),
    check_phone_unique |-> OkFail(Step("WEBHOOK_HTTP", [Http("/exists", {200}) EXCEPT
      !.oauth2 = TRUE, !.retryable = FALSE,
      !.payload_mappings = <<From("session", <<"phone_number">>, <<"phone">>)>>,
      !.extraction_rules =
        <<Rule(<<"exists">>, "flow_context", <<"phone_already_registered">>)>>]),
      "gate_phone_uniqueness", "FAILED"),
    gate_phone_uniqueness |-> OkFail(Switch(Step("CONDITIONAL",
      [source |-> "flow", pointer |-> <<"phone_already_registered">>,
       cases |-> [true |-> "phone_already_registered_terminal",
                  false |-> "continue_to_set_phone"],
       default_branch |-> "continue_to_set_phone"]),
      [phone_already_registered_terminal |-> "phone_already_registered_terminal",
       continue_to_set_phone |-> "set_user_phone_number"]), Absent, "FAILED"),
    phone_already_registered_terminal |-> To(Step("DEBUG_LOG", None), "FAILED"),
    set_user_phone_number |-> To(Step("update-phone-number",
      [source |-> "session", source_path |-> <<"phone_number">>,
       save_to_session |-> TRUE, update_user |-> TRUE]), "mark_phone_verified"),
    mark_phone_verified |-> To(Step("UPDATE_USER_METADATA", [mappings |->
      <<From("session", <<"phone_number">>, <<"phone", "number">>),
        Const("true", <<"phone", "verified">>),
        Const("true", <<"kyc", "phoneOtpVerified">>)>>]), "COMPLETE"),
    COMPLETE |-> Step("NOOP", None)]]

LegalAcceptance ==
  [flow_type |-> "legal_acceptance", initial_step |-> "accept_legal", steps |-> [
    accept_legal |-> To(Step("UPDATE_USER_METADATA", [mappings |->
      <<Const("accepted", <<"legal", "terms">>),
        Const("accepted", <<"legal", "aml">>)>>]), "COMPLETE"),
    COMPLETE |-> Step("NOOP", None)]]

FirstDeposit ==
  [flow_type |-> "first_deposit", initial_step |-> "init_first_deposit", steps |-> [
    init_first_deposit |-> To(By(Step("WAIT", None), "END_USER"), "get_user"),
    get_user |-> To(Step("GET_USER", [save_to |-> "session"]), "resolve_recipient"),
    resolve_recipient |-> To(Step("RESOLVE_RECIPIENT", [recipients |->
      <<[provider |-> "MTN_CM", fullname |-> "Benn", phone_number |-> "mtn",
         regex |-> {"n1"}],
        [provider |-> "ORANGE_CM", fullname |-> "Linda", phone_number |-> "orange",
         regex |-> {}]>>]), "await_admin_decision"),
    await_admin_decision |-> To(By(Step("WAIT", None), "ADMIN"), "decide_admin"),
    decide_admin |-> OkFail(Switch(Step("CONDITIONAL",
      [source |-> "flow", pointer |-> <<"step_output", "await_admin_decision", "decision">>,
       cases |-> [APPROVED |-> "approved", REJECTED |-> "rejected"],
       default_branch |-> "rejected"]),
      [approved |-> "upgrade_full_name", rejected |-> "close_session"]),
      Absent, "FAILED"),
    upgrade_full_name |-> To(Step("UPGRADE_FULL_NAME",
      [require_decision |-> TRUE, source_step_output |-> "await_admin_decision"]),
      "cuss_register_customer"),
    cuss_register_customer |-> [To(Step("WEBHOOK_HTTP", [Http("/register", {201}) EXCEPT
      !.oauth2 = TRUE, !.retryable = TRUE,
      !.payload_mappings = <<From("flow", <<"full_name">>, <<"fullName">>),
                             From("session", <<"phone_number">>, <<"phone">>),
                             From(Null, <<"session_user_id">>, <<"externalId">>)>>,
      !.extraction_rules =
        <<Rule(<<"fineractClientId">>, "step_output", <<"fineractClientId">>),
          Rule(<<"savingsAccountId">>, "step_output", <<"savingsAccountId">>)>>]),
      "cuss_approve_and_deposit") EXCEPT !.async = TRUE, !.fail = "FAILED"],
    cuss_approve_and_deposit |-> [To(Step("WEBHOOK_HTTP", [Http("/deposit", {200}) EXCEPT
      !.oauth2 = TRUE, !.retryable = TRUE,
      !.headers = << <<<<"X-Idempotency-Key">>, <<"flow_id">>>> >>,
      !.payload_mappings =
        <<From("flow", <<"step_output", "cuss_register_customer", "savingsAccountId">>,
               <<"savingsAccountId">>),
          From("flow", <<"amount">>, <<"depositAmount">>),
          Const("CASH", <<"paymentType">>)>>,
      !.extraction_rules =
        <<Rule(<<"transactionId">>, "step_output", <<"transactionId">>)>>]),
      "update_deposit_metadata") EXCEPT !.fail = "FAILED"],
    update_deposit_metadata |-> To(Step("UPDATE_USER_METADATA", [mappings |->
      <<Eager(From("flow", <<"step_output", "cuss_register_customer", "fineractClientId">>,
                   <<"fineractId">>)),
        Eager(From("flow", <<"step_output", "cuss_register_customer", "savingsAccountId">>,
                   <<"savingsAccountId">>)),
        From("flow", <<"step_output", "cuss_approve_and_deposit", "transactionId">>,
             <<"firstDeposit", "transactionId">>),
        Const("APPROVED", <<"firstDeposit", "status">>)>>]), "COMPLETE"),
    close_session |-> To(Step("CLOSE_SESSION", [reason |-> "REJECTED_BY_ADMIN"]), "CLOSED"),
    COMPLETE |-> Step("NOOP", None)]]

IdDocument ==
  [flow_type |-> "id_document", initial_step |-> "submit", steps |-> [
    submit |-> OkFail(By(Step("UPLOAD_DOCUMENT", [document_type |-> "id"]), "END_USER"),
                      "review", "error"),
    review |-> OkFail(By(Step("REVIEW_DOCUMENT",
      [document_type |-> "id", verified_at |-> "id_verified_at"]), "ADMIN"),
      "complete", "submit"),
    error |-> Step("ERROR", [retryable |-> FALSE]),
    complete |-> Step("NOOP", None)]]

ExternalKyc ==
  [flow_type |-> "external_kyc", initial_step |-> "call_provider", steps |-> [
    call_provider |-> [OkFail(Step("WEBHOOK_HTTP", [Http("/verify", {200}) EXCEPT
      !.json_pointer = <<"status">>, !.expected_value = "verified",
      !.extraction_rules =
        <<Rule(<<"status">>, "session_context", <<"kyc_status">>),
          Rule(<<"score">>, "step_output", <<"kyc_score">>)>>]),
      "persist_provider_score", "error") EXCEPT !.max = 5],
    persist_provider_score |-> OkFail(Step("MAP", [mappings |->
      <<[from |-> [root |-> "flow", path |-> <<"step_output", "call_provider", "kyc_score">>],
         to |-> [root |-> "user_metadata", path |-> <<"kyc_score">>],
         eager |-> "false"]>>]), "complete", "error"),
    error |-> Step("ERROR", [retryable |-> FALSE]),
    complete |-> Step("NOOP", None)]]

\* Definitions given with the import option: the actions and the webhook
\* behaviours no shipped flow of this instance uses.
Partner ==
  [flow_type |-> "partner", initial_step |-> "prepare", steps |-> [
    prepare |-> To(Step("SET", [to |-> "session", values |->
      Object([deposit_amount |-> 5, deposit_currency |-> "XAF"])]), "ask"),
    ask |-> To(By(Step("WAIT", None), "END_USER"), "check"),
    check |-> OkFail(Step("VALIDATE_DEPOSIT",
      [min_amount |-> 1, max_amount |-> 5, currencies |-> {"XAF"}]), "announce", "retry"),
    announce |-> To(Step("WEBHOOK_HTTP", [Http("/announce", {}) EXCEPT
      !.behavior = "fire_and_forget",
      !.payload = << <<<<"flow">>, <<"flow_id">>>>,
                     <<<<"none">>, <<"flow", "context", "none">>>> >>]), "confirm"),
    confirm |-> OkFail(Step("WEBHOOK_HTTP", [Http("/confirm", {}) EXCEPT
      !.retry_policy = TRUE,
      !.form_body = << <<<<"currency">>, <<"session", "deposit_currency">>>> >>,
      !.extraction_rules = <<Rule(<<"ref">>, "user_metadata", <<"partner", "ref">>),
                             Rule(<<"ref">>, "session_context", <<"ref">>)>>]),
      "name", "FAILED"),
    name |-> To(By(Step("UPGRADE_FULL_NAME",
      [require_decision |-> FALSE, source_step_output |-> Null]), "ADMIN"), "END"),
    retry |-> [Step("RETRY", None) EXCEPT !.max = 2]]]

Strict == [Partner EXCEPT !.steps["check"].config.max_amount = 4,
                          !.flow_type = "strict"]
Dangling == [Partner EXCEPT !.steps["ask"].next = "nowhere", !.flow_type = "dangling"]
Unknown == [LegalAcceptance EXCEPT !.steps["COMPLETE"].action = "EMAIL",
                                   !.flow_type = "unknown"]

MCFlowFiles ==
  [phone_otp |-> PhoneOtp, legal_acceptance |-> LegalAcceptance,
   first_deposit |-> FirstDeposit, id_document |-> IdDocument,
   external_kyc |-> ExternalKyc, partner |-> Partner, strict |-> Strict, dangling |-> Dangling,
   unknown |-> Unknown, broken |-> Unparsable]

MCSessionFiles ==
  [kyc_fineract |-> [session_type |-> "kyc_fineract", allowed_flows |->
                       {"phone_otp", "legal_acceptance", "first_deposit"}],
   documents |-> [session_type |-> "documents",
                  allowed_flows |-> {"id_document", "external_kyc"}],
   partners |-> [session_type |-> "partners", allowed_flows |-> {"partner", "strict"}],
   broken |-> Unparsable]

Shipped == [flows |-> <<"broken", "dangling", "external_kyc", "first_deposit",
                        "id_document", "legal_acceptance", "phone_otp">>,
            sessions |-> <<"broken", "kyc_fineract">>,
            import_flows |-> <<"partner", "strict">>,
            import_sessions |-> <<"documents", "partners">>]

MCBoots ==
  {Shipped, [Shipped EXCEPT !.import_flows = <<"dangling">>],
   [Shipped EXCEPT !.import_flows = <<"phone_otp">>],
   [Shipped EXCEPT !.flows = <<"unknown">>],
   [Shipped EXCEPT !.import_sessions = <<"kyc_fineract">>]}

\* The first session may be of any type.  A user with one of kyc_fineract and a
\* flow in it may open a second, with a context.
MCSessionRequests(sessions, flows) ==
  CASE sessions = << >> ->
         {[type |-> t, context |-> Empty] : t \in {"kyc_fineract", "documents", "partners"}}
    [] Len(sessions) = 1 /\ sessions[1].type = "kyc_fineract" /\ Len(flows) = 1 ->
         {[type |-> "kyc_fineract", context |-> Object([phone_number |-> "n2"])]}
    [] OTHER -> {}

Asking(type, step, context) == [type |-> type, step |-> step, context |-> context]

Plainly(types) == {Asking(t, Null, Empty) : t \in types}

OldScore == Field("step_output", Field("call_provider", Object([kyc_score |-> "12"])))
OldAmount == Object([amount |-> "900"])

\* The first flow may begin at its first step or at a later one.
FirstFlow ==
  Plainly({"phone_otp", "first_deposit", "id_document", "external_kyc", "partner", "strict"})
    \cup {Asking("phone_otp", "check_phone_unique", Empty),
          Asking("phone_otp", "mark_phone_verified", Empty),
          Asking("first_deposit", "cuss_register_customer", OldAmount),
          Asking("id_document", "review", Empty),
          Asking("external_kyc", "persist_provider_score", OldScore),
          Asking("partner", "name", Empty)}

\* The second may bring a context with what its steps will write.
MCFlowRequests(flows) ==
  CASE flows = << >> -> FirstFlow
    [] flows # << >> /\ flows[1].type \in {"phone_otp", "first_deposit"} ->
         {Asking("first_deposit", Null, OldAmount)}
           \cup IF flows[1].type = "first_deposit" THEN {}
                ELSE {Asking("phone_otp", Null, Object([phone_number |-> "n1"]))}
    [] OTHER -> Plainly({"id_document", "partner", "strict"})
                  \cup {Asking("external_kyc", Null, OldScore)}

MCCode(f) == IF f = 1 THEN "c1" ELSE "c2"

\* Two numbers and two amounts are entered; in the first flow more goes wrong than
\* in the second.
MCInputs(f, step) ==
  LET Also(inputs) == IF f = 1 THEN inputs ELSE {}
  IN CASE step = "init_phone" ->
         {Object([phone_number |-> "n2"])}
           \cup Also({Object([phone_number |-> "n1"]), Empty})
    [] step = "verify_otp" -> {Object([code |-> MCCode(f)])} \cup Also({Object([code |-> "c2"])})
    [] step = "await_admin_decision" ->
         {Object([decision |-> "APPROVED", full_name |-> "Ada",
                  validated_deposited_amount |-> IF f = 1 THEN "500" ELSE "700"])}
          \cup Also({Object([decision |-> "APPROVED", full_name |-> "Ada"]),
                     Object([decision |-> "REJECTED"])})
    [] step = "submit" -> {Object([upload_key |-> "key"]), Object([uploaded |-> "true"])}
    [] step = "review" -> {Object([approved |-> "true"]),
                           Object([approved |-> "false", notes |-> "blurred"])}
    [] step = "name" -> {Object([fullName |-> "Ada"]),
                         Object([decision |-> "APPROVED"])}
    [] OTHER -> {Empty}

Reply(status, body) == [token |-> "granted", status |-> status, body |-> body]
Denied(token) == [token |-> token, status |-> 0, body |-> Null]

MCReplies(f, step) ==
  LET Also(replies) == IF f = 1 THEN replies ELSE {}
  IN CASE step = "send_otp_webhook" -> {Reply(200, Null)} \cup Also({Reply(500, Null)})
    [] step = "check_phone_unique" ->
         {Reply(200, Object([exists |-> e])) : e \in {"true", "false"}}
           \cup Also({Reply(503, Null)})
    [] step = "cuss_register_customer" ->
         {Reply(201, Object([fineractClientId |-> <<"c", f>>, savingsAccountId |-> <<"a", f>>]))}
           \cup Also({Denied("busy"), Denied("refused")})
    [] step = "cuss_approve_and_deposit" ->
         {Reply(200, Object([transactionId |-> "t1"])), Reply(0, Null)}
    [] step = "call_provider" ->
         {Reply(200, Object([status |-> "verified", score |-> "87"])),
          Reply(200, Object([status |-> "pending", score |-> "40"])),
          Reply(200, Null), Reply(502, Null)}
    [] step = "confirm" ->
         {Reply(200, Object([ref |-> "r1"])), Reply(429, Null), Reply(400, Null)}
    [] OTHER -> {Reply(200, Null)}

MCNumbers == {"n0", Null}

-----------------------------------------------------------------------------
(* Properties of the shipped scripts.                                      *)

Sent(f, step) == {s \in seen.sent : s.flow = f /\ s.step = step}
Entered(f, step) == {a.input : a \in {a \in seen.answers : a.flow = f /\ a.step = step}}
OfType(type) == {f \in Flows : flow[f].type = type}
Verified == Scalar(meta, <<"phone", "verified">>) = "true"
VerifiedNumber == Scalar(meta, <<"phone", "number">>)

\* Every flow of the type was begun at its first step: add_flow_to_session begins
\* it at whatever step of the definition the request names.
FromTheStart(type) == OfType(type) \cap seen.skipped = {}

\* The code that flow f drew was sent to that very number and entered before it
\* expired.
CodeEntered(f) ==
  \E s \in Sent(f, "send_otp_webhook"), g \in seen.proofs, c \in seen.codes :
    /\ g.flow = f /\ c.flow = f
    /\ Scalar(s.request.body, <<"phone">>) = VerifiedNumber
    /\ Scalar(s.request.body, <<"otp">>) = g.code
    /\ c.code = g.code /\ g.at <= c.at + CodeLifetime

\* CUSS was asked about that number and answered 200, and not that it is
\* registered (gate_phone_uniqueness).
NotTaken(f) ==
  \E s \in Sent(f, "check_phone_unique") :
    /\ Scalar(s.request.body, <<"phone">>) = VerifiedNumber
    /\ s.reply.status = 200 /\ Scalar(s.reply.body, <<"exists">>) # "true"


\* No more wrong codes are compared than max_attempts allows, also when the flow
\* is added again and draws another code.  It is stated of flows that did not get
\* a context with their request, which may hold the counter.
TriesBounded == \A f \in Flows \ seen.given : CopiesIn(f, seen.tries) <= 3

\* When phone_otp flows are begun at their first step, the verified number is the
\* one of the user row, whatever Keycloak's update_user and the other flows wrote
\* meanwhile, unless a phone_otp flow that has not completed has put the number
\* entered in it there (sync_phone_to_flow writes it before it is proved).
PhoneAgrees ==
  Verified /\ FromTheStart("phone_otp") =>
    \/ user.phone_number = VerifiedNumber
    \/ \E f \in OfType("phone_otp") :
         /\ flow[f].status # "COMPLETED"
         /\ Object([phone_number |-> user.phone_number]) \in Entered(f, "init_phone")


\* When external_kyc flows are begun at their first step, the score of the provider
\* is stored only from an answer that says the user is verified, also when the
\* request brought another in its context.
ScoreIsVerified ==
  Has(meta, <<"kyc_score">>) /\ FromTheStart("external_kyc") =>
    \E f \in OfType("external_kyc") : \E s \in Sent(f, "call_provider") :
      /\ s.reply.status = 200 /\ s.reply.body # Null
      /\ Scalar(s.reply.body, <<"status">>) = "verified"
      /\ Scalar(s.reply.body, <<"score">>) = Scalar(meta, <<"kyc_score">>)

=============================================================================
