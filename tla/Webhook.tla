------------------------------- MODULE Webhook -------------------------------
(***************************************************************************)
(* The WEBHOOK_HTTP action: the request it builds from the contexts, and   *)
(* what it makes of the reply.  A reply has token (what the OAuth2 token   *)
(* endpoint said: "granted", "unusable" for a success without an access    *)
(* token, "refused", "busy" for 5xx and 429, "lost" when no answer came),  *)
(* status (0 when no answer came in timeout_ms) and body (Null when it is  *)
(* not JSON).                                                              *)
(***************************************************************************)
EXTENDS StepActions

\* {{token}}: what the path of a template token resolves to, Empty for nothing.
TemplateValue(ctx, token) ==
  CASE token = <<"session_id">> -> Leaf(ctx.session_id)
    [] token = <<"flow_id">>    -> Leaf(ctx.flow_id)
    [] Len(token) > 1 /\ token[1] = "session" -> At(ctx.session, Tail(token))
    [] Len(token) > 2 /\ SubSeq(token, 1, 2) = <<"flow", "context">> ->
         At(ctx.flow, Drop(token, 2))
    [] OTHER -> Empty

\* Inside a string a null, like an unknown token, leaves the token in place.
RenderStr(ctx, token) ==
  LET v == TemplateValue(ctx, token)
  IN  IF v \in {Empty, Leaf(Null)} THEN Leaf(Unrendered) ELSE v

\* A value that is one token takes the JSON value it resolves to.
RenderVal(ctx, token) ==
  LET v == TemplateValue(ctx, token)
  IN  IF v = Empty THEN Leaf(Unrendered) ELSE v

\* Templates are <<path in the result, token>> pairs.
Render(ctx, templates, inString) ==
  LET value(token) == IF inString THEN RenderStr(ctx, token)
                      ELSE RenderVal(ctx, token)
  IN  FoldLeft(LAMBDA j, t : Overwrite(j, t[1], value(t[2])), Empty, templates)

BuildPayload(ctx) ==
  IF ctx.config.payload_mappings # << >>
  THEN Mapped(ctx, ctx.config.payload_mappings)
  ELSE Render(ctx, ctx.config.payload, FALSE)

Request(ctx) ==
  [url |-> ctx.config.url,
   headers |-> Render(ctx, ctx.config.headers, TRUE),
   body |-> IF ctx.config.form_body # << >>
            THEN Render(ctx, ctx.config.form_body, TRUE)
            ELSE BuildPayload(ctx)]

Busy(status) == status >= 500 \/ status = 429

\* Faulty variant: the condition is not looked at.
AnyBodyAccepted(c, body) == TRUE

StatusAccepted(c, status) ==
  IF c.status_codes # {} THEN status \in c.status_codes ELSE status \in 200 .. 299

\* The body is looked at only when the config asks for it and it is JSON.
BodyAccepted(c, body) ==
  c.json_pointer # Null /\ body # Null =>
    At(body, c.json_pointer) = Leaf(c.expected_value)

Succeeded(c, reply) ==
  StatusAccepted(c, reply.status) /\ BodyAccepted(c, reply.body)

Extracted(c, body, target) ==
  FoldLeft(LAMBDA j, r : Put(j, r.target_path, At(body, r.json_pointer)), Empty,
           SelectSeq(c.extraction_rules,
                     LAMBDA r : /\ body # Null /\ r.target_context = target
                                /\ Has(body, r.json_pointer)))

RetryOrFail(c, retry, retryable) ==
  IF retry /\ c.retry_policy THEN Outcome("Retry") ELSE Failed(retryable)

\* A lost answer is retried under a policy whatever retryable says.
AfterReply(c, reply) ==
  LET orElse(default) == IF c.retryable = Null THEN default ELSE c.retryable
      retryable == orElse(Busy(reply.status))
  IN  IF reply.status = 0 THEN RetryOrFail(c, TRUE, orElse(TRUE))
      ELSE IF ~Succeeded(c, reply) THEN RetryOrFail(c, retryable, retryable)
      ELSE [Done(Extracted(c, reply.body, "step_output")) EXCEPT
              !.session = Extracted(c, reply.body, "session_context"),
              !.flow = Extracted(c, reply.body, "flow_context"),
              !.user = Extracted(c, reply.body, "user_metadata")]

\* The token endpoint gave no token; a busy or silent one may be tried again.
TokenRefused(c, reply) == c.oauth2 /\ reply.token # "granted"

WebhookAction(ctx) ==
  LET c == ctx.config
      sent(outcome) == [outcome EXCEPT !.request = Request(ctx)]
  IN  CASE TokenRefused(c, ctx.reply) ->
             Failed(ctx.reply.token \in {"busy", "lost"})
        [] ~TokenRefused(c, ctx.reply) /\ Malformed(c.payload_mappings) -> Error
        [] OTHER -> IF c.behavior = "fire_and_forget" THEN sent(Done(Null))
                    ELSE sent(AfterReply(c, ctx.reply))
=============================================================================
