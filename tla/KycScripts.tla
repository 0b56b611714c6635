----------------------------- MODULE KycScripts -----------------------------
(***************************************************************************)
(* The KYC flows as they are shipped, run by the engine on real contexts:  *)
(* what the steps read, compute, send and write.  FlowEngine models the    *)
(* rows of the engine under every interleaving and leaves the data out;    *)
(* here one user's client sends one request at a time, staff and the       *)
(* worker run beside it, and the data is kept.  The user may have several  *)
(* sessions, a session several flows, of one type too, and the requests    *)
(* that open them may bring contexts and name the step to begin at.        *)
(*                                                                         *)
(* Three handlers run: the client's request, the staff's request and the   *)
(* worker.  A handler has the session row of its start (copy) and the flow *)
(* row it carries along, and reads everything else when it needs it.  A    *)
(* step and what becomes of its outcome are one action, unless the outcome *)
(* patches the user metadata: then the rows are read in one action and     *)
(* written in another.  A request refused without a write is a stuttering  *)
(* step and has no action.                                                 *)
(***************************************************************************)
EXTENDS Webhook, UserStore, Definitions, BagsExt

CONSTANTS
  Boots,          \* what the server may be started with
  SessionRequests(_, _), FlowRequests(_),
                  \* what may be asked for beside the sessions and flows there are
  Inputs(_, _),   \* what the people may enter at a step of a flow
  Replies(_, _),  \* what the network may answer a step of a flow
  Numbers,        \* what Keycloak may know of the user's number, or Null
  Code(_),        \* the code GENERATE_OTP draws in a flow
  UserId,
  MaxAdds,        \* bound: requests to add a flow
  MaxNow          \* bound: time

VARIABLES
  registry,  \* the FlowRegistry of the running server
  user,      \* the row of app_user
  meta,      \* its metadata
  eager,     \* eager_fetch of the metadata rows
  session,   \* the rows of flow_session: type and context
  flow,      \* the rows of flow_instance
  call,      \* what each handler is doing
  now,       \* Utc::now
  seen       \* history: what the world has seen of the flows

vars == <<registry, user, meta, eager, session, flow, call, now, seen>>

Handlers == {"client", "staff", "worker"}

\* Where a flow is: "waiting" for a person, "queued" for the worker, in the
\* hands of a handler, "stuck" on a step row nobody will pick up, or at its
\* "end", with its status.
Phases == {"waiting", "queued", "held", "stuck", "end"}

Flows == DOMAIN flow

\* The row create_flow inserts.
NewFlow(s, type, context) ==
  [session |-> s, type |-> type, phase |-> "held", status |-> "RUNNING",
   step |-> Null, attempt |-> 0, rows |-> EmptyBag, context |-> context]

ContextOf(f) == session[flow[f].session].context

Idle == [flow |-> Null, at |-> "idle", copy |-> Empty, input |-> Empty,
         read |-> Empty, outcome |-> Outcome("Done")]

Init ==
  /\ registry = [NoRegistry EXCEPT !.ok = FALSE]
  /\ user = NoRow /\ meta = Empty /\ eager = << >>
  /\ session = << >> /\ flow = << >>
  /\ call = [h \in Handlers |-> Idle]
  /\ now = 0
  /\ seen = [adds |-> 0, brought |-> {}, skipped |-> {}, given |-> {}, sent |-> {},
             codes |-> {}, tries |-> EmptyBag, proofs |-> {}, answers |-> {}]

-----------------------------------------------------------------------------
(* The server starts, Keycloak registers the user, the client opens a      *)
(* session.                                                                *)

Boot(given) ==
  /\ ~registry.ok /\ registry.flows = << >>
  /\ registry' = BuildRegistry(given)
  /\ UNCHANGED <<user, meta, eager, session, flow, call, now, seen>>

CreateUser(number) ==
  /\ registry.ok /\ user = NoRow
  /\ user' = NewUser(UserId, Null, number)
  /\ UNCHANGED <<registry, meta, eager, session, flow, call, now, seen>>

\* The rows that name the user keep it from being deleted.
DeleteUser ==
  /\ user # NoRow /\ session = << >>
  /\ user' = NoRow /\ meta' = Empty /\ eager' = << >>
  /\ UNCHANGED <<registry, session, flow, call, now, seen>>

UpdateUser(first_name, number) ==
  /\ user # NoRow
  /\ user' = ReplaceUser(user, first_name, number)
  /\ UNCHANGED <<registry, meta, eager, session, flow, call, now, seen>>

\* The request brings a context, to which the user is added.
CreateSession(type, context) ==
  /\ user # NoRow
  /\ type \in DOMAIN registry.sessions
  /\ session' = Append(session, [type |-> type,
                       context |-> Merge(context, Object([user_id |-> UserId]))])
  /\ seen' = [seen EXCEPT !.brought = @ \cup IF context = Empty THEN {}
                                              ELSE {Len(session) + 1}]
  /\ UNCHANGED <<registry, user, meta, eager, flow, call, now>>

-----------------------------------------------------------------------------
(* One step of a flow.                                                     *)

StepContext(copy, f, input) ==
  [session_id |-> flow[f].session, user_id |-> UserId, flow_id |-> f,
   step |-> flow[f].step, input |-> input, session |-> copy,
   flow |-> flow[f].context, now |-> now, code |-> Code(f),
   config |-> StepOf(registry, flow[f].type, flow[f].step).config,
   user |-> IF user = NoRow THEN NoUser ELSE LookUp(user, meta)]

Execute(action, ctx) ==
  CASE action = "NOOP" -> NoopStep
    [] action = "DEBUG_LOG" -> DebugLogAction
    [] action = "ERROR" -> ErrorAction(ctx)
    [] action = "RETRY" -> RetryAction
    [] action = "WAIT" -> WaitAction
    [] action = "VERIFY_OTP" -> VerifyOtpAction
    [] action = "UPLOAD_DOCUMENT" -> UploadDocumentAction
    [] action = "REVIEW_DOCUMENT" -> ReviewDocumentAction
    [] action = "SET" -> SetAction(ctx)
    [] action = "MAP" -> MapAction(ctx)
    [] action = "GENERATE_OTP" -> GenerateOtpAction(ctx)
    [] action = "GET_USER" -> GetUserAction(ctx)
    [] action = "CONDITIONAL" -> ConditionalAction(ctx)
    [] action = "UPDATE_USER_METADATA" -> UpdateUserMetadataAction(ctx)
    [] action = "update-phone-number" -> UpdatePhoneNumberAction(ctx)
    [] action = "CLOSE_SESSION" -> CloseSessionAction(ctx)
    [] action = "VALIDATE_DEPOSIT" -> ValidateDepositAction(ctx)
    [] action = "UPGRADE_FULL_NAME" -> UpgradeFullNameAction(ctx)
    [] action = "RESOLVE_RECIPIENT" -> ResolveRecipientStep(ctx)
    [] action = "WEBHOOK_HTTP" -> WebhookAction(ctx)

\* validate_input
Validates(action, input) ==
  CASE action = "VERIFY_OTP" -> VerifyOtpValidate(input)
    [] action = "UPLOAD_DOCUMENT" -> UploadDocumentValidate(input)
    [] action = "REVIEW_DOCUMENT" -> ReviewDocumentValidate(input)
    [] action = "UPGRADE_FULL_NAME" -> UpgradeFullNameValidate(input)
    [] OTHER -> TRUE

\* verify_input; the default accepts.
Verify(action, ctx) ==
  CASE action = "VERIFY_OTP" -> VerifyOtpVerify(ctx)
    [] action = "UPLOAD_DOCUMENT" -> UploadDocumentVerify(ctx)
    [] action = "REVIEW_DOCUMENT" -> ReviewDocumentVerify(ctx)
    [] action = "UPGRADE_FULL_NAME" -> UpgradeFullNameVerify(ctx)
    [] OTHER -> Done(Object([verified |-> "true"]))

StoreStepOutput(context, step, output) ==
  Overwrite(context, <<"step_output", step>>,
            IF output = Null THEN Object([result |-> "done"]) ELSE output)

\* create_step_chain enters a step: its row is numbered by the rows there are.
\* A queued or a waiting step ends the request.
EnterStep(g, step) ==
  LET s == StepOf(registry, g.type, step)
  IN  [g EXCEPT !.status = "RUNNING", !.step = step, !.rows = BagAdd(@, step),
                !.attempt = CopiesIn(step, g.rows),
                !.phase = CASE s.actor # "SYSTEM" -> "waiting"
                            [] RunsAsync(s) -> "queued"
                            [] OTHER -> "held"]

\* Faulty variant: current_step is left.
FinalizeAtStep(g, status) == [g EXCEPT !.phase = "end", !.status = status]

Finalize(g, status) == [g EXCEPT !.phase = "end", !.status = status, !.step = Null]

\* Where a request takes the flow from a step: on to the next one, or to its
\* end.
Advance(g, branch, failed) ==
  LET next == Transition(registry, g.type, g.step, branch, failed)
  IN  CASE next = Absent -> Finalize(g, "FAILED")
        [] next # Absent /\ HasStep(registry, g.type, next) -> EnterStep(g, next)
        [] OTHER -> Finalize(g, FinalStatus(next))

\* Where the worker takes it: the names that end a flow are looked for first,
\* the context of a flow that ends is not written, and a step is left to the
\* next poll.
AdvanceWorker(g, context, branch, failed) ==
  LET next == Transition(registry, g.type, g.step, branch, failed)
      entered == [EnterStep(g, next) EXCEPT !.context = context, !.attempt = 1]
  IN  CASE next = Absent -> Finalize(g, "FAILED")
        [] next # Absent /\ IsTerminalTarget(next) -> Finalize(g, FinalStatus(next))
        [] OTHER -> [entered EXCEPT !.phase = IF @ = "held" THEN "queued" ELSE @]

-----------------------------------------------------------------------------
(* What a handler writes.                                                  *)

\* The metadata patch of an outcome, merged into the rows the handler read.
WriteMetadata(read, patch, flags) ==
  /\ meta' = UpdateMetadata(meta, read, patch)
  /\ eager' = UpdateEager(eager, patch, flags)

KycRecord(f) ==
  Field("kyc", Field(session[flow[f].session].type, Field(flow[f].type,
    Object([completed |-> "true", flow_id |-> f,
            session_id |-> flow[f].session]))))

\* The handler goes on with the flow it holds, or records that the flow has
\* completed, or is done.
GoOn(h, f, copy, g) ==
  call' = [call EXCEPT ![h] =
    CASE g.phase = "held" -> [Idle EXCEPT !.flow = f, !.at = "execute", !.copy = copy]
      [] g.phase = "end" /\ g.status = "COMPLETED" ->
           [Idle EXCEPT !.flow = f, !.at = "record", !.read = Rows(meta', {"kyc"})]
      [] OTHER -> Idle]

RecordCompleted(h) ==
  /\ call[h].at = "record"
  /\ WriteMetadata(call[h].read, KycRecord(call[h].flow), Object([kyc |-> "false"]))
  /\ call' = [call EXCEPT ![h] = Idle]
  /\ UNCHANGED <<registry, user, session, flow, now, seen>>

\* The handler keeps outcome o of flow f and the metadata rows o patches.
Reads(h, at, f, copy, input, o) ==
  call' = [call EXCEPT ![h] =
             [flow |-> f, at |-> at, copy |-> copy, input |-> input,
              read |-> Rows(meta, Keys(o.user)), outcome |-> o]]

-----------------------------------------------------------------------------
(* The requests.                                                           *)

Starts(f, copy) == [Idle EXCEPT !.flow = f, !.at = "execute", !.copy = copy]

\* create_flow answers the row that has the human id of the request: a new one,
\* or a flow of the session, whose context then stays.  (Adding a flow that is
\* under way once more is in FlowEngine.)
FlowRows(s, type) ==
  {Len(flow) + 1} \cup {f \in Flows :
     flow[f].session = s /\ flow[f].type = type /\ flow[f].phase \in {"stuck", "end"}}

\* history: the flows begun at another step than their first, and those whose
\* request, or whose session's, brought a context.
Adding(s, f, request, skipped) ==
  [seen EXCEPT
     !.adds = @ + 1,
     !.skipped = @ \cup IF skipped THEN {f} ELSE {},
     !.given = @ \cup IF f \notin Flows /\ (request.context # Empty \/ s \in seen.brought)
                      THEN {f} ELSE {}]

\* The chain begins at the step the request names, or at the first.
AddFlow(s, request) ==
  LET first == Definition(registry, request.type).initial_step
      step == IF request.step = Null THEN first ELSE request.step
  IN  /\ call["client"] = Idle /\ seen.adds < MaxAdds
      /\ request.type \in DOMAIN registry.flows
      /\ Allowed(registry, session[s].type, request.type)
      /\ HasStep(registry, request.type, step)
      /\ \E f \in FlowRows(s, request.type) :
           LET row == IF f \in Flows THEN flow[f]
                      ELSE NewFlow(s, request.type, request.context)
               g == EnterStep(row, step)
           IN  /\ flow' = With(flow, f, g)
               /\ call' = [call EXCEPT !["client"] = IF g.phase = "held"
                             THEN Starts(f, session[s].context) ELSE Idle]
               /\ seen' = Adding(s, f, request, step # first)
      /\ UNCHANGED <<registry, user, meta, eager, session, now>>

\* What was entered is stored as the output of the step: by a client's request
\* over the outcome's patch, by a staff's request under it.
Accepted(h, context, step, input, patch) ==
  IF h = "client" THEN StoreStepOutput(Merge(context, patch), step, input)
  ELSE Merge(StoreStepOutput(context, step, input), patch)

\* What becomes of an input: the outcome o of verify_input is applied.
Accept(h, f, copy, input, read, o, history) ==
  LET g == IF o.kind = "Failed" THEN flow[f]
           ELSE [flow[f] EXCEPT !.context =
                   Accepted(h, @, flow[f].step, input, o.flow)]
      next == Advance(g, o.branch, o.kind = "Failed")
  IN  /\ session' = [session EXCEPT ![g.session].context = Merge(@, o.session)]
      /\ WriteMetadata(read, o.user, o.eager) /\ seen' = history
      /\ flow' = [flow EXCEPT ![f] = next]
      /\ GoOn(h, f, copy, next)

\* history: what was entered, and what came of it.
Entering(f, input, o) ==
  [seen EXCEPT
     !.answers = @ \cup {[flow |-> f, step |-> flow[f].step, input |-> input]},
     !.tries = CASE o.branch = "retry" -> BagAdd(@, f)
                 [] o.branch = "verified" -> BagRemoveAll(@, f)
                 [] OTHER -> @,
     !.proofs = @ \cup IF o.branch # "verified" THEN {}
                       ELSE {[flow |-> f, code |-> Scalar(input, <<"code">>), at |-> now]}]

\* An outcome that fails answers the client an error; to staff it is an outcome.
AfterVerify(h, f, input, o, history) ==
  /\ o.kind \in {"Done", "Branched"} \cup IF h = "staff" THEN {"Failed"} ELSE {}
  /\ IF o.user = Empty
     THEN Accept(h, f, ContextOf(f), input, Empty, o, history)
     ELSE /\ flow' = [flow EXCEPT ![f].phase = "held"]
          /\ Reads(h, "accept", f, ContextOf(f), input, o)
          /\ seen' = history /\ UNCHANGED <<meta, eager, session>>
  /\ UNCHANGED <<registry, user, now>>

\* submit_step and submit_admin_step.
Submit(h, f, input) ==
  LET s == StepOf(registry, flow[f].type, flow[f].step)
  IN  /\ call[h] = Idle /\ flow[f].phase = "waiting"
      /\ s.actor = IF h = "client" THEN "END_USER" ELSE "ADMIN"
      /\ Validates(s.action, input)
      /\ \E o \in {Verify(s.action, StepContext(ContextOf(f), f, input))} :
           AfterVerify(h, f, input, o, Entering(f, input, o))

AcceptAndWrite(h) ==
  LET c == call[h]
  IN  /\ c.at = "accept"
      /\ Accept(h, c.flow, c.copy, c.input, c.read, c.outcome, seen)
      /\ UNCHANGED <<registry, user, now>>

IsDone(o) == o.kind \in {"Done", "Branched"}

\* The flow context after a step: its output, then the outcome's patch.
StepContextAfter(g, o) ==
  Merge(StoreStepOutput(g.context, g.step, o.output), o.flow)

\* create_step_chain and handle_completed_step, after execute.  The session row
\* is read again to be patched.
ApplyInRequest(h, f, read, o, history) ==
  LET g == flow[f]
      next == CASE IsDone(o) -> Advance([g EXCEPT !.context = StepContextAfter(g, o)],
                                        o.branch, FALSE)
                [] o.kind = "Failed" -> Advance(g, Null, TRUE)
                [] o.kind = "Retry" -> [g EXCEPT !.phase = "queued"]
                [] o.kind = "Waiting" -> [g EXCEPT !.phase = "stuck"]
  IN  /\ session' = [session EXCEPT ![g.session].context = Merge(@, o.session)]
      /\ WriteMetadata(read, o.user, o.eager) /\ seen' = history
      /\ flow' = [flow EXCEPT ![f] = next]
      /\ GoOn(h, f, call[h].copy, next)

-----------------------------------------------------------------------------
(* The worker.                                                             *)

Claim(f) ==
  /\ call["worker"] = Idle /\ flow[f].phase = "queued"
  /\ flow' = [flow EXCEPT ![f].phase = "held"]
  /\ call' = [call EXCEPT !["worker"] = Starts(f, ContextOf(f))]
  /\ UNCHANGED <<registry, user, meta, eager, session, now, seen>>

\* schedule_retry, while there are attempts left.
RetryOr(g, s, otherwise) ==
  IF g.attempt < s.max THEN [g EXCEPT !.attempt = @ + 1, !.phase = "queued"]
  ELSE otherwise

HandleDone(g, o) ==
  AdvanceWorker(g, StepContextAfter(g, o), o.branch, FALSE)

HandleFailed(g, retryable) ==
  LET failed == AdvanceWorker(g, g.context, Null, TRUE)
  IN  IF retryable THEN RetryOr(g, StepOf(registry, g.type, g.step), failed) ELSE failed

HandleRetry(g) ==
  RetryOr(g, StepOf(registry, g.type, g.step), Finalize(g, "FAILED"))

\* process_flow_step and apply_context_updates, after execute.  The session
\* row of the start is patched and written; a row that waits keeps the time it
\* was due and is claimed again.
ApplyInWorker(f, read, o, history) ==
  LET g == flow[f]
      next == CASE IsDone(o) -> HandleDone(g, o)
                [] o.kind = "Failed" -> HandleFailed(g, o.retryable)
                [] o.kind = "Retry" -> HandleRetry(g)
                [] o.kind = "Waiting" -> [g EXCEPT !.phase = "queued"]
  IN  /\ session' = IF o.session = Empty THEN session
                    ELSE [session EXCEPT ![g.session].context =
                            Merge(call["worker"].copy, o.session)]
      /\ WriteMetadata(read, o.user, o.eager) /\ seen' = history
      /\ flow' = [flow EXCEPT ![f] = next]
      /\ GoOn("worker", f, Empty, next)

-----------------------------------------------------------------------------
(* A handler takes a step.                                                 *)

Apply(h, f, read, o, history) ==
  IF h = "worker" THEN ApplyInWorker(f, read, o, history)
  ELSE ApplyInRequest(h, f, read, o, history)

\* history: what was sent, and the codes that were drawn.
Executing(f, action, reply, o) ==
  [seen EXCEPT
     !.sent = IF o.request = Null THEN @
              ELSE @ \cup {[flow |-> f, step |-> flow[f].step,
                            request |-> o.request, reply |-> reply]},
     !.codes = IF action # "GENERATE_OTP" THEN @
               ELSE @ \cup {[flow |-> f, code |-> Code(f), at |-> now]}]

\* An error ends the handler and leaves the row of the step RUNNING, where
\* nothing picks it up.
AfterExecute(h, f, o, history) ==
  /\ user' = UpdateContact(user, o.phone, o.full_name)
  /\ IF o.kind # "Error" /\ o.user = Empty
     THEN Apply(h, f, Empty, o, history)
     ELSE /\ flow' = [flow EXCEPT ![f].phase =
                        IF o.kind = "Error" THEN "stuck" ELSE @]
          /\ IF o.kind = "Error" THEN call' = [call EXCEPT ![h] = Idle]
             ELSE Reads(h, "apply", f, call[h].copy, Empty, o)
          /\ seen' = history /\ UNCHANGED <<meta, eager, session>>
  /\ UNCHANGED <<registry, now>>

\* A step runs.
ExecuteStep(h) ==
  LET f == call[h].flow
      action == StepOf(registry, flow[f].type, flow[f].step).action
  IN  \E reply \in Replies(f, flow[f].step) :
        \E o \in {Execute(action, StepContext(call[h].copy, f, Empty)
                                     @@ [reply |-> reply])} :
          AfterExecute(h, f, o, Executing(f, action, reply, o))

ApplyAndWrite(h) ==
  /\ call[h].at = "apply"
  /\ Apply(h, call[h].flow, call[h].read, call[h].outcome, seen)
  /\ UNCHANGED <<registry, user, now>>

-----------------------------------------------------------------------------
\* A code is out: time matters.
Tick ==
  /\ now < MaxNow /\ \E f \in Flows : Has(flow[f].context, <<"otp">>)
  /\ now' = now + 1
  /\ UNCHANGED <<registry, user, meta, eager, session, flow, call, seen>>

HandlerStep(h) ==
  \/ call[h].at = "execute" /\ ExecuteStep(h)
  \/ AcceptAndWrite(h)
  \/ ApplyAndWrite(h)
  \/ RecordCompleted(h)

Next ==
  \/ \E given \in Boots : Boot(given)
  \/ \E n \in Numbers : CreateUser(n) \/ UpdateUser(Null, n)
  \/ DeleteUser
  \/ \E r \in SessionRequests(session, flow) : CreateSession(r.type, r.context)
  \/ \E s \in DOMAIN session : \E r \in FlowRequests(flow) : AddFlow(s, r)
  \/ \E h \in {"client", "staff"}, f \in Flows :
       /\ flow[f].phase = "waiting"
       /\ \E input \in Inputs(f, flow[f].step) : Submit(h, f, input)
  \/ \E f \in Flows : Claim(f)
  \/ \E h \in Handlers : HandlerStep(h)
  \/ Tick

Spec == Init /\ [][Next]_vars

-----------------------------------------------------------------------------
(* Properties of any set of scripts.                                       *)

\* The documents are JSON documents, a flow has a step exactly while it is
\* under way, and a handler at work holds its flow.
TypeOK ==
  /\ \A j \in {meta} \cup {session[s].context : s \in DOMAIN session}
              \cup {flow[f].context : f \in Flows} : IsDocument(j)
  /\ \A f \in Flows :
       /\ flow[f].phase \in Phases
       /\ flow[f].status \in {"RUNNING", "COMPLETED", "FAILED", "CLOSED"}
       /\ (flow[f].step = Null) = (flow[f].phase = "end")
       /\ (flow[f].status = "RUNNING") = (flow[f].phase # "end")
       /\ (flow[f].phase = "held") =
            (\E h \in Handlers : call[h].flow = f /\ call[h].at # "record")
  /\ DOMAIN eager = Keys(meta)

\* The definitions the server runs with are closed: whatever was in the
\* directories and on the command line, every step of a registered flow has a
\* built-in action and every transition leads to a step or to an end.
RegistryClosed ==
  registry.ok => \A t \in DOMAIN registry.flows :
    LET d == Definition(registry, t)
    IN  /\ d.initial_step \in DOMAIN d.steps
        /\ \A n \in DOMAIN d.steps :
             /\ d.steps[n].action \in BuiltinActions
             /\ \A x \in StepTargets(d.steps[n]) :
                  HasStep(registry, t, x) \/ IsTerminalTarget(x)
=============================================================================
