----------------------------- MODULE FlowEngine -----------------------------
(***************************************************************************)
(* One KYC session with its flows and steps, as rows of Postgres, and the  *)
(* processes that work on them: BFF requests (add_flow_to_session,         *)
(* submit_step), staff requests (submit_admin_step), approvals             *)
(* (approve_step) and the background workers (FlowExecutor).               *)
(*                                                                         *)
(* No handler runs in a transaction, so every database statement is an     *)
(* atomic step of its own and anything may happen between two of them.     *)
(* update_flow and patch_step are a SELECT and an UPDATE that writes back  *)
(* every mutable column of the row the SELECT returned: two steps each.    *)
(* A handler that answers an error, or a process that dies, stops between  *)
(* two statements and leaves the rows as they are (Abort).                 *)
(*                                                                         *)
(* next_retry_at is abstracted to "is set": a time that has been set may   *)
(* be past at any moment.                                                  *)
(***************************************************************************)
EXTENDS FlowRules, FiniteSets

CONSTANTS
  Flows,        \* the flows the session may have, by human id
  InitialStep,  \* [Flows -> StepTypes]
  Clients,      \* processes calling the BFF
  Staff,        \* processes calling the staff API
  Approvers,    \* processes calling /auth/approve
  Workers,      \* background workers
  Faulty,       \* processes that may fail between two statements
  Disciplined,  \* clients add a flow once, and submit only END_USER steps
                \* that are WAITING; the code itself checks neither
  Overlap,      \* FALSE: a handler starts only when no other is running
  MaxRow        \* bound: a flow has at most MaxRow + 1 rows of one type

Procs == Clients \cup Staff \cup Approvers \cup Workers

ASSUME EngineAssumption ==
  /\ InitialStep \in [Flows -> StepTypes]
  /\ Flows # {}
  /\ Faulty \subseteq Procs
  /\ Workers \cap (Clients \cup Staff \cup Approvers) = {}
  /\ Disciplined \in BOOLEAN /\ Overlap \in BOOLEAN
  /\ MaxRow \in Nat

\* A step row is found by its human_id: the flow, the step type and how many
\* rows of the type the flow had when it was named.
StepKey == [flow : Flows, type : StepTypes, no : 0 .. MaxRow]

VARIABLES
  session,   \* flow_session: status, and which steps patched its context
  flows,     \* flow_instance rows
  steps,     \* flow_step rows
  kyc,       \* user metadata "kyc": the flows recorded as completed
  pc,        \* the statement each process executes next
  loc        \* the local variables of its handler

vars == <<session, flows, steps, kyc, pc, loc>>

FlowRow == [status : FlowStatuses, current_step : StepTypes \cup {None},
            step_ids : SUBSET StepKey, context : SUBSET StepTypes]

StepRow == [status : StepStatuses, attempt_no : Nat, next_retry : BOOLEAN]

NoFlowRow == [status |-> "ABSENT", current_step |-> None,
              step_ids |-> {}, context |-> {}]

NoStepRow == [status |-> "ABSENT", attempt_no |-> 0, next_retry |-> FALSE]

AnyKey == [flow |-> CHOOSE f \in Flows : TRUE,
           type |-> CHOOSE t \in StepTypes : TRUE, no |-> 0]

Labels == {"idle", "open_session", "get_flow", "get_session", "verify",
           "execute", "select_step", "patch_step", "read_context",
           "write_context", "list_steps", "create_step", "select_flow",
           "update_flow", "read_kyc", "write_kyc", "list_flows",
           "write_status"}

Modes == {"none", "bff", "staff", "chain", "approve", "worker"}

\* What a pending patch_step and a pending update_flow will change.
StepPatches == {"none", "COMPLETED", "FAILED", "WAITING", "requeue", "bump"}
FlowPatches == {"none", "context", "step", "final"}

Locals ==
  [mode : Modes,
   step : StepKey,                 \* the step being worked on, or created
   attempt_no : Nat,               \* of the row a worker claimed
   flow : FlowRow,                 \* the handler's copy of the flow
   next : Targets,                 \* where the flow goes from here
   patch : StepPatches, step_row : StepRow,
   write : FlowPatches, flow_row : FlowRow,
   status : SessionStatuses,       \* the flow or session status to write
   context : SUBSET StepTypes,     \* copy of the session context
   kyc : SUBSET Flows,             \* copy of the kyc metadata
   more : BOOLEAN]                 \* finalizing is followed by one more
                                   \* update of the session status

NoLocals ==
  [mode |-> "none", step |-> AnyKey, attempt_no |-> 0, flow |-> NoFlowRow,
   next |-> "END", patch |-> "none", step_row |-> NoStepRow,
   write |-> "none", flow_row |-> NoFlowRow, status |-> "OPEN",
   context |-> {}, kyc |-> {}, more |-> FALSE]

TypeOK ==
  /\ session \in [status : SessionStatuses, context : SUBSET StepTypes]
  /\ flows \in [Flows -> FlowRow]
  /\ steps \in [StepKey -> StepRow]
  /\ kyc \subseteq Flows
  /\ pc \in [Procs -> Labels]
  /\ loc \in [Procs -> Locals]

Init ==
  /\ session = [status |-> "OPEN", context |-> {}]
  /\ flows = [f \in Flows |-> NoFlowRow]
  /\ steps = [k \in StepKey |-> NoStepRow]
  /\ kyc = {}
  /\ pc = [p \in Procs |-> "idle"]
  /\ loc = [p \in Procs |-> NoLocals]

Exists(k) == steps[k].status # "ABSENT"

Goto(p, label, l) ==
  /\ pc' = [pc EXCEPT ![p] = label]
  /\ loc' = [loc EXCEPT ![p] = l]

Return(p) == Goto(p, "idle", NoLocals)

\* p has no handler running, and may start one.
MayStart(p) ==
  /\ pc[p] = "idle"
  /\ Overlap \/ \A q \in Procs : pc[q] = "idle"

-----------------------------------------------------------------------------
(* Entry points: the first statement of each handler.                      *)

\* create_flow answers the row that already has the human id, if there is one.
AddFlow(p, f) ==
  /\ p \in Clients /\ MayStart(p)
  /\ Disciplined => flows[f].status = "ABSENT"
  /\ LET row == IF flows[f].status = "ABSENT"
                THEN [NoFlowRow EXCEPT !.status = "RUNNING"]
                ELSE flows[f]
     IN  /\ flows' = [flows EXCEPT ![f] = row]
         /\ Goto(p, "open_session",
                 [NoLocals EXCEPT !.mode = "chain", !.flow = row,
                    !.step = [AnyKey EXCEPT !.flow = f],
                    !.next = InitialStep[f], !.more = TRUE])
  /\ UNCHANGED <<session, steps, kyc>>

OpenSession(p) ==
  /\ pc[p] = "open_session"
  /\ session' = [session EXCEPT !.status = "RUNNING"]
  /\ Goto(p, "list_steps", loc[p])
  /\ UNCHANGED <<flows, steps, kyc>>

\* submit_step refuses SYSTEM steps and nothing else.
SubmitStep(p, k) ==
  /\ p \in Clients /\ MayStart(p)
  /\ Exists(k) /\ Def[k.type].actor # "SYSTEM"
  /\ Disciplined => Def[k.type].actor = "END_USER"
                    /\ steps[k].status = "WAITING"
  /\ Goto(p, "get_flow",
          [NoLocals EXCEPT !.mode = "bff", !.step = k, !.more = TRUE])
  /\ UNCHANGED <<session, flows, steps, kyc>>

\* Faulty variant: without the STEP_NOT_WAITING check.
AdminSubmittableAgain(k) == Def[k.type].actor = "ADMIN" /\ Exists(k)

AdminSubmittable(k) ==
  Def[k.type].actor = "ADMIN" /\ steps[k].status = "WAITING"

\* submit_admin_step looks at the status once, when it reads the step.
SubmitAdminStep(p, k) ==
  /\ p \in Staff /\ MayStart(p)
  /\ AdminSubmittable(k)
  /\ Goto(p, "get_flow",
          [NoLocals EXCEPT !.mode = "staff", !.step = k, !.more = TRUE])
  /\ UNCHANGED <<session, flows, steps, kyc>>

\* approve_step patches any step, and leaves the flow alone.
ApproveStep(p, k, decision) ==
  /\ p \in Approvers /\ MayStart(p)
  /\ Exists(k)
  /\ Goto(p, "select_step",
          [NoLocals EXCEPT !.mode = "approve", !.step = k,
                           !.patch = decision])
  /\ UNCHANGED <<session, flows, steps, kyc>>

\* Faulty variant: failed rows whose retry time has come are taken too.
DueWhenFailed(k) ==
  /\ Def[k.type].actor = "SYSTEM"
  /\ steps[k].status \in {"WAITING", "FAILED"} /\ steps[k].next_retry

Due(k) ==
  /\ Def[k.type].actor = "SYSTEM"
  /\ steps[k].status = "WAITING" /\ steps[k].next_retry

\* Faulty variant: the row is read and not marked.
UnclaimedRow(row) == row

ClaimedRow(row) == [row EXCEPT !.status = "RUNNING"]

\* One UPDATE with a FOR UPDATE SKIP LOCKED subquery: atomic.
ClaimNextSystemStep(w, k) ==
  /\ w \in Workers /\ MayStart(w)
  /\ Due(k)
  /\ steps' = [steps EXCEPT ![k] = ClaimedRow(@)]
  /\ Goto(w, "get_flow",
          [NoLocals EXCEPT !.mode = "worker", !.step = k, !.more = TRUE,
                           !.attempt_no = steps[k].attempt_no])
  /\ UNCHANGED <<session, flows, kyc>>

GetFlow(p) ==
  /\ pc[p] = "get_flow"
  /\ Goto(p, IF loc[p].mode = "worker" THEN "get_session" ELSE "verify",
          [loc[p] EXCEPT !.flow = flows[loc[p].step.flow]])
  /\ UNCHANGED <<session, flows, steps, kyc>>

\* The copy of the session context a worker will patch and write back.
GetSession(w) ==
  /\ pc[w] = "get_session"
  /\ Goto(w, "execute", [loc[w] EXCEPT !.context = session.context])
  /\ UNCHANGED <<session, flows, steps, kyc>>

-----------------------------------------------------------------------------
(* Outcomes: what verify_input or execute answered, and what the handler   *)
(* decides from it.  Nothing is written here.                              *)

\* The step is done: its output is stored in the handler's copy of the flow
\* context, and the row will be patched COMPLETED.
Completing(l, outcome) ==
  [l EXCEPT !.patch = "COMPLETED",
            !.next = ResolveTransition(l.step.type, outcome, FALSE),
            !.flow.context = @ \cup {l.step.type}]

Failing(l) ==
  [l EXCEPT !.patch = "FAILED", !.next = FailureTarget(l.step.type)]

\* Both submit handlers patch the session before they patch the step.
VerifyAccepted(p) ==
  /\ pc[p] = "verify"
  /\ \E o \in Def[loc[p].step.type].verify :
       /\ IsDone(o) \/ (loc[p].mode = "bff" /\ o \in {"Waiting", "Retry"})
       /\ Goto(p, IF IsDone(o) /\ Def[loc[p].step.type].session_patch
                  THEN "read_context" ELSE "select_step",
               Completing(loc[p], o))
  /\ UNCHANGED <<session, flows, steps, kyc>>

\* VERIFICATION_FAILED to a client, INVALID_ADMIN_STEP_OUTCOME to staff.
VerifyRefused(p) ==
  /\ pc[p] = "verify"
  /\ \E o \in Def[loc[p].step.type].verify :
       IF loc[p].mode = "bff" THEN IsFailed(o) ELSE o \in {"Waiting", "Retry"}
  /\ Return(p)
  /\ UNCHANGED <<session, flows, steps, kyc>>

\* A rejected admin step fails, and the flow goes to its failure target; when
\* it has none, finalize_flow is the last call of the handler.
VerifyRejected(p) ==
  /\ pc[p] = "verify" /\ loc[p].mode = "staff"
  /\ \E o \in Def[loc[p].step.type].verify : IsFailed(o)
  /\ Goto(p, "select_step",
          [Failing(loc[p]) EXCEPT
             !.more = Def[loc[p].step.type].on_failure # None])
  /\ UNCHANGED <<session, flows, steps, kyc>>

ExecuteDone(p) ==
  /\ pc[p] = "execute"
  /\ \E o \in Def[loc[p].step.type].execute :
       IsDone(o) /\ Goto(p, "select_step", Completing(loc[p], o))
  /\ UNCHANGED <<session, flows, steps, kyc>>

ExecuteWaiting(p) ==
  /\ pc[p] = "execute"
  /\ "Waiting" \in Def[loc[p].step.type].execute
  /\ Goto(p, "select_step", [loc[p] EXCEPT !.patch = "WAITING"])
  /\ UNCHANGED <<session, flows, steps, kyc>>

\* Faulty variant: one retry too many.
MayRetryOnceMore(l) == l.attempt_no <= Def[l.step.type].max

MayRetry(l) == l.attempt_no < Def[l.step.type].max

\* handle_failed; a step chain fails the step whether or not it may be retried.
ExecuteFailed(p) ==
  /\ pc[p] = "execute"
  /\ \E o \in Def[loc[p].step.type].execute :
       /\ IsFailed(o)
       /\ Goto(p, "select_step",
               IF loc[p].mode = "worker" /\ o = "FailedRetryable"
                    /\ MayRetry(loc[p])
               THEN [loc[p] EXCEPT !.patch = "bump"]
               ELSE Failing(loc[p]))
  /\ UNCHANGED <<session, flows, steps, kyc>>

\* handle_retry: when the retries are used up the flow fails, whatever the
\* step's failure target, and the session status is left as it is.  A step
\* chain leaves the step to the workers.
ExecuteRetry(p) ==
  /\ pc[p] = "execute"
  /\ "Retry" \in Def[loc[p].step.type].execute
  /\ Goto(p, "select_step",
          CASE loc[p].mode = "chain" -> [loc[p] EXCEPT !.patch = "requeue"]
            [] loc[p].mode # "chain" /\ MayRetry(loc[p]) ->
                 [loc[p] EXCEPT !.patch = "bump"]
            [] OTHER -> [loc[p] EXCEPT !.patch = "FAILED", !.next = "FAILED",
                                       !.more = FALSE])
  /\ UNCHANGED <<session, flows, steps, kyc>>

-----------------------------------------------------------------------------
(* Database statements, and where the handler goes after each.             *)

\* Faulty variant: a failed step with no step after it ends the handler.
AdvanceNoFailure(p, l) ==
  CASE HasFlowStep(l.next) /\ (l.mode = "worker" => ~IsTerminalStep(l.next)) ->
         Goto(p, "list_steps",
              [l EXCEPT !.mode = IF @ = "worker" THEN @ ELSE "chain"])
    [] l.patch = "FAILED" -> Return(p)
    [] OTHER -> Goto(p, "select_flow", [l EXCEPT !.write = "final",
                                          !.status = TerminalStatus(l.next)])

\* After a step: create the next one, or finalize the flow.  The executor
\* looks for a terminal name first, the request handlers for a step.
Advance(p, l) ==
  IF IF l.mode = "worker" THEN IsTerminalStep(l.next) ELSE ~HasFlowStep(l.next)
  THEN Goto(p, "select_flow",
            [l EXCEPT !.write = "final", !.status = TerminalStatus(l.next)])
  ELSE Goto(p, "list_steps",
            [l EXCEPT !.mode = IF @ = "worker" THEN @ ELSE "chain"])

\* The end of a request: the flow's rows are written, the session's is not.
Refresh(p, l, more) ==
  Goto(p, "list_flows",
       [NoLocals EXCEPT !.mode = l.mode, !.step = l.step, !.more = more])

SelectStep(p) ==
  /\ pc[p] = "select_step"
  /\ Goto(p, "patch_step", [loc[p] EXCEPT !.step_row = steps[loc[p].step]])
  /\ UNCHANGED <<session, flows, steps, kyc>>

\* Faulty variant: the retry is scheduled and not counted.
PatchedUncounted(l) ==
  IF l.patch \in {"requeue", "bump"}
  THEN [l.step_row EXCEPT !.status = "WAITING", !.next_retry = TRUE]
  ELSE [l.step_row EXCEPT !.status = l.patch]

Patched(l) ==
  CASE l.patch = "requeue" ->
         [l.step_row EXCEPT !.status = "WAITING", !.next_retry = TRUE]
    [] l.patch = "bump" ->
         [l.step_row EXCEPT !.status = "WAITING", !.next_retry = TRUE,
                            !.attempt_no = l.attempt_no + 1]
    [] OTHER -> [l.step_row EXCEPT !.status = l.patch]

AfterPatch(p, l) ==
  CASE l.mode = "approve" -> Return(p)
    [] l.mode # "approve" /\ l.patch = "FAILED" -> Advance(p, l)
    [] l.mode \in {"bff", "staff"} /\ l.patch = "COMPLETED" ->
         Goto(p, "select_flow", [l EXCEPT !.write = "context"])
    [] l.mode = "chain" /\ l.patch = "COMPLETED" ->
         IF Def[l.step.type].session_patch
         THEN Goto(p, "read_context", l)
         ELSE Goto(p, "select_flow", [l EXCEPT !.write = "context"])
    [] l.mode = "worker" /\ l.patch = "COMPLETED" ->
         IF Def[l.step.type].session_patch
         THEN Goto(p, "write_context", l)
         ELSE Advance(p, l)
    [] l.mode = "chain" /\ l.patch \in {"WAITING", "requeue"} ->
         Refresh(p, l, FALSE)
    [] OTHER -> Return(p)

PatchStep(p) ==
  /\ pc[p] = "patch_step"
  /\ steps' = [steps EXCEPT ![loc[p].step] = Patched(loc[p])]
  /\ AfterPatch(p, [loc[p] EXCEPT !.step_row = NoStepRow])
  /\ UNCHANGED <<session, flows, kyc>>

\* apply_context_updates reads the session again before it patches it.
ReadContext(p) ==
  /\ pc[p] = "read_context"
  /\ Goto(p, "write_context", [loc[p] EXCEPT !.context = session.context])
  /\ UNCHANGED <<session, flows, steps, kyc>>

MergedContext(l) == l.context \cup {l.step.type}

WriteContext(p) ==
  /\ pc[p] = "write_context"
  /\ session' = [session EXCEPT !.context = MergedContext(loc[p])]
  /\ CASE loc[p].mode = "worker" -> Advance(p, loc[p])
       [] loc[p].mode = "chain" ->
            Goto(p, "select_flow", [loc[p] EXCEPT !.write = "context"])
       [] OTHER -> Goto(p, "select_step", loc[p])
  /\ UNCHANGED <<flows, steps, kyc>>

RowsOf(f, type) == {k \in StepKey : Exists(k) /\ k.flow = f /\ k.type = type}

\* The step is now the one to create: a row is named after the number of rows
\* of its type.
Naming(l, n) ==
  [l EXCEPT !.patch = "none",
            !.step = [flow |-> l.step.flow, type |-> l.next, no |-> n]]

\* Faulty variant: the flow is pointed at the step before it is inserted.
ListStepsThenUpdate(p) ==
  /\ pc[p] = "list_steps"
  /\ \E n \in 0 .. MaxRow :
       /\ n = Cardinality(RowsOf(loc[p].step.flow, loc[p].next))
       /\ Goto(p, "select_flow", [Naming(loc[p], n) EXCEPT !.write = "step"])
  /\ UNCHANGED <<session, flows, steps, kyc>>

ListSteps(p) ==
  /\ pc[p] = "list_steps"
  /\ \E n \in 0 .. MaxRow :
       /\ n = Cardinality(RowsOf(loc[p].step.flow, loc[p].next))
       /\ Goto(p, "create_step", Naming(loc[p], n))
  /\ UNCHANGED <<session, flows, steps, kyc>>

\* What a request inserts, and what a worker inserts.
NewStep(l) ==
  IF l.mode = "worker"
  THEN [status |-> "WAITING", attempt_no |-> 1,
        next_retry |-> Def[l.step.type].actor = "SYSTEM"]
  ELSE [status |-> IF RunsInChain(l.step.type) THEN "RUNNING" ELSE "WAITING",
        attempt_no |-> l.step.no, next_retry |-> RunsAsync(l.step.type)]

\* create_step answers the row that already has the human id, if there is one.
CreateStep(p) ==
  /\ pc[p] = "create_step"
  /\ steps' = IF Exists(loc[p].step)
              THEN steps
              ELSE [steps EXCEPT ![loc[p].step] = NewStep(loc[p])]
  /\ Goto(p, "select_flow", [loc[p] EXCEPT !.write = "step"])
  /\ UNCHANGED <<session, flows, kyc>>

SelectFlow(p) ==
  /\ pc[p] = "select_flow"
  /\ Goto(p, "update_flow",
          [loc[p] EXCEPT !.flow_row = flows[loc[p].step.flow]])
  /\ UNCHANGED <<session, flows, steps, kyc>>

\* Faulty variant: a worker does not pass the flow context on.
StepWriteDropsContext(l) ==
  [l.flow_row EXCEPT
     !.status = "RUNNING", !.current_step = l.step.type,
     !.step_ids = l.flow.step_ids \cup {l.step}]

\* The flow moves to a created step.
StepWrite(l) ==
  [l.flow_row EXCEPT
     !.status = "RUNNING", !.current_step = l.step.type,
     !.step_ids = l.flow.step_ids \cup {l.step},
     !.context = IF l.mode = "worker" THEN l.flow.context ELSE @]

\* finalize_flow.
FinalWrite(l) ==
  [l.flow_row EXCEPT !.status = l.status, !.current_step = None]

\* The row update_flow writes: the pending change over the row it selected.
Updated(l) ==
  CASE l.write = "context" -> [l.flow_row EXCEPT !.context = l.flow.context]
    [] l.write = "step" -> StepWrite(l)
    [] OTHER -> FinalWrite(l)

\* Faulty variant: the session is not brought up to date.
AfterFinalStops(p, l) == Return(p)

\* What follows finalize_flow's update and its kyc metadata.
AfterFinal(p, l) ==
  CASE l.mode # "worker" -> Refresh(p, l, l.more)
    [] l.mode = "worker" /\ l.more -> Goto(p, "write_status", l)
    [] OTHER -> Return(p)

AfterUpdate(p, l) ==
  CASE l.write = "context" -> Advance(p, l)
    [] l.write = "step" /\ l.mode = "worker" -> Return(p)
    [] l.write = "step" /\ l.mode # "worker" ->
         IF RunsInChain(l.step.type)
         THEN Goto(p, "execute", l)
         ELSE Refresh(p, l, FALSE)
    [] OTHER -> IF l.status = "COMPLETED" THEN Goto(p, "read_kyc", l)
                                          ELSE AfterFinal(p, l)

UpdateFlow(p) ==
  /\ pc[p] = "update_flow"
  /\ flows' = [flows EXCEPT ![loc[p].step.flow] = Updated(loc[p])]
  /\ AfterUpdate(p, [loc[p] EXCEPT !.flow = Updated(loc[p]),
                                   !.flow_row = NoFlowRow])
  /\ UNCHANGED <<session, steps, kyc>>

\* update_metadata reads the "kyc" entry, merges, and writes it back.
ReadKyc(p) ==
  /\ pc[p] = "read_kyc"
  /\ Goto(p, "write_kyc", [loc[p] EXCEPT !.kyc = kyc])
  /\ UNCHANGED <<session, flows, steps, kyc>>

WriteKyc(p) ==
  /\ pc[p] = "write_kyc"
  /\ kyc' = loc[p].kyc \cup {loc[p].step.flow}
  /\ AfterFinal(p, loc[p])
  /\ UNCHANGED <<session, flows, steps>>

\* The statuses refresh_session_status sees.
Statuses == {flows[f].status : f \in Flows} \ {"ABSENT"}

ListFlows(p) ==
  /\ pc[p] = "list_flows"
  /\ Goto(p, "write_status",
          [loc[p] EXCEPT !.status = SessionStatus(Statuses)])
  /\ UNCHANGED <<session, flows, steps, kyc>>

\* update_session_status: unconditional.  A worker writes the status of its
\* flow, a request the status it computed from the flows it listed.
WriteStatus(p) ==
  /\ pc[p] = "write_status"
  /\ session' = [session EXCEPT !.status = loc[p].status]
  /\ IF loc[p].mode # "worker" /\ loc[p].more
     THEN Refresh(p, loc[p], FALSE)
     ELSE Return(p)
  /\ UNCHANGED <<flows, steps, kyc>>

Abort(p) ==
  /\ p \in Faulty /\ pc[p] # "idle"
  /\ Return(p)
  /\ UNCHANGED <<session, flows, steps, kyc>>

-----------------------------------------------------------------------------
Enter(p) ==
  \/ \E f \in Flows : AddFlow(p, f)
  \/ \E k \in StepKey : SubmitStep(p, k)
  \/ \E k \in StepKey : SubmitAdminStep(p, k)
  \/ \E k \in StepKey, d \in {"COMPLETED", "FAILED"} : ApproveStep(p, k, d)

Continue(p) ==
  \/ OpenSession(p) \/ GetFlow(p) \/ GetSession(p)
  \/ VerifyAccepted(p) \/ VerifyRefused(p) \/ VerifyRejected(p)
  \/ ExecuteDone(p) \/ ExecuteWaiting(p) \/ ExecuteFailed(p)
  \/ ExecuteRetry(p)
  \/ SelectStep(p) \/ PatchStep(p) \/ ReadContext(p) \/ WriteContext(p)
  \/ ListSteps(p) \/ CreateStep(p) \/ SelectFlow(p) \/ UpdateFlow(p)
  \/ ReadKyc(p) \/ WriteKyc(p) \/ ListFlows(p) \/ WriteStatus(p)

Next ==
  \E p \in Procs :
    \/ Enter(p)
    \/ \E k \in StepKey : ClaimNextSystemStep(p, k)
    \/ Continue(p)
    \/ Abort(p)

Spec == Init /\ [][Next]_vars

\* A handler that has started goes on to its next statement; no flow with a
\* step that is due is passed over for ever, since the query takes the step
\* updated longest ago.
FairSpec ==
  /\ Spec
  /\ \A p \in Procs : WF_vars(Continue(p))
  /\ \A f \in Flows :
       SF_vars(\E w \in Workers, k \in StepKey :
                 k.flow = f /\ ClaimNextSystemStep(w, k))

-----------------------------------------------------------------------------
(* Properties that hold whatever clients, staff, approvers and workers do, *)
(* and wherever a handler stops.                                           *)

\* A flow and its rows agree after every statement, also where a stale
\* update_flow restores old columns or a crash separates create_step from it:
\* a finished flow names no current step, the step a flow is at has a row, and
\* every id in step_ids is a row of that flow.
FlowNamesRows ==
  \A f \in Flows :
    /\ flows[f].status # "RUNNING" => flows[f].current_step = None
    /\ flows[f].current_step # None => RowsOf(f, flows[f].current_step) # {}
    /\ \A k \in flows[f].step_ids : Exists(k) /\ k.flow = f

\* No row counts more attempts than its step's configured maximum, whichever
\* stale row a handler writes back; the number starts at 1 in the executor and
\* at the row number in a request.  Only retries are counted: a step that
\* answers Waiting, or that a step chain leaves to the workers, is executed
\* again under the same number.
AttemptsBounded ==
  \A k \in StepKey :
    \/ steps[k].attempt_no <= Def[k.type].max
    \/ steps[k].attempt_no <= 1
    \/ steps[k].attempt_no <= k.no

-----------------------------------------------------------------------------
(* Properties of disciplined clients.                                      *)

Open(k) == steps[k].status \in {"WAITING", "RUNNING"}

\* A flow has at most one step that is waiting or running.
OneOpenStep ==
  \A j, k \in StepKey : Open(j) /\ Open(k) /\ j.flow = k.flow => j = k

\* p is executing its step: the row is claimed or created, not yet patched.
Executes(p) ==
  \/ loc[p].mode = "worker"
     /\ pc[p] \in {"get_flow", "get_session", "execute", "select_step",
                   "patch_step"}
  \/ loc[p].mode = "chain" /\ pc[p] \in {"execute", "select_step", "patch_step"}

\* No two processes execute the same step, with any number of workers.
OneExecutor ==
  \A p, q \in Procs :
    Executes(p) /\ Executes(q) /\ loc[p].step = loc[q].step => p = q

Quiet(f) == \A p \in Procs : pc[p] # "idle" => loc[p].step.flow # f

StepIdsComplete ==
  \A f \in Flows :
    Quiet(f) => \A k \in StepKey :
                  Exists(k) /\ k.flow = f => k \in flows[f].step_ids

OutputsKept ==
  \A f \in Flows :
    Quiet(f) /\ flows[f].status = "RUNNING" =>
      \A k \in StepKey : k.flow = f /\ steps[k].status = "COMPLETED"
                           => k.type \in flows[f].context

SessionPatchesKept ==
  (\A p \in Procs : pc[p] = "idle") =>
    \A k \in StepKey : steps[k].status = "COMPLETED"
                         /\ Def[k.type].session_patch
                           => k.type \in session.context

\* Between handlers nothing a step did is lost: step_ids lists every row of
\* the flow, the context of a running flow has the output of every completed
\* step, and the session context the patch of every one that makes one.
StepResultsKept == StepIdsComplete /\ OutputsKept /\ SessionPatchesKept

\* Between handlers, the session has the status refresh_session_status would
\* give it, or that of a finished flow: the executor's finalize_flow writes the
\* status of its own flow, whatever the other flows of the session are at.
SessionFollowsFlows ==
  (\A p \in Procs : pc[p] = "idle") =>
    \/ session.status = SessionStatus(Statuses)
    \/ session.status \in Statuses \cap FlowTerminal

\* A settled step is never run, retried or decided again.
SettledStays ==
  [][\A k \in StepKey : steps[k].status \in {"COMPLETED", "FAILED"}
       => steps'[k] = steps[k]]_vars

\* A worker hands the step back to be retried.
RetryScheduled(k) ==
  \E p \in Procs : PatchStep(p) /\ loc[p].patch = "bump" /\ loc[p].step = k

\* Every retry a worker schedules uses up one of the step's attempts, and
\* nothing else changes the number: the copy the worker counts from is never
\* older than the row, and no other handler puts an older number back.
RetriesCounted ==
  [][\A k \in StepKey :
       Exists(k) => steps'[k].attempt_no = IF RetryScheduled(k)
                                           THEN steps[k].attempt_no + 1
                                           ELSE steps[k].attempt_no]_vars

\* Every step queued for the workers is settled in the end.
QueuedStepSettles ==
  \A k \in StepKey :
    steps[k].status = "WAITING" /\ steps[k].next_retry
      ~> steps[k].status \in {"COMPLETED", "FAILED"}

\* A running flow whose steps are all settled moves on: it gets a new step or
\* is finalized.
RunningHasWork ==
  \A f \in Flows :
    flows[f].status = "RUNNING" ~>
      \/ flows[f].status # "RUNNING"
      \/ \E k \in StepKey : k.flow = f /\ Open(k)
=============================================================================
