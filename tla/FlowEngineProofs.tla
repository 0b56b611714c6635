-------------------------- MODULE FlowEngineProofs --------------------------
(***************************************************************************)
(* What FlowEngine guarantees for every set of flows, definitions, clients,*)
(* staff, approvers and workers, with every handler free to stop between   *)
(* two statements: the rows have their types, a flow and its steps agree,  *)
(* no row counts more attempts than its maximum, and no two processes      *)
(* execute the same step.                                                  *)
(*                                                                         *)
(* The rows alone are not inductive: a handler writes back copies it took  *)
(* several statements ago.  LocalOK says which copies and decisions a      *)
(* handler can hold at each statement.  What makes them safe is that rows  *)
(* of flow_step are never deleted, so a copy that named only existing rows *)
(* still does.                                                             *)
(***************************************************************************)
EXTENDS FlowEngine, TLAPS

Has(st, k) == st[k].status # "ABSENT"

\* The columns of a flow row that refer to steps, read against the rows st.
FlowOK(st, f, row) ==
  /\ row.status # "RUNNING" => row.current_step = None
  /\ row.current_step # None =>
       \E k \in StepKey : /\ Has(st, k)
                          /\ k.flow = f /\ k.type = row.current_step
  /\ \A k \in row.step_ids : Has(st, k) /\ k.flow = f

Bounded(k, attempt) ==
  attempt <= Def[k.type].max \/ attempt <= 1 \/ attempt <= k.no

\* What a handler about to execute the statement label knows.
LocalOK(st, label, l) ==
  /\ FlowOK(st, l.step.flow, l.flow)
  /\ label \in {"open_session", "list_steps"} => l.next \in StepTypes
  /\ label \in {"select_step", "patch_step"} =>
       /\ l.patch # "none"
       /\ l.patch = "bump" => l.attempt_no < Def[l.step.type].max
  /\ label = "patch_step" => Bounded(l.step, l.step_row.attempt_no)
  /\ label \in {"read_context", "write_context"} => l.patch = "COMPLETED"
  /\ label \in {"select_flow", "update_flow"} =>
       /\ l.write \in {"context", "step"} \/ l.status \in FlowTerminal
       /\ l.write = "step" => Has(st, l.step)
  /\ label = "update_flow" => FlowOK(st, l.step.flow, l.flow_row)

IInv ==
  /\ TypeOK
  /\ \A p \in Procs : LocalOK(steps, pc[p], loc[p])
  /\ \A f \in Flows : FlowOK(steps, f, flows[f])
  /\ \A k \in StepKey : Bounded(k, steps[k].attempt_no)

-----------------------------------------------------------------------------
(* The constants, and the rules of FlowRules.                              *)

\* The default key and the empty locals are well typed.
LEMMA DefaultsOK ==
  /\ AnyKey \in StepKey /\ NoLocals \in Locals
  /\ NoFlowRow \in FlowRow /\ NoStepRow \in StepRow
<1>1. PICK f \in Flows : TRUE
  BY EngineAssumption
<1>2. InitialStep[f] \in StepTypes
  BY EngineAssumption
<1>3. (CHOOSE g \in Flows : TRUE) \in Flows
  BY <1>1
<1>4. (CHOOSE t \in StepTypes : TRUE) \in StepTypes
  BY <1>2
<1>5. AnyKey \in StepKey
  BY <1>3, <1>4, EngineAssumption DEF AnyKey, StepKey
<1>6. NoFlowRow \in FlowRow
  BY DEF NoFlowRow, FlowRow, FlowStatuses
<1>7. NoStepRow \in StepRow
  BY DEF NoStepRow, StepRow, StepStatuses
<1>8. NoLocals \in Locals
  BY <1>5, <1>6, <1>7 DEF NoLocals, Locals, Modes, Targets, TerminalNames,
     StepPatches, FlowPatches, SessionStatuses
<1>. QED BY <1>5, <1>6, <1>7, <1>8

\* resolve_transition answers a target of the definition.
LEMMA TargetsOK ==
  ASSUME NEW type \in StepTypes, NEW outcome
  PROVE  /\ ResolveTransition(type, outcome, FALSE) \in Targets
         /\ FailureTarget(type) \in Targets
<1>1. Def[type] \in StepDef
  BY DefAssumption
<1>2. /\ Def[type].on_success \in Targets
      /\ Def[type].on_failure \in Targets \cup {None}
      /\ \A b \in BranchNames : Def[type].branches[b] \in Targets \cup {None}
  BY <1>1 DEF StepDef
<1>3. "FAILED" \in Targets
  BY DEF Targets, TerminalNames
<1>4. ResolveTransition(type, outcome, FALSE) \in Targets
  BY <1>2 DEF ResolveTransition
<1>5. "Failed" \notin BranchNames
  BY DefAssumption
<1>6. FailureTarget(type) \in Targets
  BY <1>2, <1>3, <1>5 DEF FailureTarget, ResolveTransition
<1>. QED BY <1>4, <1>6, Zenon

LEMMA TerminalStatusOK ==
  ASSUME NEW target PROVE TerminalStatus(target) \in FlowTerminal
BY DEF TerminalStatus, FlowTerminal

LEMMA SessionStatusOK ==
  ASSUME NEW S PROVE SessionStatus(S) \in SessionStatuses
BY DEF SessionStatus, SessionStatuses, FlowTerminal

-----------------------------------------------------------------------------
(* Rows are never deleted, so what was true of them stays true.            *)

Grows(st, su) == \A k \in StepKey : Has(st, k) => Has(su, k)

LEMMA FlowOKGrows ==
  ASSUME NEW st, NEW su, Grows(st, su), NEW f, NEW row \in FlowRow,
         FlowOK(st, f, row)
  PROVE  FlowOK(su, f, row)
<1>1. row.step_ids \subseteq StepKey
  BY DEF FlowRow
<1>. QED BY <1>1 DEF FlowOK, Grows

LEMMA LocalOKGrows ==
  ASSUME NEW st, NEW su, Grows(st, su), NEW label, NEW l \in Locals,
         LocalOK(st, label, l)
  PROVE  LocalOK(su, label, l)
<1>1. l.flow \in FlowRow /\ l.flow_row \in FlowRow /\ l.step \in StepKey
  BY DEF Locals
<1>2. FlowOK(su, l.step.flow, l.flow)
  BY <1>1, FlowOKGrows DEF LocalOK
<1>3. label = "update_flow" => FlowOK(su, l.step.flow, l.flow_row)
  BY <1>1, FlowOKGrows DEF LocalOK
<1>4. Has(st, l.step) => Has(su, l.step)
  BY <1>1 DEF Grows
<1>. QED BY <1>2, <1>3, <1>4 DEF LocalOK

\* The process p goes to a statement it is prepared for.
GoesWell(p, st) ==
  \E label \in Labels, l \in Locals :
    Goto(p, label, l) /\ LocalOK(st, label, l)

\* A step of one process preserves the invariant when the process goes well,
\* rows of steps stay, and what it writes is consistent.
LEMMA StepKeepsIInv ==
  ASSUME IInv, NEW p \in Procs, GoesWell(p, steps'), Grows(steps, steps'),
         session' \in [status : SessionStatuses, context : SUBSET StepTypes],
         flows' \in [Flows -> FlowRow],
         steps' \in [StepKey -> StepRow],
         kyc' \subseteq Flows,
         \A f \in Flows : FlowOK(steps', f, flows'[f]),
         \A k \in StepKey : Bounded(k, steps'[k].attempt_no)
  PROVE  IInv'
<1>1. PICK label \in Labels, l \in Locals :
        Goto(p, label, l) /\ LocalOK(steps', label, l)
  BY DEF GoesWell
<1>2. pc \in [Procs -> Labels] /\ loc \in [Procs -> Locals]
  BY DEF IInv, TypeOK
<1>3. pc' \in [Procs -> Labels] /\ loc' \in [Procs -> Locals]
  BY <1>1, <1>2 DEF Goto
<1>4. TypeOK'
  BY <1>3 DEF TypeOK
<1>5. ASSUME NEW q \in Procs PROVE LocalOK(steps', pc'[q], loc'[q])
  <2>1. CASE q = p
    BY <2>1, <1>1, <1>2 DEF Goto
  <2>2. CASE q # p
    <3>1. pc'[q] = pc[q] /\ loc'[q] = loc[q] /\ loc[q] \in Locals
      BY <2>2, <1>1, <1>2 DEF Goto
    <3>2. LocalOK(steps, pc[q], loc[q])
      BY DEF IInv
    <3>. QED BY <3>1, <3>2, LocalOKGrows
  <2>. QED BY <2>1, <2>2
<1>. QED BY <1>4, <1>5 DEF IInv

\* Statements that read, and handlers that only decide.
LEMMA ReadKeepsIInv ==
  ASSUME IInv, NEW p \in Procs, GoesWell(p, steps),
         UNCHANGED <<session, flows, steps, kyc>>
  PROVE  IInv'
<1>1. GoesWell(p, steps') /\ Grows(steps, steps')
  BY DEF Grows
<1>. QED BY <1>1, StepKeepsIInv DEF IInv, TypeOK

\* Statements that write the session or the metadata, and no row.
LEMMA SideWriteKeepsIInv ==
  ASSUME IInv, NEW p \in Procs, GoesWell(p, steps), UNCHANGED <<flows, steps>>,
         session' \in [status : SessionStatuses, context : SUBSET StepTypes],
         kyc' \subseteq Flows
  PROVE  IInv'
<1>1. GoesWell(p, steps') /\ Grows(steps, steps')
  BY DEF Grows
<1>. QED BY <1>1, StepKeepsIInv DEF IInv, TypeOK

-----------------------------------------------------------------------------
(* Where the handlers go.                                                  *)

LEMMA NoFlowRowOK == ASSUME NEW st, NEW f PROVE FlowOK(st, f, NoFlowRow)
BY DEF FlowOK, NoFlowRow, None

LEMMA ReturnGoesWell ==
  ASSUME NEW p, NEW st, Return(p) PROVE GoesWell(p, st)
<1>1. NoLocals.flow = NoFlowRow
  BY DEF NoLocals
<1>2. LocalOK(st, "idle", NoLocals)
  BY <1>1, NoFlowRowOK DEF LocalOK
<1>. QED BY <1>2, DefaultsOK DEF Return, GoesWell, Labels

LEMMA RefreshGoesWell ==
  ASSUME NEW p, NEW st, NEW l \in Locals, NEW more \in BOOLEAN,
         Refresh(p, l, more)
  PROVE  GoesWell(p, st)
<1> DEFINE m == [NoLocals EXCEPT !.mode = l.mode, !.step = l.step,
                                 !.more = more]
<1>1. m \in Locals
  BY DefaultsOK, Zenon DEF Locals
<1>2. m.flow = NoFlowRow
  BY DEF NoLocals
<1>3. LocalOK(st, "list_flows", m)
  BY <1>2, NoFlowRowOK DEF LocalOK
<1>4. Goto(p, "list_flows", m)
  BY DEF Refresh
<1>. QED BY <1>1, <1>3, <1>4 DEF GoesWell, Labels

LEMMA AdvanceGoesWell ==
  ASSUME NEW p, NEW st, NEW l \in Locals, FlowOK(st, l.step.flow, l.flow),
         Advance(p, l)
  PROVE  GoesWell(p, st)
<1> DEFINE ends == IF l.mode = "worker" THEN IsTerminalStep(l.next)
                                        ELSE ~HasFlowStep(l.next)
<1>1. CASE ends
  <2> DEFINE m == [l EXCEPT !.write = "final",
                            !.status = TerminalStatus(l.next)]
  <2>1. TerminalStatus(l.next) \in FlowTerminal
    BY TerminalStatusOK
  <2>2. m \in Locals
    BY <2>1, Zenon DEF Locals, FlowPatches, SessionStatuses
  <2>3. /\ m.flow = l.flow /\ m.step = l.step /\ m.write = "final"
        /\ m.status \in FlowTerminal
    BY <2>1 DEF Locals
  <2>4. LocalOK(st, "select_flow", m)
    BY <2>3 DEF LocalOK
  <2>5. Goto(p, "select_flow", m)
    BY <1>1 DEF Advance
  <2>. QED BY <2>2, <2>4, <2>5 DEF GoesWell, Labels
<1>2. CASE ~ends
  <2> DEFINE m == [l EXCEPT !.mode = IF @ = "worker" THEN @ ELSE "chain"]
  <2>1. l.next \in StepTypes
    BY <1>2 DEF Locals, Targets, IsTerminalStep, HasFlowStep
  <2>2. m \in Locals
    BY DEF Locals, Modes
  <2>3. m.flow = l.flow /\ m.step = l.step /\ m.next = l.next
    BY DEF Locals
  <2>4. LocalOK(st, "list_steps", m)
    BY <2>1, <2>3 DEF LocalOK
  <2>5. Goto(p, "list_steps", m)
    BY <1>2 DEF Advance
  <2>. QED BY <2>2, <2>4, <2>5 DEF GoesWell, Labels
<1>. QED BY <1>1, <1>2

\* A handler that stays with its locals, at a statement that needs nothing.
LEMMA PlainGoesWell ==
  ASSUME NEW p, NEW st, NEW l \in Locals, FlowOK(st, l.step.flow, l.flow),
         NEW label \in {"idle", "get_flow", "get_session", "verify", "execute",
                        "create_step", "read_kyc", "write_kyc", "list_flows",
                        "write_status"},
         Goto(p, label, l)
  PROVE  GoesWell(p, st)
<1>1. LocalOK(st, label, l)
  BY DEF LocalOK
<1>. QED BY <1>1 DEF GoesWell, Labels

LEMMA ContextWriteGoesWell ==
  ASSUME NEW p, NEW st, NEW l \in Locals, FlowOK(st, l.step.flow, l.flow),
         Goto(p, "select_flow", [l EXCEPT !.write = "context"])
  PROVE  GoesWell(p, st)
<1> DEFINE m == [l EXCEPT !.write = "context"]
<1>1. m \in Locals
  BY DEF Locals, FlowPatches
<1>2. m.flow = l.flow /\ m.step = l.step /\ m.write = "context"
  BY DEF Locals
<1>3. LocalOK(st, "select_flow", m)
  BY <1>2 DEF LocalOK
<1>. QED BY <1>1, <1>3 DEF GoesWell, Labels

LEMMA AfterFinalGoesWell ==
  ASSUME NEW p, NEW st, NEW l \in Locals, FlowOK(st, l.step.flow, l.flow),
         AfterFinal(p, l)
  PROVE  GoesWell(p, st)
<1>1. CASE l.mode # "worker"
  BY <1>1, RefreshGoesWell DEF AfterFinal, Locals
<1>2. CASE l.mode = "worker" /\ l.more
  BY <1>2, PlainGoesWell DEF AfterFinal
<1>3. CASE l.mode = "worker" /\ ~l.more
  BY <1>3, ReturnGoesWell DEF AfterFinal
<1>. QED BY <1>1, <1>2, <1>3

LEMMA AfterPatchGoesWell ==
  ASSUME NEW p, NEW st, NEW l \in Locals, FlowOK(st, l.step.flow, l.flow),
         AfterPatch(p, l)
  PROVE  GoesWell(p, st)
<1>1. CASE l.mode = "approve"
  BY <1>1, ReturnGoesWell DEF AfterPatch
<1>2. CASE l.mode # "approve" /\ l.patch = "FAILED"
  BY <1>2, AdvanceGoesWell DEF AfterPatch
<1>3. CASE l.mode \in {"bff", "staff"} /\ l.patch = "COMPLETED"
  BY <1>3, ContextWriteGoesWell DEF AfterPatch
<1>4. CASE l.mode = "chain" /\ l.patch = "COMPLETED"
  <2>1. CASE Def[l.step.type].session_patch
    <3>1. Goto(p, "read_context", l)
      BY <1>4, <2>1 DEF AfterPatch
    <3>2. LocalOK(st, "read_context", l)
      BY <1>4 DEF LocalOK
    <3>. QED BY <3>1, <3>2 DEF GoesWell, Labels
  <2>2. CASE ~Def[l.step.type].session_patch
    BY <1>4, <2>2, ContextWriteGoesWell DEF AfterPatch
  <2>. QED BY <2>1, <2>2
<1>5. CASE l.mode = "worker" /\ l.patch = "COMPLETED"
  <2>1. CASE Def[l.step.type].session_patch
    <3>1. Goto(p, "write_context", l)
      BY <1>5, <2>1 DEF AfterPatch
    <3>2. LocalOK(st, "write_context", l)
      BY <1>5 DEF LocalOK
    <3>. QED BY <3>1, <3>2 DEF GoesWell, Labels
  <2>2. CASE ~Def[l.step.type].session_patch
    BY <1>5, <2>2, AdvanceGoesWell DEF AfterPatch
  <2>. QED BY <2>1, <2>2
<1>6. CASE l.mode = "chain" /\ l.patch \in {"WAITING", "requeue"}
  BY <1>6, RefreshGoesWell, Zenon DEF AfterPatch
<1>7. CASE /\ l.mode # "approve" /\ l.patch # "FAILED"
           /\ ~(l.mode \in {"bff", "staff"} /\ l.patch = "COMPLETED")
           /\ ~(l.mode = "chain" /\ l.patch = "COMPLETED")
           /\ ~(l.mode = "worker" /\ l.patch = "COMPLETED")
           /\ ~(l.mode = "chain" /\ l.patch \in {"WAITING", "requeue"})
  BY <1>7, ReturnGoesWell, Zenon DEF AfterPatch
<1>. QED BY <1>1, <1>2, <1>3, <1>4, <1>5, <1>6, <1>7

LEMMA AfterUpdateGoesWell ==
  ASSUME NEW p, NEW st, NEW l \in Locals, FlowOK(st, l.step.flow, l.flow),
         AfterUpdate(p, l)
  PROVE  GoesWell(p, st)
<1>1. CASE l.write = "context"
  BY <1>1, AdvanceGoesWell DEF AfterUpdate
<1>2. CASE l.write = "step" /\ l.mode = "worker"
  BY <1>2, ReturnGoesWell DEF AfterUpdate
<1>3. CASE l.write = "step" /\ l.mode # "worker"
  <2>1. CASE RunsInChain(l.step.type)
    BY <1>3, <2>1, PlainGoesWell DEF AfterUpdate
  <2>2. CASE ~RunsInChain(l.step.type)
    BY <1>3, <2>2, RefreshGoesWell, Zenon DEF AfterUpdate
  <2>. QED BY <2>1, <2>2
<1>4. CASE l.write \notin {"context", "step"}
  <2>1. CASE l.status = "COMPLETED"
    BY <1>4, <2>1, PlainGoesWell, Zenon DEF AfterUpdate
  <2>2. CASE l.status # "COMPLETED"
    BY <1>4, <2>2, AfterFinalGoesWell, Zenon DEF AfterUpdate
  <2>. QED BY <2>1, <2>2
<1>. QED BY <1>1, <1>2, <1>3, <1>4

-----------------------------------------------------------------------------
(* The entry points.                                                       *)

LEMMA AddFlowKeeps ==
  ASSUME IInv, NEW p \in Procs, NEW f \in Flows, AddFlow(p, f)
  PROVE  IInv'
<1> DEFINE row == IF flows[f].status = "ABSENT"
                  THEN [NoFlowRow EXCEPT !.status = "RUNNING"]
                  ELSE flows[f]
           m == [NoLocals EXCEPT !.mode = "chain", !.flow = row,
                   !.step = [AnyKey EXCEPT !.flow = f],
                   !.next = InitialStep[f], !.more = TRUE]
<1>1. /\ flows' = [flows EXCEPT ![f] = row]
      /\ Goto(p, "open_session", m)
      /\ UNCHANGED <<session, steps, kyc>>
  BY DEF AddFlow
<1>2. row \in FlowRow /\ FlowOK(steps, f, row)
  <2>1. flows[f] \in FlowRow /\ FlowOK(steps, f, flows[f])
    BY DEF IInv, TypeOK
  <2>2. [NoFlowRow EXCEPT !.status = "RUNNING"] \in FlowRow
    BY DEF NoFlowRow, FlowRow, FlowStatuses
  <2>3. FlowOK(steps, f, [NoFlowRow EXCEPT !.status = "RUNNING"])
    BY DEF FlowOK, NoFlowRow, None
  <2>. QED BY <2>1, <2>2, <2>3
<1>3. InitialStep[f] \in StepTypes /\ InitialStep[f] \in Targets
  BY EngineAssumption DEF Targets
<1>4. [AnyKey EXCEPT !.flow = f] \in StepKey
      /\ [AnyKey EXCEPT !.flow = f].flow = f
  BY DefaultsOK DEF StepKey
<1>5. m \in Locals
  BY <1>2, <1>3, <1>4, DefaultsOK, Zenon DEF Locals, Modes
<1>6. m.flow = row /\ m.step.flow = f /\ m.next = InitialStep[f]
  BY <1>4, DefaultsOK, Zenon DEF Locals
<1>7. LocalOK(steps, "open_session", m)
  BY <1>2, <1>3, <1>6 DEF LocalOK
<1>8. GoesWell(p, steps')
  BY <1>1, <1>5, <1>7 DEF GoesWell, Labels
<1>9. flows' \in [Flows -> FlowRow]
  BY <1>1, <1>2 DEF IInv, TypeOK
<1>10. \A g \in Flows : FlowOK(steps', g, flows'[g])
  BY <1>1, <1>2 DEF IInv, TypeOK
<1>11. Grows(steps, steps')
  BY <1>1 DEF Grows
<1>. QED BY <1>1, <1>8, <1>9, <1>10, <1>11, StepKeepsIInv DEF IInv, TypeOK

LEMMA SubmitStepKeeps ==
  ASSUME IInv, NEW p \in Procs, NEW k \in StepKey, SubmitStep(p, k)
  PROVE  IInv'
<1> DEFINE m == [NoLocals EXCEPT !.mode = "bff", !.step = k, !.more = TRUE]
<1>1. m \in Locals /\ m.flow = NoFlowRow
  BY DefaultsOK, Zenon DEF Locals, Modes, NoLocals
<1>2. Goto(p, "get_flow", m)
  BY DEF SubmitStep
<1>3. GoesWell(p, steps)
  BY <1>1, <1>2, NoFlowRowOK, PlainGoesWell, Zenon
<1>. QED BY <1>3, ReadKeepsIInv DEF SubmitStep

LEMMA SubmitAdminStepKeeps ==
  ASSUME IInv, NEW p \in Procs, NEW k \in StepKey, SubmitAdminStep(p, k)
  PROVE  IInv'
<1> DEFINE m == [NoLocals EXCEPT !.mode = "staff", !.step = k, !.more = TRUE]
<1>1. m \in Locals /\ m.flow = NoFlowRow
  BY DefaultsOK, Zenon DEF Locals, Modes, NoLocals
<1>2. Goto(p, "get_flow", m)
  BY DEF SubmitAdminStep
<1>3. GoesWell(p, steps)
  BY <1>1, <1>2, NoFlowRowOK, PlainGoesWell, Zenon
<1>. QED BY <1>3, ReadKeepsIInv DEF SubmitAdminStep

LEMMA ApproveStepKeeps ==
  ASSUME IInv, NEW p \in Procs, NEW k \in StepKey,
         NEW d \in {"COMPLETED", "FAILED"}, ApproveStep(p, k, d)
  PROVE  IInv'
<1> DEFINE m == [NoLocals EXCEPT !.mode = "approve", !.step = k, !.patch = d]
<1>1. m \in Locals /\ m.flow = NoFlowRow /\ m.patch = d
  BY DefaultsOK, Zenon DEF Locals, Modes, StepPatches, NoLocals
<1>2. Goto(p, "select_step", m)
  BY DEF ApproveStep
<1>3. LocalOK(steps, "select_step", m)
  BY <1>1, NoFlowRowOK DEF LocalOK
<1>4. GoesWell(p, steps)
  BY <1>1, <1>2, <1>3 DEF GoesWell, Labels
<1>. QED BY <1>4, ReadKeepsIInv DEF ApproveStep

\* The claim changes the status of one row, and not its attempts.
LEMMA ClaimKeeps ==
  ASSUME IInv, NEW p \in Procs, NEW k \in StepKey, ClaimNextSystemStep(p, k)
  PROVE  IInv'
<1> DEFINE m == [NoLocals EXCEPT !.mode = "worker", !.step = k, !.more = TRUE,
                                 !.attempt_no = steps[k].attempt_no]
<1>1. steps \in [StepKey -> StepRow] /\ steps[k] \in StepRow
  BY DEF IInv, TypeOK
<1>2. m \in Locals /\ m.flow = NoFlowRow
  BY <1>1, DefaultsOK, ZenonT(60) DEF Locals, Modes, StepRow, NoLocals
<1>3. /\ steps' = [steps EXCEPT ![k] = ClaimedRow(@)]
      /\ Goto(p, "get_flow", m)
      /\ UNCHANGED <<session, flows, kyc>>
  BY DEF ClaimNextSystemStep
<1>4. /\ ClaimedRow(steps[k]) \in StepRow
      /\ ClaimedRow(steps[k]).status # "ABSENT"
      /\ ClaimedRow(steps[k]).attempt_no = steps[k].attempt_no
  BY <1>1 DEF ClaimedRow, StepRow, StepStatuses
<1>5. steps' \in [StepKey -> StepRow] /\ Grows(steps, steps')
  BY <1>1, <1>3, <1>4 DEF Grows, Has
<1>6. \A j \in StepKey : Bounded(j, steps'[j].attempt_no)
  BY <1>1, <1>3, <1>4 DEF IInv
<1>7. GoesWell(p, steps')
  BY <1>2, <1>3, NoFlowRowOK, PlainGoesWell, Zenon
<1>8. \A f \in Flows : FlowOK(steps', f, flows'[f])
  BY <1>3, <1>5, FlowOKGrows DEF IInv, TypeOK
<1>. QED BY <1>3, <1>5, <1>6, <1>7, <1>8, StepKeepsIInv, Zenon DEF IInv, TypeOK

-----------------------------------------------------------------------------
(* The statements of a running handler.                                    *)

LEMMA HandlerOK ==
  ASSUME IInv, NEW p \in Procs
  PROVE  /\ loc[p] \in Locals /\ pc[p] \in Labels
         /\ LocalOK(steps, pc[p], loc[p])
         /\ FlowOK(steps, loc[p].step.flow, loc[p].flow)
         /\ loc[p].step \in StepKey /\ loc[p].step.flow \in Flows
         /\ loc[p].step.type \in StepTypes
BY DEF IInv, TypeOK, LocalOK, Locals, StepKey

LEMMA OpenSessionKeeps ==
  ASSUME IInv, NEW p \in Procs, OpenSession(p) PROVE IInv'
<1>1. LocalOK(steps, "list_steps", loc[p])
  BY HandlerOK DEF OpenSession, LocalOK
<1>2. GoesWell(p, steps)
  BY <1>1, HandlerOK DEF OpenSession, GoesWell, Labels
<1>3. session' \in [status : SessionStatuses, context : SUBSET StepTypes]
  BY DEF OpenSession, IInv, TypeOK, SessionStatuses
<1>. QED BY <1>2, <1>3, SideWriteKeepsIInv DEF OpenSession, IInv, TypeOK

LEMMA GetFlowKeeps ==
  ASSUME IInv, NEW p \in Procs, GetFlow(p) PROVE IInv'
<1> DEFINE m == [loc[p] EXCEPT !.flow = flows[loc[p].step.flow]]
<1>1. /\ flows[loc[p].step.flow] \in FlowRow
      /\ FlowOK(steps, loc[p].step.flow, flows[loc[p].step.flow])
  BY HandlerOK DEF IInv, TypeOK
<1>2. /\ m \in Locals /\ m.step = loc[p].step
      /\ m.flow = flows[loc[p].step.flow]
  BY <1>1, HandlerOK DEF Locals
<1>3. Goto(p, "get_session", m) \/ Goto(p, "verify", m)
  BY DEF GetFlow
<1>4. GoesWell(p, steps)
  BY <1>1, <1>2, <1>3, PlainGoesWell, Zenon
<1>. QED BY <1>4, ReadKeepsIInv DEF GetFlow

LEMMA GetSessionKeeps ==
  ASSUME IInv, NEW p \in Procs, GetSession(p) PROVE IInv'
<1> DEFINE m == [loc[p] EXCEPT !.context = session.context]
<1>1. m \in Locals /\ m.step = loc[p].step /\ m.flow = loc[p].flow
  BY HandlerOK DEF Locals, IInv, TypeOK
<1>2. GoesWell(p, steps)
  BY <1>1, HandlerOK, PlainGoesWell, Zenon DEF GetSession
<1>. QED BY <1>2, ReadKeepsIInv DEF GetSession

\* The decision to complete a step.
LEMMA CompletingOK ==
  ASSUME NEW st, NEW l \in Locals, FlowOK(st, l.step.flow, l.flow),
         NEW outcome, NEW label \in {"select_step", "read_context"}
  PROVE  /\ Completing(l, outcome) \in Locals
         /\ LocalOK(st, label, Completing(l, outcome))
<1> DEFINE m == Completing(l, outcome)
<1>1. l.step.type \in StepTypes /\ l.flow \in FlowRow
  BY DEF Locals, StepKey
<1>2. ResolveTransition(l.step.type, outcome, FALSE) \in Targets
  BY <1>1, TargetsOK, Zenon
<1>3. [l.flow EXCEPT !.context = @ \cup {l.step.type}] \in FlowRow
  BY <1>1 DEF FlowRow
<1>4. /\ m \in Locals /\ m.step = l.step /\ m.patch = "COMPLETED"
      /\ m.flow = [l.flow EXCEPT !.context = @ \cup {l.step.type}]
  BY <1>2, <1>3, Zenon DEF Completing, Locals, StepPatches
<1>5. FlowOK(st, l.step.flow, [l.flow EXCEPT !.context = @ \cup {l.step.type}])
  BY <1>1 DEF FlowOK, FlowRow
<1>. QED BY <1>4, <1>5 DEF LocalOK

\* The decision to fail it.
LEMMA FailingOK ==
  ASSUME NEW st, NEW l \in Locals, FlowOK(st, l.step.flow, l.flow)
  PROVE  /\ Failing(l) \in Locals /\ LocalOK(st, "select_step", Failing(l))
         /\ Failing(l).step = l.step /\ Failing(l).flow = l.flow
         /\ Failing(l).patch = "FAILED"
<1>1. FailureTarget(l.step.type) \in Targets
  BY TargetsOK, Zenon DEF Locals, StepKey
<1>2. /\ Failing(l) \in Locals /\ Failing(l).step = l.step
      /\ Failing(l).flow = l.flow /\ Failing(l).patch = "FAILED"
  BY <1>1, ZenonT(60) DEF Failing, Locals, StepPatches
<1>. QED BY <1>2 DEF LocalOK

LEMMA VerifyKeeps ==
  ASSUME IInv, NEW p \in Procs,
         VerifyAccepted(p) \/ VerifyRefused(p) \/ VerifyRejected(p)
  PROVE  IInv'
<1>1. CASE VerifyAccepted(p)
  <2>1. PICK o : \/ Goto(p, "read_context", Completing(loc[p], o))
                 \/ Goto(p, "select_step", Completing(loc[p], o))
    BY <1>1 DEF VerifyAccepted
  <2>2. GoesWell(p, steps)
    BY <2>1, HandlerOK, CompletingOK DEF GoesWell, Labels
  <2>. QED BY <1>1, <2>2, ReadKeepsIInv DEF VerifyAccepted
<1>2. CASE VerifyRefused(p)
  BY <1>2, ReturnGoesWell, ReadKeepsIInv DEF VerifyRefused
<1>3. CASE VerifyRejected(p)
  <2> DEFINE more == Def[loc[p].step.type].on_failure # None
             m == [Failing(loc[p]) EXCEPT !.more = more]
  <2>1. /\ Failing(loc[p]) \in Locals
        /\ LocalOK(steps, "select_step", Failing(loc[p]))
        /\ Failing(loc[p]).patch = "FAILED"
    BY HandlerOK, FailingOK
  <2>2. more \in BOOLEAN
    OBVIOUS
  <2> HIDE DEF more
  <2>3. /\ m \in Locals /\ m.step = Failing(loc[p]).step
        /\ m.flow = Failing(loc[p]).flow /\ m.patch = "FAILED"
    BY <2>1, <2>2 DEF Locals
  <2>4. LocalOK(steps, "select_step", m)
    BY <2>1, <2>3 DEF LocalOK
  <2>5. Goto(p, "select_step", m)
    BY <1>3 DEF VerifyRejected, more
  <2>6. GoesWell(p, steps)
    BY <2>3, <2>4, <2>5 DEF GoesWell, Labels
  <2>. QED BY <1>3, <2>6, ReadKeepsIInv DEF VerifyRejected
<1>. QED BY <1>1, <1>2, <1>3

\* Locals that differ in the decision about the step only.
LEMMA PatchGoesWell ==
  ASSUME NEW p, NEW st, NEW l \in Locals, FlowOK(st, l.step.flow, l.flow),
         NEW patch \in StepPatches, patch # "none",
         patch = "bump" => l.attempt_no < Def[l.step.type].max,
         Goto(p, "select_step", [l EXCEPT !.patch = patch])
  PROVE  GoesWell(p, st)
<1> DEFINE m == [l EXCEPT !.patch = patch]
<1>1. /\ m \in Locals /\ m.step = l.step /\ m.flow = l.flow
      /\ m.patch = patch /\ m.attempt_no = l.attempt_no
  BY DEF Locals
<1>2. LocalOK(st, "select_step", m)
  BY <1>1 DEF LocalOK
<1>. QED BY <1>1, <1>2 DEF GoesWell, Labels

LEMMA ExecuteKeeps ==
  ASSUME IInv, NEW p \in Procs,
         \/ ExecuteDone(p) \/ ExecuteWaiting(p)
         \/ ExecuteFailed(p) \/ ExecuteRetry(p)
  PROVE  IInv'
<1>1. CASE ExecuteDone(p)
  <2>1. PICK o : Goto(p, "select_step", Completing(loc[p], o))
    BY <1>1 DEF ExecuteDone
  <2>2. GoesWell(p, steps)
    BY <2>1, HandlerOK, CompletingOK DEF GoesWell, Labels
  <2>. QED BY <1>1, <2>2, ReadKeepsIInv DEF ExecuteDone
<1>2. CASE ExecuteWaiting(p)
  <2>1. GoesWell(p, steps)
    BY <1>2, HandlerOK, PatchGoesWell, Zenon DEF ExecuteWaiting, StepPatches
  <2>. QED BY <1>2, <2>1, ReadKeepsIInv DEF ExecuteWaiting
<1>3. CASE ExecuteFailed(p)
  <2>1. \/ /\ MayRetry(loc[p])
           /\ Goto(p, "select_step", [loc[p] EXCEPT !.patch = "bump"])
        \/ Goto(p, "select_step", Failing(loc[p]))
    BY <1>3 DEF ExecuteFailed
  <2>2. CASE /\ MayRetry(loc[p])
             /\ Goto(p, "select_step", [loc[p] EXCEPT !.patch = "bump"])
    BY <1>3, <2>2, HandlerOK, PatchGoesWell, ReadKeepsIInv, Zenon
       DEF MayRetry, StepPatches, ExecuteFailed
  <2>3. CASE Goto(p, "select_step", Failing(loc[p]))
    <3>1. GoesWell(p, steps)
      BY <2>3, HandlerOK, FailingOK DEF GoesWell, Labels
    <3>. QED BY <1>3, <3>1, ReadKeepsIInv DEF ExecuteFailed
  <2>. QED BY <2>1, <2>2, <2>3
<1>4. CASE ExecuteRetry(p)
  <2> DEFINE over == [loc[p] EXCEPT !.patch = "FAILED", !.next = "FAILED",
                                    !.more = FALSE]
  <2>1. \/ Goto(p, "select_step", [loc[p] EXCEPT !.patch = "requeue"])
        \/ /\ MayRetry(loc[p])
           /\ Goto(p, "select_step", [loc[p] EXCEPT !.patch = "bump"])
        \/ Goto(p, "select_step", over)
    BY <1>4 DEF ExecuteRetry
  <2>2. CASE Goto(p, "select_step", [loc[p] EXCEPT !.patch = "requeue"])
    BY <1>4, <2>2, HandlerOK, PatchGoesWell, ReadKeepsIInv, Zenon
       DEF StepPatches, ExecuteRetry
  <2>3. CASE /\ MayRetry(loc[p])
             /\ Goto(p, "select_step", [loc[p] EXCEPT !.patch = "bump"])
    BY <1>4, <2>3, HandlerOK, PatchGoesWell, ReadKeepsIInv, Zenon
       DEF MayRetry, StepPatches, ExecuteRetry
  <2>4. CASE Goto(p, "select_step", over)
    <3>1. /\ over \in Locals /\ over.step = loc[p].step
          /\ over.flow = loc[p].flow /\ over.patch = "FAILED"
      BY HandlerOK, ZenonT(60) DEF Locals, StepPatches, Targets, TerminalNames
    <3>2. LocalOK(steps, "select_step", over)
      BY <3>1, HandlerOK DEF LocalOK
    <3>3. GoesWell(p, steps)
      BY <2>4, <3>1, <3>2 DEF GoesWell, Labels
    <3>. QED BY <1>4, <3>3, ReadKeepsIInv DEF ExecuteRetry
  <2>. QED BY <2>1, <2>2, <2>3, <2>4
<1>. QED BY <1>1, <1>2, <1>3, <1>4

LEMMA SelectStepKeeps ==
  ASSUME IInv, NEW p \in Procs, SelectStep(p) PROVE IInv'
<1> DEFINE m == [loc[p] EXCEPT !.step_row = steps[loc[p].step]]
<1>1. /\ steps[loc[p].step] \in StepRow
      /\ Bounded(loc[p].step, steps[loc[p].step].attempt_no)
  BY HandlerOK DEF IInv, TypeOK
<1>2. /\ m \in Locals /\ m.step = loc[p].step /\ m.flow = loc[p].flow
      /\ m.patch = loc[p].patch /\ m.attempt_no = loc[p].attempt_no
      /\ m.step_row = steps[loc[p].step]
  BY <1>1, HandlerOK DEF Locals
<1>3. LocalOK(steps, "patch_step", m)
  BY <1>1, <1>2, HandlerOK DEF SelectStep, LocalOK
<1>4. GoesWell(p, steps)
  BY <1>2, <1>3 DEF SelectStep, GoesWell, Labels
<1>. QED BY <1>4, ReadKeepsIInv DEF SelectStep

\* The row written back exists, is typed, and has an admissible attempt_no.
LEMMA PatchedOK ==
  ASSUME NEW st, NEW l \in Locals, LocalOK(st, "patch_step", l)
  PROVE  /\ Patched(l) \in StepRow /\ Patched(l).status # "ABSENT"
         /\ Bounded(l.step, Patched(l).attempt_no)
<1>1. /\ l.step_row \in StepRow /\ l.patch \in StepPatches
      /\ l.attempt_no \in Nat
  BY DEF Locals
<1>2. l.patch # "none" /\ Bounded(l.step, l.step_row.attempt_no)
  BY DEF LocalOK
<1>3. CASE l.patch = "requeue"
  BY <1>1, <1>2, <1>3, Zenon DEF Patched, StepRow, StepStatuses
<1>4. CASE l.patch = "bump"
  <2>1. l.attempt_no < Def[l.step.type].max
    BY <1>4 DEF LocalOK
  <2>2. Def[l.step.type].max \in Nat
    BY DefAssumption DEF Locals, StepKey, StepDef
  <2>3. Bounded(l.step, l.attempt_no + 1)
    BY <1>1, <2>1, <2>2 DEF Bounded
  <2>. DEFINE new == Patched(l)
              row == l.step_row
              n == l.attempt_no + 1
  <2>4. new = [row EXCEPT !.status = "WAITING", !.next_retry = TRUE,
                          !.attempt_no = n]
    BY <1>4 DEF Patched
  <2>5. row \in StepRow /\ n \in Nat
    BY <1>1
  <2>. HIDE DEF new, row, n
  <2>6. new \in StepRow /\ new.status = "WAITING" /\ new.attempt_no = n
    BY <2>4, <2>5, Zenon DEF StepRow, StepStatuses
  <2>. QED BY <2>3, <2>6 DEF new, n
<1>5. CASE l.patch \in {"COMPLETED", "FAILED", "WAITING"}
  BY <1>1, <1>2, <1>5 DEF Patched, StepRow, StepStatuses
<1>. QED BY <1>1, <1>2, <1>3, <1>4, <1>5 DEF StepPatches

LEMMA PatchStepKeeps ==
  ASSUME IInv, NEW p \in Procs, PatchStep(p) PROVE IInv'
<1> DEFINE m == [loc[p] EXCEPT !.step_row = NoStepRow]
           k == loc[p].step
<1>1. /\ steps' = [steps EXCEPT ![k] = Patched(loc[p])]
      /\ AfterPatch(p, m)
      /\ UNCHANGED <<session, flows, kyc>>
  BY DEF PatchStep
<1>2. /\ Patched(loc[p]) \in StepRow /\ Patched(loc[p]).status # "ABSENT"
      /\ Bounded(k, Patched(loc[p]).attempt_no)
  BY HandlerOK, PatchedOK DEF PatchStep
<1>3. steps \in [StepKey -> StepRow] /\ k \in StepKey
  BY HandlerOK DEF IInv, TypeOK
<1>4. steps' \in [StepKey -> StepRow] /\ Grows(steps, steps')
  BY <1>1, <1>2, <1>3 DEF Grows, Has
<1>5. \A j \in StepKey : Bounded(j, steps'[j].attempt_no)
  BY <1>1, <1>2, <1>3 DEF IInv
<1>6. m \in Locals /\ m.step = k /\ m.flow = loc[p].flow
  BY HandlerOK, ZenonT(60) DEF Locals, NoStepRow, StepRow, StepStatuses
<1>7. FlowOK(steps', k.flow, m.flow)
  BY <1>4, <1>6, HandlerOK, FlowOKGrows DEF Locals
<1>8. GoesWell(p, steps')
  BY <1>1, <1>6, <1>7, AfterPatchGoesWell, Zenon
<1>9. \A f \in Flows : FlowOK(steps', f, flows'[f])
  BY <1>1, <1>4, FlowOKGrows DEF IInv, TypeOK
<1>. QED BY <1>1, <1>4, <1>5, <1>8, <1>9, StepKeepsIInv, Zenon DEF IInv, TypeOK

LEMMA ReadContextKeeps ==
  ASSUME IInv, NEW p \in Procs, ReadContext(p) PROVE IInv'
<1> DEFINE m == [loc[p] EXCEPT !.context = session.context]
<1>1. /\ m \in Locals /\ m.step = loc[p].step /\ m.flow = loc[p].flow
      /\ m.patch = loc[p].patch
  BY HandlerOK DEF Locals, IInv, TypeOK
<1>2. LocalOK(steps, "write_context", m)
  BY <1>1, HandlerOK DEF ReadContext, LocalOK
<1>3. GoesWell(p, steps)
  BY <1>1, <1>2 DEF ReadContext, GoesWell, Labels
<1>. QED BY <1>3, ReadKeepsIInv DEF ReadContext

LEMMA WriteContextKeeps ==
  ASSUME IInv, NEW p \in Procs, WriteContext(p) PROVE IInv'
<1>1. MergedContext(loc[p]) \subseteq StepTypes
  BY HandlerOK DEF MergedContext, Locals
<1>2. session' \in [status : SessionStatuses, context : SUBSET StepTypes]
  BY <1>1 DEF WriteContext, IInv, TypeOK
<1>3. CASE loc[p].mode = "worker"
  <2>1. GoesWell(p, steps)
    BY <1>3, HandlerOK, AdvanceGoesWell DEF WriteContext
  <2>. QED BY <1>2, <2>1, SideWriteKeepsIInv DEF WriteContext, IInv, TypeOK
<1>4. CASE loc[p].mode = "chain"
  <2>1. GoesWell(p, steps)
    BY <1>4, HandlerOK, ContextWriteGoesWell DEF WriteContext
  <2>. QED BY <1>2, <2>1, SideWriteKeepsIInv DEF WriteContext, IInv, TypeOK
<1>5. CASE loc[p].mode \notin {"worker", "chain"}
  <2>1. LocalOK(steps, "select_step", loc[p])
    BY HandlerOK DEF WriteContext, LocalOK
  <2>2. Goto(p, "select_step", loc[p])
    BY <1>5 DEF WriteContext
  <2>3. GoesWell(p, steps)
    BY <2>1, <2>2, HandlerOK DEF GoesWell, Labels
  <2>. QED BY <1>2, <2>3, SideWriteKeepsIInv DEF WriteContext, IInv, TypeOK
<1>. QED BY <1>3, <1>4, <1>5

LEMMA ListStepsKeeps ==
  ASSUME IInv, NEW p \in Procs, ListSteps(p) PROVE IInv'
<1>1. loc[p].next \in StepTypes
  BY HandlerOK DEF ListSteps, LocalOK
<1>2. PICK n \in 0 .. MaxRow : Goto(p, "create_step", Naming(loc[p], n))
  BY DEF ListSteps
<1> DEFINE m == Naming(loc[p], n)
           k == [flow |-> loc[p].step.flow, type |-> loc[p].next, no |-> n]
<1>3. k \in StepKey /\ k.flow = loc[p].step.flow
  BY <1>1, HandlerOK DEF StepKey
<1>4. m \in Locals /\ m.step = k /\ m.flow = loc[p].flow
  BY <1>3, HandlerOK, ZenonT(60) DEF Naming, Locals, StepPatches
<1>5. GoesWell(p, steps)
  BY <1>2, <1>3, <1>4, HandlerOK, PlainGoesWell
<1>. QED BY <1>5, ReadKeepsIInv DEF ListSteps

\* A new row exists, is typed, and starts with an admissible attempt_no.
LEMMA NewStepOK ==
  ASSUME NEW l \in Locals
  PROVE  /\ NewStep(l) \in StepRow /\ NewStep(l).status # "ABSENT"
         /\ Bounded(l.step, NewStep(l).attempt_no)
<1>1. l.step.no \in Nat /\ l.step \in StepKey
  BY EngineAssumption DEF Locals, StepKey
<1>2. Def[l.step.type].max \in Nat
  BY DefAssumption DEF Locals, StepKey, StepDef
<1>3. CASE l.mode = "worker"
  <2>1. NewStep(l) = [status |-> "WAITING", attempt_no |-> 1,
                      next_retry |-> Def[l.step.type].actor = "SYSTEM"]
    BY <1>3 DEF NewStep
  <2>. QED BY <1>1, <1>2, <2>1 DEF StepRow, StepStatuses, Bounded
<1>4. CASE l.mode # "worker"
  <2> DEFINE status == IF RunsInChain(l.step.type) THEN "RUNNING" ELSE "WAITING"
  <2>1. NewStep(l) = [status |-> status, attempt_no |-> l.step.no,
                      next_retry |-> RunsAsync(l.step.type)]
    BY <1>4 DEF NewStep
  <2>2. RunsAsync(l.step.type) \in BOOLEAN
    BY DefAssumption DEF RunsAsync, Locals, StepKey, StepDef
  <2>3. status \in {"RUNNING", "WAITING"}
    OBVIOUS
  <2> HIDE DEF status
  <2>. QED BY <1>1, <1>2, <2>1, <2>2, <2>3 DEF StepRow, StepStatuses, Bounded
<1>. QED BY <1>3, <1>4

LEMMA CreateStepKeeps ==
  ASSUME IInv, NEW p \in Procs, CreateStep(p) PROVE IInv'
<1> DEFINE m == [loc[p] EXCEPT !.write = "step"]
           k == loc[p].step
<1>1. /\ steps' = IF Exists(k) THEN steps
                  ELSE [steps EXCEPT ![k] = NewStep(loc[p])]
      /\ Goto(p, "select_flow", m)
      /\ UNCHANGED <<session, flows, kyc>>
  BY DEF CreateStep
<1>2. /\ NewStep(loc[p]) \in StepRow /\ NewStep(loc[p]).status # "ABSENT"
      /\ Bounded(k, NewStep(loc[p]).attempt_no)
  BY HandlerOK, NewStepOK
<1>3. steps \in [StepKey -> StepRow] /\ k \in StepKey
  BY HandlerOK DEF IInv, TypeOK
<1>4. /\ steps' \in [StepKey -> StepRow] /\ Grows(steps, steps')
      /\ Has(steps', k)
  BY <1>1, <1>2, <1>3 DEF Grows, Has, Exists
<1>5. \A j \in StepKey : Bounded(j, steps'[j].attempt_no)
  BY <1>1, <1>2, <1>3 DEF IInv
<1>6. /\ m \in Locals /\ m.step = k /\ m.flow = loc[p].flow
      /\ m.write = "step"
  BY HandlerOK DEF Locals, FlowPatches
<1>7. FlowOK(steps', k.flow, m.flow)
  BY <1>4, <1>6, HandlerOK, FlowOKGrows DEF Locals
<1>8. LocalOK(steps', "select_flow", m)
  BY <1>4, <1>6, <1>7 DEF LocalOK
<1>9. GoesWell(p, steps')
  BY <1>1, <1>6, <1>8, Zenon DEF GoesWell, Labels
<1>10. \A f \in Flows : FlowOK(steps', f, flows'[f])
  BY <1>1, <1>4, FlowOKGrows DEF IInv, TypeOK
<1>. QED BY <1>1, <1>4, <1>5, <1>9, <1>10, StepKeepsIInv, ZenonT(60) DEF IInv, TypeOK

LEMMA SelectFlowKeeps ==
  ASSUME IInv, NEW p \in Procs, SelectFlow(p) PROVE IInv'
<1> DEFINE f == loc[p].step.flow
           m == [loc[p] EXCEPT !.flow_row = flows[f]]
<1>1. flows[f] \in FlowRow /\ FlowOK(steps, f, flows[f])
  BY HandlerOK DEF IInv, TypeOK
<1>2. /\ m \in Locals /\ m.step = loc[p].step /\ m.flow = loc[p].flow
      /\ m.write = loc[p].write /\ m.status = loc[p].status
      /\ m.flow_row = flows[f]
  BY <1>1, HandlerOK DEF Locals
<1>3. LocalOK(steps, "update_flow", m)
  BY <1>1, <1>2, HandlerOK DEF SelectFlow, LocalOK
<1>4. GoesWell(p, steps)
  BY <1>2, <1>3 DEF SelectFlow, GoesWell, Labels
<1>. QED BY <1>4, ReadKeepsIInv DEF SelectFlow

\* The row written back by update_flow is consistent: it mixes the columns of
\* the selected row with those of an older copy.
LEMMA UpdatedOK ==
  ASSUME NEW st, NEW l \in Locals, LocalOK(st, "update_flow", l)
  PROVE  Updated(l) \in FlowRow /\ FlowOK(st, l.step.flow, Updated(l))
<1>1. /\ l.flow \in FlowRow /\ l.flow_row \in FlowRow
      /\ l.step \in StepKey /\ l.step.type \in StepTypes
  BY DEF Locals, StepKey
<1>2. /\ FlowOK(st, l.step.flow, l.flow)
      /\ FlowOK(st, l.step.flow, l.flow_row)
      /\ l.write \in {"context", "step"} \/ l.status \in FlowTerminal
      /\ l.write = "step" => Has(st, l.step)
  BY DEF LocalOK
<1>3. CASE l.write = "context"
  <2>1. Updated(l) = [l.flow_row EXCEPT !.context = l.flow.context]
    BY <1>3 DEF Updated
  <2>. QED BY <1>1, <1>2, <2>1 DEF FlowRow, FlowOK
<1>4. CASE l.write = "step"
  <2> DEFINE ctx == IF l.mode = "worker" THEN l.flow.context
                                         ELSE l.flow_row.context
             ids == l.flow.step_ids \cup {l.step}
  <2>1. ctx \subseteq StepTypes /\ ids \subseteq StepKey
    BY <1>1 DEF FlowRow
  <2>2. \A k \in ids : Has(st, k) /\ k.flow = l.step.flow
    BY <1>2, <1>4 DEF FlowOK
  <2>3. Updated(l) = [status |-> "RUNNING", current_step |-> l.step.type,
                      step_ids |-> ids, context |-> ctx]
    BY <1>1, <1>4, Zenon DEF Updated, StepWrite, FlowRow
  <2> HIDE DEF ctx, ids
  <2>4. Updated(l) \in FlowRow
    BY <1>1, <2>1, <2>3 DEF FlowRow, FlowStatuses
  <2>5. FlowOK(st, l.step.flow, Updated(l))
    BY <1>1, <1>2, <1>4, <2>2, <2>3 DEF FlowOK
  <2>. QED BY <2>4, <2>5
<1>5. CASE l.write \notin {"context", "step"}
  <2>1. Updated(l) = [l.flow_row EXCEPT !.status = l.status,
                                        !.current_step = None]
    BY <1>5 DEF Updated, FinalWrite
  <2>2. l.status \in FlowTerminal
    BY <1>2, <1>5
  <2>3. Updated(l) = [status |-> l.status, current_step |-> None,
                      step_ids |-> l.flow_row.step_ids,
                      context |-> l.flow_row.context]
    BY <1>1, <2>1, Zenon DEF FlowRow
  <2>4. Updated(l) \in FlowRow
    BY <1>1, <2>2, <2>3 DEF FlowRow, FlowStatuses
  <2>5. FlowOK(st, l.step.flow, Updated(l))
    BY <1>1, <1>2, <2>3 DEF FlowOK
  <2>. QED BY <2>4, <2>5
<1>. QED BY <1>3, <1>4, <1>5

\* A handler replaces its copies of the flow.
Copied(l, r, s) == [l EXCEPT !.flow = r, !.flow_row = s]

LEMMA CopiesReplaced ==
  ASSUME NEW l \in Locals, NEW r \in FlowRow, NEW s \in FlowRow
  PROVE  /\ Copied(l, r, s) \in Locals
         /\ Copied(l, r, s).step = l.step /\ Copied(l, r, s).flow = r
BY Zenon DEF Locals, Copied

LEMMA UpdateFlowKeeps ==
  ASSUME IInv, NEW p \in Procs, UpdateFlow(p) PROVE IInv'
<1> DEFINE f == loc[p].step.flow
           m == Copied(loc[p], Updated(loc[p]), NoFlowRow)
<1>1. /\ flows' = [flows EXCEPT ![f] = Updated(loc[p])]
      /\ AfterUpdate(p, m)
      /\ UNCHANGED <<session, steps, kyc>>
  BY DEF UpdateFlow, Copied
<1>2. Updated(loc[p]) \in FlowRow /\ FlowOK(steps, f, Updated(loc[p]))
  BY HandlerOK, UpdatedOK DEF UpdateFlow
<1>3. m \in Locals /\ m.step = loc[p].step /\ m.flow = Updated(loc[p])
  <2>1. loc[p] \in Locals /\ NoFlowRow \in FlowRow
    BY HandlerOK, DefaultsOK, Zenon
  <2>. QED BY <1>2, <2>1, CopiesReplaced, Zenon
<1>4. GoesWell(p, steps')
  BY <1>1, <1>2, <1>3, AfterUpdateGoesWell, Zenon
<1>5. flows \in [Flows -> FlowRow] /\ f \in Flows
  BY HandlerOK DEF IInv, TypeOK
<1>6. flows' \in [Flows -> FlowRow]
  BY <1>1, <1>2, <1>5
<1>7. \A g \in Flows : FlowOK(steps', g, flows'[g])
  BY <1>1, <1>2, <1>5 DEF IInv
<1>8. Grows(steps, steps')
  BY <1>1 DEF Grows
<1>. QED BY <1>1, <1>4, <1>6, <1>7, <1>8, StepKeepsIInv DEF IInv, TypeOK

LEMMA KycKeeps ==
  ASSUME IInv, NEW p \in Procs, ReadKyc(p) \/ WriteKyc(p) PROVE IInv'
<1>1. CASE ReadKyc(p)
  <2> DEFINE m == [loc[p] EXCEPT !.kyc = kyc]
  <2>1. m \in Locals /\ m.step = loc[p].step /\ m.flow = loc[p].flow
    BY HandlerOK DEF Locals, IInv, TypeOK
  <2>2. GoesWell(p, steps)
    BY <1>1, <2>1, HandlerOK, PlainGoesWell, ZenonT(60) DEF ReadKyc
  <2>. QED BY <1>1, <2>2, ReadKeepsIInv DEF ReadKyc
<1>2. CASE WriteKyc(p)
  <2>1. kyc' \subseteq Flows
    BY <1>2, HandlerOK DEF WriteKyc, Locals
  <2>2. GoesWell(p, steps)
    BY <1>2, HandlerOK, AfterFinalGoesWell DEF WriteKyc
  <2>. QED BY <1>2, <2>1, <2>2, SideWriteKeepsIInv DEF WriteKyc, IInv, TypeOK
<1>. QED BY <1>1, <1>2

LEMMA StatusKeeps ==
  ASSUME IInv, NEW p \in Procs, ListFlows(p) \/ WriteStatus(p) PROVE IInv'
<1>1. CASE ListFlows(p)
  <2> DEFINE m == [loc[p] EXCEPT !.status = SessionStatus(Statuses)]
  <2>1. SessionStatus(Statuses) \in SessionStatuses
    BY SessionStatusOK
  <2>2. m \in Locals /\ m.step = loc[p].step /\ m.flow = loc[p].flow
    BY <2>1, HandlerOK DEF Locals
  <2>3. GoesWell(p, steps)
    BY <1>1, <2>2, HandlerOK, PlainGoesWell, Zenon DEF ListFlows
  <2>. QED BY <1>1, <2>3, ReadKeepsIInv DEF ListFlows
<1>2. CASE WriteStatus(p)
  <2>1. session' \in [status : SessionStatuses, context : SUBSET StepTypes]
    BY <1>2, HandlerOK DEF WriteStatus, Locals, IInv, TypeOK
  <2>2. Refresh(p, loc[p], FALSE) \/ Return(p)
    BY <1>2, Zenon DEF WriteStatus
  <2>3. GoesWell(p, steps)
    BY <2>2, HandlerOK, RefreshGoesWell, ReturnGoesWell, Zenon
  <2>. QED BY <1>2, <2>1, <2>3, SideWriteKeepsIInv
              DEF WriteStatus, IInv, TypeOK
<1>. QED BY <1>1, <1>2

-----------------------------------------------------------------------------
(* The invariant.                                                          *)

LEMMA InitIInv == Init => IInv
<1> SUFFICES ASSUME Init PROVE IInv
  OBVIOUS
<1>1. NoFlowRow \in FlowRow /\ NoStepRow \in StepRow
  BY DEF NoFlowRow, FlowRow, FlowStatuses, NoStepRow, StepRow, StepStatuses
<1>2. TypeOK
  BY <1>1, DefaultsOK DEF Init, TypeOK, SessionStatuses, Labels
<1>3. NoLocals.flow = NoFlowRow
  BY DEF NoLocals
<1>4. \A p \in Procs : LocalOK(steps, pc[p], loc[p])
  BY <1>3, NoFlowRowOK DEF Init, LocalOK
<1>5. \A f \in Flows : FlowOK(steps, f, flows[f])
  BY NoFlowRowOK DEF Init
<1>6. \A k \in StepKey : Bounded(k, steps[k].attempt_no)
  BY DEF Init, NoStepRow, Bounded
<1>. QED BY <1>2, <1>4, <1>5, <1>6 DEF IInv

LEMMA NextIInv == IInv /\ [Next]_vars => IInv'
<1> SUFFICES ASSUME IInv, [Next]_vars PROVE IInv'
  OBVIOUS
<1>1. CASE UNCHANGED vars
  BY <1>1 DEF vars, IInv, TypeOK
<1>2. CASE Next
  <2>1. PICK p \in Procs : \/ Enter(p)
                           \/ \E k \in StepKey : ClaimNextSystemStep(p, k)
                           \/ Continue(p)
                           \/ Abort(p)
    BY <1>2 DEF Next
  <2>2. CASE Enter(p)
    BY <2>2, AddFlowKeeps, SubmitStepKeeps, SubmitAdminStepKeeps,
       ApproveStepKeeps DEF Enter
  <2>3. CASE \E k \in StepKey : ClaimNextSystemStep(p, k)
    BY <2>3, ClaimKeeps
  <2>4. CASE Continue(p)
    BY <2>4, OpenSessionKeeps, GetFlowKeeps, GetSessionKeeps, VerifyKeeps,
       ExecuteKeeps, SelectStepKeeps, PatchStepKeeps, ReadContextKeeps,
       WriteContextKeeps, ListStepsKeeps, CreateStepKeeps, SelectFlowKeeps,
       UpdateFlowKeeps, KycKeeps, StatusKeeps DEF Continue
  <2>5. CASE Abort(p)
    BY <2>5, ReturnGoesWell, ReadKeepsIInv DEF Abort
  <2>. QED BY <2>1, <2>2, <2>3, <2>4, <2>5
<1>. QED BY <1>1, <1>2

\* The inductive invariant holds of every reachable state.
THEOREM Invariant == Spec => []IInv
BY InitIInv, NextIInv, PTL DEF Spec

\* Every row and every handler's copy keeps its type: in particular a flow
\* never gets the status OPEN of a session, and a step never the name of a
\* target, whatever patch or update is written back.
THEOREM TypeCorrect == Spec => []TypeOK
<1>1. IInv => TypeOK
  BY DEF IInv
<1>. QED BY <1>1, Invariant, PTL

\* update_flow and create_step are separate statements of several processes;
\* still, a flow that does not run names no step, the step a flow is at has a
\* row, and its step_ids are rows of the flow.
THEOREM RowsAgree == Spec => []FlowNamesRows
<1>1. IInv => FlowNamesRows
  BY DEF IInv, FlowOK, FlowNamesRows, RowsOf, Exists, Has
<1>. QED BY <1>1, Invariant, PTL

\* handle_failed and handle_retry compare the attempt of the row a worker
\* claimed, not of the row they patch; the number in the row still stays
\* within the maximum.  That every retry raises it is FlowOwnerProofs' subject.
THEOREM NumbersBounded == Spec => []AttemptsBounded
<1>1. IInv => AttemptsBounded
  BY DEF IInv, Bounded, AttemptsBounded
<1>. QED BY <1>1, Invariant, PTL

-----------------------------------------------------------------------------
(* No two processes execute the same step, overlapping as they like and    *)
(* wherever a handler stops: for every step that is not run by the request *)
(* that creates it.  (Two requests may create, and both run, the same step *)
(* of the other kind, because create_step answers the row it finds.)       *)
(*                                                                         *)
(* The claim is a single UPDATE, so two workers never claim a row at once. *)
(* That alone does not keep the row: whoever patches it WAITING while it   *)
(* is being executed puts it up for a second claim.  StageOK says which    *)
(* process can hold which patch at which statement: outside its executor   *)
(* a step is only ever patched COMPLETED or FAILED.                        *)

\* The step is left to the workers, or to a person.
Free(k) == ~RunsInChain(k.type)

\* Nobody can claim the row.
Held(row) == row.status \notin {"WAITING", "ABSENT"}

\* Executes, of a step that is free, as a condition on label and locals.
Runs(label, l) ==
  /\ Free(l.step)
  /\ \/ /\ l.mode = "worker"
        /\ label \in {"get_flow", "get_session", "execute", "select_step",
                      "patch_step"}
     \/ l.mode = "chain" /\ label \in {"execute", "select_step", "patch_step"}

\* Which handlers come to which statement, and with which patch.
StageOK(label, l) ==
  /\ label = "get_flow" => l.mode # "chain"
  /\ label = "get_session" => l.mode = "worker"
  /\ label = "verify" => l.mode \notin {"chain", "worker"}
  /\ label = "execute" /\ Free(l.step) => l.mode = "worker"
  /\ label \in {"select_step", "patch_step"} /\ Free(l.step) =>
       \/ l.mode = "worker"
       \/ l.mode # "chain" /\ l.patch \in {"COMPLETED", "FAILED"}
  /\ label \in {"read_context", "write_context"} => l.patch = "COMPLETED"

EInv ==
  /\ \A p \in Procs : StageOK(pc[p], loc[p])
  /\ \A p \in Procs : Runs(pc[p], loc[p]) => Held(steps[loc[p].step])
  /\ \A p, q \in Procs :
       Runs(pc[p], loc[p]) /\ Runs(pc[q], loc[q]) /\ loc[p].step = loc[q].step
         => p = q

-----------------------------------------------------------------------------
(* One step of one process.                                                *)

Others(p) == \A q \in Procs \ {p} : pc'[q] = pc[q] /\ loc'[q] = loc[q]

LEMMA GotoMoves ==
  ASSUME TypeOK, NEW p \in Procs, NEW label, NEW l, Goto(p, label, l)
  PROVE  Others(p) /\ pc'[p] = label /\ loc'[p] = l
BY DEF TypeOK, Goto, Others

\* What p runs afterwards it ran before, or has just taken from nobody; no
\* row is let go but the one p has stopped running.
LEMMA StepKeepsEInv ==
  ASSUME TypeOK, EInv, NEW p \in Procs, Others(p), StageOK(pc'[p], loc'[p]),
         Runs(pc'[p], loc'[p]) =>
           /\ Held(steps'[loc'[p].step])
           /\ \/ Runs(pc[p], loc[p]) /\ loc'[p].step = loc[p].step
              \/ ~Held(steps[loc'[p].step]),
         \A k \in StepKey :
           Free(k) /\ Held(steps[k]) =>
             \/ Held(steps'[k])
             \/ Runs(pc[p], loc[p]) /\ loc[p].step = k
  PROVE  EInv'
<1>1. \A q \in Procs : StageOK(pc'[q], loc'[q])
  BY DEF EInv, Others
<1>2. ASSUME NEW q \in Procs, Runs(pc'[q], loc'[q])
      PROVE  Held(steps'[loc'[q].step])
  <2>1. CASE q = p
    BY <1>2, <2>1
  <2>2. CASE q # p
    <3>1. Runs(pc[q], loc[q]) /\ loc'[q].step = loc[q].step
      BY <1>2, <2>2 DEF Others
    <3>2. loc[q].step \in StepKey /\ Free(loc[q].step)
      BY <3>1 DEF TypeOK, Locals, Runs
    <3>3. Held(steps[loc[q].step])
      BY <3>1 DEF EInv
    <3>4. ~(Runs(pc[p], loc[p]) /\ loc[p].step = loc[q].step)
      BY <3>1, <2>2 DEF EInv
    <3>. QED BY <3>1, <3>2, <3>3, <3>4
  <2>. QED BY <2>1, <2>2
<1>3. ASSUME NEW q \in Procs, q # p, Runs(pc'[q], loc'[q]),
             Runs(pc'[p], loc'[p]), loc'[q].step = loc'[p].step
      PROVE  FALSE
  <2>1. Runs(pc[q], loc[q]) /\ loc'[q].step = loc[q].step
    BY <1>3 DEF Others
  <2>2. Held(steps[loc[q].step])
    BY <2>1 DEF EInv
  <2>. QED BY <1>3, <2>1, <2>2 DEF EInv
<1>4. ASSUME NEW q \in Procs, NEW r \in Procs, q # p, r # p,
             Runs(pc'[q], loc'[q]), Runs(pc'[r], loc'[r]),
             loc'[q].step = loc'[r].step
      PROVE  q = r
  BY <1>4 DEF EInv, Others
<1>5. \A q, r \in Procs :
        Runs(pc'[q], loc'[q]) /\ Runs(pc'[r], loc'[r])
          /\ loc'[q].step = loc'[r].step => q = r
  BY <1>3, <1>4
<1>. QED BY <1>1, <1>2, <1>5 DEF EInv

\* The statements at which no step is run and no patch is pending.
Away == {"idle", "open_session", "list_steps", "create_step", "select_flow",
         "update_flow", "read_kyc", "write_kyc", "list_flows",
         "write_status"}

Leaves(p) == Others(p) /\ pc'[p] \in Away

LEMMA AwayIsFree ==
  ASSUME NEW label \in Away, NEW l
  PROVE  StageOK(label, l) /\ ~Runs(label, l)
BY DEF Away, StageOK, Runs

LEMMA LeavingKeepsEInv ==
  ASSUME TypeOK, EInv, NEW p \in Procs, Leaves(p), UNCHANGED steps
  PROVE  EInv'
BY AwayIsFree, StepKeepsEInv DEF Leaves

\* p goes on with its step.
LEMMA StayingKeepsEInv ==
  ASSUME TypeOK, EInv, NEW p \in Procs, UNCHANGED steps,
         NEW label, NEW l, Goto(p, label, l), StageOK(label, l),
         Runs(label, l) => Runs(pc[p], loc[p]) /\ l.step = loc[p].step
  PROVE  EInv'
<1>1. Others(p) /\ pc'[p] = label /\ loc'[p] = l
  BY GotoMoves
<1>2. Runs(pc[p], loc[p]) => Held(steps[loc[p].step])
  BY DEF EInv
<1>. QED BY <1>1, <1>2, StepKeepsEInv

-----------------------------------------------------------------------------
(* Handlers that leave their step.                                         *)

LEMMA ReturnLeaves ==
  ASSUME TypeOK, NEW p \in Procs, Return(p) PROVE Leaves(p)
BY GotoMoves DEF Return, Leaves, Away

LEMMA AdvanceLeaves ==
  ASSUME TypeOK, NEW p \in Procs, NEW l, Advance(p, l) PROVE Leaves(p)
BY GotoMoves DEF Advance, Leaves, Away

LEMMA RefreshLeaves ==
  ASSUME TypeOK, NEW p \in Procs, NEW l, NEW more, Refresh(p, l, more)
  PROVE  Leaves(p)
BY GotoMoves DEF Refresh, Leaves, Away

LEMMA AfterFinalLeaves ==
  ASSUME TypeOK, NEW p \in Procs, NEW l, AfterFinal(p, l) PROVE Leaves(p)
<1>1. \/ Refresh(p, l, l.more)
      \/ Goto(p, "write_status", l)
      \/ Return(p)
  BY DEF AfterFinal
<1>. QED BY <1>1, RefreshLeaves, ReturnLeaves, GotoMoves DEF Leaves, Away

-----------------------------------------------------------------------------
(* Each action.                                                            *)

LEMMA EnterKeepsEInv ==
  ASSUME TypeOK, EInv, NEW p \in Procs, Enter(p) PROVE EInv'
<1>1. UNCHANGED steps
  BY Zenon DEF Enter, AddFlow, SubmitStep, SubmitAdminStep, ApproveStep
<1>2. CASE \E f \in Flows : AddFlow(p, f)
  <2>1. PICK l : Goto(p, "open_session", l)
    BY <1>2 DEF AddFlow
  <2>2. Leaves(p)
    BY <2>1, GotoMoves DEF Leaves, Away
  <2>. QED BY <1>1, <2>2, LeavingKeepsEInv
<1>3. CASE \E k \in StepKey : SubmitStep(p, k)
  <2>1. PICK k \in StepKey : SubmitStep(p, k)
    BY <1>3
  <2> DEFINE l == [NoLocals EXCEPT !.mode = "bff", !.step = k, !.more = TRUE]
  <2>2. Goto(p, "get_flow", l)
    BY <2>1 DEF SubmitStep
  <2>3. l.mode = "bff"
    BY DEF NoLocals
  <2> HIDE DEF l
  <2>4. StageOK("get_flow", l) /\ ~Runs("get_flow", l)
    BY <2>3 DEF StageOK, Runs
  <2>. QED BY <1>1, <2>2, <2>4, StayingKeepsEInv
<1>4. CASE \E k \in StepKey : SubmitAdminStep(p, k)
  <2>1. PICK k \in StepKey : SubmitAdminStep(p, k)
    BY <1>4
  <2> DEFINE l == [NoLocals EXCEPT !.mode = "staff", !.step = k, !.more = TRUE]
  <2>2. Goto(p, "get_flow", l)
    BY <2>1 DEF SubmitAdminStep
  <2>3. l.mode = "staff"
    BY DEF NoLocals
  <2> HIDE DEF l
  <2>4. StageOK("get_flow", l) /\ ~Runs("get_flow", l)
    BY <2>3 DEF StageOK, Runs
  <2>. QED BY <1>1, <2>2, <2>4, StayingKeepsEInv
<1>5. CASE \E k \in StepKey, d \in {"COMPLETED", "FAILED"} : ApproveStep(p, k, d)
  <2>1. PICK k \in StepKey, d \in {"COMPLETED", "FAILED"} : ApproveStep(p, k, d)
    BY <1>5
  <2> DEFINE l == [NoLocals EXCEPT !.mode = "approve", !.step = k, !.patch = d]
  <2>2. Goto(p, "select_step", l)
    BY <2>1 DEF ApproveStep
  <2>3. l.mode = "approve" /\ l.patch = d
    BY DEF NoLocals
  <2> HIDE DEF l
  <2>4. StageOK("select_step", l) /\ ~Runs("select_step", l)
    BY <2>3 DEF StageOK, Runs
  <2>. QED BY <1>1, <2>2, <2>4, StayingKeepsEInv
<1>. QED BY <1>2, <1>3, <1>4, <1>5, SMTT(30) DEF Enter

\* The row was WAITING, so nobody was running it, and it is not any more.
LEMMA ClaimKeepsEInv ==
  ASSUME TypeOK, EInv, NEW p \in Procs, NEW k \in StepKey,
         ClaimNextSystemStep(p, k)
  PROVE  EInv'
<1> DEFINE l == [NoLocals EXCEPT !.mode = "worker", !.step = k, !.more = TRUE,
                                 !.attempt_no = steps[k].attempt_no]
<1>1. Goto(p, "get_flow", l)
  BY DEF ClaimNextSystemStep
<1>2. l.mode = "worker" /\ l.step = k
  BY DEF NoLocals
<1> HIDE DEF l
<1>3. Others(p) /\ pc'[p] = "get_flow" /\ loc'[p] = l
  BY <1>1, GotoMoves
<1>4. StageOK("get_flow", l)
  BY <1>2 DEF StageOK
<1>5. steps \in [StepKey -> StepRow] /\ steps' = [steps EXCEPT ![k] = ClaimedRow(@)]
  BY DEF TypeOK, ClaimNextSystemStep
<1>6. steps[k] \in StepRow /\ steps[k].status = "WAITING"
  BY <1>5 DEF ClaimNextSystemStep, Due
<1>7. ClaimedRow(steps[k]).status = "RUNNING"
  BY <1>6 DEF ClaimedRow, StepRow
<1>8. Held(steps'[k]) /\ ~Held(steps[k])
  BY <1>5, <1>6, <1>7 DEF Held
<1>9. \A j \in StepKey : Held(steps[j]) => Held(steps'[j])
  BY <1>5, <1>8
<1>. QED BY <1>2, <1>3, <1>4, <1>8, <1>9, StepKeepsEInv

LEMMA ReadingKeepsEInv ==
  ASSUME TypeOK, EInv, NEW p \in Procs, GetFlow(p) \/ GetSession(p)
  PROVE  EInv'
<1>1. loc[p] \in Locals /\ StageOK(pc[p], loc[p])
  BY DEF TypeOK, EInv
<1>2. CASE GetFlow(p)
  <2> DEFINE l == [loc[p] EXCEPT !.flow = flows[loc[p].step.flow]]
             label == IF loc[p].mode = "worker" THEN "get_session" ELSE "verify"
  <2>1. Goto(p, label, l) /\ UNCHANGED steps /\ pc[p] = "get_flow"
    BY <1>2 DEF GetFlow
  <2>2. l.mode = loc[p].mode /\ l.step = loc[p].step
    BY <1>1 DEF Locals
  <2> HIDE DEF l
  <2>3. StageOK(label, l) /\ (Runs(label, l) => Runs(pc[p], loc[p]))
    BY <1>1, <2>1, <2>2 DEF StageOK, Runs
  <2> HIDE DEF label
  <2>. QED BY <2>1, <2>2, <2>3, StayingKeepsEInv
<1>3. CASE GetSession(p)
  <2> DEFINE l == [loc[p] EXCEPT !.context = session.context]
  <2>1. Goto(p, "execute", l) /\ UNCHANGED steps /\ pc[p] = "get_session"
    BY <1>3 DEF GetSession
  <2>2. l.mode = loc[p].mode /\ l.step = loc[p].step
    BY <1>1 DEF Locals
  <2> HIDE DEF l
  <2>3. StageOK("execute", l) /\ (Runs("execute", l) => Runs(pc[p], loc[p]))
    BY <1>1, <2>1, <2>2 DEF StageOK, Runs
  <2>. QED BY <2>1, <2>2, <2>3, StayingKeepsEInv
<1>. QED BY <1>2, <1>3

\* Completing and Failing decide the patch, and keep mode and step.
LEMMA DecisionKeeps ==
  ASSUME NEW l \in Locals, NEW o
  PROVE  /\ Completing(l, o).mode = l.mode /\ Completing(l, o).step = l.step
         /\ Completing(l, o).patch = "COMPLETED"
         /\ Completing(l, o).attempt_no = l.attempt_no
         /\ Failing(l).mode = l.mode /\ Failing(l).step = l.step
         /\ Failing(l).patch = "FAILED" /\ Failing(l).attempt_no = l.attempt_no
BY DEF Completing, Failing, Locals

\* An admin or a client step that is verified is not run by a worker.
LEMMA VerifyKeepsEInv ==
  ASSUME TypeOK, EInv, NEW p \in Procs,
         VerifyAccepted(p) \/ VerifyRefused(p) \/ VerifyRejected(p)
  PROVE  EInv'
<1>1. loc[p] \in Locals /\ StageOK(pc[p], loc[p])
  BY SMTT(30) DEF TypeOK, EInv
<1>2. pc[p] = "verify" /\ UNCHANGED steps
  BY Zenon DEF VerifyAccepted, VerifyRefused, VerifyRejected
<1>3. loc[p].mode \notin {"chain", "worker"}
  BY <1>1, <1>2 DEF StageOK
<1>4. ASSUME NEW label \in {"read_context", "select_step"}, NEW l,
             Goto(p, label, l), l.mode = loc[p].mode,
             \/ l.patch = "COMPLETED"
             \/ label = "select_step" /\ l.patch = "FAILED"
      PROVE  EInv'
  <2>1. StageOK(label, l) /\ ~Runs(label, l)
    BY <1>3, <1>4 DEF StageOK, Runs
  <2>. QED BY <1>2, <1>4, <2>1, StayingKeepsEInv
<1>5. CASE VerifyAccepted(p)
  <2>1. PICK o \in Def[loc[p].step.type].verify :
          Goto(p, IF IsDone(o) /\ Def[loc[p].step.type].session_patch
                  THEN "read_context" ELSE "select_step",
               Completing(loc[p], o))
    BY <1>5, ZenonT(60) DEF VerifyAccepted
  <2>2. \E label \in {"read_context", "select_step"} :
          Goto(p, label, Completing(loc[p], o))
    BY <2>1
  <2>. QED BY <1>1, <1>4, <2>2, DecisionKeeps, SMTT(30)
<1>6. CASE VerifyRefused(p)
  BY <1>2, <1>6, ReturnLeaves, LeavingKeepsEInv DEF VerifyRefused
<1>7. CASE VerifyRejected(p)
  <2> DEFINE l == [Failing(loc[p]) EXCEPT
                     !.more = Def[loc[p].step.type].on_failure # None]
  <2>1. Goto(p, "select_step", l)
    BY <1>7 DEF VerifyRejected
  <2>2. l.mode = loc[p].mode /\ l.patch = "FAILED"
    BY <1>1 DEF Failing, Locals
  <2> HIDE DEF l
  <2>. QED BY <2>1, <2>2, <1>4
<1>. QED BY <1>5, <1>6, <1>7

\* Whatever execute answers, its caller goes on to patch the step; a step chain
\* never counts a retry.
LEMMA ExecuteGoes ==
  ASSUME NEW p, loc[p] \in Locals,
         \/ ExecuteDone(p) \/ ExecuteWaiting(p)
         \/ ExecuteFailed(p) \/ ExecuteRetry(p)
  PROVE  \E l : /\ Goto(p, "select_step", l)
                /\ l.mode = loc[p].mode /\ l.step = loc[p].step
                /\ l.attempt_no = loc[p].attempt_no
                /\ l.patch = "bump" => l.mode # "chain"
<1> DEFINE To(l) == /\ Goto(p, "select_step", l)
                    /\ l.mode = loc[p].mode /\ l.step = loc[p].step
                    /\ l.attempt_no = loc[p].attempt_no
                    /\ l.patch = "bump" => l.mode # "chain"
<1>1. CASE ExecuteDone(p)
  <2>1. PICK o : Goto(p, "select_step", Completing(loc[p], o))
    BY <1>1 DEF ExecuteDone
  <2>2. To(Completing(loc[p], o))
    BY <2>1, DecisionKeeps
  <2>. QED BY <2>2
<1>2. CASE ExecuteWaiting(p)
  <2>1. To([loc[p] EXCEPT !.patch = "WAITING"])
    BY <1>2 DEF ExecuteWaiting, Locals
  <2>. QED BY <2>1, Zenon
<1>3. CASE ExecuteFailed(p)
  <2>1. \/ /\ Goto(p, "select_step", [loc[p] EXCEPT !.patch = "bump"])
           /\ loc[p].mode = "worker"
        \/ Goto(p, "select_step", Failing(loc[p]))
    BY <1>3 DEF ExecuteFailed
  <2>2. To([loc[p] EXCEPT !.patch = "bump"]) \/ To(Failing(loc[p]))
    BY <2>1, DecisionKeeps DEF Locals
  <2>. QED BY <2>2, Zenon
<1>4. CASE ExecuteRetry(p)
  <2> DEFINE Used == [loc[p] EXCEPT !.patch = "FAILED", !.next = "FAILED",
                                    !.more = FALSE]
  <2>1. \/ Goto(p, "select_step", [loc[p] EXCEPT !.patch = "requeue"])
        \/ /\ Goto(p, "select_step", [loc[p] EXCEPT !.patch = "bump"])
           /\ loc[p].mode # "chain"
        \/ Goto(p, "select_step", Used)
    BY <1>4 DEF ExecuteRetry
  <2>2. \/ To([loc[p] EXCEPT !.patch = "requeue"])
        \/ To([loc[p] EXCEPT !.patch = "bump"])
        \/ To(Used)
    BY <2>1 DEF Locals
  <2>. QED BY <2>2, Zenon
<1>. QED BY <1>1, <1>2, <1>3, <1>4

LEMMA ExecuteKeepsEInv ==
  ASSUME TypeOK, EInv, NEW p \in Procs,
         \/ ExecuteDone(p) \/ ExecuteWaiting(p)
         \/ ExecuteFailed(p) \/ ExecuteRetry(p)
  PROVE  EInv'
<1>1. loc[p] \in Locals /\ StageOK(pc[p], loc[p])
  BY DEF TypeOK, EInv
<1>2. pc[p] = "execute" /\ UNCHANGED steps
  BY DEF ExecuteDone, ExecuteWaiting, ExecuteFailed, ExecuteRetry
<1>3. PICK l : /\ Goto(p, "select_step", l)
               /\ l.mode = loc[p].mode /\ l.step = loc[p].step
  BY <1>1, ExecuteGoes
<1>4. StageOK("select_step", l)
  BY <1>1, <1>2, <1>3 DEF StageOK
<1>5. Runs("select_step", l) => Runs(pc[p], loc[p])
  BY <1>2, <1>3 DEF Runs
<1>. QED BY <1>2, <1>3, <1>4, <1>5, StayingKeepsEInv

LEMMA SelectStepKeepsEInv ==
  ASSUME TypeOK, EInv, NEW p \in Procs, SelectStep(p) PROVE EInv'
<1>1. loc[p] \in Locals /\ StageOK(pc[p], loc[p])
  BY DEF TypeOK, EInv
<1> DEFINE l == [loc[p] EXCEPT !.step_row = steps[loc[p].step]]
<1>2. Goto(p, "patch_step", l) /\ UNCHANGED steps /\ pc[p] = "select_step"
  BY DEF SelectStep
<1>3. l.mode = loc[p].mode /\ l.step = loc[p].step /\ l.patch = loc[p].patch
  BY <1>1 DEF Locals
<1> HIDE DEF l
<1>4. StageOK("patch_step", l) /\ (Runs("patch_step", l) => Runs(pc[p], loc[p]))
  BY <1>1, <1>2, <1>3 DEF StageOK, Runs
<1>. QED BY <1>2, <1>3, <1>4, StayingKeepsEInv

\* A process that does not run the free step settles it; the one that does
\* may put it back, and has then stopped running it.
LEMMA PatchStepKeepsEInv ==
  ASSUME TypeOK, EInv, NEW p \in Procs, PatchStep(p) PROVE EInv'
<1>1. loc[p] \in Locals /\ StageOK(pc[p], loc[p])
  BY DEF TypeOK, EInv
<1> DEFINE l == [loc[p] EXCEPT !.step_row = NoStepRow]
           k == loc[p].step
<1>2. /\ pc[p] = "patch_step" /\ AfterPatch(p, l)
      /\ steps' = [steps EXCEPT ![k] = Patched(loc[p])]
  BY DEF PatchStep
<1>3. k \in StepKey /\ steps \in [StepKey -> StepRow]
  BY <1>1 DEF TypeOK, Locals
<1>4. /\ Others(p) /\ StageOK(pc'[p], loc'[p])
      /\ ~Runs(pc'[p], loc'[p])
  <2> HIDE DEF l
  <2>1. \/ Return(p) \/ Advance(p, l) \/ Refresh(p, l, FALSE)
        \/ Goto(p, "select_flow", [l EXCEPT !.write = "context"])
        \/ \E label \in {"read_context", "write_context"} :
             Goto(p, label, l) /\ l.patch = "COMPLETED"
    BY <1>2, Zenon DEF AfterPatch
  <2>2. CASE Goto(p, "select_flow", [l EXCEPT !.write = "context"])
    <3>1. Leaves(p)
      BY <2>2, GotoMoves DEF Leaves, Away
    <3>. QED BY <3>1, AwayIsFree DEF Leaves
  <2>3. CASE Return(p) \/ Advance(p, l) \/ Refresh(p, l, FALSE)
    <3>1. Leaves(p)
      BY <2>3, ReturnLeaves, AdvanceLeaves, RefreshLeaves, Zenon
    <3>. QED BY <3>1, AwayIsFree DEF Leaves
  <2>4. CASE \E label \in {"read_context", "write_context"} :
               Goto(p, label, l) /\ l.patch = "COMPLETED"
    BY <2>4, GotoMoves DEF StageOK, Runs
  <2>. QED BY <2>1, <2>2, <2>3, <2>4, Zenon
<1>5. ASSUME NEW j \in StepKey, Free(j), Held(steps[j]),
             ~(Runs(pc[p], loc[p]) /\ k = j)
      PROVE  Held(steps'[j])
  <2>1. CASE j # k
    BY <1>2, <1>3, <1>5, <2>1
  <2>2. CASE j = k
    <3>1. loc[p].mode # "worker"
      BY <1>2, <1>5, <2>2 DEF Runs
    <3>2. loc[p].patch \in {"COMPLETED", "FAILED"}
      BY <1>1, <1>2, <1>5, <2>2, <3>1 DEF StageOK
    <3>3. loc[p].step_row \in StepRow
      BY <1>1 DEF Locals
    <3>4. Patched(loc[p]) = [loc[p].step_row EXCEPT !.status = loc[p].patch]
      BY <3>2 DEF Patched
    <3>5. Patched(loc[p]).status = loc[p].patch
      BY <3>3, <3>4 DEF StepRow
    <3>. QED BY <1>2, <1>3, <2>2, <3>2, <3>5 DEF Held
  <2>. QED BY <2>1, <2>2
<1>. QED BY <1>4, <1>5, StepKeepsEInv

\* The session is patched before the step by a request, and after it by a
\* step chain or a worker.
LEMMA ContextKeepsEInv ==
  ASSUME TypeOK, EInv, NEW p \in Procs, ReadContext(p) \/ WriteContext(p)
  PROVE  EInv'
<1>1. loc[p] \in Locals /\ StageOK(pc[p], loc[p])
  BY DEF TypeOK, EInv
<1>2. UNCHANGED steps /\ loc[p].patch = "COMPLETED"
  BY <1>1 DEF ReadContext, WriteContext, StageOK
<1>3. CASE ReadContext(p)
  <2> DEFINE l == [loc[p] EXCEPT !.context = session.context]
  <2>1. Goto(p, "write_context", l) /\ l.patch = "COMPLETED"
    BY <1>1, <1>2, <1>3 DEF ReadContext, Locals
  <2> HIDE DEF l
  <2>2. StageOK("write_context", l) /\ ~Runs("write_context", l)
    BY <2>1 DEF StageOK, Runs
  <2>. QED BY <1>2, <2>1, <2>2, StayingKeepsEInv
<1>4. CASE WriteContext(p)
  <2>1. \/ Advance(p, loc[p])
        \/ Goto(p, "select_flow", [loc[p] EXCEPT !.write = "context"])
        \/ /\ loc[p].mode \notin {"worker", "chain"}
           /\ Goto(p, "select_step", loc[p])
    BY <1>4 DEF WriteContext
  <2>2. CASE Advance(p, loc[p])
    BY <1>2, <2>2, AdvanceLeaves, LeavingKeepsEInv
  <2>3. CASE Goto(p, "select_flow", [loc[p] EXCEPT !.write = "context"])
    <3>1. Leaves(p)
      BY <2>3, GotoMoves DEF Leaves, Away
    <3>. QED BY <1>2, <3>1, LeavingKeepsEInv
  <2>4. CASE /\ loc[p].mode \notin {"worker", "chain"}
             /\ Goto(p, "select_step", loc[p])
    <3>1. StageOK("select_step", loc[p]) /\ ~Runs("select_step", loc[p])
      BY <1>2, <2>4 DEF StageOK, Runs
    <3>. QED BY <1>2, <2>4, <3>1, StayingKeepsEInv
  <2>. QED BY <2>1, <2>2, <2>3, <2>4
<1>. QED BY <1>3, <1>4

\* A row is inserted where there was none, so no row is let go.
LEMMA CreateStepKeepsEInv ==
  ASSUME TypeOK, EInv, NEW p \in Procs, CreateStep(p) PROVE EInv'
<1>1. Leaves(p)
  BY GotoMoves DEF CreateStep, Leaves, Away
<1>2. loc[p].step \in StepKey /\ steps \in [StepKey -> StepRow]
  BY DEF TypeOK, Locals
<1>3. ASSUME NEW j \in StepKey, Held(steps[j]) PROVE steps'[j] = steps[j]
  BY <1>2, <1>3 DEF CreateStep, Exists, Held
<1>. QED BY <1>1, <1>3, AwayIsFree, StepKeepsEInv DEF Leaves

\* A request executes a step it created only if the step runs in its chain.
LEMMA UpdateFlowKeepsEInv ==
  ASSUME TypeOK, EInv, NEW p \in Procs, UpdateFlow(p) PROVE EInv'
<1> DEFINE l == [loc[p] EXCEPT !.flow = Updated(loc[p]),
                               !.flow_row = NoFlowRow]
<1>1. AfterUpdate(p, l) /\ UNCHANGED steps
  BY DEF UpdateFlow
<1> HIDE DEF l
<1>2. \/ Advance(p, l) \/ Return(p) \/ Refresh(p, l, FALSE)
      \/ Goto(p, "read_kyc", l) \/ AfterFinal(p, l)
      \/ ~Free(l.step) /\ Goto(p, "execute", l)
  BY <1>1, Zenon DEF AfterUpdate, Free
<1>3. CASE Goto(p, "read_kyc", l)
  <2>1. Leaves(p)
    BY <1>3, GotoMoves DEF Leaves, Away
  <2>. QED BY <1>1, <2>1, LeavingKeepsEInv
<1>4. CASE \/ Advance(p, l) \/ Return(p) \/ Refresh(p, l, FALSE)
           \/ AfterFinal(p, l)
  BY <1>1, <1>4, AdvanceLeaves, ReturnLeaves, RefreshLeaves,
     AfterFinalLeaves, LeavingKeepsEInv, Zenon
<1>5. CASE ~Free(l.step) /\ Goto(p, "execute", l)
  <2>1. StageOK("execute", l) /\ ~Runs("execute", l)
    BY <1>5 DEF StageOK, Runs
  <2>. QED BY <1>1, <1>5, <2>1, StayingKeepsEInv
<1>. QED BY <1>2, <1>3, <1>4, <1>5, Zenon

\* The other statements: no step is run before or after them.
LEMMA RestKeepsEInv ==
  ASSUME TypeOK, EInv, NEW p \in Procs,
         \/ OpenSession(p) \/ ListSteps(p) \/ SelectFlow(p) \/ ReadKyc(p)
         \/ WriteKyc(p) \/ ListFlows(p) \/ WriteStatus(p) \/ Abort(p)
  PROVE  EInv'
<1>1. UNCHANGED steps
  BY Zenon DEF OpenSession, ListSteps, SelectFlow, ReadKyc, WriteKyc, ListFlows,
     WriteStatus, Abort
<1>2. CASE \/ OpenSession(p) \/ ListSteps(p) \/ SelectFlow(p) \/ ReadKyc(p)
           \/ ListFlows(p)
  <2>1. PICK label \in Away : \E l : Goto(p, label, l)
    BY <1>2 DEF OpenSession, ListSteps, SelectFlow, ReadKyc, ListFlows, Away
  <2>2. Leaves(p)
    BY <2>1, GotoMoves DEF Leaves
  <2>. QED BY <1>1, <2>2, LeavingKeepsEInv
<1>3. CASE WriteKyc(p)
  BY <1>1, <1>3, AfterFinalLeaves, LeavingKeepsEInv DEF WriteKyc
<1>4. CASE WriteStatus(p) \/ Abort(p)
  <2>1. Return(p) \/ Refresh(p, loc[p], FALSE)
    BY <1>4, Zenon DEF WriteStatus, Abort
  <2>. QED BY <1>1, <2>1, ReturnLeaves, RefreshLeaves, LeavingKeepsEInv, Zenon
<1>. QED BY <1>2, <1>3, <1>4

-----------------------------------------------------------------------------
LEMMA InitEInv == Init => EInv
<1> SUFFICES ASSUME Init PROVE EInv
  OBVIOUS
<1>1. \A p \in Procs : pc[p] \in Away
  BY DEF Init, Away
<1>. QED BY <1>1, AwayIsFree DEF EInv

LEMMA NextEInv == TypeOK /\ EInv /\ [Next]_vars => EInv'
<1> SUFFICES ASSUME TypeOK, EInv, [Next]_vars PROVE EInv'
  OBVIOUS
<1>1. CASE UNCHANGED vars
  BY <1>1 DEF vars, EInv
<1>2. CASE Next
  <2>1. PICK p \in Procs : \/ Enter(p)
                           \/ \E k \in StepKey : ClaimNextSystemStep(p, k)
                           \/ Continue(p)
                           \/ Abort(p)
    BY <1>2 DEF Next
  <2>2. CASE Continue(p)
    BY <2>2, ReadingKeepsEInv, VerifyKeepsEInv, ExecuteKeepsEInv,
       SelectStepKeepsEInv, PatchStepKeepsEInv, ContextKeepsEInv,
       CreateStepKeepsEInv, UpdateFlowKeepsEInv, RestKeepsEInv DEF Continue
  <2>. QED BY <2>1, <2>2, EnterKeepsEInv, ClaimKeepsEInv, RestKeepsEInv
<1>. QED BY <1>1, <1>2

\* The stages, the held rows and the single runner, in every reachable state.
THEOREM ExecutorInvariant == Spec => []EInv
BY InitEInv, NextEInv, TypeCorrect, PTL DEF Spec

\* No two processes execute the same step, unless it runs in a step chain.
WorkerStepsOnce ==
  \A p, q \in Procs :
    Executes(p) /\ Executes(q) /\ loc[p].step = loc[q].step
      /\ ~RunsInChain(loc[p].step.type) => p = q

\* claim_next_system_step marks the row RUNNING and only the executor that
\* claimed it ever puts it back: a step of the workers is executed by one
\* process at a time, however many workers run and whatever clients, staff and
\* approvers patch meanwhile.
THEOREM WorkerStepsRunOnce == Spec => []WorkerStepsOnce
<1>1. EInv => WorkerStepsOnce
  <2>1. ASSUME NEW p \in Procs, Executes(p), ~RunsInChain(loc[p].step.type)
        PROVE  Runs(pc[p], loc[p])
    BY <2>1 DEF Executes, Runs, Free
  <2>2. ASSUME EInv, NEW p \in Procs, NEW q \in Procs, Executes(p),
               Executes(q), loc[p].step = loc[q].step,
               ~RunsInChain(loc[p].step.type)
        PROVE  p = q
    <3>1. ~RunsInChain(loc[q].step.type)
      BY <2>2
    <3>2. Runs(pc[p], loc[p]) /\ Runs(pc[q], loc[q])
      BY <2>1, <2>2, <3>1
    <3>. QED BY <2>2, <3>2 DEF EInv
  <2>. QED BY <2>2 DEF WorkerStepsOnce
<1>. QED BY <1>1, ExecutorInvariant, PTL

\* Where every SYSTEM step of the definitions is async, no request runs one:
\* then no two processes execute the same step at all.
THEOREM StepsRunOnce ==
  ASSUME \A type \in StepTypes : ~RunsInChain(type)
  PROVE  Spec => []OneExecutor
<1>1. TypeOK /\ WorkerStepsOnce => OneExecutor
  <2> SUFFICES ASSUME TypeOK, WorkerStepsOnce PROVE OneExecutor
    OBVIOUS
  <2>1. \A p \in Procs : loc[p].step.type \in StepTypes
    BY DEF TypeOK, Locals, StepKey
  <2>. QED BY <2>1 DEF WorkerStepsOnce, OneExecutor
<1>. QED BY <1>1, WorkerStepsRunOnce, TypeCorrect, PTL
=============================================================================
