-------------------------- MODULE FlowOwnerProofs --------------------------
(***************************************************************************)
(* A flow moves one step at a time: for clients that keep to the rules of  *)
(* the product, any number of approvers and workers, and handlers that may *)
(* stop between two statements, at most one step of a flow is waiting or   *)
(* running; without approvers a settled step stays as it is and every      *)
(* scheduled retry is counted.                                             *)
(*                                                                         *)
(* Nothing in the code locks a flow.  What passes for a lock is its open   *)
(* step: whoever takes it over holds the flow (Holding) until the row is   *)
(* patched, and then alone may create the next one (Moving).  A new row is *)
(* open, so the flow is given away when it is inserted.                    *)
(***************************************************************************)
EXTENDS FlowEngineProofs

\* A person does one thing at a time.
OneCaller ==
  Overlap => /\ \A p, q \in Clients : p = q
             /\ \A p, q \in Staff : p = q

\* p works on its step, whose row it has not patched yet.
Holding(label, l) ==
  \/ label \in {"get_flow", "get_session", "verify", "execute"}
  \/ label \in {"read_context", "write_context"} /\ l.mode \notin {"chain", "worker"}
  \/ label \in {"select_step", "patch_step"} /\ l.mode # "approve"
  \/ /\ label \in {"select_flow", "update_flow"}
     /\ l.write = "step" /\ l.mode # "worker" /\ RunsInChain(l.step.type)

\* It has settled its step, or added the flow, and may create the next one.
Moving(label, l) ==
  \/ label \in {"open_session", "list_steps", "create_step"}
  \/ label \in {"read_context", "write_context"} /\ l.mode \in {"chain", "worker"}
  \/ label \in {"select_flow", "update_flow"} /\ l.write = "context"

Owning(label, l) == Holding(label, l) \/ Moving(label, l)

\* The statements at which a handler has nothing more to do with its flow.
Rest == {"idle", "read_kyc", "write_kyc", "list_flows", "write_status"}

\* p is of the kind that may submit the step.
Caller(p, k) ==
  \/ p \in Clients /\ Def[k.type].actor = "END_USER"
  \/ p \in Staff /\ Def[k.type].actor = "ADMIN"

IsOpen(row) == row.status \in {"WAITING", "RUNNING"}

\* The rows of a type are numbered without a gap.
Below(st, k) ==
  \A n \in 0 .. MaxRow : n < k.no => Has(st, [flow |-> k.flow, type |-> k.type, no |-> n])

NoGaps(st) == \A k \in StepKey : Has(st, k) => Below(st, k)

\* What p at label can rely on in the rows st: of a flow it owns, none is open
\* but the one it holds.  An approver owns nothing and only settles a row.
OwnerOK(p, st, label, l) ==
  /\ l.mode = "approve" /\ label \notin Rest =>
       /\ label \in {"select_step", "patch_step"} /\ p \in Approvers
       /\ l.patch \in {"COMPLETED", "FAILED"}
  /\ Owning(label, l) =>
       \A k \in StepKey : IsOpen(st[k]) /\ k.flow = l.step.flow =>
         Holding(label, l) /\ k = l.step
  /\ Holding(label, l) =>
       /\ st[l.step].status # "WAITING" \/ Caller(p, l.step)
       /\ Approvers = {} => IsOpen(st[l.step])
  /\ Holding(label, l) \/ label \in {"select_step", "patch_step"} => Has(st, l.step)
  /\ label = "create_step" => ~Has(st, l.step) /\ Below(st, l.step)

\* A flow that somebody works on has been added.
ThereOK(fl, label, l) ==
  /\ label \notin Rest => fl[l.step.flow].status # "ABSENT"
  /\ label = "update_flow" => l.flow_row.status # "ABSENT"

OneOpen(st) ==
  \A j, k \in StepKey : IsOpen(st[j]) /\ IsOpen(st[k]) /\ j.flow = k.flow => j = k

RowsThere(st, fl) == \A k \in StepKey : Has(st, k) => fl[k.flow].status # "ABSENT"

TInv ==
  /\ \A p \in Procs : /\ OwnerOK(p, steps, pc[p], loc[p])
                      /\ ThereOK(flows, pc[p], loc[p])
  /\ \A p, q \in Procs :
       /\ Owning(pc[p], loc[p]) /\ Owning(pc[q], loc[q])
       /\ loc[p].step.flow = loc[q].step.flow
       => p = q
  /\ NoGaps(steps) /\ OneOpen(steps) /\ RowsThere(steps, flows)

-----------------------------------------------------------------------------
(* One step of one process, which goes to label with locals m.             *)

LEMMA StepKeepsT ==
  ASSUME TypeOK, TInv, NEW p \in Procs, NEW label, NEW m, Goto(p, label, m),
         OwnerOK(p, steps', label, m), ThereOK(flows', label, m),
         \A q \in Procs \ {p} :
           /\ OwnerOK(q, steps', pc[q], loc[q]) /\ ThereOK(flows', pc[q], loc[q])
           /\ Owning(label, m) /\ Owning(pc[q], loc[q]) =>
                m.step.flow # loc[q].step.flow,
         NoGaps(steps'), OneOpen(steps'), RowsThere(steps', flows')
  PROVE  TInv'
<1>1. /\ pc'[p] = label /\ loc'[p] = m
      /\ \A q \in Procs \ {p} : pc'[q] = pc[q] /\ loc'[q] = loc[q]
  BY GotoMoves DEF Others
<1>2. \A q \in Procs : /\ OwnerOK(q, steps', pc'[q], loc'[q])
                       /\ ThereOK(flows', pc'[q], loc'[q])
  BY <1>1
<1>3. \A q, r \in Procs :
        /\ Owning(pc'[q], loc'[q]) /\ Owning(pc'[r], loc'[r])
        /\ loc'[q].step.flow = loc'[r].step.flow
        => q = r
  <2>1. \A q, r \in Procs :
          /\ Owning(pc[q], loc[q]) /\ Owning(pc[r], loc[r])
          /\ loc[q].step.flow = loc[r].step.flow
          => q = r
    BY Zenon DEF TInv
  <2>. QED BY <1>1, <2>1
<1>. QED BY <1>2, <1>3, Zenon DEF TInv

\* What the invariant says of a handler, and of the tables.
LEMMA OfHandler ==
  ASSUME TypeOK, TInv, NEW p \in Procs
  PROVE  /\ OwnerOK(p, steps, pc[p], loc[p]) /\ ThereOK(flows, pc[p], loc[p])
         /\ loc[p] \in Locals /\ loc[p].step \in StepKey /\ loc[p].step.flow \in Flows
         /\ \A q \in Procs \ {p} : Owning(pc[p], loc[p]) /\ Owning(pc[q], loc[q]) =>
              loc[p].step.flow # loc[q].step.flow
<1>1. loc[p] \in Locals
  BY DEF TypeOK
<1>2. loc[p].step \in StepKey /\ loc[p].step.flow \in Flows
  BY <1>1 DEF Locals, StepKey
<1>. QED BY <1>1, <1>2, Zenon DEF TInv

LEMMA OfTables ==
  ASSUME TypeOK, TInv
  PROVE  /\ NoGaps(steps) /\ OneOpen(steps) /\ RowsThere(steps, flows)
         /\ steps \in [StepKey -> StepRow] /\ flows \in [Flows -> FlowRow]
BY Zenon DEF TInv, TypeOK

NoFlowLost ==
  \A f \in Flows : flows[f].status # "ABSENT" => flows'[f].status # "ABSENT"

\* No step is written.
LEMMA SameRowsKeepT ==
  ASSUME TypeOK, TInv, NEW p \in Procs, NEW label, NEW m, Goto(p, label, m),
         UNCHANGED steps, NoFlowLost,
         OwnerOK(p, steps, label, m), ThereOK(flows', label, m),
         \A q \in Procs \ {p} : Owning(label, m) /\ Owning(pc[q], loc[q]) =>
           m.step.flow # loc[q].step.flow
  PROVE  TInv'
<1>1. \A q \in Procs : OwnerOK(q, steps', pc[q], loc[q]) /\ ThereOK(flows', pc[q], loc[q])
  BY OfHandler DEF ThereOK, NoFlowLost
<1>2. NoGaps(steps') /\ OneOpen(steps') /\ RowsThere(steps', flows')
  BY OfTables DEF RowsThere, NoFlowLost, StepKey
<1>. QED BY <1>1, <1>2, StepKeepsT

\* p goes on with what it owns, or leaves it.
LEMMA GoingOnKeepsT ==
  ASSUME TypeOK, TInv, NEW p \in Procs, NEW label, NEW m, Goto(p, label, m),
         UNCHANGED steps, NoFlowLost,
         OwnerOK(p, steps, label, m), ThereOK(flows', label, m),
         Owning(label, m) => /\ Owning(pc[p], loc[p])
                             /\ m.step.flow = loc[p].step.flow
  PROVE  TInv'
BY OfHandler, SameRowsKeepT

LEMMA SameFlows == ASSUME UNCHANGED flows PROVE NoFlowLost
BY DEF NoFlowLost

\* p goes on with the step it holds.
Continues(p) ==
  \E label, m :
    /\ Goto(p, label, m) /\ m.step = loc[p].step /\ m.mode = loc[p].mode
    /\ label \in {"get_session", "verify", "execute", "read_context",
                  "write_context", "select_step"}
    /\ label \in {"read_context", "write_context"} => m.mode \notin {"chain", "worker"}

LEMMA ContinuingKeepsT ==
  ASSUME TypeOK, TInv, NEW p \in Procs, UNCHANGED steps, NoFlowLost,
         Holding(pc[p], loc[p]), Continues(p)
  PROVE  TInv'
<1>1. PICK label, m :
        /\ Goto(p, label, m) /\ m.step = loc[p].step /\ m.mode = loc[p].mode
        /\ label \in {"get_session", "verify", "execute", "read_context",
                      "write_context", "select_step"}
        /\ label \in {"read_context", "write_context"} => m.mode \notin {"chain", "worker"}
  BY DEF Continues
<1>2. /\ OwnerOK(p, steps, pc[p], loc[p]) /\ ThereOK(flows, pc[p], loc[p])
      /\ loc[p].step.flow \in Flows
  BY OfHandler
<1>3. loc[p].mode # "approve" /\ pc[p] \notin Rest
  BY <1>2 DEF OwnerOK, Holding, Rest
<1>4. Holding(label, m)
  BY <1>1, <1>3 DEF Holding
<1>5. OwnerOK(p, steps, label, m)
  BY <1>1, <1>2, <1>3, <1>4 DEF OwnerOK, Owning
<1>6. ThereOK(flows', label, m)
  BY <1>1, <1>2, <1>3 DEF ThereOK, NoFlowLost
<1>. QED BY <1>1, <1>5, <1>6, GoingOnKeepsT DEF Owning

\* p has come to the end of its handler.
Rests(p) == \E label, m : label \in Rest /\ Goto(p, label, m)

LEMMA RestOwnsNothing ==
  ASSUME NEW p, NEW label \in Rest, NEW m, NEW st, NEW fl
  PROVE  OwnerOK(p, st, label, m) /\ ThereOK(fl, label, m) /\ ~Owning(label, m)
<1>1. ~Holding(label, m) /\ ~Moving(label, m)
  BY DEF Rest, Holding, Moving
<1>. QED BY <1>1 DEF Rest, OwnerOK, ThereOK, Owning

LEMMA RestingKeepsT ==
  ASSUME TypeOK, TInv, NEW p \in Procs, Rests(p), UNCHANGED steps, NoFlowLost
  PROVE  TInv'
BY RestOwnsNothing, GoingOnKeepsT DEF Rests

LEMMA ReturnRests == ASSUME NEW p, Return(p) PROVE Rests(p)
BY DEF Return, Rests, Rest

LEMMA RefreshRests ==
  ASSUME NEW p, NEW l, NEW more, Refresh(p, l, more) PROVE Rests(p)
BY DEF Refresh, Rests, Rest

LEMMA AfterFinalRests == ASSUME NEW p, NEW l, AfterFinal(p, l) PROVE Rests(p)
<1>1. Refresh(p, l, l.more) \/ Goto(p, "write_status", l) \/ Return(p)
  BY DEF AfterFinal
<1>. QED BY <1>1, RefreshRests, ReturnRests DEF Rests, Rest

\* No step of the flow is open, and p goes on to the next one or to the end
\* of the flow.
Settled(st, f) == \A k \in StepKey : k.flow = f => ~IsOpen(st[k])

Moves(p, l) ==
  \E label, m :
    /\ Goto(p, label, m) /\ m.step = l.step /\ m.mode # "approve"
    /\ label \in {"list_steps", "read_context", "write_context", "select_flow"}
    /\ ~Holding(label, m)

LEMMA MoveOK ==
  ASSUME NEW p, NEW st, NEW fl, NEW m, m.mode # "approve",
         NEW label \in {"open_session", "list_steps", "read_context",
                        "write_context", "select_flow"},
         ~Holding(label, m), Settled(st, m.step.flow),
         fl[m.step.flow].status # "ABSENT"
  PROVE  OwnerOK(p, st, label, m) /\ ThereOK(fl, label, m)
BY DEF OwnerOK, ThereOK, Settled

LEMMA OfMoving ==
  ASSUME TypeOK, TInv, NEW p \in Procs, Moving(pc[p], loc[p])
  PROVE  /\ Settled(steps, loc[p].step.flow) /\ Owning(pc[p], loc[p])
         /\ flows[loc[p].step.flow].status # "ABSENT" /\ loc[p].mode # "approve"
<1>1. Owning(pc[p], loc[p]) /\ ~Holding(pc[p], loc[p]) /\ pc[p] \notin Rest
      /\ pc[p] \notin {"select_step", "patch_step"}
  BY DEF Owning, Holding, Moving, Rest
<1>. QED BY <1>1, OfHandler DEF OwnerOK, ThereOK, Settled

LEMMA MovingKeepsT ==
  ASSUME TypeOK, TInv, NEW p \in Procs, UNCHANGED steps, NoFlowLost,
         Moving(pc[p], loc[p]), Moves(p, loc[p])
  PROVE  TInv'
<1>1. PICK label, m :
        /\ Goto(p, label, m) /\ m.step = loc[p].step /\ m.mode # "approve"
        /\ label \in {"list_steps", "read_context", "write_context", "select_flow"}
        /\ ~Holding(label, m)
  BY DEF Moves
<1>2. Settled(steps, m.step.flow) /\ flows'[m.step.flow].status # "ABSENT"
  BY <1>1, OfMoving, OfHandler DEF NoFlowLost
<1>3. OwnerOK(p, steps, label, m) /\ ThereOK(flows', label, m)
  BY <1>1, <1>2, MoveOK
<1>. QED BY <1>1, <1>3, OfMoving, GoingOnKeepsT

LEMMA AdvanceMoves ==
  ASSUME NEW p, NEW l \in Locals, l.mode # "approve", Advance(p, l)
  PROVE  Moves(p, l)
<1> DEFINE m == [l EXCEPT !.write = "final", !.status = TerminalStatus(l.next)]
           n == [l EXCEPT !.mode = IF @ = "worker" THEN @ ELSE "chain"]
<1>1. Goto(p, "select_flow", m) \/ Goto(p, "list_steps", n)
  BY DEF Advance
<1>2. /\ m.mode = l.mode /\ m.step = l.step /\ m.write = "final"
      /\ n.mode \in {"worker", "chain"} /\ n.step = l.step
  BY DEF Locals
<1> HIDE DEF m, n
<1>. QED BY <1>1, <1>2 DEF Moves, Holding

LEMMA ContextWriteMoves ==
  ASSUME NEW p, NEW l \in Locals, l.mode # "approve",
         Goto(p, "select_flow", [l EXCEPT !.write = "context"])
  PROVE  Moves(p, l)
<1> DEFINE m == [l EXCEPT !.write = "context"]
<1>1. m.mode = l.mode /\ m.step = l.step /\ m.write = "context" /\ Goto(p, "select_flow", m)
  BY DEF Locals
<1> HIDE DEF m
<1>. QED BY <1>1 DEF Moves, Holding

-----------------------------------------------------------------------------
(* Handlers begin.                                                         *)

\* A row that waits is held by nobody but a request of its actor; so whoever
\* may take it takes it from nobody.
LEMMA TakesFromNobody ==
  ASSUME OneCaller, TypeOK, TInv, NEW p \in Procs, MayStart(p),
         NEW k \in StepKey, steps[k].status = "WAITING",
         Caller(p, k) \/ Def[k.type].actor = "SYSTEM",
         NEW q \in Procs, Owning(pc[q], loc[q])
  PROVE  loc[q].step.flow # k.flow
<1> SUFFICES ASSUME loc[q].step.flow = k.flow PROVE FALSE
  OBVIOUS
<1>1. pc[q] # "idle" /\ pc[p] = "idle" /\ Overlap
  BY DEF Owning, Holding, Moving, MayStart
<1>2. Holding(pc[q], loc[q]) /\ loc[q].step = k
  BY OfHandler DEF OwnerOK, IsOpen
<1>3. Caller(q, k)
  BY <1>2, OfHandler DEF OwnerOK
<1>. QED BY <1>1, <1>3 DEF Caller, OneCaller

LEMMA SubmitKeepsT ==
  ASSUME Disciplined, OneCaller, TypeOK, TInv, NEW p \in Procs, NEW k \in StepKey,
         SubmitStep(p, k) \/ SubmitAdminStep(p, k)
  PROVE  TInv'
<1>1. PICK mode \in {"bff", "staff"} :
        Goto(p, "get_flow", [NoLocals EXCEPT !.mode = mode, !.step = k, !.more = TRUE])
  BY DEF SubmitStep, SubmitAdminStep
<1>2. /\ UNCHANGED <<flows, steps>> /\ MayStart(p) /\ Caller(p, k)
      /\ steps[k].status = "WAITING"
  BY DEF SubmitStep, SubmitAdminStep, AdminSubmittable, Caller
<1> DEFINE l == [NoLocals EXCEPT !.mode = mode, !.step = k, !.more = TRUE]
<1>3. l.mode # "approve" /\ l.step = k
  BY DEF NoLocals
<1> HIDE DEF l
<1>4. \A q \in Procs : Owning(pc[q], loc[q]) => loc[q].step.flow # k.flow
  BY <1>2, TakesFromNobody
<1>5. IsOpen(steps[k]) /\ Has(steps, k)
  BY <1>2 DEF IsOpen, Has
<1>6. \A j \in StepKey : IsOpen(steps[j]) /\ j.flow = k.flow => j = k
  BY <1>5, OfTables DEF OneOpen
<1>7. OwnerOK(p, steps, "get_flow", l)
  BY <1>2, <1>3, <1>5, <1>6, SMTT(30) DEF OwnerOK, Holding
<1>8. ThereOK(flows', "get_flow", l)
  BY <1>2, <1>3, <1>5, OfTables DEF ThereOK, RowsThere
<1>. QED BY <1>1, <1>2, <1>3, <1>4, <1>7, <1>8, SameFlows, SameRowsKeepT, ZenonT(60) DEF l

\* An approver owns nothing: it will patch a row that exists.
LEMMA ApproveKeepsT ==
  ASSUME TypeOK, TInv, NEW p \in Procs, NEW k \in StepKey,
         NEW d \in {"COMPLETED", "FAILED"}, ApproveStep(p, k, d)
  PROVE  TInv'
<1> DEFINE l == [NoLocals EXCEPT !.mode = "approve", !.step = k, !.patch = d]
<1>1. /\ Goto(p, "select_step", l) /\ UNCHANGED <<flows, steps>>
      /\ p \in Approvers /\ Has(steps, k)
  BY DEF ApproveStep, Exists, Has
<1>2. l.mode = "approve" /\ l.step = k /\ l.patch = d
  BY DEF NoLocals
<1> HIDE DEF l
<1>3. ~Owning("select_step", l)
  BY <1>2 DEF Owning, Holding, Moving
<1>4. OwnerOK(p, steps, "select_step", l) /\ ThereOK(flows', "select_step", l)
  BY <1>1, <1>2, <1>3, OfTables DEF OwnerOK, ThereOK, Owning, RowsThere
<1>. QED BY <1>1, <1>3, <1>4, SameFlows, GoingOnKeepsT

\* The flow was absent: it had no rows, and nobody worked on it.
LEMMA AddFlowKeepsT ==
  ASSUME Disciplined, TypeOK, TInv, NEW p \in Procs, NEW f \in Flows, AddFlow(p, f)
  PROVE  TInv'
<1> DEFINE row == [NoFlowRow EXCEPT !.status = "RUNNING"]
           l == [NoLocals EXCEPT !.mode = "chain", !.flow = row,
                   !.step = [AnyKey EXCEPT !.flow = f],
                   !.next = InitialStep[f], !.more = TRUE]
<1>1. flows[f].status = "ABSENT"
  BY DEF AddFlow
<1>2. /\ flows' = [flows EXCEPT ![f] = row] /\ UNCHANGED steps
      /\ Goto(p, "open_session", l)
  BY <1>1 DEF AddFlow
<1>3. row.status = "RUNNING" /\ l.mode = "chain" /\ l.step.flow = f
  BY DEF NoFlowRow, NoLocals, AnyKey
<1> HIDE DEF row, l
<1>4. NoFlowLost /\ flows'[f].status # "ABSENT"
  BY <1>2, <1>3, OfTables DEF NoFlowLost
<1>5. Settled(steps, f)
  BY <1>1, OfTables DEF Settled, RowsThere, IsOpen, Has
<1>6. OwnerOK(p, steps, "open_session", l) /\ ThereOK(flows', "open_session", l)
  BY <1>3, <1>4, <1>5, MoveOK, ZenonT(60) DEF Holding
<1>7. \A q \in Procs : Owning(pc[q], loc[q]) => loc[q].step.flow # f
  BY <1>1, OfHandler DEF ThereOK, Owning, Holding, Moving, Rest
<1>. QED BY <1>2, <1>3, <1>4, <1>6, <1>7, SameRowsKeepT, Zenon

-----------------------------------------------------------------------------
(* One row of flow_step is written.                                        *)

LEMMA OneRow ==
  ASSUME TypeOK, NEW k \in StepKey, NEW row, steps' = [steps EXCEPT ![k] = row]
  PROVE  steps'[k] = row /\ \A j \in StepKey : j # k => steps'[j] = steps[j]
BY DEF TypeOK

LEMMA RowWriteKeepsTables ==
  ASSUME TypeOK, TInv, NEW k \in StepKey, NEW row, row.status # "ABSENT",
         steps' = [steps EXCEPT ![k] = row], Below(steps, k),
         flows[k.flow].status # "ABSENT", UNCHANGED flows,
         IsOpen(row) =>
           \A j \in StepKey : IsOpen(steps[j]) /\ j.flow = k.flow => j = k
  PROVE  /\ NoGaps(steps') /\ OneOpen(steps') /\ RowsThere(steps', flows')
         /\ \A j \in StepKey : Below(steps, j) => Below(steps', j)
<1>1. /\ steps'[k] = row /\ \A j \in StepKey : j # k => steps'[j] = steps[j]
      /\ NoGaps(steps) /\ OneOpen(steps) /\ RowsThere(steps, flows)
  BY OneRow, OfTables
<1>2. \A j \in StepKey : Has(steps, j) => Has(steps', j)
  BY <1>1 DEF Has
<1>3. \A j \in StepKey : Below(steps, j) => Below(steps', j)
  BY <1>2, Zenon DEF Below, StepKey
<1>4. NoGaps(steps')
  <2> SUFFICES ASSUME NEW j \in StepKey, Has(steps', j) PROVE Below(steps', j)
    BY ZenonT(60) DEF NoGaps
  <2>1. Below(steps, j)
    BY <1>1 DEF NoGaps, Has
  <2>. QED BY <1>3, <2>1, Zenon
<1>5. OneOpen(steps')
  BY <1>1 DEF OneOpen
<1>6. RowsThere(steps', flows')
  BY <1>1 DEF RowsThere, Has
<1>. QED BY <1>3, <1>4, <1>5, <1>6, Zenon

\* Nobody but p owns the flow of the row.
LEMMA RowWriteKeepsT ==
  ASSUME TypeOK, TInv, NEW p \in Procs, NEW k \in StepKey, NEW row,
         row.status # "ABSENT", steps' = [steps EXCEPT ![k] = row],
         Below(steps, k), flows[k.flow].status # "ABSENT", UNCHANGED flows,
         \A j \in StepKey : IsOpen(steps[j]) /\ j.flow = k.flow => j = k,
         \A q \in Procs \ {p} : Owning(pc[q], loc[q]) => loc[q].step.flow # k.flow,
         NEW label, NEW m, Goto(p, label, m),
         OwnerOK(p, steps', label, m), ThereOK(flows, label, m),
         Owning(label, m) => m.step.flow = k.flow
  PROVE  TInv'
<1>1. /\ NoGaps(steps') /\ OneOpen(steps') /\ RowsThere(steps', flows')
      /\ \A j \in StepKey : Below(steps, j) => Below(steps', j)
  BY RowWriteKeepsTables, Zenon
<1>2. steps'[k] = row /\ \A j \in StepKey : j # k => steps'[j] = steps[j]
  BY OneRow, ZenonT(60)
<1>3. \A j \in StepKey : Has(steps, j) => Has(steps', j)
  BY <1>2 DEF Has
<1>4. ASSUME NEW q \in Procs \ {p} PROVE OwnerOK(q, steps', pc[q], loc[q])
  <2>1. OwnerOK(q, steps, pc[q], loc[q]) /\ loc[q].step \in StepKey
    BY <1>4, OfHandler
  <2>2. CASE Owning(pc[q], loc[q])
    <3>1. \A j \in StepKey : j.flow = loc[q].step.flow => steps'[j] = steps[j]
      BY <1>2, <1>4, <2>2, SMTT(30)
    <3>. QED BY <1>1, <2>1, <2>2, <3>1, ZenonT(60) DEF OwnerOK, Has
  <2>3. CASE ~Owning(pc[q], loc[q])
    <3>1. ~Holding(pc[q], loc[q]) /\ pc[q] # "create_step"
      BY <2>3 DEF Owning, Moving
    <3>. QED BY <1>3, <2>1, <2>3, <3>1, ZenonT(60) DEF OwnerOK
  <2>. QED BY <2>2, <2>3, SMTT(30)
<1>5. \A q \in Procs : ThereOK(flows', pc[q], loc[q])
  BY OfHandler
<1>. QED BY <1>1, <1>4, <1>5, StepKeepsT, Zenon

\* The claimed row waited: a worker takes it, and runs it alone.
LEMMA ClaimKeepsT ==
  ASSUME OneCaller, TypeOK, TInv, NEW p \in Procs, NEW k \in StepKey,
         ClaimNextSystemStep(p, k)
  PROVE  TInv'
<1> DEFINE l == [NoLocals EXCEPT !.mode = "worker", !.step = k, !.more = TRUE,
                                 !.attempt_no = steps[k].attempt_no]
           row == ClaimedRow(steps[k])
<1>1. /\ Goto(p, "get_flow", l) /\ UNCHANGED flows /\ MayStart(p)
      /\ Def[k.type].actor = "SYSTEM" /\ steps[k].status = "WAITING"
  BY DEF ClaimNextSystemStep, Due
<1>2. l.mode = "worker" /\ l.step = k
  BY DEF NoLocals
<1>3. steps' = [steps EXCEPT ![k] = row]
  BY OfTables DEF ClaimNextSystemStep
<1>4. row.status = "RUNNING"
  BY OfTables DEF ClaimedRow, StepRow
<1> HIDE DEF l, row
<1>5. \A q \in Procs : Owning(pc[q], loc[q]) => loc[q].step.flow # k.flow
  BY <1>1, TakesFromNobody
<1>6. Has(steps, k) /\ IsOpen(steps[k])
  BY <1>1 DEF Has, IsOpen
<1>7. /\ Below(steps, k) /\ flows[k.flow].status # "ABSENT"
      /\ \A j \in StepKey : IsOpen(steps[j]) /\ j.flow = k.flow => j = k
  BY <1>6, OfTables DEF NoGaps, RowsThere, OneOpen
<1>8. steps'[k] = row /\ \A j \in StepKey : j # k => steps'[j] = steps[j]
  BY <1>3, OneRow, Zenon
<1>9. OwnerOK(p, steps', "get_flow", l)
  BY <1>2, <1>4, <1>7, <1>8 DEF OwnerOK, Holding, IsOpen, Has
<1>10. ThereOK(flows, "get_flow", l)
  BY <1>2, <1>7 DEF ThereOK
<1>. QED BY <1>1, <1>2, <1>3, <1>4, <1>5, <1>7, <1>9, <1>10, RowWriteKeepsT, Zenon

-----------------------------------------------------------------------------
(* The step is verified or executed; the handler holds it.                 *)

LEMMA ReadingContinues ==
  ASSUME TypeOK, NEW p \in Procs, GetFlow(p) \/ GetSession(p)
  PROVE  Continues(p)
<1>1. loc[p] \in Locals
  BY DEF TypeOK
<1>2. CASE GetFlow(p)
  <2> DEFINE l == [loc[p] EXCEPT !.flow = flows[loc[p].step.flow]]
  <2>1. Goto(p, "get_session", l) \/ Goto(p, "verify", l)
    BY <1>2 DEF GetFlow
  <2>2. l.mode = loc[p].mode /\ l.step = loc[p].step
    BY <1>1 DEF Locals
  <2> HIDE DEF l
  <2>. QED BY <2>1, <2>2 DEF Continues
<1>3. CASE GetSession(p)
  <2> DEFINE l == [loc[p] EXCEPT !.context = session.context]
  <2>1. Goto(p, "execute", l)
    BY <1>3 DEF GetSession
  <2>2. l.mode = loc[p].mode /\ l.step = loc[p].step
    BY <1>1 DEF Locals
  <2> HIDE DEF l
  <2>. QED BY <2>1, <2>2 DEF Continues
<1>. QED BY <1>2, <1>3

LEMMA VerifyContinues ==
  ASSUME TypeOK, EInv, NEW p \in Procs, VerifyAccepted(p) \/ VerifyRejected(p)
  PROVE  Continues(p)
<1>1. loc[p] \in Locals /\ loc[p].mode \notin {"chain", "worker"}
  BY DEF TypeOK, EInv, StageOK, VerifyAccepted, VerifyRejected
<1>2. ASSUME NEW label \in {"read_context", "select_step"}, NEW l,
             Goto(p, label, l), l.mode = loc[p].mode, l.step = loc[p].step
      PROVE  Continues(p)
  BY <1>1, <1>2 DEF Continues
<1>3. CASE VerifyAccepted(p)
  <2>1. PICK o \in Def[loc[p].step.type].verify :
          Goto(p, IF IsDone(o) /\ Def[loc[p].step.type].session_patch
                  THEN "read_context" ELSE "select_step",
               Completing(loc[p], o))
    BY <1>3, ZenonT(60) DEF VerifyAccepted
  <2>2. \E label \in {"read_context", "select_step"} :
          Goto(p, label, Completing(loc[p], o))
    BY <2>1
  <2>. QED BY <1>1, <1>2, <2>2, DecisionKeeps
<1>4. CASE VerifyRejected(p)
  <2> DEFINE l == [Failing(loc[p]) EXCEPT
                     !.more = Def[loc[p].step.type].on_failure # None]
  <2>1. Goto(p, "select_step", l)
    BY <1>4 DEF VerifyRejected
  <2>2. l.mode = loc[p].mode /\ l.step = loc[p].step
    BY <1>1 DEF Failing, Locals
  <2> HIDE DEF l
  <2>. QED BY <2>1, <2>2, <1>2
<1>. QED BY <1>3, <1>4, ZenonT(60)

LEMMA HeldStepKeepsT ==
  ASSUME TypeOK, EInv, TInv, NEW p \in Procs,
         \/ GetFlow(p) \/ GetSession(p)
         \/ VerifyAccepted(p) \/ VerifyRefused(p) \/ VerifyRejected(p)
         \/ ExecuteDone(p) \/ ExecuteWaiting(p)
         \/ ExecuteFailed(p) \/ ExecuteRetry(p)
  PROVE  TInv'
<1>1. UNCHANGED <<flows, steps>> /\ pc[p] \in {"get_flow", "get_session", "verify", "execute"}
  BY ZenonT(60) DEF GetFlow, GetSession, VerifyAccepted, VerifyRefused, VerifyRejected,
     ExecuteDone, ExecuteWaiting, ExecuteFailed, ExecuteRetry
<1>2. NoFlowLost /\ Holding(pc[p], loc[p])
  BY <1>1, SameFlows, ZenonT(60) DEF Holding
<1>3. CASE VerifyRefused(p)
  BY <1>1, <1>2, <1>3, ReturnRests, RestingKeepsT, SMTT(30) DEF VerifyRefused
<1>4. CASE ExecuteDone(p) \/ ExecuteWaiting(p) \/ ExecuteFailed(p) \/ ExecuteRetry(p)
  <2>1. loc[p] \in Locals
    BY DEF TypeOK
  <2>2. Continues(p)
    BY <1>4, <2>1, ExecuteGoes DEF Continues
  <2>. QED BY <1>1, <1>2, <2>2, ContinuingKeepsT
<1>5. CASE \/ GetFlow(p) \/ GetSession(p) \/ VerifyAccepted(p) \/ VerifyRejected(p)
  BY <1>1, <1>2, <1>5, ReadingContinues, VerifyContinues, ContinuingKeepsT
<1>. QED BY <1>3, <1>4, <1>5

\* Neither select_step nor select_flow changes what p owns.
LEMMA SelectKeepsT ==
  ASSUME TypeOK, TInv, NEW p \in Procs, SelectStep(p) \/ SelectFlow(p)
  PROVE  TInv'
<1>1. /\ OwnerOK(p, steps, pc[p], loc[p]) /\ ThereOK(flows, pc[p], loc[p])
      /\ loc[p] \in Locals
  BY OfHandler, ZenonT(60)
<1>2. CASE SelectStep(p)
  <2> DEFINE l == [loc[p] EXCEPT !.step_row = steps[loc[p].step]]
  <2>1. Goto(p, "patch_step", l) /\ UNCHANGED <<flows, steps>> /\ pc[p] = "select_step"
    BY <1>2 DEF SelectStep
  <2>2. l.mode = loc[p].mode /\ l.step = loc[p].step /\ l.patch = loc[p].patch
    BY <1>1 DEF Locals
  <2> HIDE DEF l
  <2>3. /\ Holding("patch_step", l) <=> Holding(pc[p], loc[p])
        /\ ~Moving("patch_step", l) /\ ~Moving(pc[p], loc[p])
    BY <2>1, <2>2, ZenonT(60) DEF Holding, Moving
  <2>4. OwnerOK(p, steps, "patch_step", l)
    BY <1>1, <2>1, <2>2, <2>3, ZenonT(60) DEF OwnerOK, Owning, Rest
  <2>5. ThereOK(flows, "patch_step", l)
    BY <1>1, <2>1, <2>2, ZenonT(60) DEF ThereOK, Rest
  <2>. QED BY <2>1, <2>2, <2>3, <2>4, <2>5, SameFlows, GoingOnKeepsT, ZenonT(60) DEF Owning
<1>3. CASE SelectFlow(p)
  <2> DEFINE l == [loc[p] EXCEPT !.flow_row = flows[loc[p].step.flow]]
  <2>1. Goto(p, "update_flow", l) /\ UNCHANGED <<flows, steps>> /\ pc[p] = "select_flow"
    BY <1>3 DEF SelectFlow
  <2>2. /\ l.mode = loc[p].mode /\ l.step = loc[p].step /\ l.write = loc[p].write
        /\ l.flow_row = flows[loc[p].step.flow]
    BY <1>1 DEF Locals
  <2> HIDE DEF l
  <2>3. /\ Holding("update_flow", l) <=> Holding(pc[p], loc[p])
        /\ Moving("update_flow", l) <=> Moving(pc[p], loc[p])
    BY <2>1, <2>2, SMTT(30) DEF Holding, Moving
  <2>4. OwnerOK(p, steps, "update_flow", l)
    BY <1>1, <2>1, <2>2, <2>3, ZenonT(60) DEF OwnerOK, Owning, Rest
  <2>5. ThereOK(flows, "update_flow", l)
    BY <1>1, <2>1, <2>2 DEF ThereOK, Rest
  <2>. QED BY <2>1, <2>2, <2>3, <2>4, <2>5, SameFlows, GoingOnKeepsT DEF Owning
<1>. QED BY <1>2, <1>3

-----------------------------------------------------------------------------
(* The row is patched.                                                     *)

Settling == {"COMPLETED", "FAILED"}

LEMMA PatchedStatus ==
  ASSUME NEW l \in Locals, l.patch # "none"
  PROVE  Patched(l).status = IF l.patch \in Settling THEN l.patch ELSE "WAITING"
<1>1. l.step_row \in StepRow /\ l.patch \in StepPatches
  BY DEF Locals
<1>. QED BY <1>1 DEF Patched, StepRow, StepPatches, Settling

\* A handler that reopens its row stops; one that settles it goes on.
LEMMA AfterPatchMoves ==
  ASSUME NEW p, NEW l \in Locals, l.mode # "approve", AfterPatch(p, l)
  PROVE  \/ Rests(p)
         \/ l.patch \in Settling /\ Moves(p, l)
<1>1. \/ Refresh(p, l, FALSE) \/ Return(p)
      \/ l.patch \in Settling /\ Advance(p, l)
      \/ /\ l.patch \in Settling
         /\ Goto(p, "select_flow", [l EXCEPT !.write = "context"])
      \/ l.patch \in Settling /\ l.mode = "chain" /\ Goto(p, "read_context", l)
      \/ l.patch \in Settling /\ l.mode = "worker" /\ Goto(p, "write_context", l)
  BY ZenonT(60) DEF AfterPatch, Settling
<1>2. ASSUME NEW label \in {"read_context", "write_context"}, Goto(p, label, l),
             l.mode \in {"chain", "worker"}
      PROVE  Moves(p, l)
  <2>1. ~Holding(label, l)
    BY <1>2, ZenonT(60) DEF Holding
  <2>. QED BY <1>2, <2>1, Zenon DEF Moves
<1>. QED BY <1>1, <1>2, RefreshRests, ReturnRests, AdvanceMoves, ContextWriteMoves, Zenon

\* An approver settles a row, whoever owns its flow.
LEMMA ApproverPatchKeepsT ==
  ASSUME TypeOK, TInv, NEW p \in Procs, loc[p].mode = "approve", PatchStep(p)
  PROVE  TInv'
<1> DEFINE k == loc[p].step
           row == Patched(loc[p])
<1>1. /\ pc[p] = "patch_step" /\ UNCHANGED flows
      /\ steps' = [steps EXCEPT ![k] = row]
      /\ AfterPatch(p, [loc[p] EXCEPT !.step_row = NoStepRow])
  BY DEF PatchStep
<1>2. /\ OwnerOK(p, steps, pc[p], loc[p]) /\ loc[p] \in Locals /\ k \in StepKey
  BY OfHandler
<1>3. loc[p].patch \in Settling /\ Approvers # {} /\ Has(steps, k)
  BY <1>1, <1>2 DEF OwnerOK, Rest, Settling
<1>4. row.status \in Settling
  BY <1>2, <1>3, PatchedStatus DEF Settling
<1>5. Rests(p)
  <2>1. [loc[p] EXCEPT !.step_row = NoStepRow].mode = "approve"
    BY <1>2 DEF Locals
  <2>. QED BY <1>1, <2>1, ReturnRests, Zenon DEF AfterPatch
<1> HIDE DEF k, row
<1>6. /\ steps'[k] = row /\ \A j \in StepKey : j # k => steps'[j] = steps[j]
  BY <1>1, <1>2, OneRow, Zenon
<1>7. Below(steps, k) /\ flows[k.flow].status # "ABSENT"
  BY <1>2, <1>3, OfTables DEF NoGaps, RowsThere
<1>8. /\ NoGaps(steps') /\ OneOpen(steps') /\ RowsThere(steps', flows')
      /\ \A j \in StepKey : Below(steps, j) => Below(steps', j)
  BY <1>1, <1>2, <1>4, <1>7, RowWriteKeepsTables, Zenon DEF Settling, IsOpen
<1>9. \A j \in StepKey : /\ IsOpen(steps'[j]) => IsOpen(steps[j])
                         /\ Has(steps, j) <=> Has(steps', j)
                         /\ steps'[j].status = "WAITING" => steps[j].status = "WAITING"
  BY <1>3, <1>4, <1>6 DEF Has, IsOpen, Settling
<1>10. ASSUME NEW q \in Procs
       PROVE  OwnerOK(q, steps', pc[q], loc[q]) /\ ThereOK(flows', pc[q], loc[q])
  <2>1. /\ OwnerOK(q, steps, pc[q], loc[q]) /\ loc[q].step \in StepKey
        /\ ThereOK(flows, pc[q], loc[q])
    BY <1>10, OfHandler
  <2>2. OwnerOK(q, steps', pc[q], loc[q])
    BY <1>3, <1>8, <1>9, <2>1, ZenonT(60) DEF OwnerOK
  <2>. QED BY <1>1, <2>1, <2>2
<1>11. PICK label, m : label \in Rest /\ Goto(p, label, m)
  BY <1>5 DEF Rests
<1>. QED BY <1>8, <1>10, <1>11, RestOwnsNothing, StepKeepsT

\* Anyone else patches the row of the flow it owns.
LEMMA OwnerPatchKeepsT ==
  ASSUME TypeOK, TInv, NEW p \in Procs, loc[p].mode # "approve", PatchStep(p),
         loc[p].patch # "none"
  PROVE  TInv'
<1> DEFINE k == loc[p].step
           row == Patched(loc[p])
           l == [loc[p] EXCEPT !.step_row = NoStepRow]
<1>1. /\ pc[p] = "patch_step" /\ UNCHANGED flows
      /\ steps' = [steps EXCEPT ![k] = row]
      /\ AfterPatch(p, l)
  BY DEF PatchStep
<1>2. /\ OwnerOK(p, steps, pc[p], loc[p]) /\ ThereOK(flows, pc[p], loc[p])
      /\ loc[p] \in Locals /\ k \in StepKey
  BY OfHandler
<1>3. Holding(pc[p], loc[p]) /\ Owning(pc[p], loc[p])
  BY <1>1 DEF Holding, Owning
<1>4. /\ l \in Locals /\ l.mode = loc[p].mode /\ l.patch = loc[p].patch
      /\ l.step = k
  BY <1>2, DefaultsOK DEF Locals
<1>5. row.status = IF loc[p].patch \in Settling THEN loc[p].patch ELSE "WAITING"
  BY <1>2, PatchedStatus
<1>6. /\ flows[k.flow].status # "ABSENT" /\ Has(steps, k)
      /\ \A j \in StepKey : IsOpen(steps[j]) /\ j.flow = k.flow => j = k
  BY <1>1, <1>2, <1>3, ZenonT(60) DEF OwnerOK, ThereOK, Rest
<1>7. \A q \in Procs \ {p} : Owning(pc[q], loc[q]) => loc[q].step.flow # k.flow
  BY <1>3, OfHandler
<1> HIDE DEF k, row, l
<1>8. Rests(p) \/ (l.patch \in Settling /\ Moves(p, l))
  BY <1>1, <1>4, AfterPatchMoves
<1>9. row.status # "ABSENT" /\ (loc[p].patch \in Settling => ~IsOpen(row))
  BY <1>5 DEF Settling, IsOpen
<1>10. Below(steps, k)
  BY <1>2, <1>6, OfTables, SMTT(30) DEF NoGaps
<1>11. \A label, m : /\ Goto(p, label, m) /\ OwnerOK(p, steps', label, m)
                     /\ ThereOK(flows, label, m)
                     /\ Owning(label, m) => m.step.flow = k.flow
                     => TInv'
  BY <1>1, <1>2, <1>6, <1>7, <1>9, <1>10, RowWriteKeepsT, ZenonT(60)
<1>12. CASE Rests(p)
  BY <1>11, <1>12, RestOwnsNothing, ZenonT(60) DEF Rests
<1>13. CASE l.patch \in Settling /\ Moves(p, l)
  <2>1. PICK label, m :
          /\ Goto(p, label, m) /\ m.step = l.step /\ m.mode # "approve"
          /\ label \in {"list_steps", "read_context", "write_context", "select_flow"}
          /\ ~Holding(label, m)
    BY <1>13 DEF Moves
  <2>2. Settled(steps', k.flow)
    <3>1. steps'[k] = row /\ \A j \in StepKey : j # k => steps'[j] = steps[j]
      BY <1>1, <1>2, OneRow, ZenonT(60)
    <3>2. ~IsOpen(row)
      BY <1>4, <1>9, <1>13, ZenonT(60)
    <3>. QED BY <1>6, <3>1, <3>2, Zenon DEF Settled
  <2>3. OwnerOK(p, steps', label, m) /\ ThereOK(flows, label, m)
    BY <1>4, <1>6, <2>1, <2>2, MoveOK, ZenonT(60)
  <2>. QED BY <1>4, <1>11, <2>1, <2>3
<1>. QED BY <1>8, <1>12, <1>13

LEMMA PatchStepKeepsT ==
  ASSUME IInv, TInv, NEW p \in Procs, PatchStep(p) PROVE TInv'
<1>1. pc[p] = "patch_step" /\ TypeOK
  BY DEF PatchStep, IInv
<1>2. loc[p].patch # "none"
  BY <1>1 DEF IInv, LocalOK
<1>. QED BY <1>1, <1>2, ApproverPatchKeepsT, OwnerPatchKeepsT

\* A request patches the session while it holds its step, a step chain and a
\* worker after they have settled it.
LEMMA ContextKeepsT ==
  ASSUME TypeOK, TInv, NEW p \in Procs, ReadContext(p) \/ WriteContext(p)
  PROVE  TInv'
<1>1. /\ UNCHANGED <<flows, steps>> /\ NoFlowLost
      /\ pc[p] \in {"read_context", "write_context"}
  BY SameFlows, Zenon DEF ReadContext, WriteContext
<1>2. OwnerOK(p, steps, pc[p], loc[p]) /\ loc[p] \in Locals
  BY OfHandler, ZenonT(60)
<1>3. loc[p].mode # "approve"
  BY <1>1, <1>2 DEF OwnerOK, Rest
<1>4. IF loc[p].mode \in {"chain", "worker"} THEN Moving(pc[p], loc[p])
                                             ELSE Holding(pc[p], loc[p])
  BY <1>1 DEF Moving, Holding
<1>5. IF loc[p].mode \in {"chain", "worker"} THEN Moves(p, loc[p]) ELSE Continues(p)
  <2>1. CASE ReadContext(p)
    <3> DEFINE l == [loc[p] EXCEPT !.context = session.context]
    <3>1. Goto(p, "write_context", l)
      BY <2>1 DEF ReadContext
    <3>2. l.mode = loc[p].mode /\ l.step = loc[p].step
      BY <1>2 DEF Locals
    <3> HIDE DEF l
    <3>. QED BY <1>3, <3>1, <3>2 DEF Moves, Continues, Holding
  <2>2. CASE WriteContext(p)
    <3>1. IF loc[p].mode \in {"chain", "worker"}
          THEN \/ Advance(p, loc[p])
               \/ Goto(p, "select_flow", [loc[p] EXCEPT !.write = "context"])
          ELSE Goto(p, "select_step", loc[p])
      BY <2>2, ZenonT(60) DEF WriteContext
    <3>. QED BY <1>2, <1>3, <3>1, AdvanceMoves, ContextWriteMoves DEF Continues
  <2>. QED BY <2>1, <2>2
<1>. QED BY <1>1, <1>4, <1>5, MovingKeepsT, ContinuingKeepsT

-----------------------------------------------------------------------------
(* The flow is updated.                                                    *)

LEMMA UpdatedThere ==
  ASSUME NEW l \in Locals, l.flow_row.status # "ABSENT"
  PROVE  Updated(l).status # "ABSENT"
<1>1. l.flow_row \in FlowRow /\ l.status \in SessionStatuses
  BY DEF Locals
<1>2. l.status # "ABSENT"
  BY <1>1 DEF SessionStatuses, FlowTerminal
<1>. QED BY <1>1, <1>2 DEF Updated, StepWrite, FinalWrite, FlowRow

\* Where update_flow leads.
LEMMA AfterUpdateMoves ==
  ASSUME NEW p, NEW l \in Locals, l.mode # "approve", AfterUpdate(p, l)
  PROVE  \/ Rests(p)
         \/ l.write = "context" /\ Moves(p, l)
         \/ /\ l.write = "step" /\ l.mode # "worker" /\ RunsInChain(l.step.type)
            /\ Goto(p, "execute", l)
<1>1. \/ l.write = "context" /\ Advance(p, l)
      \/ Return(p) \/ Refresh(p, l, FALSE) \/ AfterFinal(p, l)
      \/ Goto(p, "read_kyc", l)
      \/ /\ l.write = "step" /\ l.mode # "worker" /\ RunsInChain(l.step.type)
         /\ Goto(p, "execute", l)
  BY Zenon DEF AfterUpdate
<1>2. CASE Goto(p, "read_kyc", l)
  BY <1>2 DEF Rests, Rest
<1>. QED BY <1>1, <1>2, AdvanceMoves, ReturnRests, RefreshRests, AfterFinalRests, ZenonT(60)

LEMMA UpdateFlowKeepsT ==
  ASSUME IInv, TInv, NEW p \in Procs, UpdateFlow(p) PROVE TInv'
<1> DEFINE f == loc[p].step.flow
           row == Updated(loc[p])
           l == Copied(loc[p], row, NoFlowRow)
<1>1. TypeOK /\ \A q \in Procs : LocalOK(steps, pc[q], loc[q])
  BY Zenon DEF IInv
<1>2. /\ OwnerOK(p, steps, pc[p], loc[p]) /\ ThereOK(flows, pc[p], loc[p])
      /\ loc[p] \in Locals /\ f \in Flows
  BY <1>1, OfHandler
<1>3. /\ pc[p] = "update_flow" /\ UNCHANGED steps
      /\ flows' = [flows EXCEPT ![f] = row] /\ AfterUpdate(p, l)
  BY SMTT(30) DEF UpdateFlow, Copied
<1>4. loc[p].mode # "approve" /\ loc[p].flow_row.status # "ABSENT"
  BY <1>2, <1>3, ZenonT(60) DEF OwnerOK, ThereOK, Rest
<1>5. row \in FlowRow /\ row.status # "ABSENT"
  BY <1>1, <1>2, <1>3, <1>4, UpdatedOK, UpdatedThere
<1>6. /\ l \in Locals /\ l.mode = loc[p].mode /\ l.step = loc[p].step
      /\ l.write = loc[p].write
  BY <1>2, <1>5, DefaultsOK, Zenon DEF Copied, Locals
<1> HIDE DEF f, row, l
<1>7. NoFlowLost /\ flows'[f].status # "ABSENT"
  BY <1>1, <1>2, <1>3, <1>5, OfTables, SMTT(30) DEF NoFlowLost
<1>8. CASE Rests(p)
  BY <1>1, <1>3, <1>7, <1>8, RestingKeepsT, ZenonT(60)
<1>9. CASE l.write = "context" /\ Moves(p, l)
  <2>1. Moving(pc[p], loc[p])
    BY <1>3, <1>6, <1>9 DEF Moving
  <2>2. Moves(p, loc[p])
    BY <1>6, <1>9, Zenon DEF Moves
  <2>. QED BY <1>1, <1>3, <1>7, <2>1, <2>2, MovingKeepsT, ZenonT(60)
<1>10. CASE /\ l.write = "step" /\ l.mode # "worker" /\ RunsInChain(l.step.type)
            /\ Goto(p, "execute", l)
  <2>1. Holding(pc[p], loc[p])
    BY <1>3, <1>6, <1>10 DEF Holding
  <2>2. Continues(p)
    BY <1>6, <1>10 DEF Continues
  <2>. QED BY <1>1, <1>3, <1>7, <2>1, <2>2, ContinuingKeepsT, ZenonT(60)
<1>. QED BY <1>3, <1>4, <1>6, <1>8, <1>9, <1>10, AfterUpdateMoves, Zenon

-----------------------------------------------------------------------------
(* The rest of the handlers.                                               *)

LEMMA RestKeepsT ==
  ASSUME TypeOK, TInv, NEW p \in Procs,
         \/ OpenSession(p) \/ ReadKyc(p) \/ WriteKyc(p) \/ ListFlows(p)
         \/ WriteStatus(p) \/ Abort(p)
  PROVE  TInv'
<1>1. UNCHANGED steps /\ NoFlowLost
  BY SameFlows, Zenon DEF OpenSession, ReadKyc, WriteKyc, ListFlows, WriteStatus, Abort
<1>2. CASE OpenSession(p)
  <2>1. Goto(p, "list_steps", loc[p]) /\ pc[p] = "open_session"
    BY <1>2 DEF OpenSession
  <2>2. Moving(pc[p], loc[p]) /\ ~Holding("list_steps", loc[p])
    BY <2>1, ZenonT(60) DEF Moving, Holding
  <2>3. Moves(p, loc[p])
    BY <2>1, <2>2, OfMoving DEF Moves
  <2>. QED BY <1>1, <2>2, <2>3, MovingKeepsT
<1>3. CASE ReadKyc(p) \/ ListFlows(p)
  <2>1. Rests(p)
    BY <1>3 DEF ReadKyc, ListFlows, Rests, Rest
  <2>. QED BY <1>1, <2>1, RestingKeepsT
<1>4. CASE WriteKyc(p) \/ WriteStatus(p) \/ Abort(p)
  <2>1. AfterFinal(p, loc[p]) \/ Refresh(p, loc[p], FALSE) \/ Return(p)
    BY <1>4, Zenon DEF WriteKyc, WriteStatus, Abort
  <2>2. Rests(p)
    BY <2>1, AfterFinalRests, RefreshRests, ReturnRests, Zenon
  <2>. QED BY <1>1, <2>2, RestingKeepsT
<1>. QED BY <1>2, <1>3, <1>4

LEMMA InitTInv == Init => TInv
<1> SUFFICES ASSUME Init PROVE TInv
  OBVIOUS
<1>1. \A p \in Procs : pc[p] \in Rest
  BY DEF Init, Rest
<1>2. \A k \in StepKey : ~Has(steps, k) /\ ~IsOpen(steps[k])
  BY DEF Init, NoStepRow, Has, IsOpen
<1>3. NoGaps(steps) /\ OneOpen(steps) /\ RowsThere(steps, flows)
  BY <1>2 DEF NoGaps, OneOpen, RowsThere
<1>. QED BY <1>1, <1>3, RestOwnsNothing DEF TInv

\* The statements that write flow_step.
LEMMA OnlyThreeWrite ==
  ASSUME [Next]_vars
  PROVE  \/ UNCHANGED steps
         \/ \E p \in Procs, k \in StepKey : ClaimNextSystemStep(p, k)
         \/ \E p \in Procs : PatchStep(p) \/ CreateStep(p)
<1>1. CASE UNCHANGED vars
  BY <1>1 DEF vars
<1>2. CASE Next
  <2>1. PICK p \in Procs : \/ Enter(p)
                           \/ \E k \in StepKey : ClaimNextSystemStep(p, k)
                           \/ Continue(p)
                           \/ Abort(p)
    BY <1>2 DEF Next
  <2>2. CASE Enter(p) \/ Abort(p)
    BY <2>2, Zenon DEF Enter, AddFlow, SubmitStep, SubmitAdminStep, ApproveStep, Abort
  <2>3. CASE Continue(p)
    BY <2>3, ZenonT(60) DEF Continue, OpenSession, GetFlow, GetSession, VerifyAccepted,
       VerifyRefused, VerifyRejected, ExecuteDone, ExecuteWaiting, ExecuteFailed,
       ExecuteRetry, SelectStep, ReadContext, WriteContext, ListSteps, SelectFlow,
       UpdateFlow, ReadKyc, WriteKyc, ListFlows, WriteStatus
  <2>. QED BY <2>1, <2>2, <2>3
<1>. QED BY <1>1, <1>2

-----------------------------------------------------------------------------
(* The next row is inserted, and named.                                    *)

\* The new row is the only one of its flow that is open.  A request that will
\* run it holds it; otherwise the flow is left to whoever takes the row.
LEMMA CreateStepKeepsT ==
  ASSUME TypeOK, TInv, NEW p \in Procs, CreateStep(p) PROVE TInv'
<1> DEFINE k == loc[p].step
           row == NewStep(loc[p])
           m == [loc[p] EXCEPT !.write = "step"]
<1>1. OwnerOK(p, steps, pc[p], loc[p]) /\ loc[p] \in Locals /\ k \in StepKey
  BY OfHandler
<1>2. /\ pc[p] = "create_step" /\ UNCHANGED flows
      /\ Goto(p, "select_flow", m)
  BY DEF CreateStep
<1>3. ~Has(steps, k) /\ Below(steps, k)
  BY <1>1, <1>2 DEF OwnerOK
<1>4. steps' = [steps EXCEPT ![k] = row]
  BY <1>3 DEF CreateStep, Exists, Has
<1>5. m.mode = loc[p].mode /\ m.step = k /\ m.write = "step"
  BY <1>1, ZenonT(60) DEF Locals
<1>6. /\ row.status \in {"WAITING", "RUNNING"}
      /\ loc[p].mode # "worker" /\ RunsInChain(k.type) => row.status = "RUNNING"
  BY DEF NewStep
<1>7. Moving(pc[p], loc[p])
  BY <1>2, ZenonT(60) DEF Moving
<1>8. /\ Settled(steps, k.flow) /\ flows[k.flow].status # "ABSENT"
      /\ loc[p].mode # "approve"
      /\ \A q \in Procs \ {p} : Owning(pc[q], loc[q]) => loc[q].step.flow # k.flow
  BY <1>7, OfMoving, OfHandler
<1> HIDE DEF k, row, m
<1>9. /\ steps'[k] = row /\ \A j \in StepKey : j # k => steps'[j] = steps[j]
  BY <1>1, <1>4, OneRow, ZenonT(60)
<1>10. /\ Holding("select_flow", m) => row.status = "RUNNING"
       /\ ~Moving("select_flow", m)
  BY <1>5, <1>6, ZenonT(60) DEF Holding, Moving
<1>11. OwnerOK(p, steps', "select_flow", m)
  BY <1>5, <1>8, <1>9, <1>10 DEF OwnerOK, Owning, Settled, IsOpen, Has
<1>12. ThereOK(flows, "select_flow", m)
  BY <1>5, <1>8 DEF ThereOK
<1>. QED BY <1>1, <1>2, <1>3, <1>4, <1>5, <1>6, <1>8, <1>11, <1>12, RowWriteKeepsT, ZenonT(60)
         DEF Settled

INSTANCE FiniteSetTheorems

\* Without gaps the number of rows of a type is the first number not used.
LEMMA CountNames ==
  ASSUME NEW st, NoGaps(st), NEW f \in Flows, NEW type \in StepTypes,
         NEW n \in 0 .. MaxRow,
         n = Cardinality({k \in StepKey : Has(st, k) /\ k.flow = f /\ k.type = type})
  PROVE  LET k == [flow |-> f, type |-> type, no |-> n]
         IN  ~Has(st, k) /\ Below(st, k)
<1> DEFINE Key(i) == [flow |-> f, type |-> type, no |-> i]
           R == {k \in StepKey : Has(st, k) /\ k.flow = f /\ k.type = type}
           h == [k \in R |-> k.no]
<1>1. \A i \in 0 .. MaxRow : /\ Key(i) \in StepKey /\ Key(i).no = i
                             /\ Key(i).flow = f /\ Key(i).type = type
  BY DEF StepKey
<1>2. \A k \in R : k.no \in 0 .. MaxRow /\ k = Key(k.no)
  BY DEF StepKey
<1>3. \A i \in 0 .. MaxRow : Key(i) \in R <=> Has(st, Key(i))
  BY <1>1, ZenonT(60)
<1>4. \A i, j \in 0 .. MaxRow : Has(st, Key(i)) /\ j < i => Has(st, Key(j))
  BY <1>1 DEF NoGaps, Below
<1>5. n = Cardinality(R) /\ n \in Nat /\ MaxRow \in Nat
  BY EngineAssumption
<1> HIDE DEF Key, R
<1>6. ASSUME NEW S, \A k \in R : k.no \in S PROVE h \in Injection(R, S)
  <2>1. h \in [R -> S]
    BY <1>6
  <2>2. \A a, b \in R : h[a] = h[b] => a = b
    BY <1>2
  <2> HIDE DEF h
  <2>. QED BY <2>1, <2>2, Zenon DEF Injection, IsInjective
<1> HIDE DEF h
<1>7. IsFiniteSet(R)
  <2>1. h \in Injection(R, 0 .. MaxRow)
    BY <1>2, <1>6, Zenon
  <2>2. IsFiniteSet(0 .. MaxRow)
    BY <1>5, FS_Interval
  <2>. QED BY <2>1, <2>2, FS_Injection, ZenonT(60)
<1>8. ~Has(st, Key(n))
  <2> SUFFICES ASSUME Has(st, Key(n)) PROVE FALSE
    OBVIOUS
  <2> DEFINE g == [i \in 0 .. n |-> Key(i)]
  <2>1. \A i \in 0 .. n : i \in 0 .. MaxRow /\ Key(i) \in R
    BY <1>3, <1>4, <1>5
  <2>2. \A i, j \in 0 .. n : Key(i) = Key(j) => i = j
    BY <1>1, <2>1, ZenonT(60)
  <2>3. g \in Injection(0 .. n, R)
    BY <2>1, <2>2 DEF Injection, IsInjective
  <2>4. Cardinality(0 .. n) <= Cardinality(R)
    BY <1>7, <2>3, FS_Injection, ZenonT(60)
  <2>5. Cardinality(0 .. n) = n + 1
    BY <1>5, FS_Interval
  <2>. QED BY <1>5, <2>4, <2>5
<1>9. ASSUME NEW j \in 0 .. MaxRow, j < n, ~Has(st, Key(j)) PROVE FALSE
  <2>1. \A k \in R : k.no \in 0 .. j - 1
    <3> TAKE k \in R
    <3>1. k.no \in 0 .. MaxRow /\ Has(st, Key(k.no))
      BY <1>2, <1>3, ZenonT(60)
    <3>2. ~(j < k.no) /\ j # k.no
      BY <1>4, <1>9, <3>1, ZenonT(60)
    <3>. QED BY <1>5, <1>9, <3>1, <3>2
  <2>2. h \in Injection(R, 0 .. j - 1)
    BY <1>6, <2>1, ZenonT(60)
  <2>3. IsFiniteSet(0 .. j - 1) /\ Cardinality(0 .. j - 1) = j
    <3>1. j - 1 \in Int /\ 0 \in Int /\ (j - 1) - 0 + 1 = j /\ (0 > j - 1 => j = 0)
      BY <1>5, <1>9
    <3>2. /\ IsFiniteSet(0 .. j - 1)
          /\ Cardinality(0 .. j - 1) = IF 0 > j - 1 THEN 0 ELSE (j - 1) - 0 + 1
      BY <3>1, FS_Interval, ZenonT(60)
    <3>. QED BY <3>1, <3>2, ZenonT(60)
  <2>4. Cardinality(R) <= j
    BY <2>2, <2>3, FS_Injection
  <2>. QED BY <1>5, <1>9, <2>4
<1>10. Below(st, Key(n))
  BY <1>1, <1>9, ZenonT(60) DEF Below, Key
<1>. QED BY <1>8, <1>10, ZenonT(60) DEF Key

LEMMA ListStepsKeepsT ==
  ASSUME IInv, TInv, NEW p \in Procs, ListSteps(p) PROVE TInv'
<1>1. /\ TypeOK /\ UNCHANGED <<flows, steps>> /\ pc[p] = "list_steps"
      /\ loc[p].next \in StepTypes
  BY Zenon DEF IInv, LocalOK, ListSteps
<1>2. loc[p] \in Locals /\ loc[p].step.flow \in Flows /\ NoGaps(steps)
  BY <1>1, OfHandler, OfTables, ZenonT(60)
<1>3. PICK n \in 0 .. MaxRow :
        /\ n = Cardinality(RowsOf(loc[p].step.flow, loc[p].next))
        /\ Goto(p, "create_step", Naming(loc[p], n))
  BY Zenon DEF ListSteps
<1> DEFINE k == [flow |-> loc[p].step.flow, type |-> loc[p].next, no |-> n]
           m == Naming(loc[p], n)
<1>4. m.step = k /\ m.mode = loc[p].mode
  BY <1>2 DEF Naming, Locals
<1>5. k.flow = loc[p].step.flow
  OBVIOUS
<1>6. ~Has(steps, k) /\ Below(steps, k)
  <2>1. RowsOf(loc[p].step.flow, loc[p].next)
          = {j \in StepKey : /\ Has(steps, j) /\ j.flow = loc[p].step.flow
                             /\ j.type = loc[p].next}
    BY DEF RowsOf, Exists, Has
  <2>. QED BY <1>1, <1>2, <1>3, <2>1, CountNames, Zenon
<1> HIDE DEF k, m
<1>7. Moving(pc[p], loc[p]) /\ ~Holding("create_step", m)
  BY <1>1, ZenonT(60) DEF Moving, Holding
<1>8. /\ Settled(steps, k.flow) /\ flows[k.flow].status # "ABSENT"
      /\ m.mode # "approve" /\ Owning(pc[p], loc[p])
  BY <1>1, <1>4, <1>5, <1>7, OfMoving, ZenonT(60)
<1>9. OwnerOK(p, steps, "create_step", m)
  BY <1>4, <1>6, <1>7, <1>8, ZenonT(60) DEF OwnerOK, Settled
<1>10. ThereOK(flows, "create_step", m)
  BY <1>4, <1>8, ZenonT(60) DEF ThereOK
<1>. QED BY <1>1, <1>3, <1>4, <1>5, <1>8, <1>9, <1>10, SameFlows, GoingOnKeepsT, ZenonT(60) DEF m

-----------------------------------------------------------------------------
(* The invariant.                                                          *)

LEMMA NextTInv ==
  ASSUME Disciplined, OneCaller, IInv, EInv, TInv, [Next]_vars
  PROVE  TInv'
<1>1. TypeOK
  BY DEF IInv
<1>2. CASE UNCHANGED vars
  BY <1>2, Zenon DEF vars, TInv
<1>3. CASE Next
  <2>1. PICK p \in Procs : \/ Enter(p)
                           \/ \E k \in StepKey : ClaimNextSystemStep(p, k)
                           \/ Continue(p)
                           \/ Abort(p)
    BY <1>3 DEF Next
  <2>2. CASE Enter(p)
    BY <1>1, <2>2, AddFlowKeepsT, SubmitKeepsT, ApproveKeepsT, ZenonT(60) DEF Enter
  <2>3. CASE Continue(p)
    BY <1>1, <2>3, HeldStepKeepsT, SelectKeepsT, PatchStepKeepsT, ContextKeepsT,
       ListStepsKeepsT, CreateStepKeepsT, UpdateFlowKeepsT, RestKeepsT, ZenonT(60) DEF Continue
  <2>. QED BY <1>1, <2>1, <2>2, <2>3, ClaimKeepsT, RestKeepsT, ZenonT(60)
<1>. QED BY <1>2, <1>3, ZenonT(60)

\* Every statement of every handler leaves each flow with at most one owner,
\* which knows the only open row: create_step, patch_step and the claim are
\* each made by the process whose turn it is, though none of them checks.
THEOREM OwnerInvariant ==
  ASSUME Disciplined, OneCaller PROVE Spec => []TInv
<1>1. IInv /\ EInv /\ TInv /\ [Next]_vars => TInv'
  BY NextTInv
<1>. QED BY <1>1, InitTInv, Invariant, ExecutorInvariant, PTL DEF Spec

\* Requests, approvals and workers write flow_step without a transaction; a
\* flow still has at most one step that is waiting or running, so that
\* "the current step" of a session is well defined.
THEOREM OneStepAtATime ==
  ASSUME Disciplined, OneCaller PROVE Spec => []OneOpenStep
<1>1. TInv => OneOpenStep
  BY ZenonT(60) DEF TInv, OneOpen, IsOpen, OneOpenStep, Open
<1>. QED BY <1>1, OwnerInvariant, PTL

\* A step that runs in the chain of a request is executed by that request
\* alone, too: create_step finds no row, because the flow is its own.
THEOREM ChainStepsRunOnce ==
  ASSUME Disciplined, OneCaller PROVE Spec => []OneExecutor
<1>1. ASSUME NEW p \in Procs, Executes(p) PROVE Owning(pc[p], loc[p])
  BY <1>1 DEF Executes, Owning, Holding
<1>2. TInv => OneExecutor
  BY <1>1, Zenon DEF TInv, OneExecutor
<1>. QED BY <1>2, OwnerInvariant, PTL

\* Without approvals, the row of a settled step is never written again: not
\* by a second worker, a retry, or a request that read it earlier.
THEOREM SettledForGood ==
  ASSUME Disciplined, OneCaller, Approvers = {} PROVE Spec => SettledStays
<1> DEFINE Stays == \A k \in StepKey : steps[k].status \in {"COMPLETED", "FAILED"}
                                         => steps'[k] = steps[k]
<1>1. ASSUME IInv, TInv, [Next]_vars, NEW k \in StepKey,
             steps[k].status \in {"COMPLETED", "FAILED"}
      PROVE  steps'[k] = steps[k]
  <2>1. steps \in [StepKey -> StepRow] /\ TypeOK
    BY <1>1 DEF IInv, TypeOK
  <2>2. \/ UNCHANGED steps
        \/ \E p \in Procs, j \in StepKey : ClaimNextSystemStep(p, j)
        \/ \E p \in Procs : PatchStep(p) \/ CreateStep(p)
    BY <1>1, OnlyThreeWrite
  <2>3. CASE \E p \in Procs, j \in StepKey : ClaimNextSystemStep(p, j)
    BY <1>1, <2>1, <2>3, ZenonT(60) DEF ClaimNextSystemStep, Due
  <2>4. ASSUME NEW p \in Procs, PatchStep(p) PROVE steps'[k] = steps[k]
    <3>1. OwnerOK(p, steps, pc[p], loc[p]) /\ pc[p] = "patch_step"
      BY <1>1, <2>1, <2>4, OfHandler, ZenonT(60) DEF PatchStep
    <3>2. Holding(pc[p], loc[p])
      BY <3>1, ZenonT(60) DEF OwnerOK, Holding, Rest
    <3>3. IsOpen(steps[loc[p].step])
      BY <3>1, <3>2, ZenonT(60) DEF OwnerOK
    <3>4. k # loc[p].step
      BY <1>1, <3>3 DEF IsOpen
    <3>. QED BY <2>1, <2>4, <3>4, ZenonT(60) DEF PatchStep
  <2>5. ASSUME NEW p \in Procs, CreateStep(p) PROVE steps'[k] = steps[k]
    BY <1>1, <2>1, <2>5 DEF CreateStep, Exists
  <2>. QED BY <2>2, <2>3, <2>4, <2>5, ZenonT(60)
<1>2. IInv /\ TInv /\ [Next]_vars => [Stays]_vars
  BY <1>1
<1>. QED BY <1>2, OwnerInvariant, Invariant, PTL DEF Spec, SettledStays

-----------------------------------------------------------------------------
(* Without approvals every retry is counted.  A worker counts from the     *)
(* number it read when it claimed the row, and a patch writes back the row *)
(* that was selected before it: CountOK says that neither number is old.   *)

CountOK(st, label, l) ==
  /\ label \in {"execute", "open_session", "list_steps", "create_step"} =>
       l.mode \in {"worker", "chain"}
  /\ label \in {"select_flow", "update_flow"} /\ l.write = "step" =>
       l.mode \in {"worker", "chain"}
  /\ label \in {"select_step", "patch_step"} /\ l.patch = "bump" =>
       l.mode = "worker"
  /\ /\ label \in {"get_flow", "get_session", "execute", "select_step", "patch_step"}
     /\ l.mode = "worker"
     => l.attempt_no = st[l.step].attempt_no
  /\ label = "patch_step" => l.step_row.attempt_no = st[l.step].attempt_no

CInv == \A p \in Procs : CountOK(steps, pc[p], loc[p])

\* The statements at which a handler relies on no number.
Aside(label, l) ==
  \/ label \in Rest \cup {"verify", "read_context", "write_context"}
  \/ label \in {"select_flow", "update_flow"} /\ l.write # "step"
  \/ label \in {"open_session", "list_steps"} /\ l.mode \in {"worker", "chain"}

StepsAside(p) == \E label, m : Goto(p, label, m) /\ Aside(label, m)

LEMMA AsideCounts ==
  ASSUME NEW st, NEW label, NEW m, Aside(label, m) PROVE CountOK(st, label, m)
BY ZenonT(60) DEF Aside, CountOK, Rest

LEMMA RestsAside == ASSUME NEW p, Rests(p) PROVE StepsAside(p)
BY ZenonT(60) DEF Rests, StepsAside, Aside

LEMMA AdvanceAside ==
  ASSUME NEW p, NEW l \in Locals, Advance(p, l) PROVE StepsAside(p)
<1> DEFINE m == [l EXCEPT !.write = "final", !.status = TerminalStatus(l.next)]
           n == [l EXCEPT !.mode = IF @ = "worker" THEN @ ELSE "chain"]
<1>1. Goto(p, "select_flow", m) \/ Goto(p, "list_steps", n)
  BY DEF Advance
<1>2. m.write = "final" /\ n.mode \in {"worker", "chain"}
  BY DEF Locals
<1> HIDE DEF m, n
<1>3. Aside("select_flow", m) /\ Aside("list_steps", n)
  BY <1>2, ZenonT(60) DEF Aside
<1>. QED BY <1>1, <1>3, ZenonT(60) DEF StepsAside

LEMMA ContextWriteAside ==
  ASSUME NEW p, NEW l \in Locals, Goto(p, "select_flow", [l EXCEPT !.write = "context"])
  PROVE  StepsAside(p)
<1> DEFINE m == [l EXCEPT !.write = "context"]
<1>1. m.write = "context" /\ Goto(p, "select_flow", m)
  BY DEF Locals
<1> HIDE DEF m
<1>. QED BY <1>1, ZenonT(60) DEF StepsAside, Aside

LEMMA AfterPatchAside ==
  ASSUME NEW p, NEW l \in Locals, AfterPatch(p, l) PROVE StepsAside(p)
<1>1. \/ Refresh(p, l, FALSE) \/ Return(p) \/ Advance(p, l)
      \/ Goto(p, "select_flow", [l EXCEPT !.write = "context"])
      \/ Goto(p, "read_context", l) \/ Goto(p, "write_context", l)
  BY ZenonT(60) DEF AfterPatch
<1>2. CASE Goto(p, "read_context", l) \/ Goto(p, "write_context", l)
  BY <1>2, ZenonT(60) DEF StepsAside, Aside
<1>. QED BY <1>1, <1>2, RefreshRests, ReturnRests, RestsAside, AdvanceAside,
            ContextWriteAside, ZenonT(60)

\* One step of p, after which the handlers of the others rely on the same.
LEMMA StepKeepsC ==
  ASSUME TypeOK, CInv, NEW p \in Procs, NEW label, NEW m, Goto(p, label, m),
         CountOK(steps', label, m),
         \A q \in Procs \ {p} : CountOK(steps', pc[q], loc[q])
  PROVE  CInv'
<1>1. /\ pc'[p] = label /\ loc'[p] = m
      /\ \A q \in Procs \ {p} : pc'[q] = pc[q] /\ loc'[q] = loc[q]
  BY GotoMoves DEF Others
<1>. QED BY <1>1, ZenonT(60) DEF CInv

LEMMA ReadKeepsC ==
  ASSUME TypeOK, CInv, NEW p \in Procs, NEW label, NEW m, Goto(p, label, m),
         CountOK(steps, label, m), UNCHANGED steps
  PROVE  CInv'
<1>1. \A q \in Procs : CountOK(steps, pc[q], loc[q])
  BY Zenon DEF CInv
<1>. QED BY <1>1, StepKeepsC, ZenonT(60)

LEMMA AsideKeepsC ==
  ASSUME TypeOK, CInv, NEW p \in Procs, StepsAside(p), UNCHANGED steps
  PROVE  CInv'
BY AsideCounts, ReadKeepsC, ZenonT(60) DEF StepsAside

\* The numbers a handler relies on are those of the row it holds.
LEMMA HeldNumberCounts ==
  ASSUME Approvers = {}, TypeOK, TInv, CInv, NEW q \in Procs,
         Holding(pc[q], loc[q]) =>
           steps'[loc[q].step].attempt_no = steps[loc[q].step].attempt_no
  PROVE  CountOK(steps', pc[q], loc[q])
<1>1. CountOK(steps, pc[q], loc[q]) /\ OwnerOK(q, steps, pc[q], loc[q])
  BY OfHandler, ZenonT(60) DEF CInv
<1>2. pc[q] = "patch_step" => Holding(pc[q], loc[q])
  BY <1>1, ZenonT(60) DEF OwnerOK, Holding, Rest
<1>3. /\ pc[q] \in {"get_flow", "get_session", "execute", "select_step", "patch_step"}
      /\ loc[q].mode = "worker"
      => Holding(pc[q], loc[q])
  BY ZenonT(60) DEF Holding
<1>4. pc[q] = "patch_step" => loc[q].step_row.attempt_no = steps'[loc[q].step].attempt_no
  BY <1>1, <1>2, ZenonT(60) DEF CountOK
<1>5. /\ pc[q] \in {"get_flow", "get_session", "execute", "select_step", "patch_step"}
      /\ loc[q].mode = "worker"
      => loc[q].attempt_no = steps'[loc[q].step].attempt_no
  BY <1>1, <1>3, ZenonT(60) DEF CountOK
<1>. QED BY <1>1, <1>4, <1>5, ZenonT(60) DEF CountOK

\* A handler is entered: of these only the claim reads a number.
LEMMA EnterKeepsC ==
  ASSUME Approvers = {}, TypeOK, CInv, NEW p \in Procs, Enter(p)
  PROVE  CInv'
<1>1. UNCHANGED steps
  BY Zenon DEF Enter, AddFlow, SubmitStep, SubmitAdminStep, ApproveStep
<1>2. ASSUME NEW f \in Flows, AddFlow(p, f) PROVE StepsAside(p)
  <2>1. PICK row : Goto(p, "open_session",
                        [NoLocals EXCEPT !.mode = "chain", !.flow = row,
                           !.step = [AnyKey EXCEPT !.flow = f],
                           !.next = InitialStep[f], !.more = TRUE])
    BY <1>2, Zenon DEF AddFlow
  <2> DEFINE m == [NoLocals EXCEPT !.mode = "chain", !.flow = row,
                     !.step = [AnyKey EXCEPT !.flow = f],
                     !.next = InitialStep[f], !.more = TRUE]
  <2>2. m.mode = "chain"
    BY DEF NoLocals
  <2> HIDE DEF m
  <2>. QED BY <2>1, <2>2, ZenonT(60) DEF m, StepsAside, Aside
<1>3. ASSUME NEW k \in StepKey, SubmitStep(p, k) \/ SubmitAdminStep(p, k)
      PROVE  CInv'
  <2>1. PICK mode \in {"bff", "staff"} :
          Goto(p, "get_flow", [NoLocals EXCEPT !.mode = mode, !.step = k, !.more = TRUE])
    BY <1>3, Zenon DEF SubmitStep, SubmitAdminStep
  <2> DEFINE m == [NoLocals EXCEPT !.mode = mode, !.step = k, !.more = TRUE]
  <2>2. m.mode \in {"bff", "staff"}
    BY DEF NoLocals
  <2> HIDE DEF m
  <2>3. CountOK(steps, "get_flow", m)
    BY <2>2, ZenonT(60) DEF CountOK
  <2>. QED BY <1>1, <2>1, <2>3, ReadKeepsC, ZenonT(60) DEF m
<1>4. ~\E k \in StepKey, d \in {"COMPLETED", "FAILED"} : ApproveStep(p, k, d)
  BY Zenon DEF ApproveStep
<1>. QED BY <1>1, <1>2, <1>3, <1>4, AsideKeepsC, ZenonT(60) DEF Enter

\* A claim changes no number, and its worker reads the one it finds.
LEMMA ClaimKeepsNumbers ==
  ASSUME TypeOK, NEW p, NEW k \in StepKey, ClaimNextSystemStep(p, k)
  PROVE  \A j \in StepKey : steps'[j].attempt_no = steps[j].attempt_no
<1>1. steps \in [StepKey -> StepRow] /\ steps' = [steps EXCEPT ![k] = ClaimedRow(steps[k])]
  BY DEF TypeOK, ClaimNextSystemStep
<1>2. ClaimedRow(steps[k]).attempt_no = steps[k].attempt_no
  BY <1>1 DEF ClaimedRow, StepRow
<1>3. /\ steps'[k] = ClaimedRow(steps[k])
      /\ \A j \in StepKey : j # k => steps'[j] = steps[j]
  BY <1>1, OneRow, Zenon
<1>. QED BY <1>2, <1>3, Zenon

LEMMA ClaimKeepsC ==
  ASSUME Approvers = {}, TypeOK, TInv, CInv, NEW p \in Procs, NEW k \in StepKey,
         ClaimNextSystemStep(p, k)
  PROVE  CInv'
<1> DEFINE m == [NoLocals EXCEPT !.mode = "worker", !.step = k, !.more = TRUE,
                                 !.attempt_no = steps[k].attempt_no]
<1>1. Goto(p, "get_flow", m)
  BY DEF ClaimNextSystemStep
<1>2. m.mode = "worker" /\ m.step = k /\ m.attempt_no = steps[k].attempt_no
  BY DEF NoLocals
<1> HIDE DEF m
<1>3. \A j \in StepKey : steps'[j].attempt_no = steps[j].attempt_no
  BY ClaimKeepsNumbers
<1>4. CountOK(steps', "get_flow", m)
  BY <1>2, <1>3, ZenonT(60) DEF CountOK
<1>5. \A q \in Procs : CountOK(steps', pc[q], loc[q])
  BY <1>3, OfHandler, HeldNumberCounts, ZenonT(60)
<1>. QED BY <1>1, <1>4, <1>5, StepKeepsC, ZenonT(60)

LEMMA ReadingKeepsC ==
  ASSUME TypeOK, EInv, CInv, NEW p \in Procs, GetFlow(p) \/ GetSession(p)
  PROVE  CInv'
<1>1. /\ loc[p] \in Locals /\ CountOK(steps, pc[p], loc[p]) /\ UNCHANGED steps
      /\ StageOK(pc[p], loc[p])
  BY ZenonT(60) DEF TypeOK, CInv, EInv, GetFlow, GetSession
<1>2. CASE GetFlow(p)
  <2> DEFINE m == [loc[p] EXCEPT !.flow = flows[loc[p].step.flow]]
  <2>1. /\ pc[p] = "get_flow"
        /\ Goto(p, "get_session", m) \/ Goto(p, "verify", m)
    BY <1>2 DEF GetFlow
  <2>2. m.mode = loc[p].mode /\ m.step = loc[p].step /\ m.attempt_no = loc[p].attempt_no
    BY <1>1 DEF Locals
  <2> HIDE DEF m
  <2>3. CountOK(steps, "get_session", m) /\ CountOK(steps, "verify", m)
    BY <1>1, <2>1, <2>2, ZenonT(60) DEF CountOK
  <2>. QED BY <1>1, <2>1, <2>3, ReadKeepsC, ZenonT(60)
<1>3. CASE GetSession(p)
  <2> DEFINE m == [loc[p] EXCEPT !.context = session.context]
  <2>1. pc[p] = "get_session" /\ Goto(p, "execute", m) /\ loc[p].mode = "worker"
    BY <1>1, <1>3, ZenonT(60) DEF GetSession, StageOK
  <2>2. m.mode = loc[p].mode /\ m.step = loc[p].step /\ m.attempt_no = loc[p].attempt_no
    BY <1>1 DEF Locals
  <2> HIDE DEF m
  <2>3. CountOK(steps, "execute", m)
    BY <1>1, <2>1, <2>2, ZenonT(60) DEF CountOK
  <2>. QED BY <1>1, <2>1, <2>3, ReadKeepsC, ZenonT(60)
<1>. QED BY <1>2, <1>3, ZenonT(60)

\* A step that is verified is not a worker's, and is not retried.
LEMMA VerifyKeepsC ==
  ASSUME TypeOK, EInv, CInv, NEW p \in Procs,
         VerifyAccepted(p) \/ VerifyRefused(p) \/ VerifyRejected(p)
  PROVE  CInv'
<1>1. /\ loc[p] \in Locals /\ loc[p].mode \notin {"chain", "worker"} /\ UNCHANGED steps
  BY ZenonT(60) DEF TypeOK, EInv, StageOK, VerifyAccepted, VerifyRefused, VerifyRejected
<1>2. ASSUME NEW m, Goto(p, "select_step", m), m.mode = loc[p].mode, m.patch # "bump"
      PROVE  CInv'
  <2>1. CountOK(steps, "select_step", m)
    BY <1>1, <1>2, ZenonT(60) DEF CountOK
  <2>. QED BY <1>1, <1>2, <2>1, ReadKeepsC, ZenonT(60)
<1>3. CASE VerifyAccepted(p)
  <2>1. PICK o : \/ Goto(p, "read_context", Completing(loc[p], o))
                 \/ Goto(p, "select_step", Completing(loc[p], o))
    BY <1>3, ZenonT(60) DEF VerifyAccepted
  <2>2. CASE Goto(p, "read_context", Completing(loc[p], o))
    BY <1>1, <2>2, AsideKeepsC, ZenonT(60) DEF StepsAside, Aside
  <2>3. CASE Goto(p, "select_step", Completing(loc[p], o))
    <3>1. Completing(loc[p], o).mode = loc[p].mode /\ Completing(loc[p], o).patch # "bump"
      BY <1>1, DecisionKeeps, ZenonT(60)
    <3>. QED BY <1>2, <2>3, <3>1, ZenonT(60)
  <2>. QED BY <2>1, <2>2, <2>3, ZenonT(60)
<1>4. CASE VerifyRefused(p)
  BY <1>1, <1>4, ReturnRests, RestsAside, AsideKeepsC, ZenonT(60) DEF VerifyRefused
<1>5. CASE VerifyRejected(p)
  <2> DEFINE m == [Failing(loc[p]) EXCEPT
                     !.more = Def[loc[p].step.type].on_failure # None]
  <2>1. Goto(p, "select_step", m)
    BY <1>5 DEF VerifyRejected
  <2>2. m.mode = loc[p].mode /\ m.patch # "bump"
    BY <1>1 DEF Failing, Locals
  <2> HIDE DEF m
  <2>. QED BY <2>1, <2>2, <1>2, ZenonT(60)
<1>. QED BY <1>3, <1>4, <1>5, ZenonT(60)

LEMMA ExecuteKeepsC ==
  ASSUME TypeOK, CInv, NEW p \in Procs,
         \/ ExecuteDone(p) \/ ExecuteWaiting(p)
         \/ ExecuteFailed(p) \/ ExecuteRetry(p)
  PROVE  CInv'
<1>1. /\ loc[p] \in Locals /\ CountOK(steps, pc[p], loc[p]) /\ UNCHANGED steps
      /\ pc[p] = "execute"
  BY ZenonT(60) DEF TypeOK, CInv, ExecuteDone, ExecuteWaiting, ExecuteFailed, ExecuteRetry
<1>2. PICK m : /\ Goto(p, "select_step", m)
               /\ m.mode = loc[p].mode /\ m.step = loc[p].step
               /\ m.attempt_no = loc[p].attempt_no
               /\ m.patch = "bump" => m.mode # "chain"
  BY <1>1, ExecuteGoes
<1>3. CountOK(steps, "select_step", m)
  BY <1>1, <1>2, ZenonT(60) DEF CountOK
<1>. QED BY <1>1, <1>2, <1>3, ReadKeepsC, ZenonT(60)

LEMMA SelectKeepsC ==
  ASSUME TypeOK, CInv, NEW p \in Procs, SelectStep(p) \/ SelectFlow(p)
  PROVE  CInv'
<1>1. loc[p] \in Locals /\ CountOK(steps, pc[p], loc[p]) /\ UNCHANGED steps
  BY ZenonT(60) DEF TypeOK, CInv, SelectStep, SelectFlow
<1>2. CASE SelectStep(p)
  <2> DEFINE m == [loc[p] EXCEPT !.step_row = steps[loc[p].step]]
  <2>1. pc[p] = "select_step" /\ Goto(p, "patch_step", m)
    BY <1>2 DEF SelectStep
  <2>2. /\ m.mode = loc[p].mode /\ m.step = loc[p].step /\ m.patch = loc[p].patch
        /\ m.attempt_no = loc[p].attempt_no /\ m.step_row = steps[m.step]
    BY <1>1 DEF Locals
  <2> HIDE DEF m
  <2>3. CountOK(steps, "patch_step", m)
    BY <1>1, <2>1, <2>2, ZenonT(60) DEF CountOK
  <2>. QED BY <1>1, <2>1, <2>3, ReadKeepsC, ZenonT(60)
<1>3. CASE SelectFlow(p)
  <2> DEFINE m == [loc[p] EXCEPT !.flow_row = flows[loc[p].step.flow]]
  <2>1. pc[p] = "select_flow" /\ Goto(p, "update_flow", m)
    BY <1>3 DEF SelectFlow
  <2>2. m.mode = loc[p].mode /\ m.write = loc[p].write
    BY <1>1 DEF Locals
  <2> HIDE DEF m
  <2>3. CountOK(steps, "update_flow", m)
    BY <1>1, <2>1, <2>2, ZenonT(60) DEF CountOK
  <2>. QED BY <1>1, <2>1, <2>3, ReadKeepsC, ZenonT(60)
<1>. QED BY <1>2, <1>3

\* A handler that patches has selected its row after everyone else wrote it.
LEMMA PatchedNumber ==
  ASSUME TypeOK, CInv, NEW p \in Procs, PatchStep(p)
  PROVE  /\ \A j \in StepKey : j # loc[p].step => steps'[j] = steps[j]
         /\ steps'[loc[p].step].attempt_no
              = IF loc[p].patch = "bump" THEN steps[loc[p].step].attempt_no + 1
                                         ELSE steps[loc[p].step].attempt_no
<1> DEFINE l == loc[p]
<1>1. /\ l \in Locals /\ l.step \in StepKey /\ l.step_row \in StepRow
      /\ CountOK(steps, "patch_step", l) /\ steps[l.step] \in StepRow
      /\ l.patch \in StepPatches /\ l.attempt_no \in Nat
  BY DEF TypeOK, CInv, PatchStep, Locals
<1>2. /\ steps'[l.step] = Patched(l)
      /\ \A j \in StepKey : j # l.step => steps'[j] = steps[j]
  BY <1>1, OneRow, ZenonT(60) DEF PatchStep, TypeOK
<1> HIDE DEF l
<1>3. /\ l.step_row.attempt_no = steps[l.step].attempt_no
      /\ l.patch = "bump" => l.attempt_no = steps[l.step].attempt_no
  BY <1>1, ZenonT(60) DEF CountOK
<1>4. CASE l.patch = "bump"
  <2>1. Patched(l).attempt_no = l.attempt_no + 1
    BY <1>1, <1>4, ZenonT(60) DEF Patched, StepRow
  <2>. QED BY <1>2, <1>3, <1>4, <2>1, ZenonT(60) DEF l
<1>5. CASE l.patch # "bump"
  <2>1. Patched(l).attempt_no = l.step_row.attempt_no
    BY <1>1, <1>5, ZenonT(60) DEF Patched, StepRow
  <2>. QED BY <1>2, <1>3, <1>5, <2>1, ZenonT(60) DEF l
<1>. QED BY <1>4, <1>5

LEMMA PatchStepKeepsC ==
  ASSUME Approvers = {}, TypeOK, TInv, CInv, NEW p \in Procs, PatchStep(p)
  PROVE  CInv'
<1>1. /\ OwnerOK(p, steps, pc[p], loc[p]) /\ loc[p] \in Locals /\ pc[p] = "patch_step"
      /\ AfterPatch(p, [loc[p] EXCEPT !.step_row = NoStepRow])
  BY OfHandler, ZenonT(60) DEF PatchStep
<1>2. Owning(pc[p], loc[p])
  BY <1>1, ZenonT(60) DEF OwnerOK, Owning, Holding, Rest
<1>3. [loc[p] EXCEPT !.step_row = NoStepRow] \in Locals
  BY <1>1, DefaultsOK DEF Locals
<1>4. PICK label, m : Goto(p, label, m) /\ Aside(label, m)
  BY <1>1, <1>3, AfterPatchAside, ZenonT(60) DEF StepsAside
<1>5. ASSUME NEW q \in Procs \ {p} PROVE CountOK(steps', pc[q], loc[q])
  <2>1. /\ Owning(pc[q], loc[q]) => loc[p].step.flow # loc[q].step.flow
        /\ loc[q].step \in StepKey
    BY <1>2, <1>5, OfHandler, ZenonT(60)
  <2>2. Holding(pc[q], loc[q]) => steps'[loc[q].step] = steps[loc[q].step]
    BY <2>1, PatchedNumber, ZenonT(60) DEF Owning
  <2>. QED BY <1>5, <2>2, HeldNumberCounts, ZenonT(60)
<1>. QED BY <1>4, <1>5, AsideCounts, StepKeepsC, ZenonT(60)

LEMMA ContextKeepsC ==
  ASSUME TypeOK, EInv, CInv, NEW p \in Procs, ReadContext(p) \/ WriteContext(p)
  PROVE  CInv'
<1>1. loc[p] \in Locals /\ UNCHANGED steps /\ StageOK(pc[p], loc[p])
  BY ZenonT(60) DEF TypeOK, EInv, ReadContext, WriteContext
<1>2. CASE ReadContext(p)
  BY <1>1, <1>2, AsideKeepsC, ZenonT(60) DEF ReadContext, StepsAside, Aside
<1>3. CASE WriteContext(p)
  <2>1. \/ Advance(p, loc[p])
        \/ Goto(p, "select_flow", [loc[p] EXCEPT !.write = "context"])
        \/ Goto(p, "select_step", loc[p]) /\ loc[p].mode # "worker"
    BY <1>3, ZenonT(60) DEF WriteContext
  <2>2. CASE Goto(p, "select_step", loc[p]) /\ loc[p].mode # "worker"
    <3>1. loc[p].patch = "COMPLETED"
      BY <1>1, <1>3, ZenonT(60) DEF StageOK, WriteContext
    <3>2. CountOK(steps, "select_step", loc[p])
      BY <2>2, <3>1, ZenonT(60) DEF CountOK
    <3>. QED BY <1>1, <2>2, <3>2, ReadKeepsC, ZenonT(60)
  <2>. QED BY <1>1, <2>1, <2>2, AdvanceAside, ContextWriteAside, AsideKeepsC, ZenonT(60)
<1>. QED BY <1>2, <1>3

LEMMA CreateKeepsC ==
  ASSUME Approvers = {}, TypeOK, TInv, CInv, NEW p \in Procs,
         ListSteps(p) \/ CreateStep(p)
  PROVE  CInv'
<1>1. loc[p] \in Locals /\ CountOK(steps, pc[p], loc[p])
  BY ZenonT(60) DEF TypeOK, CInv
<1>2. CASE ListSteps(p)
  <2>1. PICK n : Goto(p, "create_step", Naming(loc[p], n))
    BY <1>2, Zenon DEF ListSteps
  <2>2. pc[p] = "list_steps" /\ UNCHANGED steps
    BY <1>2 DEF ListSteps
  <2>3. Naming(loc[p], n).mode = loc[p].mode
    BY <1>1 DEF Naming, Locals
  <2>4. CountOK(steps, "create_step", Naming(loc[p], n))
    BY <1>1, <2>2, <2>3, ZenonT(60) DEF CountOK
  <2>. QED BY <2>1, <2>2, <2>4, ReadKeepsC, ZenonT(60)
<1>3. CASE CreateStep(p)
  <2> DEFINE m == [loc[p] EXCEPT !.write = "step"]
  <2>1. pc[p] = "create_step" /\ Goto(p, "select_flow", m)
    BY <1>3 DEF CreateStep
  <2>2. m.mode = loc[p].mode
    BY <1>1 DEF Locals
  <2> HIDE DEF m
  <2>3. CountOK(steps', "select_flow", m)
    BY <1>1, <2>1, <2>2, ZenonT(60) DEF CountOK
  <2>4. \A j \in StepKey : Has(steps, j) => steps'[j] = steps[j]
    BY <1>3 DEF CreateStep, Exists, Has, TypeOK
  <2>5. ASSUME NEW q \in Procs PROVE CountOK(steps', pc[q], loc[q])
    <3>1. Holding(pc[q], loc[q]) => Has(steps, loc[q].step) /\ loc[q].step \in StepKey
      BY <2>5, OfHandler, ZenonT(60) DEF OwnerOK
    <3>. QED BY <2>4, <2>5, <3>1, HeldNumberCounts, ZenonT(60)
  <2>. QED BY <2>1, <2>3, <2>5, StepKeepsC, ZenonT(60)
<1>. QED BY <1>2, <1>3, ZenonT(60)

\* A handler that moves its flow to a new step executes it only in a chain.
LEMMA UpdateFlowKeepsC ==
  ASSUME IInv, CInv, NEW p \in Procs, UpdateFlow(p) PROVE CInv'
<1> DEFINE row == Updated(loc[p])
           l == Copied(loc[p], row, NoFlowRow)
<1>1. /\ TypeOK /\ CountOK(steps, pc[p], loc[p]) /\ LocalOK(steps, pc[p], loc[p])
  BY Zenon DEF IInv, CInv
<1>2. loc[p] \in Locals
  BY <1>1 DEF TypeOK
<1>3. pc[p] = "update_flow" /\ UNCHANGED steps /\ AfterUpdate(p, l)
  BY ZenonT(60) DEF UpdateFlow, Copied
<1>4. row \in FlowRow
  BY <1>1, <1>2, <1>3, UpdatedOK, ZenonT(60)
<1>5. l \in Locals /\ l.mode = loc[p].mode /\ l.write = loc[p].write
  BY <1>2, <1>4, DefaultsOK, Zenon DEF Copied, Locals
<1> HIDE DEF row, l
<1>6. \/ Advance(p, l)
      \/ Return(p) \/ Refresh(p, l, FALSE) \/ AfterFinal(p, l)
      \/ Goto(p, "read_kyc", l)
      \/ l.write = "step" /\ l.mode # "worker" /\ Goto(p, "execute", l)
  BY <1>3, ZenonT(60) DEF AfterUpdate
<1>7. CASE Goto(p, "read_kyc", l)
  BY <1>1, <1>3, <1>7, AsideKeepsC, ZenonT(60) DEF StepsAside, Aside, Rest
<1>8. CASE l.write = "step" /\ l.mode # "worker" /\ Goto(p, "execute", l)
  <2>1. CountOK(steps, "execute", l)
    BY <1>1, <1>3, <1>5, <1>8, ZenonT(60) DEF CountOK
  <2>. QED BY <1>1, <1>3, <1>8, <2>1, ReadKeepsC, ZenonT(60)
<1>9. CASE Advance(p, l) \/ Return(p) \/ Refresh(p, l, FALSE) \/ AfterFinal(p, l)
  <2>1. StepsAside(p)
    BY <1>5, <1>9, AdvanceAside, ReturnRests, RefreshRests, AfterFinalRests, RestsAside,
       ZenonT(60)
  <2>. QED BY <1>1, <1>3, <2>1, AsideKeepsC, ZenonT(60)
<1>. QED BY <1>6, <1>7, <1>8, <1>9, ZenonT(60)

LEMMA RestKeepsC ==
  ASSUME TypeOK, CInv, NEW p \in Procs,
         \/ OpenSession(p) \/ ReadKyc(p) \/ WriteKyc(p) \/ ListFlows(p)
         \/ WriteStatus(p) \/ Abort(p)
  PROVE  CInv'
<1>1. UNCHANGED steps /\ CountOK(steps, pc[p], loc[p])
  BY ZenonT(60) DEF CInv, OpenSession, ReadKyc, WriteKyc, ListFlows, WriteStatus, Abort
<1>2. CASE OpenSession(p)
  <2>1. pc[p] = "open_session" /\ Goto(p, "list_steps", loc[p])
    BY <1>2 DEF OpenSession
  <2>2. CountOK(steps, "list_steps", loc[p])
    BY <1>1, <2>1, ZenonT(60) DEF CountOK
  <2>. QED BY <1>1, <2>1, <2>2, ReadKeepsC, ZenonT(60)
<1>3. CASE ReadKyc(p) \/ ListFlows(p)
  <2>1. Rests(p)
    BY <1>3 DEF ReadKyc, ListFlows, Rests, Rest
  <2>. QED BY <1>1, <2>1, RestsAside, AsideKeepsC, ZenonT(60)
<1>4. CASE WriteKyc(p) \/ WriteStatus(p) \/ Abort(p)
  <2>1. AfterFinal(p, loc[p]) \/ Refresh(p, loc[p], FALSE) \/ Return(p)
    BY <1>4, Zenon DEF WriteKyc, WriteStatus, Abort
  <2>2. Rests(p)
    BY <2>1, AfterFinalRests, RefreshRests, ReturnRests, Zenon
  <2>. QED BY <1>1, <2>2, RestsAside, AsideKeepsC
<1>. QED BY <1>2, <1>3, <1>4

LEMMA NextCInv ==
  ASSUME Approvers = {}, IInv, EInv, TInv, CInv, [Next]_vars
  PROVE  CInv'
<1>1. TypeOK
  BY DEF IInv
<1>2. CASE UNCHANGED vars
  BY <1>2, Zenon DEF vars, CInv
<1>3. CASE Next
  <2>1. PICK p \in Procs : \/ Enter(p)
                           \/ \E k \in StepKey : ClaimNextSystemStep(p, k)
                           \/ Continue(p)
                           \/ Abort(p)
    BY <1>3 DEF Next
  <2>2. CASE Continue(p)
    BY <1>1, <2>2, ReadingKeepsC, VerifyKeepsC, ExecuteKeepsC, SelectKeepsC,
       PatchStepKeepsC, ContextKeepsC, CreateKeepsC, UpdateFlowKeepsC, RestKeepsC,
       ZenonT(60) DEF Continue
  <2>. QED BY <1>1, <2>1, <2>2, EnterKeepsC, ClaimKeepsC, RestKeepsC, ZenonT(60)
<1>. QED BY <1>2, <1>3, ZenonT(60)

\* A step is retried no more often than its definition allows: every retry a
\* worker schedules raises attempt_no by one, nothing lowers it again, though
\* each patch writes a whole row selected earlier, and it never passes the
\* maximum.  Executions that answer Waiting, and steps a chain leaves to the
\* workers, are not retries and are not counted.
THEOREM RetriesBounded ==
  ASSUME Disciplined, OneCaller, Approvers = {}
  PROVE  Spec => []AttemptsBounded /\ RetriesCounted
<1> DEFINE Counted ==
      \A k \in StepKey :
        Exists(k) => steps'[k].attempt_no = IF RetryScheduled(k)
                                            THEN steps[k].attempt_no + 1
                                            ELSE steps[k].attempt_no
<1>1. ASSUME TypeOK, CInv, [Next]_vars, NEW k \in StepKey, Exists(k)
      PROVE  steps'[k].attempt_no = IF RetryScheduled(k)
                                    THEN steps[k].attempt_no + 1
                                    ELSE steps[k].attempt_no
  <2>1. steps \in [StepKey -> StepRow]
    BY <1>1 DEF TypeOK
  <2>2. CASE RetryScheduled(k)
    <3>1. PICK p \in Procs : PatchStep(p) /\ loc[p].patch = "bump" /\ loc[p].step = k
      BY <2>2 DEF RetryScheduled
    <3>2. steps'[k].attempt_no = steps[k].attempt_no + 1
      BY <1>1, <3>1, PatchedNumber, ZenonT(60)
    <3>. QED BY <2>2, <3>2, ZenonT(60)
  <2>3. CASE ~RetryScheduled(k)
    <3>1. \/ UNCHANGED steps
          \/ \E p \in Procs, j \in StepKey : ClaimNextSystemStep(p, j)
          \/ \E p \in Procs : PatchStep(p) \/ CreateStep(p)
      BY <1>1, OnlyThreeWrite
    <3>2. ASSUME NEW p \in Procs, NEW j \in StepKey, ClaimNextSystemStep(p, j)
          PROVE  steps'[k].attempt_no = steps[k].attempt_no
      BY <1>1, <3>2, ClaimKeepsNumbers, ZenonT(60)
    <3>3. ASSUME NEW p \in Procs, PatchStep(p)
          PROVE  steps'[k].attempt_no = steps[k].attempt_no
      <4>1. CASE loc[p].step # k
        BY <1>1, <3>3, <4>1, PatchedNumber, ZenonT(60)
      <4>2. CASE loc[p].step = k
        <5>1. loc[p].patch # "bump"
          BY <2>3, <3>3, <4>2, ZenonT(60) DEF RetryScheduled
        <5>. QED BY <1>1, <3>3, <4>2, <5>1, PatchedNumber, ZenonT(60)
      <4>. QED BY <4>1, <4>2, ZenonT(60)
    <3>4. ASSUME NEW p \in Procs, CreateStep(p)
          PROVE  steps'[k].attempt_no = steps[k].attempt_no
      BY <1>1, <2>1, <3>4, ZenonT(60) DEF CreateStep, Exists
    <3>5. steps'[k].attempt_no = steps[k].attempt_no
      BY <3>1, <3>2, <3>3, <3>4, ZenonT(60)
    <3>. QED BY <2>3, <3>5, ZenonT(60)
  <2>. QED BY <2>2, <2>3, ZenonT(60)
<1>2. IInv /\ CInv /\ [Next]_vars => [Counted]_vars
  BY <1>1 DEF IInv
<1>3. Init => CInv
  BY AsideCounts, ZenonT(60) DEF Init, CInv, Aside, Rest
<1>4. IInv /\ EInv /\ TInv /\ CInv /\ [Next]_vars => CInv'
  BY NextCInv
<1>. QED BY <1>2, <1>3, <1>4, OwnerInvariant, Invariant, ExecutorInvariant,
            NumbersBounded, PTL DEF Spec, RetriesCounted
=============================================================================
