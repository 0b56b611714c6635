----------------------------- MODULE FlowRules -----------------------------
(***************************************************************************)
(* The pure rules of the flow engine: what a flow definition is, how the   *)
(* next step is found, which targets end a flow, and how the status of a   *)
(* session follows from its flows.  A definition is the YAML file after    *)
(* register_flow_definition: every step has an on_success target, may have *)
(* an on_failure target and named branches.                                *)
(***************************************************************************)
EXTENDS Naturals

CONSTANTS
  StepTypes,    \* the step names of the flow definitions in play
  BranchNames,  \* the branch names their actions can answer
  Def           \* [StepTypes -> StepDef], the registered definition

None == "NONE"

\* Names that end a flow, compared with eq_ignore_ascii_case in the code.
TerminalNames ==
  {"FAILED", "END", "COMPLETE", "complete", "COMPLETED", "CLOSED"}

Targets == StepTypes \cup TerminalNames

\* StepOutcome: a branch name stands for Branched { branch }.
Outcomes == {"Done", "Waiting", "Failed", "FailedRetryable", "Retry"}
              \cup BranchNames

Actors == {"SYSTEM", "ADMIN", "END_USER"}

StepDef ==
  [actor : Actors,
   async : BOOLEAN,                          \* config.async
   max : Nat,                                \* retry.max
   on_success : Targets,
   on_failure : Targets \cup {None},
   branches : [BranchNames -> Targets \cup {None}],
   execute : SUBSET Outcomes,                \* what execute may answer
   verify : SUBSET Outcomes,                 \* what verify_input may answer
   session_patch : BOOLEAN]                  \* updates.session_context_patch

ASSUME DefAssumption ==
  /\ Def \in [StepTypes -> StepDef]
  /\ None \notin Targets /\ "FAILED" \notin StepTypes
  /\ BranchNames \cap {"Done", "Waiting", "Failed", "FailedRetryable",
                       "Retry"} = {}

FlowTerminal == {"COMPLETED", "FAILED", "CLOSED"}
FlowStatuses == {"ABSENT", "RUNNING"} \cup FlowTerminal
SessionStatuses == {"OPEN", "RUNNING"} \cup FlowTerminal
StepStatuses == {"ABSENT", "WAITING", "RUNNING", "COMPLETED", "FAILED"}

IsTerminalStep(target) == target \in TerminalNames

HasFlowStep(target) == target \in StepTypes

\* Faulty variant: the target's name is written as the status.
TerminalStatusRaw(target) == target

TerminalStatus(target) ==
  CASE target = "FAILED" -> "FAILED"
    [] target = "CLOSED" -> "CLOSED"
    [] OTHER             -> "COMPLETED"

\* resolve_transition: a named branch wins, then on_failure or on_success.
ResolveTransition(type, outcome, failed) ==
  IF outcome \in BranchNames /\ Def[type].branches[outcome] # None
  THEN Def[type].branches[outcome]
  ELSE IF failed THEN Def[type].on_failure ELSE Def[type].on_success

\* Where a failed step goes: its on_failure target, or the end of the flow.
FailureTarget(type) ==
  IF ResolveTransition(type, "Failed", TRUE) = None
  THEN "FAILED"
  ELSE ResolveTransition(type, "Failed", TRUE)

RunsAsync(type) == Def[type].actor = "SYSTEM" /\ Def[type].async

RunsInChain(type) == Def[type].actor = "SYSTEM" /\ ~Def[type].async

IsDone(outcome) == outcome = "Done" \/ outcome \in BranchNames

IsFailed(outcome) == outcome \in {"Failed", "FailedRetryable"}

\* refresh_session_status: the status of a session whose flows have the
\* statuses in S.
SessionStatus(S) ==
  CASE S = {}                          -> "OPEN"
    [] "RUNNING" \in S                 -> "RUNNING"
    [] "RUNNING" \notin S /\ "FAILED" \in S -> "FAILED"
    [] S = {"COMPLETED"}               -> "COMPLETED"
    [] S # {} /\ S \subseteq {"COMPLETED", "CLOSED"} /\ "CLOSED" \in S
                                       -> "CLOSED"
    [] OTHER                           -> "OPEN"
=============================================================================
