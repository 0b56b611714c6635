----------------------------- MODULE Definitions -----------------------------
(***************************************************************************)
(* How the server comes by its flows at start: the loader reads the files  *)
(* of the flow and session directories, the import validates each, and     *)
(* build_registry registers them and the definitions given on the command  *)
(* line.  A file is named; FlowFiles and SessionFiles say what it parses   *)
(* to, after environment substitution.                                     *)
(***************************************************************************)
EXTENDS Naturals, SequencesExt

CONSTANTS
  FlowFiles,      \* [file -> FlowDefinition or Unparsable]
  SessionFiles,   \* [file -> SessionDefinition or Unparsable]
  Unparsable,     \* what serde refuses
  Absent          \* None, in a definition

BuiltinActions ==
  {"NOOP", "ERROR", "RETRY", "WAIT", "SET", "MAP", "GENERATE_OTP",
   "VERIFY_OTP", "GET_USER", "DEBUG_LOG", "CONDITIONAL",
   "UPDATE_USER_METADATA", "update-phone-number", "CLOSE_SESSION",
   "UPLOAD_DOCUMENT", "REVIEW_DOCUMENT", "VALIDATE_DEPOSIT",
   "UPGRADE_FULL_NAME", "RESOLVE_RECIPIENT", "WEBHOOK_HTTP"}

\* Compared in upper case; the spellings that are used.
IsTerminalTarget(t) ==
  t \in {"FAILED", "END", "COMPLETE", "complete", "COMPLETED", "CLOSED"}

StepTargets(s) == ({s.next, s.ok, s.fail} \cup Range(s.branches)) \ {Absent}

\* validate_flow_definition
Valid(d) ==
  /\ d.flow_type # "" /\ DOMAIN d.steps # {}
  /\ \A n \in DOMAIN d.steps : d.steps[n].action # ""
  /\ d.initial_step \in DOMAIN d.steps
  /\ \A n \in DOMAIN d.steps : \A t \in StepTargets(d.steps[n]) :
       IsTerminalTarget(t) \/ t \in DOMAIN d.steps

\* Faulty variant: the targets are not looked at.
ImportsUnchecked(file) ==
  FlowFiles[file] # Unparsable /\ FlowFiles[file].flow_type # ""

\* import_flow_definition succeeds.
Imports(file) == FlowFiles[file] # Unparsable /\ Valid(FlowFiles[file])

ImportsSession(file) ==
  SessionFiles[file] # Unparsable /\ SessionFiles[file].session_type # ""

\* load_flows_from_dir: a file that does not import is left out.
LoadFlows(dir) == SelectSeq(dir, Imports)
LoadSessions(dir) == SelectSeq(dir, ImportsSession)

\* A directory that does not exist is an empty one.
LoadFromFs(given) == [flows |-> LoadFlows(given.flows),
                      sessions |-> LoadSessions(given.sessions)]

NoRegistry == [ok |-> TRUE, flows |-> << >>, sessions |-> << >>]

With(f, k, v) == [x \in DOMAIN f \cup {k} |-> IF x = k THEN v ELSE f[x]]

\* register_flow_definition: a type that is taken or an action that is not
\* registered fails the boot.
RegisterFlow(registry, file) ==
  LET d == FlowFiles[file]
      fits == /\ registry.ok /\ d.flow_type \notin DOMAIN registry.flows
              /\ \A n \in DOMAIN d.steps : d.steps[n].action \in BuiltinActions
  IN  [registry EXCEPT !.ok = fits,
                       !.flows = IF fits THEN With(@, d.flow_type, d) ELSE @]

\* A session of the directory replaces one of its type ...
RegisterSession(registry, file) ==
  [registry EXCEPT !.sessions =
     With(@, SessionFiles[file].session_type, SessionFiles[file])]

\* ... an imported one fails the boot.
ImportSession(registry, file) ==
  IF registry.ok /\ SessionFiles[file].session_type \notin DOMAIN registry.sessions
  THEN RegisterSession(registry, file)
  ELSE [registry EXCEPT !.ok = FALSE]

\* load_imports: one file of the command line that does not import ends the
\* process.
LoadImports(given) ==
  /\ \A f \in Range(given.import_flows) : Imports(f)
  /\ \A f \in Range(given.import_sessions) : ImportsSession(f)

\* load_imports, then build_registry.
BuildRegistry(given) ==
  LET start == [NoRegistry EXCEPT !.ok = LoadImports(given)]
      files == LoadFromFs(given)
      yaml == FoldLeft(RegisterSession,
                       FoldLeft(RegisterFlow, start, files.flows), files.sessions)
      imported == FoldLeft(RegisterFlow, yaml, given.import_flows)
  IN  FoldLeft(ImportSession, imported, given.import_sessions)

\* What the engine looks up.
Definition(registry, type) == registry.flows[type]

StepOf(registry, type, step) == Definition(registry, type).steps[step]

HasStep(registry, type, step) == step \in DOMAIN Definition(registry, type).steps

\* A session type nobody registered, or one with no allowed_flows, takes any.
Allowed(registry, session_type, flow_type) ==
  session_type \in DOMAIN registry.sessions =>
    LET allowed == registry.sessions[session_type].allowed_flows
    IN  allowed = {} \/ flow_type \in allowed

OnSuccess(s) == CASE s.next # Absent -> s.next
                  [] s.next = Absent /\ s.ok # Absent -> s.ok
                  [] OTHER -> "COMPLETED"

\* resolve_transition; Absent is None.
Transition(registry, type, step, branch, failed) ==
  LET s == StepOf(registry, type, step)
  IN  IF branch \in DOMAIN s.branches THEN s.branches[branch]
      ELSE IF failed THEN s.fail ELSE OnSuccess(s)

FinalStatus(target) ==
  CASE target = "FAILED" -> "FAILED" [] target = "CLOSED" -> "CLOSED"
    [] OTHER -> "COMPLETED"

RunsAsync(s) == s.actor = "SYSTEM" /\ s.async
=============================================================================
