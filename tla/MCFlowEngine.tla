---------------------------- MODULE MCFlowEngine ----------------------------
(***************************************************************************)
(* Instances of FlowEngine.  The definitions are the shipped YAML flows    *)
(* with the steps of the same kind that follow one another merged.         *)
(***************************************************************************)
EXTENDS FlowEngine

CONSTANTS f1, f2, c1, c2, s1, w1, w2, a1

NoBranch == [b \in BranchNames |-> None]

Base == [actor |-> "SYSTEM", async |-> FALSE, max |-> 1,
         on_success |-> "COMPLETED", on_failure |-> None,
         branches |-> NoBranch, execute |-> {"Done"}, verify |-> {"Done"},
         session_patch |-> FALSE]

\* flows/first_deposit.yaml: the client opens, a lookup runs in the request,
\* staff decide, the decision is routed, and two webhooks run in the worker,
\* of which only the first is configured async.  The steps on either branch
\* of the decision, upgrade_full_name and close_session, both patch the
\* session context.
DepositSteps == {"init", "lookup", "review", "decide", "register", "deposit"}

DepositDef ==
  [t \in DepositSteps |->
    CASE t = "init" -> [Base EXCEPT !.actor = "END_USER",
                                    !.on_success = "lookup"]
      [] t = "lookup" -> [Base EXCEPT !.on_success = "review",
                                      !.session_patch = TRUE]
      [] t = "review" -> [Base EXCEPT !.actor = "ADMIN",
                                      !.on_success = "decide"]
      [] t = "decide" -> [Base EXCEPT !.execute = {"approved", "rejected"},
                            !.branches = [approved |-> "register",
                                          rejected |-> "CLOSED"],
                            !.session_patch = TRUE, !.on_failure = "FAILED"]
      [] t = "register" -> [Base EXCEPT !.async = TRUE, !.max = 2,
                              !.execute = {"Done", "FailedRetryable"},
                              !.on_success = "deposit",
                              !.on_failure = "FAILED"]
      [] t = "deposit" -> [Base EXCEPT !.max = 2,
                             !.execute = {"Done", "FailedRetryable"},
                             !.on_success = "COMPLETE",
                             !.on_failure = "FAILED"]]

\* Two steps with every outcome the engine tells apart.
AskSteps == {"ask", "call"}

AskDef ==
  [t \in AskSteps |->
    IF t = "ask"
    THEN [Base EXCEPT !.actor = "ADMIN", !.on_success = "call",
                      !.verify = {"Done", "Failed"},
                      !.on_failure = "CLOSED"]
    ELSE [Base EXCEPT !.execute = {"Done", "Waiting", "Retry", "Failed"},
                      !.on_success = "END", !.on_failure = "ask"]]

\* One question, then one webhook in the worker.
CallSteps == AskSteps

CallDef ==
  [t \in CallSteps |->
    IF t = "ask"
    THEN [Base EXCEPT !.actor = "END_USER", !.on_success = "call"]
    ELSE [Base EXCEPT !.async = TRUE, !.max = 2,
                      !.execute = {"Done", "FailedRetryable", "Retry"},
                      !.on_success = "END", !.on_failure = "FAILED",
                      !.session_patch = TRUE]]

\* flows/id_document.yaml: a rejected document goes back to the client; the
\* last step is called complete, which the executor reads as the end.
DocumentSteps == {"submit", "review", "complete"}

DocumentDef ==
  [t \in DocumentSteps |->
    CASE t = "submit" -> [Base EXCEPT !.actor = "END_USER",
                            !.verify = {"Done", "Failed", "Waiting"},
                            !.on_success = "review"]
      [] t = "review" -> [Base EXCEPT !.actor = "ADMIN",
                            !.verify = {"Done", "Failed", "Retry"},
                            !.on_success = "complete",
                            !.on_failure = "submit"]
      [] t = "complete" -> [Base EXCEPT !.session_patch = TRUE]]

SubmitFirst == [f \in Flows |-> "submit"]

NoBranches == {}
AskFirst == [f \in Flows |-> "ask"]

DepositBranches == {"approved", "rejected"}
InitSteps == [f \in Flows |-> "init"]
=============================================================================
