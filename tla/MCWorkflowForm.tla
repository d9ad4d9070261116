--------------------------- MODULE MCWorkflowForm ---------------------------
(***************************************************************************)
(* What the user of the workflow form works on, for model checking.        *)
(***************************************************************************)
EXTENDS WorkflowForm

MCTopics == {{"url", "urls", "includes"}, {"url", "urls", "files"},
             {"url", "urls", "options"}, {"url", "urls", "site"},
             {"url", "browser", "dedupe"}}
=============================================================================
