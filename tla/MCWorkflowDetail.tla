--------------------------- MODULE MCWorkflowDetail ---------------------------
(***************************************************************************)
(* How the page of a workflow is used, for model checking.                 *)
(***************************************************************************)
EXTENDS WorkflowDetail

Setup(crawls_, uses_, ops, errors) ==
    [crawls |-> crawls_, uses |-> uses_, ops |-> ops, errors |-> errors]
MCSetups ==
    {Setup(2, 0, {}, FALSE),
     Setup(1, 2, {"pauseResume"}, FALSE),
     Setup(2, 1, {"run", "edit"}, TRUE),
     Setup(1, 1, Ops, FALSE)}
=============================================================================
