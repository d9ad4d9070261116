----------------------------- MODULE MCItemReview -----------------------------
(***************************************************************************)
(* How a crawl is reviewed, for model checking: by a reviewer who waits,   *)
(* with a service worker that is there; and by one who does not, while     *)
(* requests fail, with one that comes with the page.                       *)
(***************************************************************************)
EXTENDS ItemReview

OneRun == {CHOOSE r \in Runs : TRUE}
Setup(there, runs, tabs, n, set) ==
    [worker |-> there, runs |-> runs, tabs |-> tabs, acts |-> n, lapses |-> set]
MCSetups ==
    {Setup(TRUE, Runs, {"screenshots", "text"}, 3, {}),
     Setup(TRUE, Runs, {"screenshots", "replay"}, 3, {"replay"}),
     Setup(FALSE, OneRun, {"screenshots", "replay"}, 2, {"hasty", "replay"}),
     Setup(FALSE, Runs, {"text"}, 1, {"fault"})}
=============================================================================
