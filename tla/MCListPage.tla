------------------------------ MODULE MCListPage ------------------------------
(***************************************************************************)
(* The pages, and who uses them, for model checking: a user who waits for  *)
(* each list and one who does not ("hurry").                               *)
(***************************************************************************)
EXTENDS ListPage

Setup(kind, set, n, fails) ==
    [kind |-> kind, acts |-> set, maxActs |-> n, failures |-> fails]
MCSetups ==
    {Setup("workflows", {"search", "mine", "tags", "page", "field", "reload"}, 5, TRUE),
     Setup("workflows", {"search", "mine", "tags", "page", "field", "clear", "reload",
                         "history", "hurry"}, 5, FALSE),
     Setup("items", {"search", "mine", "tags", "page", "clear", "field", "reload",
                     "hurry"}, 4, FALSE),
     Setup("crawls", {"search", "status", "page", "direction", "delete", "history",
                      "reload", "hurry"}, 4, TRUE),
     Setup("profiles", {"search", "mine", "page", "clear", "field", "history", "delete",
                        "reload", "hurry"}, 4, FALSE)}
===============================================================================
