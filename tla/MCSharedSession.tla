-------------------------- MODULE MCSharedSession --------------------------
(***************************************************************************)
(* How a browser's tabs are used, for model checking: two tabs of one      *)
(* user, whose sessions follow each other, and one tab of two users.       *)
(***************************************************************************)
EXTENDS SharedSession

CONSTANTS t1, u1

TwoTabs(happen, n) ==
    [tabs |-> Tabs, users |-> {u1}, events |-> happen, maxEvents |-> n, tokens |-> 2,
     fetches |-> 1]
MCSetups ==
    {TwoTabs({"open", "login", "age", "hide"}, 4),
     TwoTabs({"open", "reload", "login", "logout"}, 5),
     TwoTabs({"open", "reload", "login", "logout", "age"}, 4),
     [tabs |-> {t1}, users |-> Users, events |-> EventNames, maxEvents |-> 9, tokens |-> 4,
      fetches |-> 2]}
===========================================================================
