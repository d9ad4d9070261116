------------------------------ MODULE MCSchedule ------------------------------
(***************************************************************************)
(* Time zones, hours and cron expressions for model checking.              *)
(***************************************************************************)
EXTENDS Schedule

MCZones == {-8, 9}
\* The morning of the last day of February, and noon of a day in July.
MCNows == {24 * 58 + 10, 24 * 199 + 12}
\* Every hour; Sundays and Mondays at 9; the 15th at 12; two days a week; two hours a day.
MCCustoms ==
    {Cron(Star, Star, Star), Cron({9}, Star, {0}), Cron({9}, Star, {1}), Cron({12}, {15}, Star),
     Cron({9}, Star, {1, 3}), Cron({0, 12}, Star, Star)}
==============================================================================
