----------------------------- MODULE MCCarlyEconomy ----------------------------
(* Instances of CarlyEconomy for TLC. *)
EXTENDS CarlyEconomy

\* A task with its subtask.
TaskJobs == {<<"task_completed", 1>>, <<"subtask_completed", 1>>}

\* Two projects, together worth a level.
ProjectJobs == {<<"project_completed", 1>>, <<"project_completed", 2>>}

\* The next day, and, after a day without work, the one after that.
NextDays == {3 * Day + 1, 5 * Day}
================================================================================
