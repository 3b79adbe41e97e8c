--------------------------- MODULE MCScheduleRuns ---------------------------
(* ScheduleRuns for TLC: two cadences over a short clock. *)
EXTENDS ScheduleRuns, TLC

\* Every second instant, and an uneven calendar; both reach past any MaxNow used.
Even   == {2, 4, 6, 8}
Uneven == {2, 3, 4, 8}
BothCadences == {Even, Uneven}
OneCadence   == {Even}

Pausing  == {"create", "setEnabled"}
Running  == {"runNow", "cancelRun", "remove"}
Sleeping == {"sleep"}
Editing  == {"edit"}

OneAtATime   == {Pausing, Running, Sleeping, Editing}
OnlySleeping == {{"sleep"}}
OnlyEditing  == {Editing}
=============================================================================
