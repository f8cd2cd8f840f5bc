-------------------------- MODULE MCMonitorSchedule --------------------------
(* Small instances of MonitorSchedule for TLC. *)
EXTENDS MonitorSchedule, TLC

ScheduleSymmetry == Permutations(Workers) \cup Permutations(Monitors)
=============================================================================
