---------------------------- MODULE MCCronScheduler ----------------------------
(* Instances of CronScheduler for TLC: two jobs, a limit of one, two minutes.   *)
EXTENDS CronScheduler

\* A job is due once, after one minute or after two, and then in a year.
SomeSchedules == {{1}, {2}}
================================================================================
