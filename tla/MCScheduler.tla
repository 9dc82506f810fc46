----------------------------- MODULE MCScheduler -----------------------------
(* Scheduler for TLC: a one-shot task "a", its one-shot sub task "ab" and a *)
(* cron task "c"; two ticks per period, so threads and passes may fall on   *)
(* either side of a due time.                                               *)
EXTENDS Scheduler

MCId == {"a", "ab", "c"}
MCSubOf == [i \in MCId |-> IF i = "a" THEN {"a", "ab"} ELSE {i}]
MCOneShot == {"a", "ab"}
MCDue == [i \in MCOneShot |-> IF i = "a" THEN 1 ELSE 3]
MCCronAt == [i \in {"c"} |-> {0, 2, 3}]

=============================================================================
