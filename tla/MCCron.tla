------------------------------- MODULE MCCron -------------------------------
(* Small instances of Cron: a recurring job, and a one-shot job and one with *)
(* a calendar that ends, of the same topic and of another recipient.         *)
EXTENDS Cron

CONSTANTS gateway, tui, shell, j1, j2, alice, bob, topic

Every == [sched |-> [kind |-> "every", ms |-> 2, until |-> 0], del |-> FALSE,
          to |-> alice, tag |-> None, msg |-> "a"]
Once == [sched |-> [kind |-> "at", ms |-> 3, until |-> 0], del |-> TRUE,
         to |-> bob, tag |-> topic, msg |-> "b"]
Grid == [sched |-> [kind |-> "cron", ms |-> 3, until |-> 3], del |-> FALSE,
         to |-> bob, tag |-> topic, msg |-> "c"]

MCRequest == {Every, Once, Grid}
MCInitial == [j \in {j1} |-> Every]
MCRoutes == [s \in Daemon |-> IF s = gateway THEN {alice, bob} ELSE {alice}]
=============================================================================
