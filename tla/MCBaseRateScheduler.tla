------------------------- MODULE MCBaseRateScheduler -------------------------
(* Two tasks: task 0 runs on every tick, task 1 on every second one with   *)
(* an offset of one.                                                       *)
EXTENDS BaseRateScheduler

MCSampleTicks == [i \in 0..1 |-> i + 1]
MCOffsetTicks == [i \in 0..1 |-> i]
====
