--------------------------- MODULE MCPeriodicTask ---------------------------
(* One task that runs every second tick after an offset of one tick.       *)
EXTENDS PeriodicTask

MCTask == {0}
MCSampleTicks == [i \in MCTask |-> 2]
MCOffsetTicks == [i \in MCTask |-> 1]
====
