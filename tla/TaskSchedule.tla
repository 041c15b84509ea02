---------------------------- MODULE TaskSchedule ----------------------------
(***************************************************************************)
(* What the scheduler promises of a periodic task: with tick counting the  *)
(* base-rate ticks the task has seen, it is activated at tick offset and   *)
(* then every sample-time; an activation that finds the task busy is       *)
(* counted as an overload and skipped, any other makes it busy until the   *)
(* step is complete.                                                       *)
(***************************************************************************)
EXTENDS Integers

CONSTANTS Task, SampleTicks, OffsetTicks, MaxTicks

VARIABLES tick, busy, overloads, completed

vars == <<tick, busy, overloads, completed>>

Init ==
    /\ tick = [i \in Task |-> 0]
    /\ busy = [i \in Task |-> FALSE]
    /\ overloads = [i \in Task |-> 0]
    /\ completed = [i \in Task |-> 0]

\* Tick k is an activation of task i.
Due(i, k) == \E n \in 0..k : k = OffsetTicks[i] + n * SampleTicks[i]

Advance(i) ==
    /\ tick[i] < MaxTicks
    /\ tick' = [tick EXCEPT ![i] = @ + 1]
    /\ UNCHANGED completed

Skip(i) ==
    /\ Advance(i) /\ ~Due(i, tick[i])
    /\ UNCHANGED <<busy, overloads>>

Activate(i) ==
    /\ Advance(i) /\ Due(i, tick[i]) /\ ~busy[i]
    /\ busy' = [busy EXCEPT ![i] = TRUE]
    /\ UNCHANGED overloads

Overload(i) ==
    /\ Advance(i) /\ Due(i, tick[i]) /\ busy[i]
    /\ overloads' = [overloads EXCEPT ![i] = @ + 1]
    /\ UNCHANGED busy

Complete(i) ==
    /\ busy[i]
    /\ busy' = [busy EXCEPT ![i] = FALSE]
    /\ completed' = [completed EXCEPT ![i] = @ + 1]
    /\ UNCHANGED <<tick, overloads>>

\* The task is started anew.
Restart(i) ==
    /\ tick' = [tick EXCEPT ![i] = 0]
    /\ busy' = [busy EXCEPT ![i] = FALSE]
    /\ overloads' = [overloads EXCEPT ![i] = 0]
    /\ completed' = [completed EXCEPT ![i] = 0]

Next == \E i \in Task :
    Skip(i) \/ Activate(i) \/ Overload(i) \/ Complete(i) \/ Restart(i)

Spec == Init /\ [][Next]_vars
====
