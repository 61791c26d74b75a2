----------------------------- MODULE RoundRobin -----------------------------
(***************************************************************************)
(* What the process manager and the scheduler promise together: processes  *)
(* come and go, and at each switch the CPU passes to the next live process *)
(* in circular order of their identifiers.                                 *)
(***************************************************************************)
EXTENDS Integers

CONSTANT N   \* process identifiers are 0..N-1, a positive number of them

VARIABLES
  live,    \* the processes that exist
  served   \* the process that has the CPU, or Nobody

rrVars == <<live, served>>

Pids   == 0 .. N - 1
Nobody == N          \* booting, idle, or the last process served has left

Init == live = {} /\ served = Nobody

\* A process enters at the lowest free identifier; service is not disturbed.
Enter ==
  \E p \in Pids \ live :
    /\ \A q \in Pids \ live : p <= q
    /\ live' = live \cup {p}
    /\ UNCHANGED served

Leave(p) ==
  /\ p \in live
  /\ live' = live \ {p}
  /\ served' = IF served = p THEN Nobody ELSE served

\* After Nobody the search starts behind identifier 0.
Turn(p) == LET last == IF served = Nobody THEN 0 ELSE served
           IN  (p - last - 1) % N

Switch ==
  \E p \in live :
    /\ \A q \in live : Turn(p) <= Turn(q)
    /\ served' = p
    /\ UNCHANGED live

Next == Enter \/ Switch \/ \E p \in Pids : Leave(p)

Spec == Init /\ [][Next]_rrVars
=============================================================================
