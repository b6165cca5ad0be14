-------------------------------- MODULE Meter --------------------------------
(***************************************************************************)
(* What UDP admission promises each source, as if the server remembered    *)
(* every source for ever: a bucket that fills at a rate, a run of refusals *)
(* that only a datagram without a token can lengthen, and a ban at the end *)
(* of a full run.  Nothing another source does shows in it, and a datagram *)
(* may also be turned away without a trace, for the sake of the whole.     *)
(* Admission implements this module although it forgets sources.           *)
(*                                                                         *)
(* README.md of the program: a source is banned "after                     *)
(* udp_source_violation_burst consecutive rejections.  An accepted packet  *)
(* resets that violation run.  Global exhaustion does not penalize         *)
(* individual sources."                                                    *)
(***************************************************************************)
EXTENDS Integers

CONSTANTS
  Source,      \* source hosts
  Rate,        \* what a bucket gains in a tick
  Burst,       \* what a bucket holds
  Cost,        \* what a datagram takes
  Run,         \* refusals in a row that start a ban
  Ban          \* ticks a ban lasts

VARIABLES
  level,       \* source -> what its bucket holds
  run,         \* source -> refusals since its bucket last held a token
  barred       \* source -> ticks its ban has left

vars == <<level, run, barred>>

Init ==
  /\ level = [s \in Source |-> Burst]
  /\ run = [s \in Source |-> 0]
  /\ barred = [s \in Source |-> 0]

Capped(n) == IF n < Burst THEN n ELSE Burst

(* A datagram is accepted: it takes a token, and the run of refusals ends. *)
Accept(s) ==
  /\ barred[s] = 0 /\ level[s] >= Cost
  /\ level' = [level EXCEPT ![s] = @ - Cost]
  /\ UNCHANGED <<run, barred>>

(* A datagram without a token lengthens the run.                           *)
Refuse(s) ==
  /\ barred[s] = 0 /\ level[s] < Cost /\ run[s] + 1 < Run
  /\ run' = [run EXCEPT ![s] = @ + 1]
  /\ UNCHANGED <<level, barred>>

(* The last refusal of a full run starts the ban and a new run.            *)
StartBan(s) ==
  /\ barred[s] = 0 /\ level[s] < Cost /\ run[s] + 1 >= Run
  /\ run' = [run EXCEPT ![s] = 0]
  /\ barred' = [barred EXCEPT ![s] = Ban]
  /\ UNCHANGED level

(* Time fills every bucket, and a bucket with a token again ends its run.  *)
Pass ==
  /\ level' = [s \in Source |-> Capped(level[s] + Rate)]
  /\ run' = [s \in Source |-> IF level'[s] >= Cost THEN 0 ELSE run[s]]
  /\ barred' = [s \in Source |-> IF barred[s] = 0 THEN 0 ELSE barred[s] - 1]

Next == Pass \/ \E s \in Source : Accept(s) \/ Refuse(s) \/ StartBan(s)

Spec == Init /\ [][Next]_vars
=============================================================================
