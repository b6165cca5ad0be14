-------------------------------- MODULE Rate --------------------------------
(***************************************************************************)
(* What UDP admission lets through in a window of time.  History variables *)
(* beside those of Admission count, since some moment, the ticks that have *)
(* passed and the datagrams that were allowed; the window may be moved to  *)
(* begin at any state, so what holds of it holds of every window.          *)
(***************************************************************************)
EXTENDS Admission

VARIABLES
  elapsed,     \* ticks since the window began
  served,      \* source -> datagrams of it allowed since
  total        \* datagrams allowed since

rateVars == <<sources, globalBucket, nextExpiry, decision, elapsed, served, total>>

RateInit == Init /\ elapsed = 0 /\ served = [s \in Source |-> 0] /\ total = 0

Counted == IF decision' = "allowed" THEN 1 ELSE 0

TickCounted == Tick /\ elapsed' = elapsed + 1 /\ UNCHANGED <<served, total>>

AllowCounted(s) ==
  /\ Allow(s)
  /\ served' = [served EXCEPT ![s] = @ + Counted]
  /\ total' = total + Counted
  /\ UNCHANGED elapsed

BeginWindow ==
  /\ elapsed' = 0 /\ served' = [s \in Source |-> 0] /\ total' = 0
  /\ UNCHANGED vars

RateNext == TickCounted \/ BeginWindow \/ \E s \in Source : AllowCounted(s)

RateSpec == RateInit /\ [][RateNext]_rateVars
-----------------------------------------------------------------------------
(* In no window does a source get more than its burst and what its rate    *)
(* brings while the window lasts, less what its bucket still holds: not by *)
(* being forgotten and coming back, nor by a ban that ends.                *)
SourceBound ==
  \A s \in Source :
    served[s] * Cost + Level(sources)[s] <= SourceBurst + elapsed * SourceRate

(* Nor do all sources together, by however many addresses they send from.  *)
GlobalBound ==
  total * Cost + globalBucket <= GlobalBurst + elapsed * GlobalRate
=============================================================================
