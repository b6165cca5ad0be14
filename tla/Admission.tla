------------------------------ MODULE Admission ------------------------------
(***************************************************************************)
(* UDP admission: UdpAdmission and TokenBucket of                          *)
(* server/fruitspy/admission.py, which the QR2 and the NatNeg listener     *)
(* share and ask about every datagram before they look at it.              *)
(*                                                                         *)
(* Time is discrete.  A bucket holds units, of which a datagram costs Cost *)
(* and a tick brings Rate: a tick may be shorter than a token takes to     *)
(* come.  The code refills a bucket when it is asked, by what has passed   *)
(* since it was last asked, up to the burst; refilling at every tick gives *)
(* the same level at every question.  A time stamp t of the past is kept   *)
(* as its age now - t, one of the future as the ticks it is away; an age   *)
(* stops growing one past the only value it is compared with.              *)
(***************************************************************************)
EXTENDS Integers, FiniteSets, TLC

CONSTANTS
  Source,          \* source hosts: addr[0] of a datagram
  None,            \* a source the table has no entry for
  Cost,            \* units of a bucket that one datagram takes
  SourceRate,      \* limits.udp_packets_per_second, in units per tick
  SourceBurst,     \* limits.udp_burst, in units
  GlobalRate,      \* limits.udp_global_packets_per_second
  GlobalBurst,     \* limits.udp_global_burst
  MaxSources,      \* limits.udp_tracked_sources
  EntryTTL,        \* timeouts.rate_limit_entry_seconds
  ViolationBurst,  \* limits.udp_source_violation_burst
  SourceBan        \* timeouts.udp_source_ban_seconds

Entry == [bucket : 0 .. SourceBurst, idle : 0 .. EntryTTL + 1,
          violations : 0 .. ViolationBurst - 1, banned : 0 .. SourceBan]
Decision == {"allowed", "global_rate_limit", "source_rate_limit",
             "source_ban_started", "source_banned", "source_table_full"}

(* What load_config demands of these values; that a burst is a datagram at *)
(* least is its "burst >= rate >= 1".                                      *)
ASSUME AdmissionConstants ==
  /\ \A n \in {Cost, SourceRate, SourceBurst, GlobalRate, GlobalBurst,
               MaxSources, EntryTTL, ViolationBurst, SourceBan} : n \in Nat \ {0}
  /\ Cost <= SourceBurst
  /\ SourceRate <= SourceBurst /\ SourceRate <= GlobalRate
  /\ SourceBurst <= GlobalBurst /\ GlobalRate <= GlobalBurst
  /\ None \notin Entry \cup Decision

(* What load_config does not demand and the promise rests on: a source     *)
(* that is silent for longer than the table remembers it has filled its    *)
(* bucket.  The defaults (120 packets per second, a burst of 240 and 120   *)
(* seconds) are far from it; a burst of 60000 at 100 packets per second    *)
(* would break it.                                                         *)
ASSUME RefillsWhileRemembered == SourceBurst <= (EntryTTL + 1) * SourceRate

VARIABLES
  sources,         \* _sources: source -> its entry, or None
  globalBucket,    \* _global_bucket.tokens
  nextExpiry,      \* ticks until _next_expiry_at
  decision         \* what the last call of allow returned in this tick

vars == <<sources, globalBucket, nextExpiry, decision>>

NewEntry == [bucket |-> SourceBurst, idle |-> 0, violations |-> 0, banned |-> 0]

Init ==
  /\ sources = [s \in Source |-> None]
  /\ globalBucket = GlobalBurst
  /\ nextExpiry = EntryTTL
  /\ decision = None

Tracked(table) == {s \in Source : table[s] # None}

(* Mutant: the limit is off by one.                                        *)
FullLate(table) == Cardinality(Tracked(table)) > MaxSources

Full(table) == Cardinality(Tracked(table)) >= MaxSources

(* Mutant: a ban does not keep an entry.                                   *)
KeptByAge(entry) == entry.idle <= EntryTTL

(* _expire keeps the banned and those heard of within the time to live.    *)
Kept(entry) == entry.banned > 0 \/ entry.idle <= EntryTTL

Expired(table) ==
  [s \in Source |-> IF table[s] # None /\ Kept(table[s]) THEN table[s] ELSE None]

(* allow begins with a sweep of the table when one is due.                 *)
Swept == IF nextExpiry = 0 THEN Expired(sources) ELSE sources

SweepTimer == nextExpiry' = IF nextExpiry = 0 THEN EntryTTL ELSE nextExpiry

Banned(table, s) == table[s] # None /\ table[s].banned > 0

(* A banned source is turned away before anything else looks at it: it     *)
(* does not spend the global budget, and its entry stays as it is.         *)
BannedSource(s) ==
  /\ Banned(Swept, s)
  /\ sources' = Swept
  /\ decision' = "source_banned"
  /\ UNCHANGED globalBucket

GlobalLimit(s) ==
  /\ ~Banned(Swept, s) /\ globalBucket < Cost
  /\ sources' = Swept
  /\ decision' = "global_rate_limit"
  /\ UNCHANGED globalBucket

(* From here on the global budget is spent, whatever becomes of the        *)
(* datagram.                                                               *)
PassesGlobal(s) ==
  /\ ~Banned(Swept, s) /\ globalBucket >= Cost
  /\ globalBucket' = globalBucket - Cost

(* Mutant: only the periodic sweep makes room.                             *)
NoRoomMade(table) == table

(* A new source finds the table full: it is swept out of turn.             *)
WithRoom(table) == IF Full(table) THEN Expired(table) ELSE table

TableFull(s) ==
  /\ PassesGlobal(s)
  /\ Swept[s] = None /\ Full(WithRoom(Swept))
  /\ sources' = WithRoom(Swept)
  /\ decision' = "source_table_full"

(* The table and the entry of s after the look-up.                         *)
Table(s) == IF Swept[s] = None THEN WithRoom(Swept) ELSE Swept
Found(s) == IF Swept[s] = None THEN NewEntry ELSE [Swept[s] EXCEPT !.idle = 0]

Judged(s, entry, verdict) ==
  /\ PassesGlobal(s)
  /\ Swept[s] # None \/ ~Full(WithRoom(Swept))
  /\ sources' = [Table(s) EXCEPT ![s] = entry]
  /\ decision' = verdict

Allowed(s) ==
  /\ Found(s).bucket >= Cost
  /\ Judged(s, [Found(s) EXCEPT !.bucket = @ - Cost, !.violations = 0], "allowed")

Violation(s) ==
  /\ Found(s).bucket < Cost /\ Found(s).violations + 1 < ViolationBurst
  /\ Judged(s, [Found(s) EXCEPT !.violations = @ + 1], "source_rate_limit")

BanStarts(s) ==
  /\ Found(s).bucket < Cost /\ Found(s).violations + 1 >= ViolationBurst
  /\ Judged(s, [Found(s) EXCEPT !.violations = 0, !.banned = SourceBan],
            "source_ban_started")

(* A datagram of s arrives at the QR2 or the NatNeg listener.              *)
Allow(s) ==
  /\ SweepTimer
  /\ BannedSource(s) \/ GlobalLimit(s) \/ TableFull(s)
       \/ Allowed(s) \/ Violation(s) \/ BanStarts(s)

Filled(level, rate, burst) == IF level + rate < burst THEN level + rate ELSE burst
Down(n) == IF n = 0 THEN 0 ELSE n - 1

Aged(entry) ==
  [entry EXCEPT !.bucket = Filled(@, SourceRate, SourceBurst),
                !.idle = IF @ <= EntryTTL THEN @ + 1 ELSE @,
                !.banned = Down(@)]

Tick ==
  /\ sources' = [s \in Source |-> IF sources[s] = None THEN None ELSE Aged(sources[s])]
  /\ globalBucket' = Filled(globalBucket, GlobalRate, GlobalBurst)
  /\ nextExpiry' = Down(nextExpiry)
  /\ decision' = None

Next == Tick \/ \E s \in Source : Allow(s)

Spec == Init /\ [][Next]_vars

-----------------------------------------------------------------------------
(* Every variable has its type, and the table stays within its limit.      *)
TypeOK ==
  /\ sources \in [Source -> Entry \cup {None}]
  /\ Cardinality(Tracked(sources)) <= MaxSources
  /\ globalBucket \in 0 .. GlobalBurst
  /\ nextExpiry \in 0 .. EntryTTL
  /\ decision \in Decision \cup {None}

(* What makes forgetting harmless: an entry has refilled for as long as it *)
(* has been idle, so its bucket is full by the time it may go.             *)
Refilled(table) ==
  \A s \in Tracked(table) :
    table[s].bucket >= Filled(0, table[s].idle * SourceRate, SourceBurst)

(* Admission implements Meter: for each source the table behaves as if no  *)
(* entry were ever dropped.  A source that was forgotten comes back to a   *)
(* full bucket and no run of refusals, as it would have by waiting; a ban  *)
(* is neither forgotten nor prolonged by what is sent meanwhile; and       *)
(* sweeps, the table limit and an exhausted global budget add nothing to a *)
(* run (README.md: "Global exhaustion does not penalize individual         *)
(* sources").  The run shows while there is no token: the next datagram of *)
(* a source that has one ends it.                                          *)
Level(table) ==
  [s \in Source |-> IF table[s] = None THEN SourceBurst ELSE table[s].bucket]
Barred(table) ==
  [s \in Source |-> IF table[s] = None THEN 0 ELSE table[s].banned]
Strikes(table) ==
  [s \in Source |-> IF Level(table)[s] >= Cost THEN 0 ELSE table[s].violations]

M == INSTANCE Meter WITH Rate <- SourceRate, Burst <- SourceBurst,
                         Run <- ViolationBurst, Ban <- SourceBan,
                         level <- Level(sources), run <- Strikes(sources),
                         barred <- Barred(sources)

ImplementsMeter == M!Spec

(* A newcomer is only turned away from a table in which every entry is     *)
(* still needed: the limit cannot be held by sources that have gone silent *)
(* or by bans that have ended.                                             *)
FullMeansBusy ==
  decision = "source_table_full" =>
    Full(sources) /\ \A s \in Tracked(sources) : Kept(sources[s])

=============================================================================
