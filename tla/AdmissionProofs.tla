--------------------------- MODULE AdmissionProofs ---------------------------
(***************************************************************************)
(* Theorems about Admission for every value of its constants: the types    *)
(* and the limit of the source table, that only a busy table refuses a     *)
(* newcomer, and that Admission implements Meter.  The invariant behind    *)
(* all of them, Inv, adds to the types that the table is finite and that   *)
(* every entry has refilled for as long as it has been idle.               *)
(***************************************************************************)
EXTENDS Rate, FiniteSetTheorems, TLAPS

(* What holds of a table at every point inside a call of allow.            *)
Sound(table) ==
  /\ table \in [Source -> Entry \cup {None}]
  /\ IsFiniteSet(Tracked(table))
  /\ Cardinality(Tracked(table)) <= MaxSources
  /\ Refilled(table)

Inv ==
  /\ Sound(sources)
  /\ globalBucket \in 0 .. GlobalBurst
  /\ nextExpiry \in 0 .. EntryTTL
  /\ decision \in Decision \cup {None}

(* The constants one by one, and that no entry is mistaken for None.       *)
LEMMA Constants ==
  /\ Cost \in Nat \ {0} /\ SourceRate \in Nat \ {0} /\ SourceBurst \in Nat \ {0}
  /\ GlobalRate \in Nat \ {0} /\ GlobalBurst \in Nat \ {0}
  /\ MaxSources \in Nat \ {0} /\ EntryTTL \in Nat \ {0}
  /\ ViolationBurst \in Nat \ {0} /\ SourceBan \in Nat \ {0}
  /\ Cost <= SourceBurst /\ None \notin Entry /\ None \notin Decision
BY AdmissionConstants

(* A bucket stays in its bounds when it is filled.                         *)
LEMMA FilledBounds ==
  ASSUME NEW level \in Nat, NEW rate \in Nat, NEW burst \in Nat
  PROVE  /\ Filled(level, rate, burst) \in 0 .. burst
         /\ level <= burst => Filled(level, rate, burst) >= level
BY DEF Filled

(* A larger table than T[s] is only made where there is room for s.        *)
LEMMA SubTable ==
  ASSUME NEW T, NEW U, Sound(T), U \in [Source -> Entry \cup {None}],
         \A s \in Source : U[s] = T[s] \/ U[s] = None
  PROVE  Sound(U)
<1>1. Tracked(U) \subseteq Tracked(T)
  BY DEF Tracked
<1>2. IsFiniteSet(Tracked(U)) /\ Cardinality(Tracked(U)) <= Cardinality(Tracked(T))
  BY <1>1, FS_Subset DEF Sound
<1>3. Cardinality(Tracked(U)) \in Nat /\ Cardinality(Tracked(T)) \in Nat
  BY <1>2, FS_CardinalityType DEF Sound
<1>4. Cardinality(Tracked(U)) <= MaxSources
  BY <1>2, <1>3, Constants DEF Sound
<1>5. Refilled(U)
  BY <1>1 DEF Sound, Refilled, Tracked
<1> QED
  BY <1>2, <1>4, <1>5 DEF Sound

LEMMA ExpiredSound ==
  ASSUME NEW T, Sound(T)
  PROVE  Sound(Expired(T)) /\ \A s \in Tracked(Expired(T)) : Kept(Expired(T)[s])
<1>1. /\ Expired(T) \in [Source -> Entry \cup {None}]
      /\ \A s \in Source : Expired(T)[s] = T[s] \/ Expired(T)[s] = None
  BY DEF Expired, Sound
<1>2. Sound(Expired(T))
  BY <1>1, SubTable
<1>3. \A s \in Tracked(Expired(T)) : Kept(Expired(T)[s])
  BY DEF Expired, Tracked
<1> QED
  BY <1>2, <1>3

LEMMA SweptSound ==
  ASSUME Inv
  PROVE  Sound(Swept) /\ Sound(WithRoom(Swept))
<1>1. Sound(Swept)
  BY ExpiredSound DEF Inv, Swept
<1>2. Sound(WithRoom(Swept))
  BY <1>1, ExpiredSound DEF WithRoom
<1> QED
  BY <1>1, <1>2

(* Entering or replacing one entry keeps the table sound.                  *)
LEMMA EnterSound ==
  ASSUME NEW T, Sound(T), NEW s \in Source, T[s] # None \/ ~Full(T),
         NEW e \in Entry, e.bucket >= Filled(0, e.idle * SourceRate, SourceBurst)
  PROVE  Sound([T EXCEPT ![s] = e])
<1> DEFINE U == [T EXCEPT ![s] = e]
<1>1. U \in [Source -> Entry \cup {None}] /\ U[s] = e
      /\ \A x \in Source \ {s} : U[x] = T[x]
  BY DEF Sound
<1>2. Tracked(U) = Tracked(T) \cup {s}
  BY <1>1, Constants DEF Tracked
<1>3. IsFiniteSet(Tracked(T)) /\ Cardinality(Tracked(T)) \in Nat
  BY FS_CardinalityType DEF Sound
<1> HIDE DEF U
<1>4. /\ IsFiniteSet(Tracked(U))
      /\ Cardinality(Tracked(U)) =
           IF s \in Tracked(T) THEN Cardinality(Tracked(T))
                               ELSE Cardinality(Tracked(T)) + 1
  BY <1>2, <1>3, FS_AddElement
<1>5. Cardinality(Tracked(U)) <= MaxSources
  <2>1. CASE s \in Tracked(T)
    BY <2>1, <1>4 DEF Sound
  <2>2. CASE s \notin Tracked(T)
    <3>1. Cardinality(Tracked(T)) < MaxSources
      BY <2>2, <1>3, Constants DEF Full, Tracked
    <3> QED
      BY <3>1, <2>2, <1>3, <1>4, Constants
  <2> QED
    BY <2>1, <2>2
<1>6. Refilled(U)
  BY <1>1, <1>2 DEF Sound, Refilled, Tracked
<1> QED
  BY <1>1, <1>4, <1>5, <1>6 DEF Sound, U

(* The entry a datagram is judged by: of a sound table, or a fresh one.    *)
LEMMA FoundEntry ==
  ASSUME Inv, NEW s \in Source
  PROVE  Found(s) \in Entry /\ Found(s).idle = 0
<1>1. NewEntry \in Entry
  BY Constants DEF NewEntry, Entry
<1>2. Swept[s] # None => Swept[s] \in Entry
  BY SweptSound DEF Sound
<1> QED
  BY <1>1, <1>2, Constants DEF Found, NewEntry, Entry

(* A judged datagram leaves a sound table in which only s has changed.     *)
LEMMA JudgedSound ==
  ASSUME Inv, NEW s \in Source, NEW e \in Entry, e.idle = 0,
         NEW v \in Decision, Judged(s, e, v)
  PROVE  Sound(sources')
<1>1. 0 * SourceRate = 0
  BY Constants
<1>2. e.bucket >= Filled(0, e.idle * SourceRate, SourceBurst)
  BY <1>1, Constants DEF Filled, Entry
<1>3. Sound(Table(s)) /\ (Table(s)[s] # None \/ ~Full(Table(s)))
  BY SweptSound DEF Table, Judged
<1>4. sources' = [Table(s) EXCEPT ![s] = e]
  BY DEF Judged
<1> QED
  BY <1>2, <1>3, <1>4, EnterSound

(* The entry each judgement enters.                                        *)
LEMMA JudgedEntries ==
  ASSUME Inv, NEW s \in Source
  PROVE  /\ Allowed(s) =>
              \E e \in Entry : e = [Found(s) EXCEPT !.bucket = @ - Cost, !.violations = 0]
                               /\ e.idle = 0 /\ Judged(s, e, "allowed")
         /\ Violation(s) =>
              \E e \in Entry : e = [Found(s) EXCEPT !.violations = @ + 1]
                               /\ e.idle = 0 /\ Judged(s, e, "source_rate_limit")
         /\ BanStarts(s) =>
              \E e \in Entry : e = [Found(s) EXCEPT !.violations = 0, !.banned = SourceBan]
                               /\ e.idle = 0 /\ Judged(s, e, "source_ban_started")
<1>1. Found(s) \in Entry /\ Found(s).idle = 0
  BY FoundEntry
<1> DEFINE f == Found(s)
<1>2. /\ f.bucket \in 0 .. SourceBurst /\ f.banned \in 0 .. SourceBan
      /\ f.violations \in 0 .. ViolationBurst - 1
  BY <1>1 DEF Entry
<1> HIDE DEF f
<1>3. ASSUME f.bucket >= Cost
      PROVE  LET e == [f EXCEPT !.bucket = @ - Cost, !.violations = 0]
             IN  e \in Entry /\ e.idle = 0
  <2>1. f.bucket - Cost \in 0 .. SourceBurst /\ 0 \in 0 .. ViolationBurst - 1
    BY <1>2, <1>3, Constants
  <2> QED
    BY <1>1, <2>1 DEF Entry, f
<1>4. ASSUME f.violations + 1 < ViolationBurst
      PROVE  LET e == [f EXCEPT !.violations = @ + 1]
             IN  e \in Entry /\ e.idle = 0
  <2>1. f.violations + 1 \in 0 .. ViolationBurst - 1
    BY <1>2, <1>4, Constants
  <2> QED
    BY <1>1, <2>1 DEF Entry, f
<1>5. LET e == [f EXCEPT !.violations = 0, !.banned = SourceBan]
      IN  e \in Entry /\ e.idle = 0
  <2>1. SourceBan \in 0 .. SourceBan /\ 0 \in 0 .. ViolationBurst - 1
    BY Constants
  <2> QED
    BY <1>1, <2>1 DEF Entry, f
<1> QED
  BY <1>3, <1>4, <1>5 DEF f, Allowed, Violation, BanStarts

LEMMA AllowSound ==
  ASSUME Inv, NEW s \in Source, Allow(s)
  PROVE  Sound(sources') /\ decision' \in Decision
<1>1. CASE BannedSource(s) \/ GlobalLimit(s) \/ TableFull(s)
  BY <1>1, SweptSound DEF BannedSource, GlobalLimit, TableFull, Decision
<1>2. CASE Allowed(s) \/ Violation(s) \/ BanStarts(s)
  <2>1. PICK e \in Entry, v \in Decision : e.idle = 0 /\ Judged(s, e, v)
    BY <1>2, JudgedEntries DEF Decision
  <2> QED
    BY <2>1, JudgedSound DEF Judged
<1> QED
  BY <1>1, <1>2 DEF Allow

(* Time refills an entry at least as fast as its idle time claims.         *)
LEMMA AgedEntry ==
  ASSUME NEW e \in Entry, e.bucket >= Filled(0, e.idle * SourceRate, SourceBurst)
  PROVE  /\ Aged(e) \in Entry
         /\ Aged(e).bucket >= Filled(0, Aged(e).idle * SourceRate, SourceBurst)
<1>1. /\ e.bucket \in 0 .. SourceBurst /\ e.idle \in 0 .. EntryTTL + 1
      /\ e.banned \in 0 .. SourceBan /\ e.violations \in 0 .. ViolationBurst - 1
  BY DEF Entry
<1>2. Filled(e.bucket, SourceRate, SourceBurst) \in 0 .. SourceBurst
  <2>1. e.bucket \in Nat
    BY <1>1, Constants
  <2> QED
    BY <2>1, Constants, FilledBounds
<1>3. /\ Aged(e).bucket = Filled(e.bucket, SourceRate, SourceBurst)
      /\ Aged(e).idle = IF e.idle <= EntryTTL THEN e.idle + 1 ELSE e.idle
  BY DEF Aged, Entry
<1>4. Aged(e) \in Entry
  <2>1. /\ (IF e.idle <= EntryTTL THEN e.idle + 1 ELSE e.idle) \in 0 .. EntryTTL + 1
        /\ Down(e.banned) \in 0 .. SourceBan
    BY <1>1, Constants DEF Down
  <2> QED
    BY <1>2, <2>1 DEF Aged, Entry
<1>5. (e.idle + 1) * SourceRate = e.idle * SourceRate + SourceRate
      /\ e.idle * SourceRate \in Nat
  BY <1>1, Constants
<1>6. Aged(e).bucket >= Filled(0, Aged(e).idle * SourceRate, SourceBurst)
  <2>1. CASE e.idle <= EntryTTL
    BY <2>1, <1>1, <1>3, <1>5, Constants DEF Filled
  <2>2. CASE ~(e.idle <= EntryTTL)
    BY <2>2, <1>1, <1>3, <1>5, Constants DEF Filled
  <2> QED
    BY <2>1, <2>2
<1> QED
  BY <1>4, <1>6

LEMMA TickSound ==
  ASSUME Inv, Tick
  PROVE  Sound(sources')
<1>1. \A s \in Source : sources[s] # None =>
        /\ sources[s] \in Entry
        /\ sources[s].bucket >= Filled(0, sources[s].idle * SourceRate, SourceBurst)
  BY DEF Inv, Sound, Refilled, Tracked
<1>2. \A s \in Source : sources[s] # None =>
        /\ sources'[s] = Aged(sources[s]) /\ sources'[s] \in Entry
        /\ sources'[s].bucket >= Filled(0, sources'[s].idle * SourceRate, SourceBurst)
  BY <1>1, AgedEntry DEF Tick
<1>3. \A s \in Source : sources[s] = None => sources'[s] = None
  BY DEF Tick
<1>4. sources' \in [Source -> Entry \cup {None}]
  BY <1>2, <1>3 DEF Tick
<1>5. Tracked(sources') = Tracked(sources)
  BY <1>2, <1>3, Constants DEF Tracked
<1>6. Refilled(sources')
  BY <1>2, <1>5 DEF Refilled, Tracked
<1> QED
  BY <1>4, <1>5, <1>6 DEF Inv, Sound

LEMMA InitInv == Init => Inv
<1> SUFFICES ASSUME Init PROVE Inv
  OBVIOUS
<1>1. Tracked(sources) = {}
  BY DEF Init, Tracked
<1>2. IsFiniteSet(Tracked(sources)) /\ Cardinality(Tracked(sources)) = 0
  BY <1>1, FS_EmptySet
<1> QED
  BY <1>1, <1>2, Constants DEF Init, Inv, Sound, Refilled

LEMMA NextInv == Inv /\ [Next]_vars => Inv'
<1> SUFFICES ASSUME Inv, [Next]_vars PROVE Inv'
  OBVIOUS
<1>1. CASE Tick
  <2>1. Sound(sources')
    BY <1>1, TickSound
  <2>2. globalBucket' \in 0 .. GlobalBurst
    BY <1>1, Constants, FilledBounds DEF Tick, Inv
  <2>3. nextExpiry' \in 0 .. EntryTTL
    BY <1>1, Constants DEF Tick, Inv, Down
  <2> QED
    BY <1>1, <2>1, <2>2, <2>3 DEF Inv, Tick
<1>2. ASSUME NEW s \in Source, Allow(s) PROVE Inv'
  <2>1. Sound(sources') /\ decision' \in Decision
    BY <1>2, AllowSound
  <2>2. globalBucket' \in 0 .. GlobalBurst
    BY <1>2, Constants
    DEF Inv, Allow, BannedSource, GlobalLimit, TableFull, Allowed, Violation,
        BanStarts, Judged, PassesGlobal
  <2>3. nextExpiry' \in 0 .. EntryTTL
    BY <1>2, Constants DEF Inv, Allow, SweepTimer
  <2> QED
    BY <2>1, <2>2, <2>3 DEF Inv
<1>3. CASE UNCHANGED vars
  BY <1>3 DEF Inv, vars, Sound, Tracked, Refilled
<1> QED
  BY <1>1, <1>2, <1>3 DEF Next

LEMMA InvAlways == Spec => []Inv
BY InitInv, NextInv, PTL DEF Spec

(* Every variable has its type and the source table never outgrows its     *)
(* limit, for any number of sources.                                       *)
THEOREM TypeCorrect == Spec => []TypeOK
<1>1. Inv => TypeOK
  BY DEF Inv, Sound, TypeOK
<1> QED
  BY <1>1, InvAlways, PTL

(* A newcomer is turned away for want of room only when every entry is     *)
(* banned or was heard of within the time to live.                         *)
THEOREM FullCorrect == Spec => []FullMeansBusy
<1>1. Init => FullMeansBusy
  BY Constants DEF Init, FullMeansBusy, Decision
<1>2. Inv /\ FullMeansBusy /\ [Next]_vars => FullMeansBusy'
  <2> SUFFICES ASSUME Inv, FullMeansBusy, [Next]_vars,
                      decision' = "source_table_full"
               PROVE  Full(sources') /\ \A s \in Tracked(sources') : Kept(sources'[s])
    BY DEF FullMeansBusy, Full, Tracked, Kept
  <2>1. ASSUME NEW s \in Source, TableFull(s)
        PROVE  Full(sources') /\ \A x \in Tracked(sources') : Kept(sources'[x])
    <3>1. Full(WithRoom(Swept)) /\ sources' = WithRoom(Swept)
      BY <2>1 DEF TableFull
    <3>2. sources' = Expired(Swept)
      BY <3>1 DEF WithRoom
    <3> QED
      BY <3>1, <3>2, ExpiredSound, SweptSound
  <2>2. CASE UNCHANGED vars
    BY <2>2 DEF vars, FullMeansBusy, Full, Tracked, Kept
  <2>3. CASE Tick
    BY <2>3, Constants DEF Tick, Decision
  <2>4. ASSUME NEW s \in Source, Allow(s) PROVE TableFull(s)
    BY <2>4 DEF Allow, BannedSource, GlobalLimit, Allowed, Violation, BanStarts, Judged
  <2> QED
    BY <2>1, <2>2, <2>3, <2>4 DEF Next
<1> QED
  BY <1>1, <1>2, InvAlways, PTL DEF Spec

-----------------------------------------------------------------------------
(* Admission implements Meter.                                             *)

(* What Meter sees of two tables is the same.                              *)
Alike(T, U) ==
  Level(T) = Level(U) /\ Barred(T) = Barred(U) /\ Strikes(T) = Strikes(U)

(* An entry that expires has a full bucket, no run and no ban: to forget   *)
(* it cannot be seen.                                                      *)
LEMMA Forgotten ==
  ASSUME NEW T, Sound(T), NEW s \in Tracked(T), ~Kept(T[s])
  PROVE  T[s].bucket = SourceBurst /\ T[s].banned = 0
<1>1. /\ T[s] \in Entry
      /\ T[s].bucket >= Filled(0, T[s].idle * SourceRate, SourceBurst)
  BY DEF Sound, Refilled, Tracked
<1>2. T[s].bucket \in 0 .. SourceBurst /\ T[s].banned = 0 /\ T[s].idle = EntryTTL + 1
  BY <1>1, Constants DEF Kept, Entry
<1>3. (EntryTTL + 1) * SourceRate \in Nat
  BY Constants
<1>4. Filled(0, (EntryTTL + 1) * SourceRate, SourceBurst) = SourceBurst
  BY <1>3, Constants, RefillsWhileRemembered DEF Filled
<1> QED
  BY <1>1, <1>2, <1>4, Constants

LEMMA ExpiryUnseen ==
  ASSUME NEW T, Sound(T)
  PROVE  Alike(Expired(T), T)
<1>1. \A s \in Source :
        \/ Expired(T)[s] = T[s]
        \/ Expired(T)[s] = None /\ T[s] # None /\ T[s].bucket = SourceBurst
             /\ T[s].banned = 0
  BY Forgotten DEF Expired, Tracked
<1>2. Level(Expired(T)) = Level(T)
  BY <1>1 DEF Level
<1>3. Barred(Expired(T)) = Barred(T)
  BY <1>1 DEF Barred
<1>4. \A s \in Source : Level(T)[s] < Cost => Expired(T)[s] = T[s]
  BY <1>1, Constants DEF Level
<1>5. \A s \in Source : Level(T)[s] \in Int
  BY Constants DEF Level, Sound, Entry
<1>6. Strikes(Expired(T)) = Strikes(T)
  BY <1>2, <1>4, <1>5, Constants DEF Strikes
<1> QED
  BY <1>2, <1>3, <1>6 DEF Alike

LEMMA SweepUnseen ==
  ASSUME Inv, NEW s \in Source
  PROVE  Alike(Swept, sources) /\ Alike(WithRoom(Swept), sources) /\ Alike(Table(s), sources)
<1>1. Alike(Swept, sources)
  BY ExpiryUnseen DEF Swept, Alike, Inv
<1>2. Alike(WithRoom(Swept), sources)
  BY <1>1, ExpiryUnseen, SweptSound DEF WithRoom, Alike
<1> QED
  BY <1>1, <1>2 DEF Table

(* What Meter sees of the source that is judged.                           *)
LEMMA FoundSeen ==
  ASSUME Inv, NEW s \in Source
  PROVE  /\ Level(sources)[s] = Found(s).bucket
         /\ Barred(sources)[s] = Found(s).banned
         /\ Found(s).bucket < Cost => Strikes(sources)[s] = Found(s).violations
<1>1. Found(s) \in Entry
  BY FoundEntry
<1>2. Level(sources)[s] = Found(s).bucket
  <2>1. Level(Swept)[s] = Found(s).bucket
    BY SweptSound DEF Level, Found, NewEntry, Sound, Entry
  <2> QED
    BY <2>1, SweepUnseen DEF Alike
<1>3. Barred(sources)[s] = Found(s).banned
  <2>1. Barred(Swept)[s] = Found(s).banned
    BY SweptSound DEF Barred, Found, NewEntry, Sound, Entry
  <2> QED
    BY <2>1, SweepUnseen DEF Alike
<1>4. ASSUME Found(s).bucket < Cost PROVE Strikes(sources)[s] = Found(s).violations
  <2>1. Swept[s] # None
    BY <1>4, Constants DEF Found, NewEntry
  <2>2. Swept[s] \in Entry /\ Found(s).violations = Swept[s].violations
    BY <2>1, SweptSound DEF Found, Sound, Entry
  <2>3. ~(Level(Swept)[s] >= Cost)
    BY <1>1, <1>2, <1>4, SweepUnseen, Constants DEF Alike, Entry
  <2>4. Strikes(Swept)[s] = Swept[s].violations
    BY <2>3 DEF Strikes
  <2> QED
    BY <2>2, <2>4, SweepUnseen DEF Alike
<1> QED
  BY <1>2, <1>3, <1>4

(* After a judgement Meter sees the new entry of s, and of all others what *)
(* it saw before.                                                          *)
LEMMA JudgedSeen ==
  ASSUME Inv, NEW s \in Source, NEW e \in Entry, NEW v, Judged(s, e, v)
  PROVE  /\ Level(sources') = [Level(sources) EXCEPT ![s] = e.bucket]
         /\ Barred(sources') = [Barred(sources) EXCEPT ![s] = e.banned]
         /\ Strikes(sources') = [Strikes(sources) EXCEPT ![s] =
                                   IF e.bucket >= Cost THEN 0 ELSE e.violations]
<1>1. Table(s) \in [Source -> Entry \cup {None}] /\ Alike(Table(s), sources)
  BY SweptSound, SweepUnseen DEF Table, Sound
<1>2. /\ sources'[s] = e /\ e # None
      /\ \A x \in Source \ {s} : sources'[x] = Table(s)[x]
  BY <1>1, Constants DEF Judged
<1>3. Level(sources') = [Level(Table(s)) EXCEPT ![s] = e.bucket]
  BY <1>2 DEF Level
<1>4. Barred(sources') = [Barred(Table(s)) EXCEPT ![s] = e.banned]
  BY <1>2 DEF Barred
<1>5. \A x \in Source : Level(sources')[x] =
        IF x = s THEN e.bucket ELSE Level(Table(s))[x]
  BY <1>3 DEF Level
<1>6. Strikes(sources') = [Strikes(Table(s)) EXCEPT ![s] =
                             IF e.bucket >= Cost THEN 0 ELSE e.violations]
  BY <1>2, <1>5 DEF Strikes
<1> QED
  BY <1>1, <1>3, <1>4, <1>6 DEF Alike

LEMMA AllowedStep ==
  ASSUME Inv, NEW s \in Source, Allowed(s)
  PROVE  M!Accept(s)
<1>1. PICK e \in Entry : e = [Found(s) EXCEPT !.bucket = @ - Cost, !.violations = 0]
                         /\ Judged(s, e, "allowed")
  BY JudgedEntries
<1>2. Found(s) \in Entry /\ ~Banned(Swept, s) /\ Found(s).bucket >= Cost
  BY FoundEntry DEF Allowed, Judged, PassesGlobal
<1>3. Found(s).banned = 0
  BY <1>2, SweptSound, Constants DEF Found, Banned, NewEntry, Sound, Entry
<1>4. e.bucket = Found(s).bucket - Cost /\ e.violations = 0 /\ e.banned = 0
  BY <1>1, <1>2, <1>3 DEF Entry
<1>5. /\ Level(sources') = [Level(sources) EXCEPT ![s] = @ - Cost]
      /\ Barred(sources') = [Barred(sources) EXCEPT ![s] = 0]
      /\ Strikes(sources') = [Strikes(sources) EXCEPT ![s] = 0]
  <2>1. (IF e.bucket >= Cost THEN 0 ELSE e.violations) = 0
    BY <1>4
  <2>2. e.bucket = Level(sources)[s] - Cost
    BY <1>4, FoundSeen
  <2>3. /\ Level(sources') = [Level(sources) EXCEPT ![s] = e.bucket]
        /\ Barred(sources') = [Barred(sources) EXCEPT ![s] = e.banned]
        /\ Strikes(sources') = [Strikes(sources) EXCEPT ![s] =
                                  IF e.bucket >= Cost THEN 0 ELSE e.violations]
    BY <1>1, JudgedSeen
  <2> QED
    BY <1>4, <2>1, <2>2, <2>3
<1>6. Strikes(sources)[s] = 0 /\ Barred(sources)[s] = 0 /\ Level(sources)[s] >= Cost
  BY <1>2, <1>3, FoundSeen DEF Strikes
<1>7. Strikes(sources') = Strikes(sources) /\ Barred(sources') = Barred(sources)
  BY <1>5, <1>6 DEF Strikes, Barred
<1> QED
  BY <1>5, <1>6, <1>7 DEF M!Accept, Level, Strikes, Barred

LEMMA ViolationStep ==
  ASSUME Inv, NEW s \in Source, Violation(s)
  PROVE  M!Refuse(s)
<1>1. PICK e \in Entry : e = [Found(s) EXCEPT !.violations = @ + 1]
                         /\ Judged(s, e, "source_rate_limit")
  BY JudgedEntries
<1>2. Found(s) \in Entry /\ ~Banned(Swept, s) /\ Found(s).bucket < Cost
  BY FoundEntry DEF Violation, Judged, PassesGlobal
<1>3. Found(s).banned = 0
  BY <1>2, SweptSound, Constants DEF Found, Banned, NewEntry, Sound, Entry
<1>4. /\ e.bucket = Found(s).bucket /\ e.banned = Found(s).banned
      /\ e.violations = Found(s).violations + 1
  BY <1>1, <1>2 DEF Entry
<1>5. /\ Level(sources)[s] = e.bucket /\ Barred(sources)[s] = e.banned
      /\ Strikes(sources)[s] = Found(s).violations
  BY <1>2, <1>4, FoundSeen
<1>6. ~(e.bucket >= Cost)
  BY <1>2, <1>4, Constants DEF Entry
<1>7. /\ Level(sources') = [Level(sources) EXCEPT ![s] = e.bucket]
      /\ Barred(sources') = [Barred(sources) EXCEPT ![s] = e.banned]
      /\ Strikes(sources') = [Strikes(sources) EXCEPT ![s] = @ + 1]
  <2>1. /\ Level(sources') = [Level(sources) EXCEPT ![s] = e.bucket]
        /\ Barred(sources') = [Barred(sources) EXCEPT ![s] = e.banned]
        /\ Strikes(sources') = [Strikes(sources) EXCEPT ![s] =
                                  IF e.bucket >= Cost THEN 0 ELSE e.violations]
    BY <1>1, JudgedSeen
  <2>2. (IF e.bucket >= Cost THEN 0 ELSE e.violations) = Strikes(sources)[s] + 1
    BY <1>4, <1>5, <1>6
  <2> QED
    BY <2>1, <2>2
<1>8. Level(sources') = Level(sources) /\ Barred(sources') = Barred(sources)
  BY <1>5, <1>7 DEF Level, Barred
<1>9. Strikes(sources)[s] + 1 < ViolationBurst
  BY <1>5 DEF Violation
<1> QED
  BY <1>2, <1>3, <1>4, <1>5, <1>7, <1>8, <1>9 DEF M!Refuse

LEMMA BanStep ==
  ASSUME Inv, NEW s \in Source, BanStarts(s)
  PROVE  M!StartBan(s)
<1>1. PICK e \in Entry : e = [Found(s) EXCEPT !.violations = 0, !.banned = SourceBan]
                         /\ Judged(s, e, "source_ban_started")
  BY JudgedEntries
<1>2. Found(s) \in Entry /\ ~Banned(Swept, s) /\ Found(s).bucket < Cost
  BY FoundEntry DEF BanStarts, Judged, PassesGlobal
<1>3. Found(s).banned = 0
  BY <1>2, SweptSound, Constants DEF Found, Banned, NewEntry, Sound, Entry
<1>4. e.bucket = Found(s).bucket /\ e.banned = SourceBan /\ e.violations = 0
  BY <1>1, <1>2 DEF Entry
<1>5. /\ Level(sources)[s] = e.bucket /\ Barred(sources)[s] = 0
      /\ Strikes(sources)[s] = Found(s).violations
  BY <1>2, <1>3, <1>4, FoundSeen
<1>6. (IF e.bucket >= Cost THEN 0 ELSE e.violations) = 0
  BY <1>4
<1>7. /\ Level(sources') = [Level(sources) EXCEPT ![s] = e.bucket]
      /\ Barred(sources') = [Barred(sources) EXCEPT ![s] = SourceBan]
      /\ Strikes(sources') = [Strikes(sources) EXCEPT ![s] = 0]
  <2>1. /\ Level(sources') = [Level(sources) EXCEPT ![s] = e.bucket]
        /\ Barred(sources') = [Barred(sources) EXCEPT ![s] = e.banned]
        /\ Strikes(sources') = [Strikes(sources) EXCEPT ![s] =
                                  IF e.bucket >= Cost THEN 0 ELSE e.violations]
    BY <1>1, JudgedSeen
  <2> QED
    BY <1>4, <1>6, <2>1
<1>8. Level(sources') = Level(sources)
  BY <1>5, <1>7 DEF Level
<1>9. Strikes(sources)[s] + 1 >= ViolationBurst
  BY <1>5 DEF BanStarts
<1> QED
  BY <1>2, <1>4, <1>5, <1>7, <1>8, <1>9 DEF M!StartBan

LEMMA TickStep ==
  ASSUME Inv, Tick
  PROVE  M!Pass
<1>1. \A s \in Source : sources[s] # None =>
        /\ sources[s] \in Entry /\ sources'[s] # None
        /\ sources'[s].bucket = Filled(sources[s].bucket, SourceRate, SourceBurst)
        /\ sources'[s].banned = Down(sources[s].banned)
        /\ sources'[s].violations = sources[s].violations
  <2>1. SUFFICES ASSUME NEW s \in Source, sources[s] # None
                 PROVE  /\ sources[s] \in Entry /\ sources'[s] # None
                        /\ sources'[s].bucket
                             = Filled(sources[s].bucket, SourceRate, SourceBurst)
                        /\ sources'[s].banned = Down(sources[s].banned)
                        /\ sources'[s].violations = sources[s].violations
    OBVIOUS
  <2>2. sources'[s] = Aged(sources[s]) /\ sources[s] \in Entry
    BY <2>1 DEF Tick, Inv, Sound
  <2>3. Aged(sources[s]) \in Entry
    BY <2>1, <2>2, AgedEntry DEF Inv, Sound, Refilled, Tracked
  <2> QED
    BY <2>2, <2>3, Constants DEF Aged, Entry
<1>2. \A s \in Source : sources[s] = None => sources'[s] = None
  BY DEF Tick
<1>3. \A s \in Source : sources[s] # None => sources[s].bucket \in 0 .. SourceBurst
                                              /\ sources[s].banned \in 0 .. SourceBan
  BY <1>1 DEF Entry
<1>4. \A s \in Source : Level(sources')[s] = M!Capped(Level(sources)[s] + SourceRate)
  BY <1>1, <1>2, <1>3, Constants DEF Level, M!Capped, Filled
<1>5. \A s \in Source :
        Barred(sources')[s] = IF Barred(sources)[s] = 0 THEN 0 ELSE Barred(sources)[s] - 1
  BY <1>1, <1>2, <1>3, Constants DEF Barred, Down
<1>6. \A s \in Source : Strikes(sources')[s] =
        IF Level(sources')[s] >= Cost THEN 0 ELSE Strikes(sources)[s]
  <2>1. SUFFICES ASSUME NEW s \in Source, ~(Level(sources')[s] >= Cost)
                 PROVE  sources'[s].violations = Strikes(sources)[s]
    BY DEF Strikes
  <2>2. sources[s] # None
    BY <2>1, <1>2, Constants DEF Level
  <2>3. ~(Level(sources)[s] >= Cost)
    BY <2>1, <2>2, <1>1, <1>3, Constants DEF Level, Filled
  <2> QED
    BY <2>2, <2>3, <1>1 DEF Strikes
<1> QED
  BY <1>4, <1>5, <1>6 DEF M!Pass, Level, Barred, Strikes

(* Whatever the table forgets, each source is treated as if nothing were   *)
(* ever forgotten, for any number of sources and any order of sweeps.      *)
THEOREM MeterCorrect == Spec => ImplementsMeter
<1>1. Init => M!Init
  BY Constants DEF Init, M!Init, Level, Barred, Strikes
<1>2. Inv /\ [Next]_vars => [M!Next]_(M!vars)
  <2> SUFFICES ASSUME Inv, [Next]_vars PROVE M!Next \/ UNCHANGED M!vars
    OBVIOUS
  <2>1. CASE Tick
    BY <2>1, TickStep DEF M!Next
  <2>2. ASSUME NEW s \in Source, BannedSource(s) \/ GlobalLimit(s) \/ TableFull(s)
        PROVE  UNCHANGED M!vars
    <3>1. Alike(sources', sources)
      BY <2>2, SweepUnseen DEF BannedSource, GlobalLimit, TableFull
    <3> QED
      BY <3>1 DEF Alike, M!vars
  <2>3. ASSUME NEW s \in Source, Allowed(s) \/ Violation(s) \/ BanStarts(s)
        PROVE  M!Next
    BY <2>3, AllowedStep, ViolationStep, BanStep DEF M!Next
  <2>4. CASE UNCHANGED vars
    BY <2>4 DEF vars, M!vars, Level, Barred, Strikes
  <2> QED
    BY <2>1, <2>2, <2>3, <2>4 DEF Next, Allow
<1> QED
  BY <1>1, <1>2, InvAlways, PTL DEF Spec, ImplementsMeter, M!Spec

-----------------------------------------------------------------------------
(* What is let through in a window of time.                                *)

(* What a call of allow takes from the bucket of its source and from the   *)
(* global one: the cost of the datagram from both when it is allowed, and  *)
(* else nothing from any source.                                           *)
LEMMA AllowTakes ==
  ASSUME Inv, NEW s \in Source, Allow(s)
  PROVE  IF decision' = "allowed"
         THEN /\ Level(sources') = [Level(sources) EXCEPT ![s] = @ - Cost]
              /\ globalBucket' = globalBucket - Cost
         ELSE /\ Level(sources') = Level(sources)
              /\ globalBucket' <= globalBucket
<1>1. globalBucket \in Nat
  BY Constants DEF Inv
<1>2. CASE BannedSource(s) \/ GlobalLimit(s) \/ TableFull(s)
  <2>1. Level(sources') = Level(sources)
    BY <1>2, SweepUnseen DEF BannedSource, GlobalLimit, TableFull, Alike
  <2>2. decision' # "allowed" /\ globalBucket' <= globalBucket
    BY <1>1, <1>2, Constants DEF BannedSource, GlobalLimit, TableFull, PassesGlobal
  <2> QED
    BY <2>1, <2>2
<1>3. CASE Allowed(s)
  BY <1>3, AllowedStep DEF M!Accept, Allowed, Judged, PassesGlobal
<1>4. CASE Violation(s) \/ BanStarts(s)
  <2>1. Level(sources') = Level(sources)
    BY <1>4, ViolationStep, BanStep DEF M!Refuse, M!StartBan
  <2>2. decision' # "allowed" /\ globalBucket' <= globalBucket
    BY <1>1, <1>4, Constants DEF Violation, BanStarts, Judged, PassesGlobal
  <2> QED
    BY <2>1, <2>2
<1> QED
  BY <1>2, <1>3, <1>4 DEF Allow

Counts == elapsed \in Nat /\ served \in [Source -> Nat] /\ total \in Nat

RateInv == Inv /\ Counts /\ SourceBound /\ GlobalBound

LEMMA LevelTyped ==
  ASSUME NEW T, Sound(T)
  PROVE  Level(T) \in [Source -> 0 .. SourceBurst]
BY Constants DEF Sound, Level, Entry

(* A window that begins now begins with what the buckets hold.             *)
LEMMA WindowBegins ==
  ASSUME Sound(sources'), globalBucket' \in 0 .. GlobalBurst, elapsed' = 0,
         served' = [s \in Source |-> 0], total' = 0
  PROVE  Counts' /\ SourceBound' /\ GlobalBound'
<1>1. Level(sources') \in [Source -> 0 .. SourceBurst]
  BY LevelTyped
<1>2. 0 * Cost = 0 /\ 0 * SourceRate = 0 /\ 0 * GlobalRate = 0
  BY Constants
<1>3. SourceBound'
  BY <1>1, <1>2, Constants DEF SourceBound
<1>4. GlobalBound'
  <2>1. 0 + globalBucket' <= GlobalBurst + 0
    <3>1. \A g \in 0 .. GlobalBurst : 0 + g <= GlobalBurst + 0
      BY Constants
    <3> QED
      BY <3>1
  <2>2. total' * Cost = 0 /\ elapsed' * GlobalRate = 0
    BY <1>2
  <2> QED
    BY <2>1, <2>2, Zenon DEF GlobalBound
<1>5. Counts'
  BY DEF Counts
<1> QED
  BY <1>3, <1>4, <1>5

LEMMA TickRate ==
  ASSUME RateInv, TickCounted, Inv'
  PROVE  RateInv'
<1>1. Counts'
  BY DEF RateInv, Counts, TickCounted
<1>2. /\ (elapsed + 1) * SourceRate = elapsed * SourceRate + SourceRate
      /\ (elapsed + 1) * GlobalRate = elapsed * GlobalRate + GlobalRate
      /\ elapsed * SourceRate \in Nat /\ elapsed * GlobalRate \in Nat
      /\ total * Cost \in Nat /\ \A s \in Source : served[s] * Cost \in Nat
  BY Constants DEF RateInv, Counts
<1>3. GlobalBound'
  <2>1. globalBucket' <= globalBucket + GlobalRate /\ globalBucket' \in Nat
        /\ globalBucket \in Nat
    BY Constants DEF RateInv, Inv, TickCounted, Tick, Filled
  <2>2. total' = total /\ elapsed' = elapsed + 1
    BY DEF TickCounted
  <2> QED
    BY <1>2, <2>1, <2>2, Constants DEF RateInv, GlobalBound
<1>4. SourceBound'
  <2> SUFFICES ASSUME NEW s \in Source
               PROVE  served'[s] * Cost + Level(sources')[s]
                        <= SourceBurst + elapsed' * SourceRate
    BY DEF SourceBound
  <2>1. Level(sources)[s] \in 0 .. SourceBurst /\ Level(sources')[s] \in 0 .. SourceBurst
    BY LevelTyped DEF RateInv, Inv
  <2>2. Level(sources')[s] = M!Capped(Level(sources)[s] + SourceRate)
    BY TickStep DEF M!Pass, RateInv, TickCounted
  <2>3. Level(sources')[s] <= Level(sources)[s] + SourceRate
    BY <2>1, <2>2, Constants DEF M!Capped
  <2>4. served' = served /\ elapsed' = elapsed + 1
    BY DEF TickCounted
  <2>5. served[s] * Cost + Level(sources)[s] <= SourceBurst + elapsed * SourceRate
    BY DEF RateInv, SourceBound
  <2> QED
    BY <1>2, <2>1, <2>3, <2>4, <2>5, Constants
<1> QED
  BY <1>1, <1>3, <1>4 DEF RateInv

LEMMA AllowRate ==
  ASSUME RateInv, NEW s \in Source, AllowCounted(s), Inv'
  PROVE  RateInv'
<1>1. Counted \in {0, 1} /\ (Counted = 1 <=> decision' = "allowed")
  BY DEF Counted
<1>2. /\ served' = [served EXCEPT ![s] = @ + Counted] /\ total' = total + Counted
      /\ elapsed' = elapsed
  BY DEF AllowCounted
<1>3. Counts'
  BY <1>1, <1>2 DEF RateInv, Counts
<1>4. /\ (total + 1) * Cost = total * Cost + Cost
      /\ \A x \in Source : (served[x] + 1) * Cost = served[x] * Cost + Cost
      /\ elapsed * SourceRate \in Nat /\ elapsed * GlobalRate \in Nat
      /\ total * Cost \in Nat /\ \A x \in Source : served[x] * Cost \in Nat
  BY Constants DEF RateInv, Counts
<1>5. IF decision' = "allowed"
      THEN /\ Level(sources') = [Level(sources) EXCEPT ![s] = @ - Cost]
           /\ globalBucket' = globalBucket - Cost
      ELSE /\ Level(sources') = Level(sources)
           /\ globalBucket' <= globalBucket
  BY AllowTakes DEF RateInv, AllowCounted
<1>6. GlobalBound'
  <2>1. globalBucket \in Nat /\ globalBucket' \in Nat /\ total \in Nat
    BY Constants DEF RateInv, Inv, Counts
  <2>2. CASE decision' = "allowed"
    BY <1>1, <1>2, <1>4, <1>5, <2>1, <2>2, Constants DEF RateInv, GlobalBound
  <2>3. CASE decision' # "allowed"
    BY <1>1, <1>2, <1>4, <1>5, <2>1, <2>3, Constants DEF RateInv, GlobalBound
  <2> QED
    BY <2>2, <2>3
<1>7. SourceBound'
  <2> SUFFICES ASSUME NEW x \in Source
               PROVE  served'[x] * Cost + Level(sources')[x]
                        <= SourceBurst + elapsed' * SourceRate
    BY DEF SourceBound
  <2>1. Level(sources) \in [Source -> 0 .. SourceBurst]
    BY LevelTyped DEF RateInv, Inv
  <2>2. served[x] * Cost + Level(sources)[x] <= SourceBurst + elapsed * SourceRate
    BY DEF RateInv, SourceBound
  <2>3. CASE x = s /\ decision' = "allowed"
    <3>1. Level(sources')[x] = Level(sources)[x] - Cost
      BY <1>5, <2>1, <2>3
    <3>2. served'[x] = served[x] + 1
      BY <1>1, <1>2, <2>3 DEF RateInv, Counts
    <3> QED
      BY <1>2, <1>4, <2>1, <2>2, <3>1, <3>2, Constants
  <2>4. CASE ~(x = s /\ decision' = "allowed")
    <3>1. Level(sources')[x] = Level(sources)[x]
      BY <1>5, <2>1, <2>4
    <3>2. served'[x] = served[x]
      BY <1>1, <1>2, <2>4 DEF RateInv, Counts
    <3> QED
      BY <1>2, <2>2, <3>1, <3>2
  <2> QED
    BY <2>3, <2>4
<1> QED
  BY <1>3, <1>6, <1>7 DEF RateInv

(* The counting changes nothing: behaviours that are counted are those of  *)
(* Admission.                                                              *)
THEOREM CountedIsAdmission == RateSpec => Spec
<1>1. RateInit => Init
  BY DEF RateInit
<1>2. [RateNext]_rateVars => [Next]_vars
  BY DEF RateNext, TickCounted, AllowCounted, BeginWindow, rateVars, Next, vars
<1> QED
  BY <1>1, <1>2, PTL DEF RateSpec, Spec

(* The rate limits are kept, for any number of sources and in every window *)
(* of time: a source that the table forgets and that comes back has not    *)
(* gained a datagram by it, and many sources together pass no more than    *)
(* the global bucket gives.                                                *)
THEOREM RateCorrect == RateSpec => [](SourceBound /\ GlobalBound)
<1>1. RateInit => RateInv
  <2> SUFFICES ASSUME RateInit PROVE RateInv
    OBVIOUS
  <2>1. Inv /\ Counts
    BY InitInv DEF RateInit, Counts
  <2>2. 0 * Cost = 0 /\ 0 * SourceRate = 0 /\ 0 * GlobalRate = 0
    BY Constants
  <2>3. SourceBound
    BY <2>2, Constants DEF RateInit, Init, SourceBound, Level
  <2>4. GlobalBound
    BY <2>2, Constants DEF RateInit, Init, GlobalBound
  <2> QED
    BY <2>1, <2>3, <2>4 DEF RateInv
<1>2. RateInv /\ [RateNext]_rateVars => RateInv'
  <2> SUFFICES ASSUME RateInv, [RateNext]_rateVars PROVE RateInv'
    OBVIOUS
  <2>1. [Next]_vars
    BY DEF RateNext, rateVars, vars, TickCounted, AllowCounted, BeginWindow, Next
  <2>2. Inv'
    BY <2>1, NextInv DEF RateInv
  <2>3. CASE BeginWindow
    BY <2>2, <2>3, WindowBegins DEF RateInv, Inv, BeginWindow
  <2>4. CASE UNCHANGED rateVars
    BY <2>2, <2>4 DEF RateInv, rateVars, Counts, SourceBound, GlobalBound, Level
  <2> QED
    BY <2>2, <2>3, <2>4, TickRate, AllowRate DEF RateNext
<1>3. RateInv => SourceBound /\ GlobalBound
  BY DEF RateInv
<1> QED
  BY <1>1, <1>2, <1>3, PTL DEF RateSpec
=============================================================================
