---------------------------- MODULE SigningProofs ----------------------------
(***************************************************************************)
(* Theorems about Signing for any number of builds and output paths.  The  *)
(* types hold however builds overlap.  Everything else is about builds     *)
(* that do not (Alone): then at most one is running, and what the files    *)
(* hold follows from where it stands (Pair, Delivery).                     *)
(***************************************************************************)
EXTENDS Signing, TLAPS

Types ==
  /\ keystore \in Build \cup {None} /\ configuration \in Build \cup {None}
  /\ output \in [Output -> Build \cup {None}]
  /\ report \in [Output -> Build \cup {None}]
  /\ temporary \in [Build -> SUBSET Temporary]
  /\ pc \in [Build -> Place] /\ job \in [Build -> Job]
  /\ material \in [Build -> Build \cup {None}]
  /\ signer \in [Build -> Build \cup {None}]

SignedAsAsked ==
  \A b \in Build :
    /\ signer[b] # None => pc[b] \in Placing \cup {"done", "failed", "killed"}
                           /\ job[b].signed
    /\ pc[b] \in Generating \cup {"patched", "material", "cleanup"} => job[b].signed
    /\ pc[b] \in Placing \cup {"done"} /\ job[b].signed => signer[b] # None
    /\ pc[b] = "material" => material[b] # None

LEMMA InitTypes == Init => Types /\ SignedAsAsked
BY SigningConstants DEF Init, Types, SignedAsAsked, Place, Generating, Placing, Running

(* Each action by itself: the types and the signatures.                    *)
LEMMA TypesStep ==
  ASSUME Types, SignedAsAsked, NEW b \in Build,
         Start(b) \/ Ensure(b) \/ Deliver(b) \/ Kill(b)
  PROVE  Types' /\ SignedAsAsked'
<1> USE SigningConstants DEF From, Goto, Adds, Drops, files, Generating, Placing, Running,
        Place, Temporary
<1>1. CASE Start(b)
  BY <1>1 DEF Types, SignedAsAsked, Start
<1>2. CASE LoadMaterial(b)
  BY <1>2 DEF Types, SignedAsAsked, LoadMaterial
<1>3. CASE WritePassword(b)
  BY <1>3 DEF Types, SignedAsAsked, WritePassword
<1>4. CASE GenerateKey(b)
  BY <1>4 DEF Types, SignedAsAsked, GenerateKey
<1>5. CASE WriteConfiguration(b)
  BY <1>5 DEF Types, SignedAsAsked, WriteConfiguration
<1>6. CASE ReplaceKeystore(b)
  BY <1>6 DEF Types, SignedAsAsked, ReplaceKeystore
<1>7. CASE ReplaceConfiguration(b)
  BY <1>7 DEF Types, SignedAsAsked, ReplaceConfiguration
<1>8. CASE GenerationFails(b)
  BY <1>8 DEF Types, SignedAsAsked, GenerationFails
<1>9. CASE Cleanup(b)
  BY <1>9 DEF Types, SignedAsAsked, Cleanup, HalfRemoved
<1>10. CASE CleanupFails(b)
  BY <1>10 DEF Types, SignedAsAsked, CleanupFails
<1>11. CASE Sign(b)
  <2>1. CASE keystore = material[b] /\ Goto(b, "ready")
             /\ signer' = [signer EXCEPT ![b] = keystore]
    BY <1>11, <2>1 DEF Types, SignedAsAsked, Sign
  <2>2. CASE Goto(b, "failed") /\ signer' = signer
    BY <1>11, <2>2 DEF Types, SignedAsAsked, Sign
  <2> QED
    BY <1>11, <2>1, <2>2 DEF Sign
<1>12. CASE WriteReport(b)
  BY <1>12 DEF Types, SignedAsAsked, WriteReport
<1>13. CASE PlaceOutput(b)
  BY <1>13 DEF Types, SignedAsAsked, PlaceOutput
<1>14. CASE PlaceReport(b)
  BY <1>14 DEF Types, SignedAsAsked, PlaceReport
<1>15. CASE PlacingFails(b)
  BY <1>15 DEF Types, SignedAsAsked, PlacingFails, OutputRemoved
<1>16. CASE RemovalFails(b)
  BY <1>16 DEF Types, SignedAsAsked, RemovalFails, OutputRemoved
<1>17. CASE Kill(b)
  BY <1>17 DEF Types, SignedAsAsked, Kill
<1> QED
  BY <1>1, <1>2, <1>3, <1>4, <1>5, <1>6, <1>7, <1>8, <1>9, <1>10, <1>11, <1>12,
     <1>13, <1>14, <1>15, <1>16, <1>17 DEF Ensure, Deliver

(* Every variable has its type and APKs are delivered signed exactly when  *)
(* asked for, also where builds overlap.                                   *)
THEOREM TypeCorrect == Spec => []TypeOK
<1>1. Types /\ SignedAsAsked /\ [Next]_vars => (Types /\ SignedAsAsked)'
  <2>1. CASE UNCHANGED vars
    BY <2>1 DEF vars, files, Types, SignedAsAsked
  <2> QED
    BY <2>1, TypesStep DEF Next
<1>2. Types /\ SignedAsAsked => TypeOK
  BY DEF Types, SignedAsAsked, TypeOK
<1> QED
  BY InitTypes, <1>1, <1>2, PTL DEF Spec
-----------------------------------------------------------------------------
(* Builds that do not overlap.                                             *)

OneRuns == \A a, b \in Build : pc[a] \in Running /\ pc[b] \in Running => a = b

(* The two signing files, by where the running build stands: a complete    *)
(* pair is of one key; a lone file is a keystore, and the build that made  *)
(* it is about to complete the pair, about to remove it, or was killed.    *)
PairAt(b) ==
  /\ pc[b] \in Generating \ {"half"} => keystore = None
  /\ pc[b] \in Generating \cup {"cleanup"} => configuration = None
  /\ pc[b] = "half" => keystore = b
  /\ pc[b] = "cleanup" => keystore \in {None, b}
  /\ pc[b] = "material" => material[b] = keystore /\ configuration # None
  /\ signer[b] # None => signer[b] = configuration

Pair ==
  /\ configuration # None => keystore = configuration
  /\ keystore # None /\ configuration = None =>
       pc[keystore] \in {"half", "cleanup", "killed"}
  /\ \A b \in Build : PairAt(b)

LEMMA OneRunsStep ==
  ASSUME Alone, Types, OneRuns, NEW b \in Build,
         Start(b) \/ Ensure(b) \/ Deliver(b) \/ Kill(b)
  PROVE  /\ OneRuns'
         /\ \A a \in Build \ {b} : pc'[a] = pc[a] /\ pc[a] \notin Running
<1>1. \A a \in Build \ {b} : pc'[a] = pc[a] /\ pc[a] \notin Running
  <2>1. /\ pc' \in [Build -> {pc'[x] : x \in Build}]
        /\ \A a \in Build \ {b} : pc'[a] = pc[a]
    BY DEF Types, Start, Ensure, Deliver, Kill, LoadMaterial, WritePassword, GenerateKey,
           WriteConfiguration, ReplaceKeystore, ReplaceConfiguration, GenerationFails,
           Cleanup, CleanupFails, Sign, WriteReport, PlaceOutput, PlaceReport,
           PlacingFails, RemovalFails, Goto
  <2>2. CASE Start(b)
    BY <2>1, <2>2 DEF Start, Idle
  <2>3. CASE Ensure(b) \/ Deliver(b) \/ Kill(b)
    <3>1. pc[b] \in Running
      BY <2>3
      DEF Ensure, Deliver, Kill, LoadMaterial, WritePassword, GenerateKey,
          WriteConfiguration, ReplaceKeystore, ReplaceConfiguration, GenerationFails,
          Cleanup, CleanupFails, Sign, WriteReport, PlaceOutput, PlaceReport,
          PlacingFails, RemovalFails, From, Running, Generating, Placing
    <3> QED
      BY <2>1, <3>1 DEF OneRuns
  <2> QED
    BY <2>2, <2>3
<1> QED
  BY <1>1 DEF OneRuns

LEMMA PairStep ==
  ASSUME Alone, Types, SignedAsAsked, OneRuns, Pair, NEW b \in Build,
         Start(b) \/ Ensure(b) \/ Deliver(b) \/ Kill(b)
  PROVE  Pair'
<1>1. \A a \in Build \ {b} : pc'[a] = pc[a] /\ pc[a] \notin Running
  BY OneRunsStep
<1> USE SigningConstants DEF From, Goto, Running, Generating, Placing
<1>2. CASE Start(b)
  BY <1>1, <1>2 DEF Start, Pair, PairAt, Types, files
<1>3. CASE LoadMaterial(b)
  BY <1>1, <1>3 DEF LoadMaterial, NothingThere, Pair, PairAt, Types, files
<1>4. CASE WritePassword(b)
  BY <1>1, <1>4 DEF WritePassword, Pair, PairAt, Types, files
<1>5. CASE GenerateKey(b)
  BY <1>1, <1>5 DEF GenerateKey, Pair, PairAt, Types, files
<1>6. CASE WriteConfiguration(b)
  BY <1>1, <1>6 DEF WriteConfiguration, Pair, PairAt, Types, files
<1>7. CASE ReplaceKeystore(b)
  BY <1>1, <1>7 DEF ReplaceKeystore, Pair, PairAt, Types
<1>8. CASE ReplaceConfiguration(b)
  BY <1>1, <1>8 DEF ReplaceConfiguration, Pair, PairAt, Types
<1>9. CASE GenerationFails(b)
  BY <1>1, <1>9 DEF GenerationFails, Pair, PairAt, Types, files
<1>10. CASE Cleanup(b)
  BY <1>1, <1>10 DEF Cleanup, HalfRemoved, Pair, PairAt, Types
<1>11. CASE CleanupFails(b)
  BY <1>1, <1>11 DEF CleanupFails, Pair, PairAt, Types, files
<1>12. CASE Sign(b)
  <2>1. keystore = configuration /\ keystore' = keystore /\ configuration' = configuration
    BY <1>12 DEF Sign, Pair, PairAt, files
  <2> QED
    BY <1>1, <1>12, <2>1 DEF Sign, Pair, PairAt, Types, files
<1>13. CASE WriteReport(b)
  BY <1>1, <1>13 DEF WriteReport, Pair, PairAt, Types, files
<1>14. CASE PlaceOutput(b)
  BY <1>1, <1>14 DEF PlaceOutput, Pair, PairAt, Types
<1>15. CASE PlaceReport(b)
  BY <1>1, <1>15 DEF PlaceReport, Pair, PairAt, Types
<1>16. CASE PlacingFails(b)
  BY <1>1, <1>16 DEF PlacingFails, Pair, PairAt, Types
<1>17. CASE RemovalFails(b)
  BY <1>1, <1>17 DEF RemovalFails, Pair, PairAt, Types
<1>18. CASE Kill(b)
  BY <1>1, <1>18 DEF Kill, Pair, PairAt, Types, files
<1> QED
  BY <1>2, <1>3, <1>4, <1>5, <1>6, <1>7, <1>8, <1>9, <1>10, <1>11, <1>12, <1>13,
     <1>14, <1>15, <1>16, <1>17, <1>18 DEF Ensure, Deliver

(* A build asks for one pair of paths; what is there is nobody's before it *)
(* is placed, and its own after.                                           *)
DeliveryAt(b) ==
  /\ pc[b] \in {"idle", "patched", "generating", "material", "ready", "done", "failed"} =>
       temporary[b] = {}
  /\ pc[b] = "keytool" => temporary[b] = {"password"}
  /\ pc[b] = "key" => temporary[b] = {"keystore"}
  /\ pc[b] = "pair" => temporary[b] = {"keystore", "configuration"}
  /\ pc[b] = "cleanup" => temporary[b] \subseteq {"keystore", "configuration"}
  /\ pc[b] = "half" => temporary[b] = {"configuration"}
  /\ pc[b] = "reported" => temporary[b] = IF job[b].report THEN {"report"} ELSE {}
  /\ pc[b] = "placed" => temporary[b] = {"report"} /\ job[b].report

OwnFiles(b) ==
  /\ pc[b] \notin {"placed", "done", "killed"} => \A o \in Output : output[o] # b
  /\ pc[b] \notin {"done", "killed"} => \A o \in Output : report[o] # b
  /\ pc[b] \in {"placed", "done"} => \A o \in Output : output[o] = b <=> o = Path(b)
  /\ pc[b] = "done" =>
       \A o \in Output : report[o] = b <=> job[b].report /\ o = Path(b)

Reserved(b) ==
  /\ pc[b] \in Running \ {"placed"} => output[Path(b)] = None
  /\ pc[b] \in Running /\ job[b].report => report[Path(b)] = None

Delivery == \A b \in Build : DeliveryAt(b) /\ OwnFiles(b) /\ Reserved(b)

(* What a step of b does to the shared paths and to its temporary files.   *)
LEMMA DeliveryStep ==
  ASSUME Alone, Types, OneRuns, Delivery, NEW b \in Build,
         Start(b) \/ Ensure(b) \/ Deliver(b) \/ Kill(b)
  PROVE  Delivery'
<1>1. \A a \in Build \ {b} : pc'[a] = pc[a] /\ pc[a] \notin Running
  BY OneRunsStep
<1>2. Path(b) \in Output
  BY DEF Types, Job, Path
<1> USE <1>1, <1>2, SigningConstants DEF From, Goto, Adds, Drops, Running, Generating, Placing,
        Delivery, DeliveryAt, OwnFiles, Reserved, Path, Types
<1>3. CASE Start(b)
  BY <1>3 DEF Start, Vacant, files
<1>4. CASE LoadMaterial(b)
  BY <1>4 DEF LoadMaterial, files
<1>5. CASE WritePassword(b)
  BY <1>5 DEF WritePassword, files
<1>6. CASE GenerateKey(b)
  BY <1>6 DEF GenerateKey, files
<1>7. CASE WriteConfiguration(b)
  BY <1>7 DEF WriteConfiguration, files
<1>8. CASE ReplaceKeystore(b)
  BY <1>8 DEF ReplaceKeystore
<1>9. CASE ReplaceConfiguration(b)
  BY <1>9 DEF ReplaceConfiguration
<1>10. CASE GenerationFails(b)
  BY <1>10 DEF GenerationFails, files
<1>11. CASE Cleanup(b)
  BY <1>11 DEF Cleanup
<1>12. CASE CleanupFails(b)
  BY <1>12 DEF CleanupFails, files
<1>13. CASE Sign(b)
  BY <1>13 DEF Sign, files
<1>14. CASE WriteReport(b)
  <2>1. CASE job[b].report
    BY <1>14, <2>1 DEF WriteReport, files
  <2>2. CASE ~job[b].report
    BY <1>14, <2>2 DEF WriteReport, files
  <2> QED
    BY <2>1, <2>2
<1>15. CASE PlaceOutput(b)
  BY <1>15 DEF PlaceOutput
<1>16. CASE PlaceReport(b)
  BY <1>16 DEF PlaceReport
<1>17. CASE PlacingFails(b)
  BY <1>17 DEF PlacingFails, OutputRemoved
<1>18. CASE RemovalFails(b)
  BY <1>18 DEF RemovalFails, OutputRemoved
<1>19. CASE Kill(b)
  BY <1>19 DEF Kill, files
<1> QED
  BY <1>3, <1>4, <1>5, <1>6, <1>7, <1>8, <1>9, <1>10, <1>11, <1>12, <1>13,
     <1>14, <1>15, <1>16, <1>17, <1>18, <1>19 DEF Ensure, Deliver

-----------------------------------------------------------------------------
Inv == Types /\ SignedAsAsked /\ OneRuns /\ Pair /\ Delivery

LEMMA InitInv == Init => Inv
<1> SUFFICES ASSUME Init PROVE OneRuns /\ Pair /\ Delivery
  BY InitTypes DEF Inv
<1> QED
  BY SigningConstants
  DEF Init, OneRuns, Pair, PairAt, Delivery, DeliveryAt, OwnFiles, Reserved,
      Running, Generating, Placing, Path

LEMMA NextInv == Alone /\ Inv /\ [Next]_vars => Inv'
<1> SUFFICES ASSUME Alone, Inv, [Next]_vars PROVE Inv'
  OBVIOUS
<1>1. CASE UNCHANGED vars
  BY <1>1 DEF vars, files, Inv, Types, SignedAsAsked, OneRuns, Pair, PairAt,
      Delivery, DeliveryAt, OwnFiles, Reserved, Path
<1>2. ASSUME NEW b \in Build, Start(b) \/ Ensure(b) \/ Deliver(b) \/ Kill(b) PROVE Inv'
  <2>1. Types' /\ SignedAsAsked'
    BY <1>2, TypesStep DEF Inv
  <2>2. OneRuns' /\ Pair' /\ Delivery'
    BY <1>2, OneRunsStep, PairStep, DeliveryStep DEF Inv
  <2> QED
    BY <2>1, <2>2 DEF Inv
<1> QED
  BY <1>1, <1>2 DEF Next

LEMMA InvAlways == ASSUME Alone PROVE Spec => []Inv
<1>1. Inv /\ [Next]_vars => Inv'
  BY NextInv
<1> QED
  BY InitInv, <1>1, PTL DEF Spec

(* While builds do not overlap, half a pair is only left behind by a build *)
(* that was killed or could not clean up.                                  *)
THEOREM StrandedCorrect == ASSUME Alone PROVE Spec => []OnlyKillsStrand
<1>1. Inv => OnlyKillsStrand
  BY SigningConstants
  DEF Inv, Types, Pair, OnlyKillsStrand, Idle, Running, Generating, Placing
<1> QED
  BY <1>1, InvAlways, PTL

(* While builds do not overlap, one that ends by itself has delivered all  *)
(* it was asked for or nothing, and no temporary file is left.             *)
THEOREM DeliveryCorrect == ASSUME Alone PROVE Spec => []AllOrNothing
<1>1. Inv => AllOrNothing
  <2> SUFFICES ASSUME Inv, NEW b \in Build, pc[b] \in {"done", "failed"}
               PROVE  /\ temporary[b] = {}
                      /\ {o \in Output : output[o] = b}
                           = IF pc[b] = "done" THEN {Path(b)} ELSE {}
                      /\ {o \in Output : report[o] = b}
                           = IF pc[b] = "done" /\ job[b].report THEN {Path(b)} ELSE {}
    BY DEF AllOrNothing
  <2>1. DeliveryAt(b) /\ OwnFiles(b) /\ Path(b) \in Output
    BY DEF Inv, Types, Job, Path, Delivery
  <2>2. CASE pc[b] = "done"
    BY <2>1, <2>2 DEF DeliveryAt, OwnFiles
  <2>3. CASE pc[b] = "failed"
    BY <2>1, <2>3 DEF DeliveryAt, OwnFiles
  <2> QED
    BY <2>2, <2>3
<1> QED
  BY <1>1, InvAlways, PTL

(* While builds do not overlap, none touches a file that was at an output  *)
(* path before it.                                                         *)
THEOREM OutputsCorrect == ASSUME Alone PROVE Spec => ExistingOutputsStay
<1> DEFINE Stay == \A o \in Output :
       /\ output[o] # None /\ output'[o] # output[o] =>
            \E b \in Build : output[o] = b /\ pc[b] \in Placing
       /\ report[o] # None => report'[o] = report[o]
<1>1. Inv /\ [Next]_vars => [Stay]_vars
  <2> SUFFICES ASSUME Inv, Next PROVE Stay
    OBVIOUS
  <2>1. PICK b \in Build : Start(b) \/ Ensure(b) \/ Deliver(b) \/ Kill(b)
    BY DEF Next
  <2>2. CASE PlaceOutput(b)
    BY <2>2 DEF PlaceOutput, Inv, Types, Job, Path, Delivery, Reserved, From, Running, Placing
  <2>3. CASE PlaceReport(b)
    BY <2>3
    DEF PlaceReport, Inv, Types, Job, Path, Delivery, DeliveryAt, Reserved, From, Running,
        Placing
  <2>4. CASE PlacingFails(b) \/ RemovalFails(b)
    <3>1. pc[b] \in Placing /\ report' = report
          /\ (output' = output \/ output' = [output EXCEPT ![Path(b)] = None])
      BY <2>4 DEF PlacingFails, RemovalFails, OutputRemoved
    <3>2. output[Path(b)] \in {None, b}
      BY <3>1 DEF Inv, Types, Job, Path, Delivery, OwnFiles, Reserved, Running, Placing
    <3> QED
      BY <3>1, <3>2 DEF Inv, Types
  <2>5. CASE ~(PlaceOutput(b) \/ PlaceReport(b) \/ PlacingFails(b) \/ RemovalFails(b))
    <3>1. output' = output /\ report' = report
      BY <2>1, <2>5
      DEF Start, Ensure, Deliver, Kill, LoadMaterial, WritePassword, GenerateKey,
          WriteConfiguration, ReplaceKeystore, ReplaceConfiguration, GenerationFails,
          Cleanup, CleanupFails, Sign, WriteReport, files
    <3> QED
      BY <3>1
  <2> QED
    BY <2>2, <2>3, <2>4, <2>5
<1> QED
  BY <1>1, InvAlways, PTL DEF Spec, ExistingOutputsStay

-----------------------------------------------------------------------------
(* Signing implements Identity while builds do not overlap.                *)

LEMMA IdentityIs == Inv => identityBar = configuration
BY SigningConstants DEF Inv, Types, Pair, identityBar

LEMMA IdentityStep ==
  ASSUME Alone, Inv, NEW b \in Build, Start(b) \/ Ensure(b) \/ Deliver(b) \/ Kill(b)
  PROVE  I!Next \/ UNCHANGED I!vars
<1>1. Inv' /\ identityBar = configuration /\ identityBar' = configuration'
  <2>1. Inv'
    BY NextInv DEF Next
  <2> QED
    BY <2>1, IdentityIs, SigningConstants DEF Inv, Types, Pair, identityBar
<1>2. CASE ReplaceConfiguration(b)
  <2>1. configuration = None /\ configuration' = b /\ signer' = signer
    BY <1>2 DEF ReplaceConfiguration, Inv, Pair, PairAt, From, Generating
  <2> QED
    BY <1>1, <2>1 DEF I!Next, I!Choose, signaturesBar
<1>3. CASE Sign(b)
  <2>1. configuration' = configuration /\ configuration # None
    BY <1>3 DEF Sign, Inv, Pair, PairAt, From, files
  <2>2. CASE signer' = signer
    BY <1>1, <2>1, <2>2 DEF I!vars, signaturesBar
  <2>3. CASE keystore = material[b] /\ signer' = [signer EXCEPT ![b] = keystore]
    <3>1. keystore = configuration
      BY <2>1 DEF Inv, Pair
    <3>2. signaturesBar' = signaturesBar \cup {configuration}
      <4>1. \A a \in Build : signer[a] # None => signer[a] = configuration
        BY DEF Inv, Pair, PairAt
      <4>2. \A a \in Build : signer'[a] = IF a = b THEN configuration ELSE signer[a]
        BY <2>3, <3>1 DEF Inv, Types
      <4> QED
        BY <4>1, <4>2, <2>1 DEF signaturesBar
    <3> QED
      BY <1>1, <2>1, <3>2 DEF I!Next, I!Sign
  <2> QED
    BY <1>3, <2>2, <2>3 DEF Sign
<1>4. CASE Cleanup(b)
  <2>1. configuration = None /\ configuration' = None /\ signer' = signer
    BY <1>4 DEF Cleanup, HalfRemoved, Inv, Pair, PairAt, From
  <2> QED
    BY <1>1, <2>1 DEF I!vars, signaturesBar
<1>5. CASE ~(ReplaceConfiguration(b) \/ Sign(b) \/ Cleanup(b))
  <2>1. configuration' = configuration /\ signer' = signer
    BY <1>5
    DEF Start, Ensure, Deliver, Kill, LoadMaterial, WritePassword, GenerateKey,
        WriteConfiguration, ReplaceKeystore, GenerationFails, CleanupFails, WriteReport,
        PlaceOutput, PlaceReport, PlacingFails, RemovalFails, files
  <2> QED
    BY <1>1, <2>1 DEF I!vars, signaturesBar
<1> QED
  BY <1>2, <1>3, <1>4, <1>5

(* However builds fail or are killed, as long as they do not overlap there *)
(* is one identity, chosen once, and every signature is by it.             *)
THEOREM IdentityCorrect == ASSUME Alone PROVE Spec => ImplementsIdentity
<1>1. Init => I!Init
  BY SigningConstants DEF Init, I!Init, identityBar, signaturesBar
<1>2. Inv /\ [Next]_vars => [I!Next]_(I!vars)
  <2> SUFFICES ASSUME Inv, [Next]_vars PROVE I!Next \/ UNCHANGED I!vars
    OBVIOUS
  <2>1. CASE UNCHANGED vars
    BY <2>1 DEF vars, files, I!vars, identityBar, signaturesBar
  <2> QED
    BY <2>1, IdentityStep DEF Next
<1> QED
  BY <1>1, <1>2, InvAlways, PTL DEF Spec, ImplementsIdentity, I!Spec
=============================================================================
