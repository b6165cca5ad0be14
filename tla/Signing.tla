------------------------------- MODULE Signing -------------------------------
(***************************************************************************)
(* The files a build of the patcher shares with other builds: the signing  *)
(* identity (ensure_signing_material), the output APK and the report       *)
(* (build_output), all in patcher/patch_apk.py.                            *)
(*                                                                         *)
(* A build is a process of its own.  Each of its actions is one change of  *)
(* the shared files or one look at them; between any two it may meet an    *)
(* error, which it handles, or be killed, which it does not.  What it does *)
(* in its temporary directory (patching, aligning) is part of the next     *)
(* action.  A key is named by the build that generates it, and stands for  *)
(* the keystore as well as for the password the configuration holds: the   *)
(* two match only if they are of one key.                                  *)
(***************************************************************************)
EXTENDS FiniteSets, TLC

CONSTANTS
  Build,           \* builds, one after the other or at once
  Output,          \* output paths, each with the report beside it
  None,            \* a file that does not exist
  Alone            \* TRUE: no build is started while another one runs

ASSUME SigningConstants == None \notin Build /\ Alone \in BOOLEAN

VARIABLES
  keystore,        \* signing.p12: the key in it, or None
  configuration,   \* signing.json: the key whose password it holds, or None
  output,          \* path -> the build whose APK is there, or None
  report,          \* path -> the build whose report is there, or None
  temporary,       \* build -> its temporary files beside the shared ones
  pc,              \* build -> where it stands
  job,             \* build -> what it was asked for
  material,        \* build -> the key whose password it holds, or None
  signer           \* build -> the key its APK is signed with, or None

files == <<keystore, configuration, output, report>>
vars == <<files, temporary, pc, job, material, signer>>

Job == [path : Output, report : BOOLEAN, signed : BOOLEAN]
Temporary == {"password", "keystore", "configuration", "report"}
(* "half": the keystore is replaced and the configuration is not.          *)
Generating == {"generating", "keytool", "key", "pair", "half"}
Placing == {"ready", "reported", "placed"}
Running == Generating \cup Placing \cup {"patched", "material", "cleanup"}
Place == Running \cup {"idle", "done", "failed", "killed"}

Init ==
  /\ keystore = None /\ configuration = None
  /\ output = [o \in Output |-> None] /\ report = [o \in Output |-> None]
  /\ temporary = [b \in Build |-> {}]
  /\ pc = [b \in Build |-> "idle"]
  /\ job \in [Build -> Job]
  /\ material = [b \in Build |-> None] /\ signer = [b \in Build |-> None]

From(b, place) == pc[b] = place
Goto(b, place) == pc' = [pc EXCEPT ![b] = place]
Adds(b, file) == temporary' = [temporary EXCEPT ![b] = @ \cup {file}]
Drops(b, some) == temporary' = [temporary EXCEPT ![b] = @ \ some]

Path(b) == job[b].path
Idle == \A b \in Build : pc[b] \notin Running

(* Mutant: only the report's path is looked at.                            *)
ReportVacant(b) == job[b].report => report[Path(b)] = None

(* build_output refuses an existing output or report, then patches.        *)
Vacant(b) == output[Path(b)] = None /\ (job[b].report => report[Path(b)] = None)

Start(b) ==
  /\ From(b, "idle") /\ (Alone => Idle)
  /\ \/ Vacant(b) /\ Goto(b, IF job[b].signed THEN "patched" ELSE "ready")
     \/ Goto(b, "failed")
  /\ UNCHANGED <<files, temporary, job, material, signer>>

(* Mutant: existing material is not looked for.                            *)
NothingSought == TRUE

(* load_signing_material finds nothing, both files or one of them.         *)
NothingThere == keystore = None /\ configuration = None

LoadMaterial(b) ==
  /\ From(b, "patched")
  /\ \/ NothingThere /\ Goto(b, "generating") /\ material' = material
     \/ /\ keystore # None /\ configuration # None
        /\ Goto(b, "material")
        /\ material' = [material EXCEPT ![b] = configuration]
     \/ /\ ~NothingThere /\ (keystore = None \/ configuration = None)
        /\ Goto(b, "failed") /\ material' = material
  /\ UNCHANGED <<files, temporary, job, signer>>

(* Generation: the password file for keytool, the temporary keystore, the  *)
(* temporary configuration, and the two replacements.                      *)
WritePassword(b) ==
  /\ From(b, "generating") /\ Goto(b, "keytool") /\ Adds(b, "password")
  /\ UNCHANGED <<files, job, material, signer>>

GenerateKey(b) ==
  /\ From(b, "keytool") /\ Goto(b, "key")
  /\ temporary' = [temporary EXCEPT ![b] = (@ \ {"password"}) \cup {"keystore"}]
  /\ UNCHANGED <<files, job, material, signer>>

WriteConfiguration(b) ==
  /\ From(b, "key") /\ Goto(b, "pair") /\ Adds(b, "configuration")
  /\ UNCHANGED <<files, job, material, signer>>

ReplaceKeystore(b) ==
  /\ From(b, "pair") /\ Goto(b, "half") /\ Drops(b, {"keystore"})
  /\ keystore' = b
  /\ UNCHANGED <<configuration, output, report, job, material, signer>>

ReplaceConfiguration(b) ==
  /\ From(b, "half") /\ Goto(b, "material") /\ Drops(b, {"configuration"})
  /\ configuration' = b
  /\ material' = [material EXCEPT ![b] = b]
  /\ UNCHANGED <<keystore, output, report, job, signer>>

(* An error in any of these: the password file goes in any case.           *)
GenerationFails(b) ==
  /\ pc[b] \in Generating /\ Goto(b, "cleanup") /\ Drops(b, {"password"})
  /\ UNCHANGED <<files, job, material, signer>>

(* Mutant: the cleanup leaves a half-made pair.                            *)
PairKept == UNCHANGED <<keystore, configuration>>

(* Of a half-made pair the cleanup removes the half.                       *)
HalfRemoved ==
  IF (keystore = None) # (configuration = None)
  THEN keystore' = None /\ configuration' = None
  ELSE UNCHANGED <<keystore, configuration>>

Cleanup(b) ==
  /\ From(b, "cleanup") /\ Goto(b, "failed")
  /\ Drops(b, {"keystore", "configuration"})
  /\ HalfRemoved
  /\ UNCHANGED <<output, report, job, material, signer>>

(* An unlink of the cleanup fails and ends it: some of the temporary files *)
(* may be gone, the pair is as it was.                                     *)
CleanupFails(b) ==
  /\ From(b, "cleanup") /\ Goto(b, "killed")
  /\ \E some \in SUBSET {"keystore", "configuration"} : Drops(b, some)
  /\ UNCHANGED <<files, job, material, signer>>

(* Mutant: the exit code of apksigner is not looked at.                    *)
SignUnchecked(b) ==
  /\ From(b, "material") /\ Goto(b, "ready")
  /\ \/ keystore = material[b] /\ signer' = [signer EXCEPT ![b] = keystore]
     \/ signer' = signer
  /\ UNCHANGED <<files, temporary, job, material>>

(* apksigner opens the keystore that is there by then; it takes the        *)
(* password of its key.  Alignment and verification leave no trace.        *)
Sign(b) ==
  /\ From(b, "material")
  /\ \/ /\ keystore = material[b] /\ Goto(b, "ready")
        /\ signer' = [signer EXCEPT ![b] = keystore]
     \/ Goto(b, "failed") /\ signer' = signer
  /\ UNCHANGED <<files, temporary, job, material>>

WriteReport(b) ==
  /\ From(b, "ready") /\ Goto(b, "reported")
  /\ IF job[b].report THEN Adds(b, "report") ELSE temporary' = temporary
  /\ UNCHANGED <<files, job, material, signer>>

PlaceOutput(b) ==
  /\ From(b, "reported")
  /\ Goto(b, IF job[b].report THEN "placed" ELSE "done")
  /\ output' = [output EXCEPT ![Path(b)] = b]
  /\ UNCHANGED <<keystore, configuration, report, temporary, job, material, signer>>

PlaceReport(b) ==
  /\ From(b, "placed") /\ Goto(b, "done") /\ Drops(b, {"report"})
  /\ report' = [report EXCEPT ![Path(b)] = b]
  /\ UNCHANGED <<keystore, configuration, output, job, material, signer>>

(* Mutant: the output stays when its report cannot be placed.              *)
OutputKept(b) == output' = output

(* Whatever is at the output path goes.                                    *)
OutputRemoved(b) == output' = [output EXCEPT ![Path(b)] = None]

(* An error while the files are placed.                                    *)
PlacingFails(b) ==
  /\ pc[b] \in Placing /\ Goto(b, "failed")
  /\ OutputRemoved(b)
  /\ Drops(b, {"report"})
  /\ UNCHANGED <<keystore, configuration, report, job, material, signer>>

(* An unlink in the handler fails as well: the temporary report stays, and *)
(* perhaps the output.                                                     *)
RemovalFails(b) ==
  /\ pc[b] \in Placing /\ Goto(b, "killed")
  /\ OutputRemoved(b) \/ output' = output
  /\ UNCHANGED <<keystore, configuration, report, temporary, job, material, signer>>

(* The process is killed, interrupted or loses its power.  An interrupt    *)
(* still takes the password file along (the finally clause of              *)
(* password_file) and is no Exception that the handlers would catch.       *)
Kill(b) ==
  /\ pc[b] \in Running /\ Goto(b, "killed")
  /\ \E some \in {{}, {"password"}} : Drops(b, some)
  /\ UNCHANGED <<files, job, material, signer>>

Ensure(b) ==
  \/ LoadMaterial(b) \/ WritePassword(b) \/ GenerateKey(b) \/ WriteConfiguration(b)
  \/ ReplaceKeystore(b) \/ ReplaceConfiguration(b)
  \/ GenerationFails(b) \/ Cleanup(b) \/ CleanupFails(b)

Deliver(b) ==
  \/ Sign(b) \/ WriteReport(b) \/ PlaceOutput(b) \/ PlaceReport(b)
  \/ PlacingFails(b) \/ RemovalFails(b)

Next == \E b \in Build : Start(b) \/ Ensure(b) \/ Deliver(b) \/ Kill(b)

Spec == Init /\ [][Next]_vars

-----------------------------------------------------------------------------
(* Every variable has its type, and an APK is delivered signed exactly     *)
(* when that was asked for.                                                *)
TypeOK ==
  /\ keystore \in Build \cup {None} /\ configuration \in Build \cup {None}
  /\ output \in [Output -> Build \cup {None}]
  /\ report \in [Output -> Build \cup {None}]
  /\ temporary \in [Build -> SUBSET Temporary]
  /\ pc \in [Build -> Place] /\ job \in [Build -> Job]
  /\ material \in [Build -> Build \cup {None}]
  /\ signer \in [Build -> Build \cup {None}]
  /\ \A b \in Build :
       pc[b] \in Placing \cup {"done"} => (job[b].signed <=> signer[b] # None)

(* Signing implements Identity while builds do not overlap: wherever they  *)
(* fail or are killed, no second identity ever takes the place of one that *)
(* was complete, and nothing is signed by another (README.md: "Subsequent  *)
(* builds reuse that identity").                                           *)
identityBar == IF keystore = configuration THEN keystore ELSE None
signaturesBar == {signer[b] : b \in Build} \ {None}

I == INSTANCE Identity WITH Key <- Build, identity <- identityBar,
                            signatures <- signaturesBar

ImplementsIdentity == I!Spec

(* Half a pair, which every later build refuses, is only ever left by a    *)
(* process that was killed inside the generation or could not clean up     *)
(* after it: a build that reports its failure leaves a directory the next  *)
(* one can use.                                                            *)
OnlyKillsStrand ==
  Idle /\ (keystore = None) # (configuration = None) =>
    \E b \in Build : keystore = b /\ pc[b] = "killed"

(* A build that has ended by itself has either delivered all of what was   *)
(* asked for or nothing (test_patch_apk.py, "rejected without output"),    *)
(* and has taken its temporary files along.                                *)
AllOrNothing ==
  \A b \in Build : pc[b] \in {"done", "failed"} =>
    /\ temporary[b] = {}
    /\ {o \in Output : output[o] = b} = IF pc[b] = "done" THEN {Path(b)} ELSE {}
    /\ {o \in Output : report[o] = b}
         = IF pc[b] = "done" /\ job[b].report THEN {Path(b)} ELSE {}

(* A file that was at an output path before a build is never touched by it *)
(* (nickname-collision-fix/README.md: "Existing outputs are refused").     *)
ExistingOutputsStay ==
  [][\A o \in Output :
       /\ output[o] # None /\ output'[o] # output[o] =>
            \E b \in Build : output[o] = b /\ pc[b] \in Placing
       /\ report[o] # None => report'[o] = report[o]]_vars
=============================================================================
