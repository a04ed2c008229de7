----------------------------- MODULE AuthoringJob -----------------------------
(***************************************************************************)
(* An encoding job of the editor windows: Unity's OpenVolumetricEncoder-   *)
(* Window.cs and Unreal's OpenVolumetricEncoderWindow.cpp.  A job encodes  *)
(* one representation, or a low and a high one with a manifest over both,  *)
(* and publishes files beside those of the job before.  The two hosts      *)
(* publish in a different order and look at the cancel button at           *)
(* different places.  The editor may be killed at any step.                *)
(***************************************************************************)
EXTENDS Packer

CONSTANTS Setups, MaxJobs

ASSUME JobAssumption ==
  /\ MaxJobs \in Nat
  /\ Setups \subseteq [host : {"Unity", "Unreal"}, adaptive : BOOLEAN, overwrite : BOOLEAN, task : Task]

VARIABLES
  setup,   \* the window's settings
  job,     \* its number, where it is, in which representation, whether it is cancelled
  disk,    \* what is at each destination: the job that wrote it
  staged,  \* what is in the staging directory
  before   \* the destinations as the job found them

jobVars == <<setup, job, disk, staged, before>>
vars == <<packVars, jobVars>>

Nothing == 0
Places == {"single", "low", "high", "manifest"}
Empty == [p \in Places |-> Nothing]

Representations == IF setup.adaptive THEN <<"low", "high">> ELSE <<"single">>
Place == Representations[job.rep]
Outputs == IF setup.adaptive THEN {"low", "high", "manifest"} ELSE {"single"}

Init ==
  /\ setup \in Setups
  /\ job = [n |-> 0, at |-> "idle", rep |-> 1, cancel |-> FALSE, ended |-> "none"]
  /\ disk = Empty /\ staged = Empty /\ before = Empty
  /\ task = setup.task /\ pack = Idle /\ packaged = NoFile

Unity == setup.host = "Unity"
At(from) == job.at = from
To(to) == job' = [job EXCEPT !.at = to]
OnlyJob == UNCHANGED <<packVars, setup, disk, staged, before>>

\* The end of a job removes its staging and temporary directories.
End(how) ==
  /\ job' = [job EXCEPT !.at = "idle", !.ended = how]
  /\ staged' = Empty /\ packaged' = NoFile /\ pack' = Idle
  /\ UNCHANGED <<task, setup, disk, before>>

-----------------------------------------------------------------------------
(* One representation.                                                     *)

\* Inputs that cannot be encoded are refused, and so are outputs that exist unless
\* they may be replaced: a single one here, those of a package by the window.
Valid == setup.overwrite \/ \A p \in Outputs : disk[p] = Nothing

Start ==
  /\ At("idle") /\ job.n < MaxJobs /\ Valid
  /\ job' = [n |-> job.n + 1, at |-> "geometry", rep |-> 1, cancel |-> FALSE, ended |-> "none"]
  /\ before' = disk
  /\ UNCHANGED <<packVars, setup, disk, staged>>

Cancel == ~At("idle") /\ ~job.cancel /\ job' = [job EXCEPT !.cancel = TRUE] /\ OnlyJob

\* Every mesh, then FFmpeg.  Unity stops FFmpeg; Unreal looks again when it is over.
Encode ==
  \/ /\ At("geometry") /\ ~job.cancel /\ To("video") /\ OnlyJob
  \/ At("video") /\ (Unity => ~job.cancel) /\ To("encoded") /\ OnlyJob
EncodeFails == (At("geometry") \/ At("video")) /\ End("failed")

\* Not the code: the button is looked at while files are moved.
CancelPointsLate == {"geometry", "encoded", "packed", "both", "delete", "move"}

\* Where the button is looked at.
CancelPoints == {"geometry", "encoded", "packed"} \cup IF Unity THEN {"video", "both"} ELSE {"manifest"}
Cancelled == job.cancel /\ job.at \in CancelPoints /\ End("cancelled")

StartPacking ==
  /\ At("encoded") /\ ~job.cancel /\ To("packing") /\ Begin(setup.task)
  /\ UNCHANGED <<setup, disk, staged, before>>
Packing == At("packing") /\ PackSteps /\ UNCHANGED jobVars
Packed == At("packing") /\ pack.at = "done" /\ To("packed") /\ OnlyJob
PackingFails == At("packing") /\ pack.at = "failed" /\ End("failed")

\* The representation is complete: the next one, the manifest or the end.
Advance(where) ==
  job' = IF job.rep < Len(Representations) THEN [job EXCEPT !.rep = @ + 1, !.at = "geometry"]
         ELSE [job EXCEPT !.at = where]
Consumed == packaged' = NoFile /\ UNCHANGED <<task, pack, setup, before>>

\* Unity replaces a single file in one step, and stages those of a package.
UnityPublishes ==
  /\ Unity /\ At("packed") /\ ~job.cancel
  /\ IF setup.adaptive THEN /\ staged' = [staged EXCEPT ![Place] = job.n] /\ UNCHANGED disk
                            /\ Advance("both")
     ELSE /\ disk' = [disk EXCEPT !.single = job.n] /\ UNCHANGED staged
          /\ Advance("published")
  /\ Consumed

\* Unreal deletes what is there and moves each representation as it is ready.
UnrealDeletes ==
  /\ ~Unity /\ At("packed") /\ ~job.cancel /\ To("moving")
  /\ disk' = IF setup.overwrite THEN [disk EXCEPT ![Place] = Nothing] ELSE disk
  /\ UNCHANGED <<packVars, setup, staged, before>>
UnrealMoves ==
  /\ At("moving") /\ disk' = [disk EXCEPT ![Place] = job.n]
  /\ Advance(IF setup.adaptive THEN "manifest" ELSE "published") /\ UNCHANGED staged /\ Consumed
UnrealMoveFails == At("moving") /\ End("failed")

-----------------------------------------------------------------------------
(* The package.                                                            *)

\* Unity: both representations and the manifest are staged, then every destination
\* is deleted and the three are moved, the manifest last.
StageManifest ==
  /\ At("both") /\ ~job.cancel /\ To("delete")
  /\ staged' = [staged EXCEPT !.manifest = job.n] /\ UNCHANGED <<packVars, setup, disk, before>>
ManifestRefused == (At("both") \/ At("manifest")) /\ ~job.cancel /\ End("failed")

DeleteOld ==
  /\ At("delete")
  /\ \/ /\ disk.low # Nothing /\ disk' = [disk EXCEPT !.low = Nothing] /\ UNCHANGED job
     \/ /\ disk.low = Nothing /\ disk.high # Nothing
        /\ disk' = [disk EXCEPT !.high = Nothing] /\ UNCHANGED job
     \/ /\ disk.low = Nothing /\ disk.high = Nothing
        /\ disk' = [disk EXCEPT !.manifest = Nothing] /\ To("move")
  /\ UNCHANGED <<packVars, setup, staged, before>>

Move(p) ==
  /\ disk' = [disk EXCEPT ![p] = staged[p]] /\ staged' = [staged EXCEPT ![p] = Nothing]
  /\ UNCHANGED <<packVars, setup, before>>

\* Not the code: the manifest is moved before the files it names.
MovesManifestFirst ==
  /\ At("move")
  /\ \/ staged.manifest # Nothing /\ Move("manifest") /\ UNCHANGED job
     \/ staged.manifest = Nothing /\ staged.low # Nothing /\ Move("low") /\ UNCHANGED job
     \/ staged.manifest = Nothing /\ staged.low = Nothing /\ Move("high") /\ To("published")

MoveStaged ==
  /\ At("move")
  /\ \/ staged.low # Nothing /\ Move("low") /\ UNCHANGED job
     \/ staged.low = Nothing /\ staged.high # Nothing /\ Move("high") /\ UNCHANGED job
     \/ staged.low = Nothing /\ staged.high = Nothing /\ Move("manifest") /\ To("published")
PublishingFails == (At("delete") \/ At("move")) /\ End("failed")

\* write_adaptive_package_manifest() at the destination: the old one is removed, then
\* the new one renamed.
UnrealRemovesManifest ==
  /\ At("manifest") /\ ~job.cancel /\ To("rename")
  /\ disk' = [disk EXCEPT !.manifest = Nothing] /\ UNCHANGED <<packVars, setup, staged, before>>
UnrealRenamesManifest ==
  /\ At("rename") /\ To("published")
  /\ disk' = [disk EXCEPT !.manifest = job.n] /\ UNCHANGED <<packVars, setup, staged, before>>

\* Unreal reports a job that was cancelled too late as cancelled.
Complete == At("published") /\ End(IF job.cancel /\ ~Unity THEN "cancelled" ELSE "complete")

\* The editor is killed; directories of its own are left behind.
Crash ==
  /\ ~At("idle") /\ job' = [job EXCEPT !.at = "idle", !.ended = "killed"]
  /\ pack' = Idle /\ packaged' = NoFile /\ staged' = Empty
  /\ UNCHANGED <<task, setup, disk, before>>

Next ==
  \/ Start \/ Cancel \/ Encode \/ EncodeFails \/ Cancelled
  \/ StartPacking \/ Packing \/ Packed \/ PackingFails
  \/ UnityPublishes \/ UnrealDeletes \/ UnrealMoves \/ UnrealMoveFails
  \/ StageManifest \/ ManifestRefused \/ DeleteOld \/ MoveStaged \/ PublishingFails
  \/ UnrealRemovesManifest \/ UnrealRenamesManifest \/ Complete \/ Crash

Spec == Init /\ [][Next]_vars

-----------------------------------------------------------------------------
(* Properties.                                                             *)

\* A manifest is published over files of its own job, both of them: whatever was
\* cancelled, failed or killed before.
ManifestIsLast ==
  [][disk'.manifest \notin {disk.manifest, Nothing} =>
       disk'.low = disk'.manifest /\ disk'.high = disk'.manifest]_vars

\* A Unity job that is cancelled leaves every destination as it found it.  (Unreal
\* does not: it has replaced the low representation before it encodes the high one.)
CancelKeepsOutputs == Unity /\ job.ended = "cancelled" => disk = before

\* A package that is complete is of one job (while its manifest is of the job before,
\* a Unreal package is not: the low representation is already the new one).
PackageIsWhole ==
  disk.manifest # Nothing => disk.low = disk.manifest /\ disk.high = disk.manifest
=============================================================================
