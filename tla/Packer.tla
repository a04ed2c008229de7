-------------------------------- MODULE Packer --------------------------------
(***************************************************************************)
(* pack_openvolumetric(): turns a numbered mesh sequence and an encoded    *)
(* video into one MP4.  It chooses which frames are whole meshes and which *)
(* only move the points of an earlier one, muxes to a temporary file,      *)
(* checks that file, and renames it last.                                  *)
(*                                                                         *)
(* Frames are counted from 1.  A mesh is its topology; the video is the    *)
(* set of frames at which it can be entered.                               *)
(***************************************************************************)
EXTENDS Integers, Sequences, FiniteSets

CONSTANT N          \* frames in the sequence

ASSUME PackerAssumption == N \in Nat \ {0}

VARIABLES
  task,     \* the options and the sources of this call, field by field in Task
  pack,     \* the call: where, what it has prepared, its temporary file
  packaged  \* what is at output_path

packVars == <<task, pack, packaged>>

Frames == 1 .. N
NoFile == [samples |-> <<>>, keys |-> {}, tagged |-> FALSE, intact |-> FALSE]

Task ==
  [compress : BOOLEAN,        \* enable_topology_compression
   interval : Nat,            \* fragment_frame_interval, 0 for one conventional file
   most : Nat,                \* maximum_geometry_keyframe_interval, 0 for any
   ordered : BOOLEAN,         \* the .drc files preserve the order of points
   topology : [Frames -> Nat],
   keys : SUBSET Frames]      \* frames at which the video can be entered

Idle ==
  [at |-> "idle", packets |-> <<>>, key |-> 0, updates |-> FALSE, window |-> 0, temporary |-> NoFile]

-----------------------------------------------------------------------------
(* prepare_geometry_packets(), one step a frame.                           *)

Upcoming == Len(pack.packets) + 1
Starts(i) == task.interval > 0 /\ (i - 1) % task.interval = 0

\* Otherwise the frame is a keyframe.
IsUpdate ==
  /\ task.compress /\ Upcoming > 1
  /\ task.topology[Upcoming] = task.topology[Upcoming - 1]
  /\ ~Starts(Upcoming)
  /\ task.most > 0 => pack.window < task.most

Whole(i) == [mode |-> "whole", key |-> i, topology |-> task.topology[i], payload |-> "none"]
Moved(i) == [mode |-> "moved", key |-> pack.key, topology |-> task.topology[i], payload |-> "points"]

\* Not the code: every mesh is encoded again.
FinishedAll ==
  IF pack.key = 0 THEN pack.packets ELSE [pack.packets EXCEPT ![pack.key].payload = "small"]

\* finish_active_keyframe(): a mesh that nothing refers to is encoded again, smaller
\* and in an order of its own.
Finished ==
  IF pack.key = 0 \/ pack.updates THEN pack.packets
  ELSE [pack.packets EXCEPT ![pack.key].payload = "small"]

PrepareKeyframe ==
  /\ pack.at = "prepare" /\ Upcoming <= N /\ ~IsUpdate
  /\ pack' = [pack EXCEPT !.packets = Append(Finished, Whole(Upcoming)), !.key = Upcoming,
                          !.updates = FALSE, !.window = 1]
  /\ UNCHANGED <<task, packaged>>

\* The first update of a window takes the mesh from its .drc file and checks that
\* the order of its points is that of the source.
PrepareUpdate ==
  /\ pack.at = "prepare" /\ Upcoming <= N /\ IsUpdate
  /\ pack.updates \/ task.ordered
  /\ pack' = [pack EXCEPT
       !.packets = Append([pack.packets EXCEPT ![pack.key].payload = IF pack.updates THEN @ ELSE "ordered"],
                          Moved(Upcoming)),
       !.updates = TRUE, !.window = @ + 1]
  /\ UNCHANGED <<task, packaged>>

Prepared ==
  /\ pack.at = "prepare" /\ Upcoming > N
  /\ pack' = [pack EXCEPT !.at = "mux", !.packets = Finished]
  /\ UNCHANGED <<task, packaged>>

-----------------------------------------------------------------------------
(* The file.  Every failure removes the temporary one.                     *)

\* pack_openvolumetric() refuses to overwrite, and removes what a call that was
\* killed has left.
Begin(t) ==
  /\ pack.at \in {"idle", "failed", "done"} /\ task' = t /\ UNCHANGED packaged
  /\ pack' = [Idle EXCEPT !.at = IF packaged = NoFile THEN "prepare" ELSE "failed"]

Fail ==
  /\ pack.at \in {"prepare", "mux", "tag", "layout", "verify"}
  /\ pack' = [Idle EXCEPT !.at = "failed"] /\ UNCHANGED <<task, packaged>>

\* mux_file(): what is written may not be what was meant.
Mux ==
  /\ pack.at = "mux"
  /\ \E intact \in BOOLEAN :
       pack' = [pack EXCEPT !.at = "tag",
                            !.temporary = [samples |-> pack.packets, keys |-> task.keys,
                                           tagged |-> FALSE, intact |-> intact]]
  /\ UNCHANGED <<task, packaged>>

\* replace_geometry_sample_entry()
Tag ==
  /\ pack.at = "tag"
  /\ pack' = [pack EXCEPT !.at = "layout", !.temporary.tagged = TRUE] /\ UNCHANGED <<task, packaged>>

\* verify_mp4_layout(): a fragment at every entry of the video, as many as expected.
Fragments(t) == {i \in Frames : t.interval > 0 /\ (i - 1) % t.interval = 0}

Layout ==
  /\ pack.at = "layout"
  /\ task.interval > 0 => Cardinality(pack.temporary.keys) = Cardinality(Fragments(task))
  /\ pack' = [pack EXCEPT !.at = "verify"] /\ UNCHANGED <<task, packaged>>

\* verify_file(): every sample and its time as prepared; fragments are entered by
\* the video and by a whole mesh.
Aligned(file, t) ==
  \A i \in Fragments(t) : i \in file.keys /\ file.samples[i].mode = "whole"

Verify ==
  /\ pack.at = "verify" /\ pack.temporary.intact /\ Aligned(pack.temporary, task)
  /\ pack' = [pack EXCEPT !.at = "rename"] /\ UNCHANGED <<task, packaged>>

Rename ==
  /\ pack.at = "rename" /\ packaged' = pack.temporary
  /\ pack' = [Idle EXCEPT !.at = "done"] /\ UNCHANGED task

PackSteps ==
  \/ PrepareKeyframe \/ PrepareUpdate \/ Prepared
  \/ Mux \/ Tag \/ Layout \/ Verify \/ Rename \/ Fail

-----------------------------------------------------------------------------
(* One call after another: what AuthoringJob's hosts do with the packer.    *)

\* The host takes the file away, or the call is abandoned with its process.
TakeAway == pack' \in {pack, Idle} /\ packaged' = NoFile /\ UNCHANGED task

PackInit == task \in Task /\ pack = Idle /\ packaged = NoFile
PackNext == PackSteps \/ TakeAway \/ (task' \in Task /\ Begin(task'))
PackSpec == PackInit /\ [][PackNext]_packVars

-----------------------------------------------------------------------------
(* Properties.                                                             *)

\* A frame that only moves points is decodable from the whole mesh it names: that one
\* is before it, of the same topology, in the order of the source, and neither the
\* start of a fragment nor more than the most frames lie between.
Decodable(packets, i) ==
  LET p == packets[i]
      k == p.key
  IN /\ k \in 1 .. i
     /\ packets[k].mode = "whole" /\ packets[k].topology = p.topology
     /\ p.mode = "moved" => packets[k].payload = "ordered"
     /\ p.mode = "whole" => k = i
     /\ \A j \in k + 1 .. i : ~Starts(j)
     /\ task.most > 0 => i - k < task.most

UpdatesDecode == \A i \in DOMAIN pack.packets : Decodable(pack.packets, i)

\* What is at the output path was verified.
OutputIsVerified == packaged # NoFile => packaged.intact /\ packaged.tagged
=============================================================================
